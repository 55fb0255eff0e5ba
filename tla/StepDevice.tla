------------------------------ MODULE StepDevice ------------------------------
(***************************************************************************)
(* The device phase of Scheduler::step, from begin_step to the schedule    *)
(* record: the event chain, the cache of captured step graphs              *)
(* (crates/r9v-sched/src/graph.rs), the workspace arena they are bound to  *)
(* (arena.rs) and the ring of schedule records (log.rs).                   *)
(*                                                                         *)
(* A program is a sequence of operations; what an operation becomes for a  *)
(* graph key (skipped, unresolvable, how much workspace) is data of the    *)
(* operation, since resolvers and registry are pure.  The executor's three *)
(* calls may fail; a failed step burns its id and leaves cache and arena   *)
(* as they are.                                                            *)
(***************************************************************************)
EXTENDS EventChain, SequencesExt

CONSTANTS
    Keys,          \* step graph keys
    WarmKeys,      \* the keys captured by eager_capture_warm_buckets
    Programs,      \* the step programs to check
    Capacities,    \* initial arena capacities
    Align,         \* WORKSPACE_ALIGNMENT
    WordMax,       \* u64::MAX of byte offsets
    SliceSizes,    \* sizes passed to allocate_slice
    LogCapacity,   \* SCHEDULE_LOG_CAPACITY
    NoGraph, NoRecord

\* An operation of a program, as the resolvers and the registry answer for it.
Operations ==
    [keys : SUBSET Keys, resolves : BOOLEAN, has_args : BOOLEAN, sample : BOOLEAN,
     workspace : [Keys -> Nat], has_slot : BOOLEAN, slot : Nat, blob : Nat]

ASSUME DeviceAssumption ==
    /\ WarmKeys \subseteq Keys
    /\ Programs \subseteq Seq(Operations)
    /\ Capacities \cup SliceSizes \subseteq Nat
    /\ Align \in Nat \ {0} /\ LogCapacity \in Nat \ {0} /\ WordMax \in Nat

VARIABLES
    program,
    arena,         \* WorkspaceArena: [capacity, allocated, peak, generation]
    graphs,        \* Keys -> captured graph or NoGraph
    arena_generation,
    log,           \* ScheduleLogRing: [buffer, write_idx, total]
    dpc,           \* place in the device phase
    key,           \* graph key of the step under way
    step_counter,
    slices,        \* history: slices handed out since the last reset
    completed      \* history: steps that reached their record

arenaVars == <<arena, slices>>
cacheVars == <<graphs, arena_generation>>
deviceVars == <<chainVars, program, arenaVars, cacheVars, log, dpc, key, step_counter, completed>>

AlignUp(x) == ((x + Align - 1) \div Align) * Align

-------------------------------------------------------------------------------
\* StepGraphBuilder::capture for one key and the arena's capacity.

\* The operations that exist for the key, in program order.
Launched(k) ==
    LET upto[i \in 0..Len(program)] ==
            IF i = 0 THEN <<>>
            ELSE IF k \in program[i].keys THEN Append(upto[i-1], program[i])
            ELSE upto[i-1]
    IN  upto[Len(program)]

\* Per launch: is the binding of its workspace acceptable?
BindingOK(op, k) ==
    op.workspace[k] > 0 =>
        /\ op.has_slot
        /\ op.slot % 8 = 0
        /\ op.slot + 8 <= op.blob

\* The slice of launch i is [start, end); a launch without workspace keeps the
\* running end and records offset 0.
Offsets(k) ==
    LET ops == Launched(k)
        at[i \in 0..Len(ops)] ==
            IF i = 0 THEN [start |-> 0, end |-> 0]
            ELSE LET w == ops[i].workspace[k]
                     s == AlignUp(at[i-1].end)
                 IN  IF w = 0 THEN [start |-> 0, end |-> at[i-1].end]
                     ELSE [start |-> s, end |-> s + w]
    IN  at

Required(k) == Offsets(k)[Len(Launched(k))].end

SliceOf(k, i) == Offsets(k)[i].start..(Offsets(k)[i].start + Launched(k)[i].workspace[k] - 1)

SlicesOverlap(k) ==
    \E i, j \in DOMAIN Launched(k) : i < j /\ SliceOf(k, i) \cap SliceOf(k, j) # {}

\* Every reason to refuse a capture but the arena's size.
CaptureFails(k) ==
    LET ops == Launched(k) IN
    \/ \A i \in DOMAIN program : ~program[i].sample
    \/ ops = <<>>
    \/ \E i \in DOMAIN ops :
          ~ops[i].resolves \/ ~ops[i].has_args \/ ~BindingOK(ops[i], k)
    \/ \E i \in DOMAIN ops : Offsets(k)[i].end > WordMax
    \/ SlicesOverlap(k)

CaptureResult(k, capacity) ==
    IF CaptureFails(k) THEN "failed"
    ELSE IF Required(k) > capacity THEN "arena_overflow"
    ELSE "ok"

\* A captured graph; `generation` is history, the arena it was bound to.
Graph(k, generation) ==
    [required |-> Required(k),
     offsets |-> [i \in DOMAIN Launched(k) |-> Offsets(k)[i].start],
     generation |-> generation]

-------------------------------------------------------------------------------
\* WorkspaceArena

NewArena(capacity) == [capacity |-> capacity, allocated |-> 0, peak |-> 0, generation |-> 1]

\* allocate_slice; a slice that does not fit is refused and changes nothing.
AllocateSlice(size) ==
    LET offset == AlignUp(arena.allocated)
        new == offset + size
    IN  /\ new <= WordMax /\ new <= arena.capacity
        /\ arena' = [arena EXCEPT !.allocated = new,
                                  !.peak = IF new > @ THEN new ELSE @]
        /\ slices' = Append(slices, [start |-> offset, end |-> new])

ResetArena ==
    /\ arena' = [arena EXCEPT !.allocated = 0]
    /\ slices' = <<>>

GrowFails(capacity) == capacity > arena.capacity /\ capacity + Align - 1 > WordMax

Grown(capacity) ==
    IF capacity <= arena.capacity THEN arena
    ELSE [arena EXCEPT !.capacity = AlignUp(capacity), !.generation = @ + 1]

-------------------------------------------------------------------------------
\* GraphCache::get_or_capture.  Only growth touches the graphs of other keys.

Cached(k) == graphs[k] # NoGraph

\* Mutant: growth recaptures only the key that asked for it.
RecapturedKeysNewOnly(k) == {k}

\* After a growth every graph of the cache is captured again, and then k.
RecapturedKeys(k) == {j \in Keys : Cached(j)} \cup {k}

GetOrCaptureResult(k) ==
    LET first == CaptureResult(k, arena.capacity)
    IN  IF Cached(k) THEN "cached"
        ELSE IF first # "arena_overflow" THEN first
        ELSE IF GrowFails(Required(k)) THEN "failed"
        ELSE IF \E j \in RecapturedKeys(k) :
                    CaptureResult(j, Grown(Required(k)).capacity) # "ok"
             THEN "recapture_failed"
        ELSE "grown"

\* The arena is grown before any recapture, so a failed recapture would leave a
\* grown arena behind (CaptureIsRepeatable below: this never happens).
GetOrCapture(k) ==
    LET result == GetOrCaptureResult(k) IN
    /\ result # "failed"
    /\ arena' = IF result \in {"grown", "recapture_failed"} THEN Grown(Required(k)) ELSE arena
    /\ graphs' = IF result = "ok" THEN [graphs EXCEPT ![k] = Graph(k, arena.generation)]
                 ELSE IF result = "grown"
                 THEN [j \in Keys |-> IF j \in RecapturedKeys(k)
                                      THEN Graph(j, arena'.generation) ELSE graphs[j]]
                 ELSE graphs
    /\ arena_generation' = IF result = "grown" THEN arena'.generation ELSE arena_generation
    /\ slices' = slices

-------------------------------------------------------------------------------
\* ScheduleLogRing

NewRing == [buffer |-> [i \in 0..LogCapacity-1 |-> NoRecord], write_idx |-> 0, total |-> 0]

Push(ring, record) ==
    [buffer |-> [ring.buffer EXCEPT ![ring.write_idx] = record],
     write_idx |-> (ring.write_idx + 1) % LogCapacity,
     total |-> ring.total + 1]

RingLen(ring) == IF ring.total < LogCapacity THEN ring.total ELSE LogCapacity

ToVec(ring) ==
    IF ring.total < LogCapacity
    THEN [i \in 1..ring.total |-> ring.buffer[i-1]]
    ELSE [i \in 1..LogCapacity |-> ring.buffer[(ring.write_idx + i - 1) % LogCapacity]]

-------------------------------------------------------------------------------
\* Scheduler::new captures the warm buckets or fails.
DeviceInit ==
    /\ ChainInit
    /\ program \in Programs
    /\ arena \in {NewArena(c) : c \in Capacities}
    /\ \A k \in WarmKeys : CaptureResult(k, arena.capacity) = "ok"
    /\ graphs = [k \in Keys |-> IF k \in WarmKeys THEN Graph(k, arena.generation) ELSE NoGraph]
    /\ arena_generation = arena.generation
    /\ log = NewRing
    /\ dpc = "idle" /\ step_counter = 0
    /\ key = CHOOSE k \in Keys : TRUE   \* set when a step begins
    /\ slices = <<>> /\ completed = <<>>

BeginDevice(k) ==
    /\ dpc = "idle" /\ step_counter + 1 \in Steps
    /\ step_counter' = step_counter + 1
    /\ ResetArena
    /\ BeginStep(step_counter')
    /\ key' = k
    /\ dpc' = "upload"
    /\ UNCHANGED <<program, cacheVars, log, completed>>

\* upload_inputs succeeds: UploadComplete, and the compute stream's wait on it.
Uploaded ==
    /\ dpc = "upload"
    /\ RecordUploadComplete(step_counter)
    /\ dpc' = "wait_upload"
    /\ UNCHANGED <<program, arenaVars, cacheVars, log, key, step_counter, completed>>

\* The id a record_* call just returned.
LastId == [id |-> event_counter, step |-> step_counter]

ComputeWaits ==
    /\ dpc = "wait_upload"
    /\ RecordWait(step_counter, "compute", LastId)
    /\ dpc' = "replay"
    /\ UNCHANGED <<program, arenaVars, cacheVars, log, key, step_counter, completed>>

\* get_or_capture, then replay_graph succeeds or fails.
CaptureAndReplay ==
    /\ dpc = "replay"
    /\ GetOrCapture(key)
    /\ dpc' \in IF GetOrCaptureResult(key) = "recapture_failed" THEN {"failed"}
                ELSE {"replayed", "failed"}
    /\ UNCHANGED <<chainVars, program, log, key, step_counter, completed>>

ComputeDone ==
    /\ dpc = "replayed"
    /\ RecordComputeComplete(step_counter)
    /\ dpc' = "wait_compute"
    /\ UNCHANGED <<program, arenaVars, cacheVars, log, key, step_counter, completed>>

CopyWaits ==
    /\ dpc = "wait_compute"
    /\ RecordWait(step_counter, "copy", LastId)
    /\ dpc' = "readback"
    /\ UNCHANGED <<program, arenaVars, cacheVars, log, key, step_counter, completed>>

\* readback_sample succeeds, and the chain is validated.
ReadBack ==
    /\ dpc = "readback"
    /\ RecordReadbackComplete(step_counter)
    /\ dpc' = IF ValidChain(records', step_counter) THEN "post" ELSE "failed"
    /\ UNCHANGED <<program, arenaVars, cacheVars, log, key, step_counter, completed>>

\* An executor call fails, a capture fails, or the chain refuses an entry.
DeviceFails ==
    /\ \/ dpc \in {"upload", "readback"}
       \/ dpc = "replay" /\ GetOrCaptureResult(key) = "failed"
       \/ dpc \in {"upload", "wait_upload", "replayed", "wait_compute", "readback"} /\ ~CanRecord
    /\ dpc' = "failed"
    /\ UNCHANGED <<chainVars, program, arenaVars, cacheVars, log, key, step_counter, completed>>

StepFailed ==
    /\ dpc = "failed"
    /\ dpc' = "idle"
    /\ UNCHANGED <<chainVars, program, arenaVars, cacheVars, log, key, step_counter, completed>>

PushRecord ==
    /\ dpc = "post"
    /\ log' = Push(log, step_counter)
    /\ completed' = Append(completed, step_counter)
    /\ dpc' = "idle"
    /\ UNCHANGED <<chainVars, program, arenaVars, cacheVars, key, step_counter>>

ClearLog ==
    /\ dpc = "idle" /\ log.total = LogCapacity
    /\ log' = NewRing
    /\ completed' = <<>>
    /\ UNCHANGED <<chainVars, program, arenaVars, cacheVars, dpc, key, step_counter>>

\* A user of the arena between two steps.
TakeSlice ==
    /\ dpc = "idle" /\ Len(slices) < 2
    /\ \E size \in SliceSizes : AllocateSlice(size)
    /\ UNCHANGED <<chainVars, program, cacheVars, log, dpc, key, step_counter, completed>>

DeviceNext ==
    \/ \E k \in Keys : BeginDevice(k)
    \/ Uploaded \/ ComputeWaits \/ CaptureAndReplay \/ ComputeDone \/ CopyWaits \/ ReadBack
    \/ DeviceFails \/ StepFailed \/ PushRecord \/ TakeSlice \/ ClearLog

DeviceSpec == DeviceInit /\ [][DeviceNext]_deviceVars

-------------------------------------------------------------------------------
\* Every captured graph was bound to the arena as it is now: growing the arena
\* (the only runtime allocation) leaves no graph of an older generation behind,
\* and the cache's generation is the arena's.
GraphsOfOneGeneration ==
    /\ arena_generation = arena.generation
    /\ \A k \in Keys : Cached(k) => graphs[k].generation = arena.generation

\* The workspaces of the launches of one graph are aligned, disjoint and inside
\* the arena, although each was bound when the arena may have been smaller.
WorkspaceBound ==
    \A k \in Keys : Cached(k) =>
        /\ graphs[k].required <= arena.capacity
        /\ \A i, j \in DOMAIN graphs[k].offsets :
              LET wi == Launched(k)[i].workspace[k]
                  wj == Launched(k)[j].workspace[k]
                  oi == graphs[k].offsets[i]
                  oj == graphs[k].offsets[j]
              IN  /\ oi % Align = 0 /\ oi + wi <= graphs[k].required
                  /\ i < j /\ wi > 0 /\ wj > 0 => oi + wi <= oj

\* The checks in capture and get_or_capture that a pure program can never trip:
\* overlapping slices, and a recapture that fails after the arena has grown.
CaptureIsRepeatable ==
    \A k \in Keys :
        /\ ~SlicesOverlap(k)
        /\ GetOrCaptureResult(k) # "recapture_failed"

\* Slices handed out by allocate_slice since the last reset are aligned,
\* disjoint, inside the capacity, and the peak has seen them all.
SlicesDisjoint ==
    \A i \in DOMAIN slices :
        /\ slices[i].start % Align = 0
        /\ slices[i].end <= arena.allocated
        /\ arena.allocated <= arena.peak /\ arena.peak <= arena.capacity
        /\ \A j \in 1..i-1 : slices[j].end <= slices[i].start

\* The event chain is neither too lax nor too strict.  What validation accepts
\* orders the streams by events of its own step; and a step whose executor calls
\* all succeed is never rejected by its own chain, whatever failed before it:
\* nothing of a failed step is left in it.
ChainExact ==
    [][/\ ValidChainOrders'
       /\ dpc = "readback" /\ records' # records => dpc' = "post"]_deviceVars

\* Reading the ring gives the most recent completed steps, oldest first,
\* whether or not it has wrapped and however many steps failed in between.
LogIsRecentSteps ==
    LET n == Len(completed) IN
    /\ log.total = n
    /\ ToVec(log) = SubSeq(completed, n - RingLen(log) + 1, n)

\* Growth in the middle of a step leaves nothing bound to the old arena: every
\* graph is of its generation, launch workspaces and slices are aligned, inside
\* it and disjoint, and capturing again gives the same offsets; the record ring
\* read after it wrapped is the most recent steps in order.
DeviceSound ==
    /\ GraphsOfOneGeneration /\ WorkspaceBound /\ CaptureIsRepeatable
    /\ SlicesDisjoint /\ LogIsRecentSteps

=============================================================================
