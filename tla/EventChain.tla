------------------------------ MODULE EventChain ------------------------------
(***************************************************************************)
(* The event chain of one rank (crates/r9v-sched/src/streams.rs): the host *)
(* side record of which stream signalled and waited for what in the        *)
(* current step, and the check that accepts a step.                        *)
(*                                                                         *)
(* The caller keeps the ids that record_* returned to it; `held` is what   *)
(* it has in hand, each id with the step that issued it.  A caller that    *)
(* waits on an id of an older step is the mistake validate_step_chain is   *)
(* there to catch.                                                         *)
(***************************************************************************)
EXTENDS Naturals, Sequences, FiniteSets

CONSTANTS
    MaxEvents,     \* MAX_EVENTS_PER_STEP
    EventLimit,    \* u64::MAX of event_counter
    Steps          \* step ids, positive integers

ASSUME ChainAssumption ==
    /\ MaxEvents \in Nat \ {0}
    /\ EventLimit \in Nat
    /\ Steps \subseteq Nat \ {0}

VARIABLES
    event_counter,
    current_step,  \* 0 is None
    records,       \* the first count entries of the fixed storage
    held           \* ids handed out so far: [id, step]

chainVars == <<event_counter, current_step, records, held>>

None == 0
StreamKinds == {"compute", "comms", "copy"}

ChainInit ==
    /\ event_counter = 0
    /\ current_step = None
    /\ records = <<>>
    /\ held = {}

BeginStep(step) ==
    /\ current_step' = step
    /\ records' = <<>>
    /\ UNCHANGED <<event_counter, held>>

\* begin_step and clear leave the counter alone.
ClearChain ==
    /\ current_step' = None
    /\ records' = <<>>
    /\ UNCHANGED <<event_counter, held>>

\* A refused entry (storage full, ids exhausted) changes nothing.
CanRecord == Len(records) < MaxEvents /\ event_counter < EventLimit

NextEvent == event_counter + 1

Entry(step, e, id) ==
    [step_id |-> step, stream |-> e.stream, kind |-> e.kind,
     event_id |-> id, awaited |-> e.awaited]

RecordEntry(step, e) ==
    /\ CanRecord
    /\ event_counter' = NextEvent
    /\ records' = Append(records, Entry(step, e, NextEvent))
    /\ held' = held \cup {[id |-> NextEvent, step |-> step]}
    /\ UNCHANGED current_step

NoWait == [id |-> 0, step |-> None]

UploadEvent == [stream |-> "copy", kind |-> "upload_complete", awaited |-> NoWait]
ComputeEvent == [stream |-> "compute", kind |-> "compute_complete", awaited |-> NoWait]
ReadbackEvent == [stream |-> "copy", kind |-> "readback_complete", awaited |-> NoWait]
CommsEvent(kind) == [stream |-> "comms", kind |-> kind, awaited |-> NoWait]
WaitKind == [compute |-> "wait_upload", copy |-> "wait_compute", comms |-> "wait_comms"]
WaitEvent(stream, h) == [stream |-> stream, kind |-> WaitKind[stream], awaited |-> h]

RecordUploadComplete(step) == RecordEntry(step, UploadEvent)
RecordComputeComplete(step) == RecordEntry(step, ComputeEvent)
RecordReadbackComplete(step) == RecordEntry(step, ReadbackEvent)
RecordCommsEvent(step, kind) == RecordEntry(step, CommsEvent(kind))
RecordWait(step, stream, h) == RecordEntry(step, WaitEvent(stream, h))

-------------------------------------------------------------------------------
\* What validate_step_chain asks of the five records, after the count.
IsEvent(r, stream, kind) == r.stream = stream /\ r.kind = kind

\* Mutant: a wait on any event up to the named one is good enough.
WaitsForEarlier(r, e) == r.awaited.id <= e.event_id

WaitsFor(r, e) == r.awaited.id = e.event_id

ValidChain(recs, step) ==
    /\ Len(recs) = 5
    /\ \A i \in 1..5 : recs[i].step_id = step
    /\ \A i \in 1..4 : recs[i].event_id < recs[i+1].event_id
    /\ IsEvent(recs[1], "copy", "upload_complete")
    /\ IsEvent(recs[2], "compute", "wait_upload") /\ WaitsFor(recs[2], recs[1])
    /\ IsEvent(recs[3], "compute", "compute_complete")
    /\ IsEvent(recs[4], "copy", "wait_compute") /\ WaitsFor(recs[4], recs[3])
    /\ IsEvent(recs[5], "copy", "readback_complete")

-------------------------------------------------------------------------------
\* The API under a caller that may record anything in any order and wait on any
\* id it was ever given, but records under the step it has begun: record_* take
\* any step id, and validate_step_chain compares them with the one it is given.
ChainNext ==
    \/ \E step \in Steps :
          /\ step > current_step
          /\ BeginStep(step)
    \/ current_step # None /\ ClearChain
    \/ /\ current_step # None
       /\ \/ RecordUploadComplete(current_step)
          \/ RecordComputeComplete(current_step)
          \/ RecordReadbackComplete(current_step)
          \/ RecordCommsEvent(current_step, "comms_complete")
          \/ \E stream \in StreamKinds, h \in held :
                RecordWait(current_step, stream, h)

ChainSpec == ChainInit /\ [][ChainNext]_chainVars

\* What the streams guarantee: a stream runs its own entries in order, and a
\* wait runs after the very event it names, which is an id of that step.
Follows(i, j) ==
    \/ records[i].stream = records[j].stream /\ i < j
    \/ records[j].awaited = [id |-> records[i].event_id, step |-> records[i].step_id]

\* Entry i runs before entry j: a path of such guarantees leads from i to j.
HappensBefore(i, j) ==
    \E n \in 2..Len(records) : \E path \in [1..n -> DOMAIN records] :
        /\ path[1] = i /\ path[n] = j
        /\ \A m \in 1..n-1 : Follows(path[m], path[m+1])

\* A chain that validate_step_chain accepts orders the device: the upload is
\* over before the graph completes and the graph before the readback, by stream
\* order and waits on events of this very step.  Waiting on an id of an older
\* step, or on the wrong event, is never accepted.
ValidChainOrders ==
    \A step \in Steps :
        ValidChain(records, step) =>
            /\ HappensBefore(1, 3)
            /\ HappensBefore(3, 5)
            /\ step = current_step
=============================================================================
