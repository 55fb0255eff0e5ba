------------------------------ MODULE Scheduler ------------------------------
(***************************************************************************)
(* The step scheduler of crates/r9v-sched (S = 1, k = 0) on top of the     *)
(* state manager it owns. One call of Scheduler::step runs through the     *)
(* values of pc:                                                           *)
(*                                                                         *)
(*   idle -> reserved -> device -> post -> (finish ->) log -> idle         *)
(*                                                                         *)
(* with fail_step as the way back to idle from reserved, device and post.  *)
(* Every other operation takes &mut Scheduler, so it runs only at idle.    *)
(*                                                                         *)
(* Sequences of the manager that the scheduler does not know (created      *)
(* through state_manager_mut) belong to an outside holder of blocks.       *)
(***************************************************************************)
EXTENDS StateManager, SequencesExt

CONSTANTS
    Requests,       \* records [prompt, max_tokens] a client may enqueue
    MaxOutstanding, \* max_outstanding
    BucketSizes,    \* BUCKET_SIZES
    MinChunk,       \* prefill_min_chunk
    MaxChunk,       \* prefill_max_chunk
    BudgetMs,       \* resolved step budget, the wait one stalled step adds
    MaxWaitMs,      \* max_wait_ms
    MaxFaults,      \* bound: failed steps in a behaviour
    Outsiders       \* bound: sequences an outside holder may create

\* SchedulerConfig::validate and Request::new.
ASSUME SchedulerAssumption ==
    /\ \A r \in Requests : r.prompt \in Nat \ {0} /\ r.max_tokens \in Nat \ {0}
    /\ MinChunk \in Nat \ {0} /\ MaxChunk \in Nat /\ MaxChunk >= MinChunk
    /\ MaxOutstanding \in Nat \ {0}
    /\ BucketSizes \subseteq Nat \ {0}
    /\ BudgetMs \in Nat \ {0} /\ MaxWaitMs \in Nat
    /\ MaxFaults \in Nat /\ Outsiders \in Nat

NoSeq  == -1    \* None in active, paused, pending_pause_report
NoStep == 0     \* no StepId yet: step_counter starts at 0, StepIds at 1

VARIABLES
    pc,             \* where the running call of step is
    sq,             \* sq[s]: the Sequence record of s
    queued,         \* VecDeque of queued sequences
    active,         \* the sequence being stepped
    paused,         \* the decode waiting for blocks
    pending_pause_report,
    finished,       \* keys of the finished map
    step_counter,
    arrival_counter,
    in_flight,      \* [step, seq, n] of the open device step
    last_committed, \* last_committed_step
    record,         \* the newest ScheduleRecord
    fits,           \* chunk sizes the cost table admits in the prefill room
    faults,         \* failed steps so far
    outside         \* sequences the outside holder created so far

schedVars == <<pc, sq, queued, active, paused, pending_pause_report, finished,
               step_counter, arrival_counter, in_flight, last_committed, record,
               fits, faults, outside>>
allVars   == <<vars, schedVars>>

NoFlight  == [step |-> NoStep, seq |-> NoSeq, n |-> 0]
NoRecord  == [step |-> NoStep, paused |-> NoSeq]
NoRequest == [prompt |-> 0, max_tokens |-> 0]
Absent    == [phase |-> "Absent", done |-> 0, ctx_len |-> 0, generated |-> 0,
              wait |-> 0, arrival |-> 0, reason |-> "None", req |-> NoRequest]

SchedInit ==
    /\ Init
    /\ pc = "idle"
    /\ sq = [s \in SeqIds |-> Absent]
    /\ queued = <<>>
    /\ active = NoSeq
    /\ paused = NoSeq
    /\ pending_pause_report = NoSeq
    /\ finished = {}
    /\ step_counter = 0
    /\ arrival_counter = 0
    /\ in_flight = NoFlight
    /\ last_committed = NoStep
    /\ record = NoRecord
    /\ fits \in SUBSET (BucketSizes \cup {MinChunk})
    /\ faults = 0
    /\ outside = 0

-----------------------------------------------------------------------------
(* Requests                                                                *)

OutstandingCount ==
    Cardinality(finished) + Len(queued)
        + Cardinality({active, paused} \ {NoSeq})

EnqueueRequest(req) ==
    /\ pc = "idle"
    /\ OutstandingCount < MaxOutstanding
    /\ NewSeq(req.prompt)
    /\ arrival_counter' = arrival_counter + 1
    /\ sq' = [sq EXCEPT ![next_seq] =
                [Absent EXCEPT !.phase = "Queued", !.req = req,
                               !.arrival = arrival_counter + 1]]
    /\ queued' = Append(queued, next_seq)
    /\ UNCHANGED <<pc, active, paused, pending_pause_report, finished, step_counter,
                   in_flight, last_committed, record, fits, faults, outside>>

\* The result of s is kept in the finished map until take_finished_result.
Finish(s, reason) ==
    /\ FreeSeq(s)
    /\ sq' = [sq EXCEPT ![s].phase = "Finished", ![s].reason = reason]
    /\ finished' = finished \cup {s}

\* try_unpause_sequences with the active slot just emptied.
TryUnpause ==
    /\ active' = paused
    /\ paused' = NoSeq

CancelActive(s) ==
    /\ active = s
    /\ Finish(s, "Cancelled")
    /\ TryUnpause
    /\ UNCHANGED <<queued, pending_pause_report>>

CancelQueued(s) ==
    /\ Finish(s, "Cancelled")
    /\ \E pos \in 1 .. Len(queued) :
        /\ queued[pos] = s /\ \A i \in 1 .. pos - 1 : queued[i] # s
        /\ queued' = RemoveAt(queued, pos)
    /\ UNCHANGED <<active, paused, pending_pause_report>>

CancelPaused(s) ==
    /\ paused = s
    /\ Finish(s, "Cancelled")
    /\ paused' = NoSeq
    /\ pending_pause_report' =
            IF pending_pause_report = s THEN NoSeq ELSE pending_pause_report
    /\ UNCHANGED <<queued, active>>

\* cancel_sequence; cancel_request finds the sequence id and calls it.
CancelSequence(s) ==
    /\ pc = "idle"
    /\ CancelActive(s) \/ CancelQueued(s) \/ CancelPaused(s)
    /\ UNCHANGED <<pc, step_counter, arrival_counter, in_flight, last_committed,
                   record, fits, faults, outside>>

TakeFinishedResult(s) ==
    /\ pc = "idle"
    /\ s \in finished
    /\ finished' = finished \ {s}
    /\ UNCHANGED <<vars, pc, sq, queued, active, paused, pending_pause_report,
                   step_counter, arrival_counter, in_flight, last_committed, record,
                   fits, faults, outside>>

\* abort_open_reservation: a zero commit of whatever tail is open.
AbortOpenReservation(s) ==
    /\ pc = "idle"
    /\ tail_len[s] # 0
    /\ Commit(s, 0)
    /\ in_flight' = NoFlight
    /\ UNCHANGED <<pc, sq, queued, active, paused, pending_pause_report, finished,
                   step_counter, arrival_counter, last_committed, record, fits,
                   faults, outside>>

-----------------------------------------------------------------------------
(* step, first part: promotion, admission and reserve.                     *)

IsIdle == active = NoSeq /\ paused = NoSeq /\ queued = <<>>

\* Mutant: queued work goes before a paused decode.
CandidateQueueFirst ==
    IF active # NoSeq THEN active ELSE IF queued # <<>> THEN Head(queued) ELSE paused

\* The sequence this call steps: the active one, else the paused one, else the
\* head of the queue.
Candidate ==
    IF active # NoSeq THEN active ELSE IF paused # NoSeq THEN paused ELSE Head(queued)

\* Its record after promotion.
PromotedRecord ==
    IF sq[Candidate].phase = "Queued"
    THEN [sq[Candidate] EXCEPT !.phase = "Prefilling"]
    ELSE sq[Candidate]

\* select_prefill_chunk: the largest bucket in range that fits the room, 0 if
\* there is none. A remainder below the minimum goes whole if the minimum fits.
SelectPrefillChunk(remaining) ==
    LET usable == {b \in BucketSizes \cap fits : MinChunk <= b /\ b <= MaxChunk
                                                 /\ b <= remaining}
    IN  IF remaining < MinChunk
        THEN IF MinChunk \in fits THEN remaining ELSE 0
        ELSE IF usable = {} THEN 0 ELSE Max(usable)

WaitSpent(q) == q.wait + BudgetMs >= MaxWaitMs

\* plan_admission: a decode, a prefill chunk (forced or not), or a wait.
Plan(q) ==
    LET remaining == q.req.prompt - q.done
        chunk     == SelectPrefillChunk(remaining)
    IN  IF q.phase = "Decoding" THEN [kind |-> "Decode", n |-> 1, forced |-> FALSE]
        ELSE IF q.phase = "Prefilling" /\ chunk # 0
        THEN [kind |-> "Prefill", n |-> chunk, forced |-> FALSE]
        ELSE IF q.phase = "Prefilling" /\ WaitSpent(q)
        THEN [kind |-> "Prefill", n |-> Min({remaining, MinChunk}), forced |-> TRUE]
        ELSE [kind |-> "Wait", n |-> 0, forced |-> FALSE]

\* Mutant: the wait is not accumulated.
WaitedForgets(q) == q

\* accumulated_wait_ms after one more budget; only its comparison with
\* max_wait_ms is ever used, so it saturates there.
Waited(q) == [q EXCEPT !.wait = Min({@ + BudgetMs, MaxWaitMs})]

\* The record that reaches reserve: a forced admission counts as a wait too.
Admitted(q) == IF Plan(q).forced THEN Waited(q) ELSE q

\* The candidate is the active sequence from here on, with record q.
Activate(q) ==
    /\ active' = Candidate
    /\ paused' = IF Candidate = paused THEN NoSeq ELSE paused
    /\ queued' = IF Candidate \in ToSet(queued) THEN Tail(queued) ELSE queued
    /\ sq' = [sq EXCEPT ![Candidate] = q]

StepCalled(kinds) ==
    /\ pc = "idle"
    /\ ~IsIdle
    /\ Plan(PromotedRecord).kind \in kinds

ReserveAnswer == ReserveResult(Candidate, Plan(PromotedRecord).n)

stepBegins == <<pending_pause_report, finished, step_counter, arrival_counter,
                in_flight, last_committed, record, fits, faults, outside>>

StepWait ==
    /\ StepCalled({"Wait"})
    /\ Activate(Waited(PromotedRecord))
    /\ UNCHANGED <<vars, pc, stepBegins>>

StepReserve ==
    /\ StepCalled({"Decode", "Prefill"})
    /\ Reserve(Candidate, Plan(PromotedRecord).n)
    /\ Activate(Admitted(PromotedRecord))
    /\ pc' = "reserved"
    /\ UNCHANGED stepBegins

\* A decode that finds no block is paused and will be reported.
StepPause ==
    /\ StepCalled({"Decode"})
    /\ ReserveAnswer = "PoolExhausted"
    /\ paused' = Candidate
    /\ active' = NoSeq
    /\ pending_pause_report' = Candidate
    /\ UNCHANGED <<vars, pc, sq, queued, finished, step_counter, arrival_counter,
                   in_flight, last_committed, record, fits, faults, outside>>

\* A prefill chunk that finds no block waits.
StepPrefillBlocked ==
    /\ StepCalled({"Prefill"})
    /\ ReserveAnswer = "PoolExhausted"
    /\ Activate(Waited(Admitted(PromotedRecord)))
    /\ UNCHANGED <<vars, pc, stepBegins>>

\* Any other refusal is returned to the caller, the sequence stays active.
StepRefused ==
    /\ StepCalled({"Decode", "Prefill"})
    /\ ReserveAnswer \notin {"Ok", "PoolExhausted"}
    /\ Activate(Admitted(PromotedRecord))
    /\ UNCHANGED <<vars, pc, stepBegins>>

-----------------------------------------------------------------------------
(* step, device phase and failures.                                        *)

failVars == <<queued, paused, pending_pause_report, finished, step_counter,
              arrival_counter, last_committed, record, fits, outside>>

\* Mutants: the error is returned bare, which drops the sequence taken out of the
\* active slot, or leaves its reservation open.
FailStepDropsSequence(q) ==
    /\ active' = NoSeq
    /\ sq' = [sq EXCEPT ![active] = q]
    /\ Commit(active, 0)
    /\ in_flight' = NoFlight
    /\ pc' = "idle"
    /\ UNCHANGED failVars

\* fail_step: sequence record q goes back to the active slot, the open tail is
\* zero-committed, the StepId is burned.
FailStep(q) ==
    /\ active' = active
    /\ sq' = [sq EXCEPT ![active] = q]
    /\ Commit(active, 0)
    /\ in_flight' = NoFlight
    /\ pc' = "idle"
    /\ UNCHANGED failVars

\* Mutant: the StepId is used but not counted.
AssignStepUncounted ==
    /\ pc = "reserved"
    /\ in_flight' = [step |-> step_counter + 1, seq |-> active, n |-> tail_len[active]]
    /\ pc' = "device"
    /\ UNCHANGED <<vars, sq, queued, active, paused, pending_pause_report, finished,
                   step_counter, arrival_counter, last_committed, record, fits,
                   faults, outside>>

\* fill_batch_meta succeeded: the StepId is assigned and the device phase owns
\* the reservation.
AssignStep ==
    /\ pc = "reserved"
    /\ step_counter' = step_counter + 1
    /\ in_flight' = [step |-> step_counter + 1, seq |-> active, n |-> tail_len[active]]
    /\ pc' = "device"
    /\ UNCHANGED <<vars, sq, queued, active, paused, pending_pause_report, finished,
                   arrival_counter, last_committed, record, fits, faults, outside>>

\* Upload, capture, replay and readback, a readback that echoes the candidate
\* StepId and the accept_len this kind of step must report.
DeviceCompletes ==
    /\ pc = "device"
    /\ pc' = "post"
    /\ UNCHANGED <<vars, sq, queued, active, paused, pending_pause_report, finished,
                   step_counter, arrival_counter, in_flight, last_committed, record,
                   fits, faults, outside>>

\* fill_batch_meta refuses; a device call fails, the readback is stale or breaks
\* the accept contract.
StepFails ==
    /\ pc \in {"reserved", "device"}
    /\ faults < MaxFaults
    /\ faults' = faults + 1
    /\ FailStep(sq[active])

-----------------------------------------------------------------------------
(* step, post phase.                                                       *)

SamplesToken(q) ==
    q.phase = "Decoding" \/ q.done + in_flight.n >= q.req.prompt

FillsBudget(q) == q.generated + 1 >= q.req.max_tokens

\* append_generated_token: how many tokens are kept and why the sequence ends,
\* if it does. The last permitted token is MaxTokens whatever it is; a stop
\* string cuts back to any earlier token.
Appended(q) ==
    IF FillsBudget(q)
    THEN {[generated |-> q.generated + 1, reason |-> "MaxTokens"]}
    ELSE {[generated |-> q.generated + 1, reason |-> "None"],
          [generated |-> q.generated + 1, reason |-> "Eos"]}
         \cup {[generated |-> cut, reason |-> "StopString"] : cut \in 0 .. q.generated}

\* Mutant: the phase stays flipped.
TokenRejectedFlipped ==
    /\ pc = "post"
    /\ SamplesToken(sq[active])
    /\ faults < MaxFaults
    /\ faults' = faults + 1
    /\ FailStep([sq[active] EXCEPT !.phase = "Decoding"])

\* The detokenizer rejects the sampled token: the phase, flipped to Decoding on
\* the last prefill chunk, is restored and the step fails.
TokenRejected ==
    /\ pc = "post"
    /\ SamplesToken(sq[active])
    /\ faults < MaxFaults
    /\ faults' = faults + 1
    /\ FailStep(sq[active])

\* The record after a committed step that keeps `end`.
Advanced(q, end) ==
    [q EXCEPT !.phase = IF SamplesToken(q) THEN "Decoding" ELSE "Prefilling",
              !.done = IF q.phase = "Prefilling" /\ ~SamplesToken(q)
                       THEN @ + in_flight.n ELSE @,
              !.ctx_len = @ + in_flight.n,
              !.generated = end.generated,
              !.reason = end.reason]

Committed ==
    /\ last_committed' = in_flight.step
    /\ in_flight' = NoFlight
    /\ UNCHANGED <<queued, active, paused, pending_pause_report, finished, step_counter,
                   arrival_counter, record, fits, faults, outside>>

\* A decode or the last prefill chunk: append the token, then commit.
PostSampled(end) ==
    /\ pc = "post"
    /\ SamplesToken(sq[active])
    /\ end \in Appended(sq[active])
    /\ Commit(active, in_flight.n)
    /\ sq' = [sq EXCEPT ![active] = Advanced(@, end)]
    /\ pc' = IF end.reason = "None" THEN "log" ELSE "finish"
    /\ Committed

\* An intermediate prefill chunk commits its positions and samples nothing.
PostIntermediate ==
    /\ pc = "post"
    /\ ~SamplesToken(sq[active])
    /\ Commit(active, in_flight.n)
    /\ sq' = [sq EXCEPT ![active] = Advanced(@, [generated |-> 0, reason |-> "None"])]
    /\ pc' = "log"
    /\ Committed

FinishSequence ==
    /\ pc = "finish"
    /\ Finish(active, sq[active].reason)
    /\ TryUnpause
    /\ pc' = "log"
    /\ UNCHANGED <<queued, pending_pause_report, step_counter, arrival_counter,
                   in_flight, last_committed, record, fits, faults, outside>>

\* Mutant: the record reads the live paused slot, which the step has emptied.
AppendRecordLivePause ==
    /\ pc = "log"
    /\ record' = [step |-> last_committed, paused |-> paused]
    /\ pending_pause_report' = NoSeq
    /\ pc' = "idle"
    /\ UNCHANGED <<vars, sq, queued, active, paused, finished, step_counter,
                   arrival_counter, in_flight, last_committed, fits, faults, outside>>

\* The schedule record: it carries a pending pause report once.
AppendRecord ==
    /\ pc = "log"
    /\ record' = [step |-> last_committed, paused |-> pending_pause_report]
    /\ pending_pause_report' = NoSeq
    /\ pc' = "idle"
    /\ UNCHANGED <<vars, sq, queued, active, paused, finished, step_counter,
                   arrival_counter, in_flight, last_committed, fits, faults, outside>>

-----------------------------------------------------------------------------
(* An outside holder of blocks, through state_manager_mut.                 *)

OutsideSeqs == {s \in seqs : sq[s].phase = "Absent"}

OutsideNew ==
    /\ pc = "idle"
    /\ outside < Outsiders
    /\ NewSeq(0)
    /\ outside' = outside + 1
    /\ UNCHANGED <<pc, sq, queued, active, paused, finished, pending_pause_report,
                   step_counter, arrival_counter, in_flight, last_committed, record,
                   fits, faults>>

OutsideHold(s, n) ==
    /\ pc = "idle"
    /\ Reserve(s, n)
    /\ UNCHANGED schedVars

OutsideFree(s) ==
    /\ pc = "idle"
    /\ FreeSeq(s)
    /\ UNCHANGED schedVars

-----------------------------------------------------------------------------
(* Specification                                                           *)

Step ==
    \/ StepWait \/ StepReserve \/ StepPause \/ StepPrefillBlocked \/ StepRefused
    \/ AssignStep \/ DeviceCompletes \/ StepFails \/ TokenRejected
    \/ (pc = "post" /\ \E end \in Appended(sq[active]) : PostSampled(end))
    \/ PostIntermediate \/ FinishSequence \/ AppendRecord

SchedNext ==
    \/ Step
    \/ \E req \in Requests : EnqueueRequest(req)
    \/ \E s \in SeqIds : CancelSequence(s) \/ TakeFinishedResult(s)
    \/ \E s \in seqs : AbortOpenReservation(s)
    \/ OutsideNew
    \/ \E s \in OutsideSeqs : OutsideFree(s) \/ \E n \in 1 .. MaxCtx : OutsideHold(s, n)

SchedSpec == SchedInit /\ [][SchedNext]_allVars

\* The engine loop calls step for as long as there is work, each call returns,
\* and the outside holder gives its blocks back.
SchedFairness ==
    /\ WF_allVars(Step)
    /\ WF_allVars(\E s \in OutsideSeqs : OutsideFree(s))

FairSchedSpec == SchedSpec /\ SchedFairness

-----------------------------------------------------------------------------
(* Properties                                                              *)

Known == {s \in SeqIds : sq[s].phase # "Absent"}

\* No sequence is lost or kept twice, whatever step, failure or cancellation
\* moved it: a request that has not finished sits in exactly one of queue,
\* active slot and paused slot and is live in the manager; a finished one sits
\* in none of them and its state is freed (fail_step, cancel_sequence, the
\* finish path and try_unpause_sequences).
SequenceOwnership ==
    /\ \A i, j \in 1 .. Len(queued) : queued[i] = queued[j] => i = j
    /\ active = paused => active = NoSeq
    /\ {active, paused} \cap ToSet(queued) = {}
    /\ ToSet(queued) \cup ({active, paused} \ {NoSeq}) =
            {s \in Known : sq[s].phase # "Finished"}
    /\ {s \in Known : sq[s].phase # "Finished"} = Known \cap seqs
    /\ finished \subseteq {s \in Known : sq[s].phase = "Finished"}

\* The scheduler's bookkeeping agrees with the manager and with itself between
\* and during steps: Sequence.ctx_len is the manager's verified length; while
\* the prompt is ingested it is `done`, short of the prompt; a decoding sequence
\* has verified its prompt and every generated token but the newest one. A
\* failed step that skipped, repeated or half-applied a chunk or a token would
\* break it (the retry paths of fail_step and the phase restored on rejection).
ContextAgrees ==
    \A s \in Known \cap seqs :
        /\ sq[s].ctx_len = ctx_len[s]
        /\ sq[s].phase = "Queued" => ctx_len[s] = 0
        /\ sq[s].phase = "Prefilling" =>
              ctx_len[s] = sq[s].done /\ sq[s].done < sq[s].req.prompt
                  /\ sq[s].generated = 0
        /\ sq[s].phase = "Decoding" /\ sq[s].reason = "None" =>
              /\ ctx_len[s] = sq[s].req.prompt + sq[s].generated - 1
              /\ sq[s].generated \in 1 .. sq[s].req.max_tokens - 1

\* No reservation is stranded: outside a step no sequence of the scheduler has
\* an open tail, and during the device phase the one open tail is the one the
\* in-flight descriptor names.
ReservationOwned ==
    /\ \A s \in Known \cap seqs :
          tail_len[s] # 0 => s = active /\ pc \in {"reserved", "device", "post"}
    /\ pc \in {"device", "post"} =>
          in_flight = [step |-> step_counter, seq |-> active, n |-> tail_len[active]]
    /\ pc \in {"idle", "reserved", "finish", "log"} => in_flight = NoFlight

\* The token budget is exact: a sequence that ends for any other reason stays
\* below max_tokens, and MaxTokens ends it at max_tokens, never one past it.
TokenBudgetExact ==
    \A s \in Known : sq[s].phase = "Finished" =>
        IF sq[s].reason = "MaxTokens"
        THEN sq[s].generated = sq[s].req.max_tokens
        ELSE sq[s].generated < sq[s].req.max_tokens

\* Verified context grows only under a StepId of its own: a step that advances
\* a sequence commits a strictly larger StepId than every commit before it, so
\* no retry and no stale readback commits the same step twice.
CommitsOnce ==
    [][\A s \in Known \cap seqs \cap seqs' :
          ctx_len'[s] # ctx_len[s] =>
              /\ last_committed' > last_committed
              /\ ctx_len'[s] = ctx_len[s] + in_flight.n]_allVars

\* Memory pressure comes from outside: a decode is paused only while some other
\* sequence holds blocks, and queued requests never do, so without an outside
\* holder a running decode is never paused (spec-06 principle 2).
PauseNeedsOutsideHolder ==
    [][paused' # NoSeq /\ paused' # paused =>
          \E t \in OutsideSeqs : \E g \in PagedGroups : Held(t, g) # {}]_allVars

\* The scheduler serves requests first come, first served: a refinement of
\* FifoServer in which an active or paused sequence is the one being served.
Fifo == INSTANCE FifoServer WITH
            Ids <- SeqIds, Nobody <- NoSeq, Capacity <- MaxOutstanding,
            waiting <- queued,
            serving <- IF active # NoSeq THEN active ELSE paused,
            results <- finished

ImplementsFifo == Fifo!FifoSpec

\* Every accepted request finishes, through waits for room, forced admissions,
\* pauses and failed steps, when its prompt and tokens fit max_ctx.
EveryRequestFinishes ==
    \A s \in SeqIds : sq[s].phase = "Queued" ~> sq[s].phase = "Finished"

\* Every pause is reported: the sequence of a decode paused after record n is
\* named by a later record, across failed steps and repeated pauses, unless it
\* is cancelled first (the pending_pause_report slot outlives the promotion
\* that empties the paused slot).
PauseReachesRecord ==
    \A s \in SeqIds, n \in 0 .. MaxCtx + MaxFaults :
        paused = s /\ record.step = n
            ~> \/ record.paused = s /\ record.step > n
               \/ sq[s].reason = "Cancelled"

\* scheduler.rs:585, "A cancelled pause reports nothing on the next record": no
\* record names a sequence that was cancelled before it.
CancelledPauseIsSilent ==
    [][record' # record /\ record'.paused # NoSeq =>
          sq[record'.paused].reason # "Cancelled"]_allVars

\* spec-03-sequence-state.md:166, "a running decode fails to reserve only when
\* the pool is genuinely full": what step sees of a decode's reserve.
DecodeFailsOnlyWhenFull ==
    \A s \in Known \cap seqs :
        sq[s].phase = "Decoding" /\ pc = "idle" /\ ReserveResult(s, 1) # "Ok"
            => \E g \in PagedGroups : free[g] = {}

\* The scheduler's view of a sequence and the manager's agree through chunks,
\* failed steps, rejected tokens and cancellations: same context, no open
\* reservation without an owner, and never a token more than was asked for.
SequencesAgree == ContextAgrees /\ ReservationOwned /\ TokenBudgetExact

=============================================================================
