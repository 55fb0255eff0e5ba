---------------------------- MODULE SchedulerProofs ----------------------------
(***************************************************************************)
(* Proofs about Scheduler: no request is lost or kept twice, the           *)
(* scheduler's bookkeeping agrees with the manager's through every failure *)
(* path, a step commits once, and requests are served first come, first    *)
(* served, for every number of requests, chunk sizes and pools.            *)
(***************************************************************************)
EXTENDS StateManagerProofs, Scheduler, SequenceTheorems, WellFoundedInduction

-----------------------------------------------------------------------------
(* Queues                                                                  *)

NoRepeats(q) == \A i, j \in 1 .. Len(q) : q[i] = q[j] => i = j

LEMMA QueueAppend ==
    ASSUME NEW S, NEW q \in Seq(S), NEW x \in S, NoRepeats(q), x \notin ToSet(q)
    PROVE  /\ Append(q, x) \in Seq(S) /\ Len(Append(q, x)) = Len(q) + 1
           /\ NoRepeats(Append(q, x)) /\ ToSet(Append(q, x)) = ToSet(q) \cup {x}
  <1>1. /\ Len(q) \in Nat /\ DOMAIN q = 1 .. Len(q)
        /\ Append(q, x) \in Seq(S) /\ Len(Append(q, x)) = Len(q) + 1
        /\ DOMAIN Append(q, x) = 1 .. Len(q) + 1
        /\ \A i \in 1 .. Len(q) : Append(q, x)[i] = q[i]
        /\ Append(q, x)[Len(q) + 1] = x
    OBVIOUS
  <1>2. \A i \in 1 .. Len(q) : q[i] # x
    BY <1>1 DEF ToSet
  <1>3. NoRepeats(Append(q, x))
    BY <1>1, <1>2 DEF NoRepeats
  <1>4. ToSet(Append(q, x)) = ToSet(q) \cup {x}
    <2>1. ToSet(Append(q, x)) = {Append(q, x)[i] : i \in 1 .. Len(q) + 1}
      BY <1>1 DEF ToSet
    <2>2. ToSet(q) = {q[i] : i \in 1 .. Len(q)}
      BY <1>1 DEF ToSet
    <2>3. \A i \in 1 .. Len(q) + 1 : i \in 1 .. Len(q) \/ i = Len(q) + 1
      BY <1>1
    <2> QED
      BY <1>1, <2>1, <2>2, <2>3
  <1> QED
    BY <1>1, <1>3, <1>4

LEMMA QueueTail ==
    ASSUME NEW S, NEW q \in Seq(S), NoRepeats(q), q # <<>>
    PROVE  /\ Tail(q) \in Seq(S) /\ Head(q) \in S /\ Head(q) \in ToSet(q)
           /\ NoRepeats(Tail(q)) /\ ToSet(Tail(q)) = ToSet(q) \ {Head(q)}
  <1>1. /\ Len(q) \in Nat /\ Len(q) > 0 /\ DOMAIN q = 1 .. Len(q)
        /\ Tail(q) \in Seq(S) /\ Len(Tail(q)) = Len(q) - 1
        /\ DOMAIN Tail(q) = 1 .. Len(q) - 1
        /\ \A i \in 1 .. Len(q) - 1 : Tail(q)[i] = q[i + 1]
        /\ Head(q) = q[1] /\ Head(q) \in S
    BY HeadTailProperties, EmptySeq, LenProperties
  <1>2. Head(q) \in ToSet(q)
    BY <1>1 DEF ToSet
  <1>3. NoRepeats(Tail(q))
    BY <1>1 DEF NoRepeats
  <1>4. ToSet(Tail(q)) = ToSet(q) \ {Head(q)}
    <2>1. ToSet(Tail(q)) = {Tail(q)[i] : i \in 1 .. Len(q) - 1}
      BY <1>1 DEF ToSet
    <2>2. ToSet(q) = {q[i] : i \in 1 .. Len(q)}
      BY <1>1 DEF ToSet
    <2>3. \A i \in 1 .. Len(q) - 1 : i + 1 \in 1 .. Len(q) /\ q[i + 1] # q[1]
      BY <1>1 DEF NoRepeats
    <2>4. \A i \in 1 .. Len(q) : i # 1 => i - 1 \in 1 .. Len(q) - 1 /\ Tail(q)[i - 1] = q[i]
      BY <1>1
    <2>5. ASSUME NEW x \in ToSet(Tail(q)) PROVE x \in ToSet(q) /\ x # Head(q)
      BY <1>1, <2>1, <2>2, <2>3
    <2>6. ASSUME NEW x \in ToSet(q), x # Head(q) PROVE x \in ToSet(Tail(q))
      BY <1>1, <2>1, <2>2, <2>4, <2>6
    <2> QED
      BY <2>5, <2>6
  <1> QED
    BY <1>1, <1>2, <1>3, <1>4

LEMMA QueueRemove ==
    ASSUME NEW S, NEW q \in Seq(S), NoRepeats(q), NEW k \in 1 .. Len(q)
    PROVE  /\ RemoveAt(q, k) \in Seq(S)
           /\ NoRepeats(RemoveAt(q, k)) /\ ToSet(RemoveAt(q, k)) = ToSet(q) \ {q[k]}
  <1> DEFINE a == SubSeq(q, 1, k - 1)
             b == SubSeq(q, k + 1, Len(q))
             r == RemoveAt(q, k)
  <1>1. /\ Len(q) \in Nat /\ k \in Nat /\ 1 <= k /\ k <= Len(q)
        /\ DOMAIN q = 1 .. Len(q) /\ \A i \in 1 .. Len(q) : q[i] \in S
    BY LenProperties, ElementOfSeq
  <1>2. /\ a \in Seq(S) /\ Len(a) = k - 1 /\ \A i \in 1 .. k - 1 : a[i] = q[i]
    <2>1. \A i \in 1 .. k - 1 : q[i] \in S
      BY <1>1
    <2>2. /\ a \in Seq(S) /\ Len(a) = IF 1 <= k - 1 THEN (k - 1) - 1 + 1 ELSE 0
          /\ \A i \in 1 .. (k - 1) - 1 + 1 : a[i] = q[1 + i - 1]
      BY <1>1, <2>1, SubSeqProperties
    <2> QED
      BY <1>1, <2>2
  <1>3. /\ b \in Seq(S) /\ Len(b) = Len(q) - k
        /\ \A i \in 1 .. Len(q) - k : b[i] = q[k + i]
    <2>1. \A i \in k + 1 .. Len(q) : q[i] \in S
      BY <1>1
    <2>2. /\ b \in Seq(S)
          /\ Len(b) = IF k + 1 <= Len(q) THEN Len(q) - (k + 1) + 1 ELSE 0
          /\ \A i \in 1 .. Len(q) - (k + 1) + 1 : b[i] = q[(k + 1) + i - 1]
      BY <1>1, <2>1, SubSeqProperties
    <2>3. Len(b) = Len(q) - k
      <3>1. Len(b) = IF k + 1 <= Len(q) THEN Len(q) - (k + 1) + 1 ELSE 0
        BY <2>2
      <3>2. \A m, n \in Nat : m <= n =>
                (IF m + 1 <= n THEN n - (m + 1) + 1 ELSE 0) = n - m
        OBVIOUS
      <3> QED
        BY <1>1, <3>1, <3>2
    <2>4. \A i \in 1 .. Len(q) - k : b[i] = q[k + i]
      <3> TAKE i \in 1 .. Len(q) - k
      <3>1. i \in 1 .. Len(q) - (k + 1) + 1 /\ (k + 1) + i - 1 = k + i
        BY <1>1
      <3> QED
        BY <2>2, <3>1
    <2> QED
      BY <2>2, <2>3, <2>4
  <1> HIDE DEF a, b
  <1>4. r = a \o b
    BY DEF RemoveAt, a, b
  <1> HIDE DEF r
  <1>5. /\ r \in Seq(S) /\ Len(r) = Len(q) - 1
        /\ \A i \in 1 .. Len(q) - 1 : r[i] = IF i <= k - 1 THEN q[i] ELSE q[i + 1]
    <2>1. /\ a \o b \in Seq(S) /\ Len(a \o b) = Len(a) + Len(b)
          /\ \A i \in 1 .. Len(a) + Len(b) :
                (a \o b)[i] = IF i <= Len(a) THEN a[i] ELSE b[i - Len(a)]
      BY <1>2, <1>3, ConcatProperties
    <2>2. Len(a) + Len(b) = Len(q) - 1
      BY <1>1, <1>2, <1>3
    <2>3. ASSUME NEW i \in 1 .. Len(q) - 1
          PROVE  r[i] = IF i <= k - 1 THEN q[i] ELSE q[i + 1]
      <3>1. CASE i <= k - 1
        BY <1>1, <1>2, <1>4, <2>1, <2>2, <3>1
      <3>2. CASE i > k - 1
        <4>1. /\ i - (k - 1) \in 1 .. Len(q) - k /\ k + (i - (k - 1)) = i + 1
              /\ ~(i <= k - 1)
          BY <1>1, <3>2
        <4>2. r[i] = b[i - (k - 1)]
          BY <1>2, <1>4, <2>1, <2>2, <4>1
        <4> QED
          BY <1>3, <4>1, <4>2
      <3> QED
        BY <1>1, <3>1, <3>2
    <2> QED
      BY <1>4, <2>1, <2>2, <2>3
  <1>6. Len(r) \in Nat /\ DOMAIN r = 1 .. Len(q) - 1
    BY <1>1, <1>5, LenProperties
  <1>7. NoRepeats(r)
    BY <1>1, <1>5, <1>6 DEF NoRepeats
  <1>8. ToSet(r) = {r[i] : i \in 1 .. Len(q) - 1} /\ ToSet(q) = {q[i] : i \in 1 .. Len(q)}
    BY <1>1, <1>6 DEF ToSet
  <1>9. ASSUME NEW x \in ToSet(r) PROVE x \in ToSet(q) /\ x # q[k]
    BY <1>1, <1>5, <1>8 DEF NoRepeats
  <1>10. ASSUME NEW x \in ToSet(q), x # q[k] PROVE x \in ToSet(r)
    <2>1. PICK i \in 1 .. Len(q) : x = q[i] /\ i # k
      BY <1>8, <1>10
    <2>2. CASE i < k
      BY <1>1, <1>5, <1>8, <2>1, <2>2
    <2>3. CASE i > k
      <3>1. i - 1 \in 1 .. Len(q) - 1 /\ ~(i - 1 <= k - 1) /\ (i - 1) + 1 = i
        BY <1>1, <2>3
      <3> QED
        BY <1>5, <1>8, <2>1, <3>1
    <2> QED
      BY <1>1, <2>1, <2>2, <2>3
  <1> QED
    BY <1>5, <1>7, <1>9, <1>10 DEF r

-----------------------------------------------------------------------------
(* The inductive invariant                                                 *)

Phases  == {"Absent", "Queued", "Prefilling", "Decoding", "Finished"}
Reasons == {"None", "Cancelled", "Eos", "StopString", "MaxTokens"}
Records ==
    [phase : Phases, done : Nat, ctx_len : Nat, generated : Nat, wait : Nat,
     arrival : Nat, reason : Reasons, req : Requests \cup {NoRequest}]

SchedTyped ==
    /\ pc \in {"idle", "reserved", "device", "post", "finish", "log"}
    /\ sq \in [SeqIds -> Records]
    /\ queued \in Seq(SeqIds)
    /\ active \in SeqIds \cup {NoSeq}
    /\ paused \in SeqIds \cup {NoSeq}
    /\ finished \subseteq SeqIds
    /\ arrival_counter \in Nat
    /\ fits \subseteq BucketSizes \cup {MinChunk}

Running == {"Prefilling", "Decoding"}

\* Where a sequence is kept follows from its phase, and the slots hold at most
\* one sequence between them.
Placed ==
    /\ NoRepeats(queued)
    /\ active # NoSeq => paused = NoSeq
    /\ \A s \in SeqIds :
          /\ s \in ToSet(queued) <=> sq[s].phase = "Queued"
          /\ s \in {active, paused} <=> sq[s].phase \in Running
          /\ sq[s].phase \in Running \cup {"Queued"} => s \in seqs
          /\ sq[s].phase = "Finished" => s \notin seqs
          /\ s \in finished => sq[s].phase = "Finished"
          /\ sq[s].phase # "Absent" => s < next_seq

BudgetKept(q) ==
    IF q.reason = "MaxTokens" THEN q.generated = q.req.max_tokens
                              ELSE q.generated < q.req.max_tokens

\* The record of a sequence agrees with the manager's view of it, by phase.
\* A queued sequence has not touched its tables; a decode with a reason to end
\* is about to be finished.
Agrees(s) ==
    /\ sq[s].phase # "Absent" => sq[s].req \in Requests
    /\ sq[s].phase = "Finished" => BudgetKept(sq[s])
    /\ sq[s].phase \in Running \cup {"Queued"} => sq[s].ctx_len = ctx_len[s]
    /\ sq[s].phase = "Queued" =>
          /\ ctx_len[s] = 0 /\ sq[s].done = 0 /\ sq[s].generated = 0
          /\ sq[s].reason = "None" /\ tables[s] = EmptyTable
    /\ sq[s].phase = "Prefilling" =>
          /\ ctx_len[s] = sq[s].done /\ sq[s].done < sq[s].req.prompt
          /\ sq[s].generated = 0 /\ sq[s].reason = "None"
    /\ sq[s].phase = "Decoding" /\ sq[s].reason = "None" =>
          /\ ctx_len[s] = sq[s].req.prompt + sq[s].generated - 1
          /\ sq[s].generated \in 1 .. sq[s].req.max_tokens - 1
    /\ sq[s].phase = "Decoding" /\ sq[s].reason # "None" => BudgetKept(sq[s])

\* Who may have an open reservation, or a reason to end, and when.
StepOwned ==
    /\ \A s \in SeqIds :
          /\ sq[s].phase \in Running \cup {"Queued"} /\ tail_len[s] # 0 =>
                s = active /\ pc \in {"reserved", "device", "post"}
          /\ sq[s].phase = "Decoding" /\ sq[s].reason # "None" =>
                s = active /\ pc = "finish"
    /\ pc \in {"reserved", "device", "post"} =>
          /\ active # NoSeq /\ tail_len[active] > 0
          /\ sq[active].phase = "Decoding" => tail_len[active] = 1
          /\ sq[active].phase = "Prefilling" =>
                sq[active].done + tail_len[active] <= sq[active].req.prompt
    /\ pc = "finish" =>
          active # NoSeq /\ sq[active].phase = "Decoding" /\ sq[active].reason # "None"

\* StepIds: the open step is the newest and not committed yet.
StepCounted ==
    /\ step_counter \in Nat /\ last_committed \in Nat /\ last_committed <= step_counter
    /\ pc \in {"device", "post"} =>
          /\ in_flight = [step |-> step_counter, seq |-> active, n |-> tail_len[active]]
          /\ last_committed < step_counter
    /\ pc \in {"idle", "reserved", "finish", "log"} => in_flight = NoFlight

SchedInv ==
    Owned /\ SchedTyped /\ Placed /\ (\A s \in SeqIds : Agrees(s)) /\ StepOwned /\ StepCounted

-----------------------------------------------------------------------------
(* What the manager's operations do to the sequences                       *)

LEMMA NewSeqFacts ==
    ASSUME Owned, NEW len, NewSeq(len)
    PROVE  /\ next_seq \in SeqIds /\ next_seq \in Nat /\ next_seq \notin seqs
           /\ seqs' = seqs \cup {next_seq} /\ next_seq' = next_seq + 1
           /\ ctx_len'[next_seq] = 0 /\ tail_len'[next_seq] = 0
           /\ tables'[next_seq] = EmptyTable
           /\ \A t \in SeqIds : t # next_seq => /\ ctx_len'[t] = ctx_len[t]
                                                /\ tail_len'[t] = tail_len[t]
                                                /\ tables'[t] = tables[t]
           /\ Owned'
  <1>1. /\ next_seq \in SeqIds /\ next_seq \in Nat /\ next_seq \notin seqs
    BY SizesAssumption DEF Owned, Typing, TypeOK, IdsAllocated, NewSeq, NewSeqResult, SeqIds
  <1>2. Typing' /\ DeadHoldNothing' /\ BlockOwnership'
    BY OwnedNewSeq, TypingNewSeq DEF Owned
  <1> QED
    BY <1>1, <1>2 DEF NewSeq, Owned, Typing, TypeOK

LEMMA FreeFacts ==
    ASSUME Owned, NEW s \in SeqIds, FreeSeq(s)
    PROVE  /\ s \in seqs /\ seqs' = seqs \ {s} /\ next_seq' = next_seq
           /\ \A t \in SeqIds : t # s => /\ ctx_len'[t] = ctx_len[t]
                                         /\ tail_len'[t] = tail_len[t]
                                         /\ tables'[t] = tables[t]
           /\ Owned'
  <1>1. s \in seqs
    BY DEF FreeSeq, FreeSeqResult
  <1>2. Typing' /\ DeadHoldNothing' /\ BlockOwnership'
    BY <1>1, OwnedFreeSeq, TypingFreeSeq DEF Owned
  <1> QED
    BY <1>1, <1>2 DEF FreeSeq, Owned, Typing, TypeOK

LEMMA CommitEffect ==
    ASSUME Owned, NEW s \in SeqIds, NEW accepted \in Nat, Commit(s, accepted)
    PROVE  /\ s \in seqs /\ seqs' = seqs /\ next_seq' = next_seq
           /\ accepted <= tail_len[s] /\ ctx_len[s] \in Nat
           /\ ctx_len'[s] = ctx_len[s] + accepted /\ tail_len'[s] = 0
           /\ \A t \in SeqIds : t # s => /\ ctx_len'[t] = ctx_len[t]
                                         /\ tail_len'[t] = tail_len[t]
                                         /\ tables'[t] = tables[t]
           /\ Owned'
  <1>1. s \in seqs /\ accepted <= tail_len[s] /\ tail_len[s] \in 0 .. MaxCtx
    BY SizesAreNumbers DEF Commit, CommitResult, Owned, Typing, TypeOK
  <1>2. accepted \in 0 .. MaxCtx
    BY <1>1, SizesAreNumbers
  <1>3. Typing' /\ DeadHoldNothing' /\ BlockOwnership'
    BY <1>1, <1>2, OwnedCommit, TypingCommit DEF Owned
  <1>4. next_seq' = next_seq
    BY DEF Commit
  <1>5. Typing
    BY DEF Owned
  <1> QED
    BY <1>1, <1>2, <1>3, <1>4, <1>5, CommitFacts DEF Owned

LEMMA ReserveEffect ==
    ASSUME Owned, NEW s \in SeqIds, NEW n \in Nat, Reserve(s, n)
    PROVE  /\ s \in seqs /\ seqs' = seqs /\ next_seq' = next_seq
           /\ ctx_len' = ctx_len /\ tail_len'[s] = n /\ n > 0
           /\ \A t \in SeqIds : t # s => /\ tail_len'[t] = tail_len[t]
                                         /\ tables'[t] = tables[t]
           /\ Owned'
  <1>1. s \in seqs /\ n # 0 /\ ctx_len[s] + n <= MaxCtx /\ ctx_len[s] \in Nat
    BY SizesAreNumbers DEF Reserve, ReserveResult, Owned, Typing, TypeOK
  <1>2. n \in 1 .. MaxCtx
    BY <1>1, SizesAreNumbers
  <1>3. Typing' /\ DeadHoldNothing' /\ BlockOwnership'
    BY <1>1, <1>2, OwnedReserve, TypingReserve DEF Owned
  <1>4. next_seq' = next_seq
    BY DEF Reserve
  <1>5. Typing
    BY DEF Owned
  <1> QED
    BY <1>1, <1>2, <1>3, <1>4, <1>5, ReserveFacts DEF Owned

LEMMA OwnedStutter ==
    ASSUME Owned, UNCHANGED vars PROVE Owned'
  BY OwnedStep

LEMMA AgreesFrame ==
    ASSUME NEW t \in SeqIds, Agrees(t), sq'[t] = sq[t], ctx_len'[t] = ctx_len[t],
           tables'[t] = tables[t]
    PROVE  Agrees(t)'
  BY DEF Agrees, BudgetKept

LEMMA NoSeqIsNoId == NoSeq \notin SeqIds
  BY SizesAssumption DEF NoSeq, SeqIds

LEMMA SchedInvInit == SchedInit => SchedInv
  <1> SUFFICES ASSUME SchedInit PROVE SchedInv
    OBVIOUS
  <1>1. Owned
    BY OwnedInit DEF SchedInit
  <1>2. Absent \in Records
    BY DEF Absent, Records, Phases, Reasons
  <1>3. SchedTyped
    BY <1>2 DEF SchedInit, SchedTyped
  <1>4. \A s \in SeqIds : sq[s].phase = "Absent"
    BY DEF SchedInit, Absent
  <1>5. Placed
    BY <1>4, NoSeqIsNoId DEF SchedInit, Placed, NoRepeats, ToSet, Running
  <1>6. \A s \in SeqIds : Agrees(s)
    BY <1>4 DEF Agrees, Running
  <1>7. StepOwned
    BY <1>4 DEF StepOwned, Running, SchedInit
  <1>8. StepCounted
    BY DEF SchedInit, StepCounted, NoStep
  <1> QED
    BY <1>1, <1>3, <1>5, <1>6, <1>7, <1>8 DEF SchedInv

-----------------------------------------------------------------------------
(* Operations that move no sequence                                        *)

LEMMA SameSequences ==
    ASSUME SchedInv, UNCHANGED <<vars, sq, queued, active, paused, arrival_counter, fits>>,
           finished' \subseteq finished,
           pc' \in {"idle", "reserved", "device", "post", "finish", "log"}
    PROVE  Owned' /\ SchedTyped' /\ Placed' /\ (\A s \in SeqIds : Agrees(s))'
  <1>1. Owned'
    BY OwnedStutter DEF SchedInv
  <1>2. UNCHANGED <<seqs, next_seq, ctx_len, tables>>
    BY DEF vars, seqVars
  <1>3. SchedTyped'
    BY DEF SchedInv, SchedTyped
  <1>4. Placed'
    BY <1>2 DEF SchedInv, Placed
  <1>5. (\A s \in SeqIds : Agrees(s))'
    BY <1>2 DEF SchedInv, Agrees
  <1> QED
    BY <1>1, <1>3, <1>4, <1>5

LEMMA InvAssignStep ==
    ASSUME SchedInv, AssignStep PROVE SchedInv'
  <1>1. /\ UNCHANGED <<vars, sq, queued, active, paused, arrival_counter, fits>>
        /\ finished' = finished /\ pc = "reserved" /\ pc' = "device"
        /\ last_committed' = last_committed /\ step_counter' = step_counter + 1
        /\ in_flight' = [step |-> step_counter + 1, seq |-> active, n |-> tail_len[active]]
    BY DEF AssignStep
  <1>2. tail_len' = tail_len
    BY <1>1 DEF vars, seqVars
  <1>3. StepOwned'
    BY <1>1, <1>2 DEF SchedInv, StepOwned
  <1>4. StepCounted'
    BY <1>1, <1>2 DEF SchedInv, StepCounted
  <1> QED
    BY <1>1, <1>3, <1>4, SameSequences DEF SchedInv

LEMMA InvDeviceCompletes ==
    ASSUME SchedInv, DeviceCompletes PROVE SchedInv'
  <1>1. /\ UNCHANGED <<vars, sq, queued, active, paused, arrival_counter, fits>>
        /\ finished' = finished /\ pc = "device" /\ pc' = "post"
        /\ UNCHANGED <<last_committed, step_counter, in_flight>>
    BY DEF DeviceCompletes
  <1>2. tail_len' = tail_len
    BY <1>1 DEF vars, seqVars
  <1>3. StepOwned'
    BY <1>1, <1>2 DEF SchedInv, StepOwned
  <1>4. StepCounted'
    BY <1>1, <1>2 DEF SchedInv, StepCounted
  <1> QED
    BY <1>1, <1>3, <1>4, SameSequences DEF SchedInv

LEMMA InvAppendRecord ==
    ASSUME SchedInv, AppendRecord PROVE SchedInv'
  <1>1. /\ UNCHANGED <<vars, sq, queued, active, paused, arrival_counter, fits>>
        /\ finished' = finished /\ pc = "log" /\ pc' = "idle"
        /\ UNCHANGED <<last_committed, step_counter, in_flight>>
    BY DEF AppendRecord
  <1>2. tail_len' = tail_len
    BY <1>1 DEF vars, seqVars
  <1>3. StepOwned'
    BY <1>1, <1>2 DEF SchedInv, StepOwned
  <1>4. StepCounted'
    BY <1>1, <1>2 DEF SchedInv, StepCounted
  <1> QED
    BY <1>1, <1>3, <1>4, SameSequences DEF SchedInv

LEMMA InvTakeFinishedResult ==
    ASSUME SchedInv, NEW s \in SeqIds, TakeFinishedResult(s) PROVE SchedInv'
  <1>1. /\ UNCHANGED <<vars, sq, queued, active, paused, arrival_counter, fits>>
        /\ finished' \subseteq finished /\ pc' = pc
        /\ UNCHANGED <<last_committed, step_counter, in_flight>>
    BY DEF TakeFinishedResult
  <1>2. tail_len' = tail_len
    BY <1>1 DEF vars, seqVars
  <1>3. StepOwned'
    BY <1>1, <1>2 DEF SchedInv, StepOwned
  <1>4. StepCounted'
    BY <1>1, <1>2 DEF SchedInv, StepCounted
  <1>5. pc' \in {"idle", "reserved", "device", "post", "finish", "log"}
    BY <1>1 DEF SchedInv, SchedTyped
  <1> QED
    BY <1>1, <1>3, <1>4, <1>5, SameSequences DEF SchedInv

-----------------------------------------------------------------------------
(* What admission plans                                                    *)

LEMMA MinOfTwo ==
    ASSUME NEW a \in Nat, NEW b \in Nat
    PROVE  Min({a, b}) \in {a, b} /\ Min({a, b}) <= a /\ Min({a, b}) <= b
  <1>1. CASE a <= b
    <2>1. \A y \in {a, b} : a <= y
      BY <1>1
    <2> QED
      BY <2>1 DEF Min
  <1>2. CASE b <= a
    <2>1. \A y \in {a, b} : b <= y
      BY <1>2
    <2> QED
      BY <2>1 DEF Min
  <1> QED
    BY <1>1, <1>2

\* A nonempty set of naturals with an upper bound has a largest element.
LEMMA LargestExists ==
    ASSUME NEW S \in SUBSET Nat, NEW top \in Nat, S # {}, \A x \in S : x <= top
    PROVE  Max(S) \in S
  <1> DEFINE R == OpToRel(<, Nat)
             T == {top - x : x \in S}
  <1>1. T \subseteq Nat /\ T # {}
    <2>1. \A x \in S : top - x \in Nat
      OBVIOUS
    <2> QED
      BY <2>1
  <1>2. IsWellFoundedOn(R, Nat)
    BY NatLessThanWellFounded
  <1> HIDE DEF R
  <1>3. \E m \in T : \A y \in T : ~ (<<y, m>> \in R)
    BY <1>1, <1>2, WFMin, Zenon
  <1>4. PICK m \in T : \A y \in T : ~ (<<y, m>> \in R)
    BY <1>3
  <1>5. \A y \in T : ~ (y < m)
    BY <1>1, <1>4 DEF R, OpToRel
  <1>6. PICK b \in S : m = top - b
    BY <1>4
  <1>7. \A y \in S : b >= y
    BY <1>5, <1>6
  <1> QED
    BY <1>6, <1>7 DEF Max

LEMMA ChunkFits ==
    ASSUME NEW r \in Nat, fits \subseteq BucketSizes \cup {MinChunk}
    PROVE  SelectPrefillChunk(r) \in 0 .. r
  <1> DEFINE usable == {b \in BucketSizes \cap fits : MinChunk <= b /\ b <= MaxChunk
                                                      /\ b <= r}
  <1>1. usable \in SUBSET Nat /\ \A x \in usable : x <= r
    BY SchedulerAssumption
  <1>2. usable # {} => Max(usable) \in usable
    BY <1>1, LargestExists
  <1>3. usable # {} => Max(usable) \in 0 .. r
    BY <1>1, <1>2
  <1>4. SelectPrefillChunk(r) =
            IF r < MinChunk THEN IF MinChunk \in fits THEN r ELSE 0
            ELSE IF usable = {} THEN 0 ELSE Max(usable)
    BY DEF SelectPrefillChunk
  <1> HIDE DEF usable
  <1> QED
    BY <1>3, <1>4

LEMMA PlanFacts ==
    ASSUME NEW q \in Records, q.phase \in Running, q.req \in Requests,
           q.phase = "Prefilling" => q.done < q.req.prompt,
           fits \subseteq BucketSizes \cup {MinChunk}
    PROVE  /\ Plan(q).kind \in {"Decode", "Prefill", "Wait"} /\ Plan(q).n \in Nat
           /\ Plan(q).forced \in BOOLEAN
           /\ q.phase = "Decoding" => Plan(q).kind = "Decode"
           /\ Plan(q).kind = "Decode" =>
                 q.phase = "Decoding" /\ Plan(q).n = 1 /\ Plan(q).forced = FALSE
           /\ Plan(q).kind = "Prefill" =>
                 /\ q.phase = "Prefilling" /\ Plan(q).n > 0
                 /\ q.done + Plan(q).n <= q.req.prompt
  <1> DEFINE remaining == q.req.prompt - q.done
             chunk     == SelectPrefillChunk(remaining)
  <1>1. /\ q.phase \in {"Prefilling", "Decoding"} /\ q.done \in Nat /\ q.req.prompt \in Nat
        /\ MinChunk \in Nat \ {0}
    BY SchedulerAssumption DEF Running, Records
  <1>2. CASE q.phase = "Decoding"
    <2>1. Plan(q) = [kind |-> "Decode", n |-> 1, forced |-> FALSE]
      BY <1>2 DEF Plan
    <2> QED
      BY <1>2, <2>1
  <1>3. CASE q.phase = "Prefilling"
    <2>1. remaining \in Nat /\ remaining > 0
      BY <1>1, <1>3
    <2>2. chunk \in 0 .. remaining
      BY <2>1, ChunkFits
    <2>3. /\ Min({remaining, MinChunk}) \in {remaining, MinChunk}
          /\ Min({remaining, MinChunk}) <= remaining
      BY <1>1, <2>1, MinOfTwo
    <2>4. Plan(q) = IF chunk # 0 THEN [kind |-> "Prefill", n |-> chunk, forced |-> FALSE]
                    ELSE IF WaitSpent(q)
                    THEN [kind |-> "Prefill", n |-> Min({remaining, MinChunk}), forced |-> TRUE]
                    ELSE [kind |-> "Wait", n |-> 0, forced |-> FALSE]
      BY <1>3 DEF Plan
    <2> DEFINE least == Min({remaining, MinChunk})
    <2>5. least \in Nat /\ least > 0 /\ least <= remaining
      BY <1>1, <2>1, <2>3
    <2> HIDE DEF chunk, least
    <2>6. /\ Plan(q).kind \in {"Prefill", "Wait"} /\ Plan(q).n \in Nat
          /\ Plan(q).forced \in BOOLEAN
          /\ Plan(q).kind = "Prefill" => Plan(q).n > 0 /\ Plan(q).n <= remaining
      BY <2>1, <2>2, <2>4, <2>5 DEF least
    <2> QED
      BY <1>1, <1>3, <2>1, <2>6
  <1> QED
    BY <1>1, <1>2, <1>3

-----------------------------------------------------------------------------
(* Promotion: the candidate becomes the active sequence                    *)

LEMMA CandidateFacts ==
    ASSUME SchedInv, ~IsIdle
    PROVE  /\ Candidate \in SeqIds /\ Candidate \in seqs
           /\ sq[Candidate].phase \in Running \cup {"Queued"}
           /\ sq[Candidate].phase = "Queued" =>
                 /\ active = NoSeq /\ paused = NoSeq /\ queued # <<>>
                 /\ Candidate = Head(queued) /\ Candidate \in ToSet(queued)
           /\ sq[Candidate].phase \in Running =>
                 Candidate \in {active, paused} /\ Candidate \notin ToSet(queued)
           /\ active = NoSeq \/ Candidate = active
           /\ paused = NoSeq \/ Candidate = paused
  <1>1. /\ queued \in Seq(SeqIds) /\ NoRepeats(queued)
        /\ active \in SeqIds \cup {NoSeq} /\ paused \in SeqIds \cup {NoSeq}
        /\ active # NoSeq => paused = NoSeq
    BY DEF SchedInv, SchedTyped, Placed
  <1>2. \A s \in SeqIds :
            /\ s \in ToSet(queued) <=> sq[s].phase = "Queued"
            /\ s \in {active, paused} <=> sq[s].phase \in Running
            /\ sq[s].phase \in Running \cup {"Queued"} => s \in seqs
    BY DEF SchedInv, Placed
  <1>3. "Queued" \notin Running
    BY DEF Running
  <1>4. CASE active # NoSeq
    BY <1>1, <1>2, <1>3, <1>4 DEF Candidate
  <1>5. CASE active = NoSeq /\ paused # NoSeq
    BY <1>1, <1>2, <1>3, <1>5 DEF Candidate
  <1>6. CASE active = NoSeq /\ paused = NoSeq
    <2>1. queued # <<>> /\ Candidate = Head(queued)
      BY <1>6 DEF IsIdle, Candidate
    <2>2. Head(queued) \in SeqIds /\ Head(queued) \in ToSet(queued)
      BY <1>1, <2>1, QueueTail
    <2> QED
      BY <1>2, <1>3, <1>6, <2>1, <2>2
  <1> QED
    BY <1>4, <1>5, <1>6

\* q is the candidate's record after promotion and any number of waits.
Promotes(q) ==
    LET old == sq[Candidate]
    IN  /\ q \in Records
        /\ q.phase = IF old.phase = "Queued" THEN "Prefilling" ELSE old.phase
        /\ q.done = old.done /\ q.ctx_len = old.ctx_len /\ q.generated = old.generated
        /\ q.reason = old.reason /\ q.req = old.req

LEMMA PromotedPromotes ==
    ASSUME SchedInv, ~IsIdle PROVE Promotes(PromotedRecord)
  <1>1. sq[Candidate] \in Records
    BY CandidateFacts DEF SchedInv, SchedTyped
  <1> QED
    BY <1>1 DEF Promotes, PromotedRecord, Records, Phases

LEMMA WaitedPromotes ==
    ASSUME NEW q, Promotes(q) PROVE Promotes(Waited(q))
  <1>1. q \in Records /\ q.wait \in Nat
    BY DEF Promotes, Records
  <1>2. Min({q.wait + BudgetMs, MaxWaitMs}) \in Nat
    BY <1>1, SchedulerAssumption, MinOfTwo
  <1>3. Waited(q) = [q EXCEPT !.wait = Min({q.wait + BudgetMs, MaxWaitMs})]
    BY DEF Waited
  <1> QED
    BY <1>1, <1>2, <1>3 DEF Promotes, Records

LEMMA AdmittedPromotes ==
    ASSUME NEW q, Promotes(q) PROVE Promotes(Admitted(q))
  BY WaitedPromotes DEF Admitted

LEMMA PromotedRuns ==
    ASSUME SchedInv, ~IsIdle, NEW q, Promotes(q)
    PROVE  /\ q \in Records /\ q.phase \in Running /\ q.req \in Requests
           /\ q.phase = "Prefilling" => q.done < q.req.prompt
           /\ q.ctx_len = ctx_len[Candidate]
           /\ q.phase = "Prefilling" =>
                 ctx_len[Candidate] = q.done /\ q.generated = 0 /\ q.reason = "None"
           /\ q.phase = "Decoding" => sq[Candidate].phase = "Decoding"
  <1>1. /\ Candidate \in SeqIds /\ sq[Candidate].phase \in Running \cup {"Queued"}
        /\ Agrees(Candidate)
    BY CandidateFacts DEF SchedInv
  <1>2. \A r \in Requests : 0 < r.prompt
    BY SchedulerAssumption
  <1> QED
    BY <1>1, <1>2 DEF Promotes, Agrees, Running

LEMMA ActivateKeeps ==
    ASSUME SchedInv, ~IsIdle, NEW q, Promotes(q), Activate(q),
           seqs' = seqs, next_seq' = next_seq, ctx_len' = ctx_len,
           \A t \in SeqIds : t # Candidate => tables'[t] = tables[t],
           UNCHANGED <<finished, arrival_counter, fits>>,
           pc' \in {"idle", "reserved", "device", "post", "finish", "log"}
    PROVE  SchedTyped' /\ Placed' /\ (\A s \in SeqIds : Agrees(s))'
  <1> DEFINE c == Candidate
  <1>1. /\ c \in SeqIds /\ c \in seqs
        /\ sq[c].phase \in Running \cup {"Queued"}
        /\ sq[c].phase = "Queued" =>
              /\ active = NoSeq /\ paused = NoSeq /\ queued # <<>>
              /\ c = Head(queued) /\ c \in ToSet(queued)
        /\ sq[c].phase \in Running => c \in {active, paused} /\ c \notin ToSet(queued)
        /\ active = NoSeq \/ c = active
        /\ paused = NoSeq \/ c = paused
    BY CandidateFacts
  <1>2. /\ active' = c /\ paused' = IF c = paused THEN NoSeq ELSE paused
        /\ queued' = IF c \in ToSet(queued) THEN Tail(queued) ELSE queued
        /\ sq' = [sq EXCEPT ![c] = q]
    BY DEF Activate
  <1>3. q \in Records /\ q.phase \in Running /\ sq \in [SeqIds -> Records]
    BY PromotedRuns DEF SchedInv, SchedTyped
  <1>4. /\ queued \in Seq(SeqIds) /\ NoRepeats(queued)
    BY DEF SchedInv, SchedTyped, Placed
  <1>5. /\ queued' \in Seq(SeqIds) /\ NoRepeats(queued')
        /\ ToSet(queued') = ToSet(queued) \ {c}
    <2>1. CASE sq[c].phase = "Queued"
      BY <1>1, <1>2, <1>4, <2>1, QueueTail
    <2>2. CASE sq[c].phase \in Running
      BY <1>1, <1>2, <1>4, <2>2
    <2> QED
      BY <1>1, <2>1, <2>2
  <1>6. paused' = NoSeq
    BY <1>1, <1>2
  <1>7. /\ sq'[c] = q /\ \A t \in SeqIds : t # c => sq'[t] = sq[t]
    BY <1>1, <1>2, <1>3
  <1>8. SchedTyped'
    <2>1. sq' \in [SeqIds -> Records]
      BY <1>2, <1>3
    <2> QED
      BY <1>1, <1>2, <1>5, <1>6, <2>1 DEF SchedInv, SchedTyped
  <1>9. Placed'
    <2>1. ASSUME NEW s \in SeqIds
          PROVE  /\ s \in ToSet(queued') <=> sq'[s].phase = "Queued"
                 /\ s \in {active', paused'} <=> sq'[s].phase \in Running
                 /\ sq'[s].phase \in Running \cup {"Queued"} => s \in seqs'
                 /\ sq'[s].phase = "Finished" => s \notin seqs'
                 /\ s \in finished' => sq'[s].phase = "Finished"
                 /\ sq'[s].phase # "Absent" => s < next_seq'
      <3> DEFINE Q(t) == /\ t \in ToSet(queued) <=> sq[t].phase = "Queued"
                         /\ t \in {active, paused} <=> sq[t].phase \in Running
                         /\ sq[t].phase \in Running \cup {"Queued"} => t \in seqs
                         /\ sq[t].phase = "Finished" => t \notin seqs
                         /\ t \in finished => sq[t].phase = "Finished"
                         /\ sq[t].phase # "Absent" => t < next_seq
      <3>1. Q(s)
        BY DEF SchedInv, Placed
      <3>2. CASE s = c
        BY <1>1, <1>2, <1>3, <1>5, <1>7, <3>1, <3>2 DEF Running
      <3>3. CASE s # c
        <4>1. s \in {active, paused} => s = NoSeq
          BY <1>1, <3>3
        <4>2. s # NoSeq
          BY NoSeqIsNoId
        <4> QED
          BY <1>2, <1>5, <1>6, <1>7, <3>1, <3>3, <4>1, <4>2
      <3> QED
        BY <3>2, <3>3
    <2> QED
      BY <1>5, <1>6, <2>1 DEF Placed
  <1>10. ASSUME NEW s \in SeqIds PROVE Agrees(s)'
    <2>1. CASE s # c
      BY <1>7, <2>1, AgreesFrame DEF SchedInv
    <2>2. CASE s = c
      <3>1. /\ q.req \in Requests
            /\ q.phase = "Prefilling" => q.done < q.req.prompt
            /\ q.ctx_len = ctx_len[c]
            /\ q.phase = "Prefilling" =>
                 ctx_len[c] = q.done /\ q.generated = 0 /\ q.reason = "None"
        BY PromotedRuns
      <3>2. CASE q.phase = "Prefilling"
        BY <1>7, <2>2, <3>1, <3>2 DEF Agrees, Running
      <3>3. CASE q.phase = "Decoding"
        <4>1. /\ sq[c].phase = "Decoding" /\ q.generated = sq[c].generated
              /\ q.reason = sq[c].reason /\ q.req = sq[c].req
          BY <1>1, <3>3 DEF Promotes, Running
        <4>2. Agrees(c)
          BY <1>1 DEF SchedInv
        <4> QED
          BY <1>7, <2>2, <3>1, <3>3, <4>1, <4>2 DEF Agrees, Running, BudgetKept
      <3> QED
        BY <1>3, <3>2, <3>3 DEF Running
    <2> QED
      BY <2>1, <2>2
  <1> QED
    BY <1>8, <1>9, <1>10

\* Between steps no sequence of the scheduler has an open tail or a reason.
LEMMA IdleIsQuiet ==
    ASSUME SchedInv, pc \in {"idle", "log"}, NEW s \in SeqIds
    PROVE  /\ sq[s].phase \in Running \cup {"Queued"} => tail_len[s] = 0
           /\ sq[s].phase = "Decoding" => sq[s].reason = "None"
  BY DEF SchedInv, StepOwned

\* A call of step that only promotes the candidate.
LEMMA InvPromoted ==
    ASSUME SchedInv, pc = "idle", ~IsIdle, NEW q, Promotes(q), Activate(q),
           UNCHANGED <<vars, pc, stepBegins>>
    PROVE  SchedInv'
  <1>1. /\ UNCHANGED <<seqs, next_seq, ctx_len, tables, tail_len>>
        /\ UNCHANGED <<finished, arrival_counter, fits, step_counter, last_committed,
                       in_flight, pc>>
    BY DEF vars, seqVars, stepBegins
  <1>2. SchedTyped' /\ Placed' /\ (\A s \in SeqIds : Agrees(s))'
    BY <1>1, ActivateKeeps
  <1>3. Owned'
    BY OwnedStutter DEF SchedInv
  <1>4. ASSUME NEW s \in SeqIds
        PROVE  /\ sq'[s].phase \in Running \cup {"Queued"} => tail_len'[s] = 0
               /\ sq'[s].phase = "Decoding" => sq'[s].reason = "None"
    <2>1. sq' = [sq EXCEPT ![Candidate] = q] /\ sq \in [SeqIds -> Records]
      BY DEF Activate, SchedInv, SchedTyped
    <2>2. CASE s # Candidate
      BY <1>1, <2>1, <2>2, IdleIsQuiet
    <2>3. CASE s = Candidate
      <3>1. sq'[s] = q /\ sq[s].phase \in Running \cup {"Queued"}
        BY <2>1, <2>3, CandidateFacts
      <3>2. q.phase = "Decoding" => sq[s].phase = "Decoding" /\ q.reason = sq[s].reason
        BY <2>3 DEF Promotes
      <3> QED
        BY <1>1, <3>1, <3>2, IdleIsQuiet
    <2> QED
      BY <2>2, <2>3
  <1>5. StepOwned'
    BY <1>1, <1>4 DEF StepOwned
  <1>6. StepCounted'
    BY <1>1 DEF SchedInv, StepCounted
  <1> QED
    BY <1>2, <1>3, <1>5, <1>6 DEF SchedInv

LEMMA InvStepWait ==
    ASSUME SchedInv, StepWait PROVE SchedInv'
  BY InvPromoted, PromotedPromotes, WaitedPromotes DEF StepWait, StepCalled

LEMMA InvStepPrefillBlocked ==
    ASSUME SchedInv, StepPrefillBlocked PROVE SchedInv'
  BY InvPromoted, PromotedPromotes, WaitedPromotes, AdmittedPromotes
     DEF StepPrefillBlocked, StepCalled

LEMMA InvStepRefused ==
    ASSUME SchedInv, StepRefused PROVE SchedInv'
  BY InvPromoted, PromotedPromotes, AdmittedPromotes DEF StepRefused, StepCalled

LEMMA InvStepReserve ==
    ASSUME SchedInv, StepReserve PROVE SchedInv'
  <1> DEFINE c == Candidate
             p == PromotedRecord
             q == Admitted(PromotedRecord)
             n == Plan(p).n
  <1>1. /\ pc = "idle" /\ ~IsIdle /\ Plan(p).kind \in {"Decode", "Prefill"}
        /\ Reserve(c, n) /\ Activate(q) /\ pc' = "reserved"
        /\ UNCHANGED <<finished, arrival_counter, fits, step_counter, last_committed,
                       in_flight>>
    BY DEF StepReserve, StepCalled, stepBegins
  <1>2. Promotes(p) /\ Promotes(q)
    BY <1>1, PromotedPromotes, AdmittedPromotes
  <1>3. /\ p \in Records /\ p.phase \in Running /\ p.req \in Requests
        /\ p.phase = "Prefilling" => p.done < p.req.prompt
    BY <1>1, <1>2, PromotedRuns
  <1>4. /\ n \in Nat
        /\ p.phase = "Decoding" => n = 1
        /\ p.phase = "Prefilling" => p.done + n <= p.req.prompt
    BY <1>1, <1>3, PlanFacts DEF SchedInv, SchedTyped, Running
  <1>5. /\ c \in SeqIds /\ c # NoSeq
    BY <1>1, CandidateFacts, NoSeqIsNoId
  <1> HIDE DEF n
  <1>6. /\ seqs' = seqs /\ next_seq' = next_seq
        /\ ctx_len' = ctx_len /\ tail_len'[c] = n /\ n > 0
        /\ \A t \in SeqIds : t # c => tail_len'[t] = tail_len[t] /\ tables'[t] = tables[t]
        /\ Owned'
    BY <1>1, <1>4, <1>5, ReserveEffect DEF SchedInv
  <1>7. SchedTyped' /\ Placed' /\ (\A s \in SeqIds : Agrees(s))'
    BY <1>1, <1>2, <1>6, ActivateKeeps
  <1>8. /\ active' = c /\ sq'[c] = q /\ \A t \in SeqIds : t # c => sq'[t] = sq[t]
    BY <1>1, <1>5 DEF Activate, SchedInv, SchedTyped
  <1>9. /\ q.phase = p.phase /\ q.done = p.done /\ q.req = p.req
        /\ q.phase = "Decoding" => sq[c].phase = "Decoding" /\ q.reason = sq[c].reason
    BY <1>2 DEF Promotes
  <1>10. StepOwned'
    <2>1. ASSUME NEW s \in SeqIds
          PROVE  /\ sq'[s].phase \in Running \cup {"Queued"} /\ tail_len'[s] # 0 => s = c
                 /\ sq'[s].phase = "Decoding" => sq'[s].reason = "None"
      BY <1>1, <1>6, <1>8, <1>9, IdleIsQuiet
    <2> QED
      BY <1>1, <1>4, <1>5, <1>6, <1>8, <1>9, <2>1 DEF StepOwned
  <1>11. StepCounted'
    BY <1>1 DEF SchedInv, StepCounted
  <1> QED
    BY <1>6, <1>7, <1>10, <1>11 DEF SchedInv

LEMMA InvStepPause ==
    ASSUME SchedInv, StepPause PROVE SchedInv'
  <1> DEFINE c == Candidate
  <1>1. /\ pc = "idle" /\ ~IsIdle /\ Plan(PromotedRecord).kind = "Decode"
        /\ paused' = c /\ active' = NoSeq
        /\ UNCHANGED <<vars, pc, sq, queued, finished, arrival_counter, fits, step_counter,
                       last_committed, in_flight>>
    BY DEF StepPause, StepCalled
  <1>2. UNCHANGED <<seqs, next_seq, ctx_len, tables, tail_len>>
    BY <1>1 DEF vars, seqVars
  <1>3. sq[c].phase = "Decoding"
    <2>1. Promotes(PromotedRecord)
      BY <1>1, PromotedPromotes
    <2>2. PromotedRecord.phase = "Decoding"
      BY <1>1, <2>1, PromotedRuns, PlanFacts DEF SchedInv, SchedTyped
    <2> QED
      BY <2>1, <2>2 DEF Promotes
  <1>4. /\ c \in SeqIds /\ c \in {active, paused} /\ c # NoSeq
        /\ active = NoSeq \/ c = active
        /\ paused = NoSeq \/ c = paused
    BY <1>1, <1>3, CandidateFacts, NoSeqIsNoId DEF Running
  <1>5. \A s \in SeqIds : s \in {active', paused'} <=> s \in {active, paused}
    BY <1>1, <1>4, NoSeqIsNoId
  <1>6. SchedTyped'
    BY <1>1, <1>4 DEF SchedInv, SchedTyped
  <1>7. Placed'
    BY <1>1, <1>2, <1>5 DEF SchedInv, Placed
  <1>8. (\A s \in SeqIds : Agrees(s))'
    BY <1>1, <1>2 DEF SchedInv, Agrees
  <1>9. Owned'
    BY <1>1, OwnedStutter DEF SchedInv
  <1>10. StepOwned'
    BY <1>1, <1>2, IdleIsQuiet DEF StepOwned
  <1>11. StepCounted'
    BY <1>1 DEF SchedInv, StepCounted
  <1> QED
    BY <1>6, <1>7, <1>8, <1>9, <1>10, <1>11 DEF SchedInv

-----------------------------------------------------------------------------
(* Failed and committed steps                                              *)

\* The active sequence of a step in progress, and everybody else.
LEMMA ActiveFacts ==
    ASSUME SchedInv, pc \in {"reserved", "device", "post", "finish"}
    PROVE  /\ active \in SeqIds /\ active \in seqs /\ active # NoSeq /\ paused = NoSeq
           /\ sq[active] \in Records /\ sq[active].phase \in Running
           /\ active \notin ToSet(queued) /\ Agrees(active) /\ sq[active].req \in Requests
  <1>1. active \in SeqIds /\ active # NoSeq
    BY DEF SchedInv, StepOwned, SchedTyped
  <1>2. sq[active].phase \in Running /\ active \in seqs /\ paused = NoSeq
    BY <1>1 DEF SchedInv, Placed
  <1>3. sq[active].phase # "Queued" /\ sq[active].phase # "Absent"
    BY <1>2 DEF Running
  <1>4. active \notin ToSet(queued)
    BY <1>1, <1>3 DEF SchedInv, Placed
  <1>5. Agrees(active)
    BY <1>1 DEF SchedInv
  <1>6. sq[active].req \in Requests
    BY <1>3, <1>5 DEF Agrees
  <1> QED
    BY <1>1, <1>2, <1>4, <1>5, <1>6 DEF SchedInv, SchedTyped

\* A commit of the active sequence that leaves it running with record q.
LEMMA CommitKeeps ==
    ASSUME SchedInv, pc \in {"reserved", "device", "post"}, NEW accepted \in Nat,
           Commit(active, accepted),
           NEW q \in Records, q.phase \in Running, sq' = [sq EXCEPT ![active] = q],
           Agrees(active)', q.phase = "Decoding" /\ q.reason # "None" => pc' = "finish",
           pc' \in {"idle", "finish", "log"},
           pc' = "finish" => q.phase = "Decoding" /\ q.reason # "None",
           UNCHANGED <<queued, active, paused, finished, arrival_counter, fits>>
    PROVE  Owned' /\ SchedTyped' /\ Placed' /\ (\A s \in SeqIds : Agrees(s))' /\ StepOwned'
  <1>1. /\ active \in SeqIds /\ active \in seqs /\ active # NoSeq
        /\ sq[active].phase \in Running
    BY ActiveFacts
  <1>2. /\ seqs' = seqs /\ next_seq' = next_seq /\ tail_len'[active] = 0
        /\ \A t \in SeqIds : t # active => /\ ctx_len'[t] = ctx_len[t]
                                           /\ tail_len'[t] = tail_len[t]
                                           /\ tables'[t] = tables[t]
        /\ Owned'
    BY <1>1, CommitEffect DEF SchedInv
  <1>3. sq \in [SeqIds -> Records]
    BY DEF SchedInv, SchedTyped
  <1>4. sq'[active] = q /\ \A t \in SeqIds : t # active => sq'[t] = sq[t]
    BY <1>1, <1>3
  <1>5. SchedTyped'
    <2>1. sq' \in [SeqIds -> Records]
      BY <1>3
    <2> QED
      BY <2>1 DEF SchedInv, SchedTyped
  <1>6. Placed'
    <2>1. \A s \in SeqIds : /\ sq'[s].phase \in Running <=> sq[s].phase \in Running
                            /\ sq'[s].phase \notin Running => sq'[s] = sq[s]
      BY <1>1, <1>4
    <2>2. {"Queued", "Finished", "Absent"} \cap Running = {}
      BY DEF Running
    <2>3. \A s \in SeqIds : \A ph \in {"Queued", "Finished", "Absent"} :
              sq'[s].phase = ph <=> sq[s].phase = ph
      BY <1>1, <1>4, <2>2
    <2> QED
      BY <1>2, <2>1, <2>3 DEF SchedInv, Placed
  <1>7. (\A s \in SeqIds : Agrees(s))'
    BY <1>2, <1>4, AgreesFrame DEF SchedInv
  <1>8. StepOwned'
    <2>1. ASSUME NEW s \in SeqIds
          PROVE  /\ sq'[s].phase \in Running \cup {"Queued"} => tail_len'[s] = 0
                 /\ sq'[s].phase = "Decoding" /\ sq'[s].reason # "None" =>
                       s = active' /\ pc' = "finish"
      BY <1>2, <1>4 DEF SchedInv, StepOwned
    <2> QED
      BY <1>1, <1>4, <2>1 DEF StepOwned
  <1> QED
    BY <1>2, <1>5, <1>6, <1>7, <1>8

LEMMA InvFailStep ==
    ASSUME SchedInv, pc \in {"reserved", "device", "post"}, FailStep(sq[active])
    PROVE  SchedInv'
  <1> DEFINE q == sq[active]
  <1>1. /\ Commit(active, 0) /\ sq' = [sq EXCEPT ![active] = q] /\ pc' = "idle"
        /\ in_flight' = NoFlight
        /\ UNCHANGED <<queued, active, paused, finished, arrival_counter, fits,
                       step_counter, last_committed>>
    BY DEF FailStep, failVars
  <1>2. /\ active \in SeqIds /\ q \in Records /\ q.phase \in Running /\ Agrees(active)
    BY ActiveFacts
  <1>3. q.phase = "Decoding" => q.reason = "None"
    BY <1>2 DEF SchedInv, StepOwned
  <1>4. sq' = sq
    BY <1>1 DEF SchedInv, SchedTyped
  <1>5. ctx_len'[active] = ctx_len[active]
    BY <1>1, <1>2, CommitEffect DEF SchedInv
  <1>6. Agrees(active)'
    BY <1>1, <1>2, <1>4, <1>5 DEF Agrees, Running, BudgetKept
  <1>7. Owned' /\ SchedTyped' /\ Placed' /\ (\A s \in SeqIds : Agrees(s))' /\ StepOwned'
    BY <1>1, <1>2, <1>3, <1>6, CommitKeeps
  <1>8. StepCounted'
    BY <1>1 DEF SchedInv, StepCounted
  <1> QED
    BY <1>7, <1>8 DEF SchedInv

LEMMA InvStepFails ==
    ASSUME SchedInv, StepFails PROVE SchedInv'
  BY InvFailStep DEF StepFails

LEMMA InvTokenRejected ==
    ASSUME SchedInv, TokenRejected PROVE SchedInv'
  BY InvFailStep DEF TokenRejected

LEMMA AppendedFacts ==
    ASSUME NEW q, q.generated \in Nat, q.req \in Requests, q.generated < q.req.max_tokens,
           NEW end \in Appended(q)
    PROVE  /\ end.generated \in Nat /\ end.reason \in Reasons
           /\ end.reason = "None" =>
                 end.generated = q.generated + 1 /\ end.generated < q.req.max_tokens
           /\ IF end.reason = "MaxTokens" THEN end.generated = q.req.max_tokens
                                          ELSE end.generated < q.req.max_tokens
  <1>1. q.req.max_tokens \in Nat
    BY SchedulerAssumption
  <1>2. CASE FillsBudget(q)
    <2>1. end = [generated |-> q.generated + 1, reason |-> "MaxTokens"]
      BY <1>2 DEF Appended
    <2>2. q.generated + 1 = q.req.max_tokens
      BY <1>1, <1>2 DEF FillsBudget
    <2> QED
      BY <1>1, <2>1, <2>2 DEF Reasons
  <1>3. CASE ~FillsBudget(q)
    <2>1. q.generated + 1 < q.req.max_tokens
      BY <1>1, <1>3 DEF FillsBudget
    <2>2. \/ end = [generated |-> q.generated + 1, reason |-> "None"]
          \/ end = [generated |-> q.generated + 1, reason |-> "Eos"]
          \/ \E cut \in 0 .. q.generated : end = [generated |-> cut, reason |-> "StopString"]
      BY <1>3 DEF Appended
    <2> QED
      BY <1>1, <2>1, <2>2 DEF Reasons
  <1> QED
    BY <1>2, <1>3

LEMMA InvPostSampled ==
    ASSUME SchedInv, NEW end \in Appended(sq[active]), PostSampled(end)
    PROVE  SchedInv'
  <1> DEFINE q == sq[active]
             n == in_flight.n
             r == Advanced(q, end)
  <1>1. /\ pc = "post" /\ SamplesToken(q) /\ Commit(active, n)
        /\ sq' = [sq EXCEPT ![active] = r] /\ last_committed' = in_flight.step
        /\ pc' = IF end.reason = "None" THEN "log" ELSE "finish"
        /\ in_flight' = NoFlight
        /\ UNCHANGED <<queued, active, paused, finished, arrival_counter, fits,
                       step_counter>>
    BY DEF PostSampled, Committed
  <1>2. /\ active \in SeqIds /\ q \in Records /\ q.phase \in Running /\ Agrees(active)
        /\ q.req \in Requests
    BY <1>1, ActiveFacts
  <1>3. /\ n = tail_len[active] /\ n \in Nat /\ in_flight.step = step_counter
    BY <1>1, <1>2, SizesAreNumbers
       DEF SchedInv, StepCounted, Owned, Typing, TypeOK
  <1>4. /\ q.phase = "Decoding" => n = 1
        /\ q.phase = "Prefilling" => q.done + n = q.req.prompt
    <2>1. q.phase = "Prefilling" => q.done + n <= q.req.prompt
      BY <1>1, <1>3 DEF SchedInv, StepOwned
    <2>2. q.phase = "Prefilling" => q.done + n >= q.req.prompt
      BY <1>1 DEF SamplesToken
    <2>3. q.done \in Nat /\ q.req.prompt \in Nat
      BY <1>2, SchedulerAssumption DEF Records
    <2>4. q.phase = "Decoding" => n = 1
      BY <1>1, <1>3 DEF SchedInv, StepOwned
    <2> QED
      BY <1>3, <2>1, <2>2, <2>3, <2>4
  <1>5. /\ q.reason = "None" /\ q.generated \in Nat /\ q.generated < q.req.max_tokens
        /\ ctx_len[active] + n = q.req.prompt + q.generated
    <2>1. q.req.max_tokens \in Nat \ {0} /\ q.req.prompt \in Nat /\ q.generated \in Nat
      BY <1>2, SchedulerAssumption DEF Records
    <2>2. CASE q.phase = "Prefilling"
      BY <1>2, <1>4, <2>1, <2>2 DEF Agrees
    <2>3. CASE q.phase = "Decoding"
      <3>1. q.reason = "None"
        BY <1>1, <1>2, <2>3 DEF SchedInv, StepOwned
      <3> QED
        BY <1>2, <1>4, <2>1, <2>3, <3>1 DEF Agrees
    <2> QED
      BY <1>2, <2>2, <2>3 DEF Running
  <1>6. /\ end.generated \in Nat /\ end.reason \in Reasons
        /\ end.reason = "None" =>
              end.generated = q.generated + 1 /\ end.generated < q.req.max_tokens
        /\ IF end.reason = "MaxTokens" THEN end.generated = q.req.max_tokens
                                       ELSE end.generated < q.req.max_tokens
    BY <1>2, <1>5, AppendedFacts
  <1>7. /\ r \in Records /\ r.phase = "Decoding" /\ r.ctx_len = q.ctx_len + n
        /\ r.generated = end.generated /\ r.reason = end.reason /\ r.req = q.req
    <2>1. r = [q EXCEPT !.phase = "Decoding", !.done = q.done, !.ctx_len = q.ctx_len + n,
                        !.generated = end.generated, !.reason = end.reason]
      BY <1>1 DEF Advanced
    <2>2. q.ctx_len + n \in Nat
      BY <1>2, <1>3 DEF Records
    <2> HIDE DEF q, r
    <2> QED
      BY <1>2, <1>6, <2>1, <2>2 DEF Records, Phases
  <1>8. ctx_len'[active] = ctx_len[active] + n
    BY <1>1, <1>2, <1>3, CommitEffect DEF SchedInv
  <1>9. sq'[active] = r
    BY <1>1, <1>2 DEF SchedInv, SchedTyped
  <1>10. q.ctx_len = ctx_len[active] /\ q.req.prompt \in Nat /\ q.req.max_tokens \in Nat
    BY <1>2, SchedulerAssumption DEF Agrees
  <1>11. Agrees(active)'
    <2> HIDE DEF r, q
    <2>1. active' = active
      BY <1>1
    <2>2. /\ sq'[active].phase = "Decoding" /\ sq'[active].req \in Requests
          /\ sq'[active].ctx_len = ctx_len'[active]
          /\ sq'[active].reason = "None" =>
                /\ ctx_len'[active] = sq'[active].req.prompt + sq'[active].generated - 1
                /\ sq'[active].generated \in 1 .. sq'[active].req.max_tokens - 1
          /\ IF sq'[active].reason = "MaxTokens"
             THEN sq'[active].generated = sq'[active].req.max_tokens
             ELSE sq'[active].generated < sq'[active].req.max_tokens
      BY <1>2, <1>5, <1>6, <1>7, <1>8, <1>9, <1>10
    <2> QED
      BY <2>1, <2>2 DEF Agrees, BudgetKept, Running
  <1>12. Owned' /\ SchedTyped' /\ Placed' /\ (\A s \in SeqIds : Agrees(s))' /\ StepOwned'
    <2> HIDE DEF r, q, n
    <2>1. /\ pc' \in {"idle", "finish", "log"} /\ r.phase \in Running
          /\ r.phase = "Decoding" /\ r.reason # "None" => pc' = "finish"
          /\ pc' = "finish" => r.phase = "Decoding" /\ r.reason # "None"
      BY <1>1, <1>7 DEF Running
    <2> QED
      BY <1>1, <1>3, <1>7, <1>11, <2>1, CommitKeeps
  <1>13. StepCounted'
    BY <1>1, <1>3 DEF SchedInv, StepCounted
  <1> QED
    BY <1>12, <1>13 DEF SchedInv

LEMMA InvPostIntermediate ==
    ASSUME SchedInv, PostIntermediate PROVE SchedInv'
  <1> DEFINE q == sq[active]
             n == in_flight.n
             end == [generated |-> 0, reason |-> "None"]
             r == Advanced(q, end)
  <1>1. /\ pc = "post" /\ ~SamplesToken(q) /\ Commit(active, n)
        /\ sq' = [sq EXCEPT ![active] = r] /\ last_committed' = in_flight.step
        /\ pc' = "log" /\ in_flight' = NoFlight
        /\ UNCHANGED <<queued, active, paused, finished, arrival_counter, fits,
                       step_counter>>
    BY DEF PostIntermediate, Committed
  <1>2. /\ active \in SeqIds /\ q \in Records /\ q.phase \in Running /\ Agrees(active)
        /\ q.req \in Requests
    BY <1>1, ActiveFacts
  <1>3. /\ n = tail_len[active] /\ n \in Nat /\ in_flight.step = step_counter
    BY <1>1, <1>2, SizesAreNumbers
       DEF SchedInv, StepCounted, Owned, Typing, TypeOK
  <1>4. q.done \in Nat /\ q.ctx_len \in Nat /\ q.req.prompt \in Nat
    BY <1>2, SchedulerAssumption DEF Records
  <1>5. q.phase = "Prefilling" /\ q.done + n < q.req.prompt
    BY <1>1, <1>2, <1>3, <1>4 DEF SamplesToken, Running
  <1>6. r = [q EXCEPT !.phase = "Prefilling", !.done = q.done + n,
                      !.ctx_len = q.ctx_len + n, !.generated = 0, !.reason = "None"]
    BY <1>1, <1>5 DEF Advanced
  <1>7. /\ r \in Records /\ r.phase = "Prefilling" /\ r.done = q.done + n
        /\ r.ctx_len = q.ctx_len + n /\ r.generated = 0 /\ r.reason = "None"
        /\ r.req = q.req
    <2>1. q.done + n \in Nat /\ q.ctx_len + n \in Nat
      BY <1>3, <1>4
    <2> HIDE DEF q, r, n
    <2> QED
      BY <1>2, <1>6, <2>1 DEF Records, Phases, Reasons
  <1>8. ctx_len'[active] = ctx_len[active] + n
    BY <1>1, <1>2, <1>3, CommitEffect DEF SchedInv
  <1>9. sq'[active] = r
    BY <1>1, <1>2 DEF SchedInv, SchedTyped
  <1>10. q.ctx_len = ctx_len[active] /\ ctx_len[active] = q.done
    BY <1>2, <1>5 DEF Agrees, Running
  <1>11. Agrees(active)'
    <2> HIDE DEF r, q
    <2>1. /\ active' = active
          /\ sq'[active].phase = "Prefilling" /\ sq'[active].req \in Requests
          /\ sq'[active].ctx_len = ctx_len'[active]
          /\ ctx_len'[active] = sq'[active].done
          /\ sq'[active].done < sq'[active].req.prompt
          /\ sq'[active].generated = 0 /\ sq'[active].reason = "None"
      BY <1>1, <1>2, <1>3, <1>4, <1>5, <1>7, <1>8, <1>9, <1>10
    <2> QED
      BY <2>1 DEF Agrees, Running
  <1>12. Owned' /\ SchedTyped' /\ Placed' /\ (\A s \in SeqIds : Agrees(s))' /\ StepOwned'
    <2> HIDE DEF r, q, n
    <2>1. pc' \in {"idle", "finish", "log"} /\ pc' # "finish" /\ r.phase \in Running
          /\ r.phase # "Decoding"
      BY <1>1, <1>7 DEF Running
    <2> QED
      BY <1>1, <1>3, <1>7, <1>11, <2>1, CommitKeeps
  <1>13. StepCounted'
    BY <1>1, <1>3 DEF SchedInv, StepCounted
  <1> QED
    BY <1>12, <1>13 DEF SchedInv

-----------------------------------------------------------------------------
(* Sequences that end                                                      *)

\* s leaves the queue or the slots with a result that keeps its budget.
LEMMA FinishKeeps ==
    ASSUME SchedInv, NEW s \in SeqIds, NEW reason \in Reasons, Finish(s, reason),
           sq[s].phase \in Running \cup {"Queued"},
           IF reason = "MaxTokens" THEN sq[s].generated = sq[s].req.max_tokens
                                   ELSE sq[s].generated < sq[s].req.max_tokens,
           queued' \in Seq(SeqIds), NoRepeats(queued'),
           ToSet(queued') = ToSet(queued) \ {s},
           active' \in {active, paused, NoSeq}, paused' \in {paused, NoSeq},
           active' # NoSeq => paused' = NoSeq,
           \A t \in SeqIds : t \in {active', paused'} <=> t \in {active, paused} /\ t # s,
           UNCHANGED <<arrival_counter, fits>>,
           pc' \in {"idle", "reserved", "device", "post", "finish", "log"}
    PROVE  /\ Owned' /\ SchedTyped' /\ Placed' /\ (\A t \in SeqIds : Agrees(t))'
           /\ sq'[s].phase = "Finished"
           /\ \A t \in SeqIds : t # s => sq'[t] = sq[t] /\ tail_len'[t] = tail_len[t]
  <1>1. /\ FreeSeq(s) /\ finished' = finished \cup {s}
        /\ sq' = [sq EXCEPT ![s].phase = "Finished", ![s].reason = reason]
    BY DEF Finish
  <1>2. /\ s \in seqs /\ seqs' = seqs \ {s} /\ next_seq' = next_seq
        /\ \A t \in SeqIds : t # s => /\ ctx_len'[t] = ctx_len[t]
                                      /\ tail_len'[t] = tail_len[t]
                                      /\ tables'[t] = tables[t]
        /\ Owned'
    BY <1>1, FreeFacts DEF SchedInv
  <1>3. sq \in [SeqIds -> Records]
    BY DEF SchedInv, SchedTyped
  <1> DEFINE r == [sq[s] EXCEPT !.phase = "Finished", !.reason = reason]
  <1>4. sq' = [sq EXCEPT ![s] = r]
    BY <1>1, <1>3
  <1>5. r \in Records /\ r.phase = "Finished" /\ r.reason = reason
        /\ r.generated = sq[s].generated /\ r.req = sq[s].req
    BY <1>3 DEF Records, Phases
  <1> HIDE DEF r
  <1>6. sq'[s] = r /\ \A t \in SeqIds : t # s => sq'[t] = sq[t]
    BY <1>3, <1>4
  <1>7. SchedTyped'
    <2>1. sq' \in [SeqIds -> Records]
      BY <1>3, <1>4, <1>5
    <2> QED
      BY <1>1, <2>1 DEF SchedInv, SchedTyped
  <1>8. Placed'
    <2>1. ASSUME NEW t \in SeqIds
          PROVE  /\ t \in ToSet(queued') <=> sq'[t].phase = "Queued"
                 /\ t \in {active', paused'} <=> sq'[t].phase \in Running
                 /\ sq'[t].phase \in Running \cup {"Queued"} => t \in seqs'
                 /\ sq'[t].phase = "Finished" => t \notin seqs'
                 /\ t \in finished' => sq'[t].phase = "Finished"
                 /\ sq'[t].phase # "Absent" => t < next_seq'
      <3>1. /\ t \in ToSet(queued) <=> sq[t].phase = "Queued"
            /\ t \in {active, paused} <=> sq[t].phase \in Running
            /\ sq[t].phase \in Running \cup {"Queued"} => t \in seqs
            /\ sq[t].phase = "Finished" => t \notin seqs
            /\ t \in finished => sq[t].phase = "Finished"
            /\ sq[t].phase # "Absent" => t < next_seq
        BY DEF SchedInv, Placed
      <3>2. CASE t = s
        BY <1>1, <1>2, <1>5, <1>6, <3>1, <3>2 DEF Running
      <3>3. CASE t # s
        <4>1. sq'[t] = sq[t] /\ (t \in seqs' <=> t \in seqs)
          BY <1>2, <1>6, <3>3
        <4>2. t \in {active', paused'} <=> t \in {active, paused}
          BY <3>3
        <4>3. t \in ToSet(queued') <=> t \in ToSet(queued)
          BY <3>3
        <4> QED
          BY <1>1, <1>2, <3>1, <3>3, <4>1, <4>2, <4>3
      <3> QED
        BY <3>2, <3>3
    <2> QED
      BY <2>1 DEF Placed
  <1>9. ASSUME NEW t \in SeqIds PROVE Agrees(t)'
    <2>1. CASE t # s
      BY <1>2, <1>6, <2>1, AgreesFrame DEF SchedInv
    <2>2. CASE t = s
      <3>1. Agrees(s) /\ sq[s].phase # "Absent"
        BY DEF SchedInv, Running
      <3> QED
        BY <1>5, <1>6, <2>2, <3>1 DEF Agrees, Running, BudgetKept
    <2> QED
      BY <2>1, <2>2
  <1> QED
    BY <1>2, <1>5, <1>6, <1>7, <1>8, <1>9

LEMMA InvFinishSequence ==
    ASSUME SchedInv, FinishSequence PROVE SchedInv'
  <1>1. /\ pc = "finish" /\ Finish(active, sq[active].reason) /\ active' = paused
        /\ paused' = NoSeq /\ pc' = "log"
        /\ UNCHANGED <<queued, arrival_counter, fits, step_counter, last_committed,
                       in_flight>>
    BY DEF FinishSequence, TryUnpause
  <1>2. /\ active \in SeqIds /\ paused = NoSeq /\ sq[active] \in Records
        /\ sq[active].phase \in Running /\ active \notin ToSet(queued) /\ Agrees(active)
    BY <1>1, ActiveFacts
  <1>3. sq[active].phase = "Decoding" /\ sq[active].reason # "None"
    BY <1>1 DEF SchedInv, StepOwned
  <1>4. BudgetKept(sq[active]) /\ sq[active].reason \in Reasons
    BY <1>2, <1>3 DEF Agrees, Records
  <1>5. /\ queued' \in Seq(SeqIds) /\ NoRepeats(queued')
        /\ ToSet(queued') = ToSet(queued) \ {active}
    BY <1>1, <1>2 DEF SchedInv, SchedTyped, Placed
  <1>6. \A t \in SeqIds : t \in {active', paused'} <=> t \in {active, paused} /\ t # active
    BY <1>1, <1>2, NoSeqIsNoId
  <1>7. /\ Owned' /\ SchedTyped' /\ Placed' /\ (\A t \in SeqIds : Agrees(t))'
        /\ sq'[active].phase = "Finished"
        /\ \A t \in SeqIds : t # active => sq'[t] = sq[t] /\ tail_len'[t] = tail_len[t]
    BY <1>1, <1>2, <1>4, <1>5, <1>6, FinishKeeps DEF BudgetKept
  <1>8. StepOwned'
    <2>1. ASSUME NEW t \in SeqIds
          PROVE  /\ sq'[t].phase \in Running \cup {"Queued"} => tail_len'[t] = 0
                 /\ sq'[t].phase = "Decoding" => sq'[t].reason = "None"
      BY <1>1, <1>7 DEF SchedInv, StepOwned, Running
    <2> QED
      BY <1>1, <2>1 DEF StepOwned
  <1>9. StepCounted'
    BY <1>1 DEF SchedInv, StepCounted
  <1> QED
    BY <1>7, <1>8, <1>9 DEF SchedInv

\* Before it ends, a sequence is below its token budget.
LEMMA BudgetLeft ==
    ASSUME SchedInv, pc = "idle", NEW s \in SeqIds, sq[s].phase \in Running \cup {"Queued"}
    PROVE  sq[s].generated < sq[s].req.max_tokens
  <1>1. Agrees(s) /\ sq[s].phase # "Absent"
    BY DEF SchedInv, Running
  <1>2. sq[s].req.max_tokens \in Nat \ {0}
    BY <1>1, SchedulerAssumption DEF Agrees
  <1>3. sq[s].phase = "Decoding" => sq[s].reason = "None"
    BY IdleIsQuiet
  <1> QED
    BY <1>1, <1>2, <1>3 DEF Agrees, Running

LEMMA InvCancelSequence ==
    ASSUME SchedInv, NEW s \in SeqIds, CancelSequence(s) PROVE SchedInv'
  <1>1. /\ pc = "idle" /\ pc' = "idle" /\ Finish(s, "Cancelled")
        /\ UNCHANGED <<arrival_counter, fits, step_counter, last_committed, in_flight>>
    BY DEF CancelSequence, CancelActive, CancelQueued, CancelPaused
  <1>2. /\ queued \in Seq(SeqIds) /\ NoRepeats(queued)
        /\ active # NoSeq => paused = NoSeq
        /\ s \in ToSet(queued) <=> sq[s].phase = "Queued"
        /\ s \in {active, paused} <=> sq[s].phase \in Running
        /\ s # NoSeq /\ "Queued" \notin Running
    BY NoSeqIsNoId DEF SchedInv, SchedTyped, Placed, Running
  <1>3. /\ sq[s].phase \in Running \cup {"Queued"}
        /\ queued' \in Seq(SeqIds) /\ NoRepeats(queued')
        /\ ToSet(queued') = ToSet(queued) \ {s}
        /\ active' \in {active, paused, NoSeq} /\ paused' \in {paused, NoSeq}
        /\ active' # NoSeq => paused' = NoSeq
        /\ \A t \in SeqIds : t \in {active', paused'} <=> t \in {active, paused} /\ t # s
    <2>1. CASE CancelActive(s)
      <3>1. active = s /\ active' = paused /\ paused' = NoSeq /\ queued' = queued
        BY <2>1 DEF CancelActive, TryUnpause
      <3> QED
        BY <1>2, <3>1, NoSeqIsNoId
    <2>2. CASE CancelQueued(s)
      <3>1. PICK pos \in 1 .. Len(queued) :
                queued[pos] = s /\ queued' = RemoveAt(queued, pos)
        BY <2>2 DEF CancelQueued
      <3>2. active' = active /\ paused' = paused
        BY <2>2 DEF CancelQueued
      <3>3. s \in ToSet(queued)
        BY <1>2, <3>1 DEF ToSet
      <3>4. /\ queued' \in Seq(SeqIds) /\ NoRepeats(queued')
            /\ ToSet(queued') = ToSet(queued) \ {s}
        BY <1>2, <3>1, QueueRemove
      <3> QED
        BY <1>2, <3>2, <3>3, <3>4
    <2>3. CASE CancelPaused(s)
      <3>1. paused = s /\ active' = active /\ paused' = NoSeq /\ queued' = queued
        BY <2>3 DEF CancelPaused
      <3> QED
        BY <1>2, <3>1, NoSeqIsNoId
    <2> QED
      BY <2>1, <2>2, <2>3 DEF CancelSequence
  <1>4. sq[s].generated < sq[s].req.max_tokens
    BY <1>1, <1>3, BudgetLeft
  <1>5. "Cancelled" \in Reasons /\ "Cancelled" # "MaxTokens"
    BY DEF Reasons
  <1>6. /\ Owned' /\ SchedTyped' /\ Placed' /\ (\A t \in SeqIds : Agrees(t))'
        /\ sq'[s].phase = "Finished"
        /\ \A t \in SeqIds : t # s => sq'[t] = sq[t] /\ tail_len'[t] = tail_len[t]
    BY <1>1, <1>3, <1>4, <1>5, FinishKeeps
  <1>7. StepOwned'
    <2>1. ASSUME NEW t \in SeqIds
          PROVE  /\ sq'[t].phase \in Running \cup {"Queued"} => tail_len'[t] = 0
                 /\ sq'[t].phase = "Decoding" => sq'[t].reason = "None"
      BY <1>1, <1>6, IdleIsQuiet DEF Running
    <2> QED
      BY <1>1, <2>1 DEF StepOwned
  <1>8. StepCounted'
    BY <1>1 DEF SchedInv, StepCounted
  <1> QED
    BY <1>6, <1>7, <1>8 DEF SchedInv

-----------------------------------------------------------------------------
(* New requests and the outside holder                                     *)

LEMMA InvEnqueueRequest ==
    ASSUME SchedInv, NEW req \in Requests, EnqueueRequest(req) PROVE SchedInv'
  <1> DEFINE r == [Absent EXCEPT !.phase = "Queued", !.req = req,
                                 !.arrival = arrival_counter + 1]
  <1> SUFFICES ASSUME NEW id, id = next_seq PROVE SchedInv'
    OBVIOUS
  <1>1. /\ pc = "idle" /\ pc' = "idle" /\ NewSeq(req.prompt)
        /\ arrival_counter' = arrival_counter + 1
        /\ sq' = [sq EXCEPT ![id] = r] /\ queued' = Append(queued, id)
        /\ UNCHANGED <<active, paused, finished, fits, step_counter, last_committed,
                       in_flight>>
    BY DEF EnqueueRequest
  <1>2. /\ id \in SeqIds /\ id \in Nat /\ id \notin seqs
        /\ seqs' = seqs \cup {id} /\ next_seq' = id + 1
        /\ ctx_len'[id] = 0 /\ tail_len'[id] = 0
        /\ tables'[id] = EmptyTable
        /\ \A t \in SeqIds : t # id => /\ ctx_len'[t] = ctx_len[t]
                                       /\ tail_len'[t] = tail_len[t]
                                       /\ tables'[t] = tables[t]
        /\ Owned'
    BY <1>1, NewSeqFacts DEF SchedInv
  <1>3. sq \in [SeqIds -> Records] /\ arrival_counter \in Nat
    BY DEF SchedInv, SchedTyped
  <1>4. /\ r \in Records /\ r.phase = "Queued" /\ r.ctx_len = 0 /\ r.done = 0
        /\ r.generated = 0 /\ r.reason = "None" /\ r.req = req
    <2>1. /\ Absent \in Records /\ Absent.ctx_len = 0 /\ Absent.done = 0
          /\ Absent.generated = 0 /\ Absent.reason = "None"
      BY DEF Absent, Records, Phases, Reasons
    <2>2. arrival_counter + 1 \in Nat /\ req \in Requests \cup {NoRequest}
      BY <1>3
    <2> QED
      BY <2>1, <2>2 DEF Records, Phases
  <1> HIDE DEF r
  <1>5. sq'[id] = r /\ \A t \in SeqIds : t # id => sq'[t] = sq[t]
    BY <1>1, <1>2, <1>3
  <1>6. sq[id].phase = "Absent"
    BY <1>2 DEF SchedInv, Placed
  <1>7. id \notin ToSet(queued) /\ id \notin {active, paused} /\ id \notin finished
    BY <1>2, <1>6 DEF SchedInv, Placed, Running
  <1>8. /\ queued' \in Seq(SeqIds) /\ NoRepeats(queued')
        /\ ToSet(queued') = ToSet(queued) \cup {id}
    BY <1>1, <1>2, <1>7, QueueAppend DEF SchedInv, SchedTyped, Placed
  <1>9. SchedTyped'
    <2>1. sq' \in [SeqIds -> Records]
      BY <1>1, <1>3, <1>4
    <2> QED
      BY <1>1, <1>3, <1>8, <2>1 DEF SchedInv, SchedTyped
  <1>10. Placed'
    <2>1. ASSUME NEW t \in SeqIds
          PROVE  /\ t \in ToSet(queued') <=> sq'[t].phase = "Queued"
                 /\ t \in {active', paused'} <=> sq'[t].phase \in Running
                 /\ sq'[t].phase \in Running \cup {"Queued"} => t \in seqs'
                 /\ sq'[t].phase = "Finished" => t \notin seqs'
                 /\ t \in finished' => sq'[t].phase = "Finished"
                 /\ sq'[t].phase # "Absent" => t < next_seq'
      <3>1. /\ t \in ToSet(queued) <=> sq[t].phase = "Queued"
            /\ t \in {active, paused} <=> sq[t].phase \in Running
            /\ sq[t].phase \in Running \cup {"Queued"} => t \in seqs
            /\ sq[t].phase = "Finished" => t \notin seqs
            /\ t \in finished => sq[t].phase = "Finished"
            /\ sq[t].phase # "Absent" => t < id
        BY DEF SchedInv, Placed
      <3>2. CASE t = id
        BY <1>1, <1>2, <1>4, <1>5, <1>7, <1>8, <3>2 DEF Running
      <3>3. CASE t # id
        <4>1. t \in Int
          BY DEF SeqIds
        <4> QED
          BY <1>1, <1>2, <1>5, <1>8, <3>1, <3>3, <4>1
      <3> QED
        BY <3>2, <3>3
    <2> QED
      BY <1>1, <1>8, <2>1 DEF SchedInv, Placed
  <1>11. ASSUME NEW t \in SeqIds PROVE Agrees(t)'
    <2>1. CASE t # id
      BY <1>2, <1>5, <2>1, AgreesFrame DEF SchedInv
    <2>2. CASE t = id
      BY <1>2, <1>4, <1>5, <2>2 DEF Agrees, Running
    <2> QED
      BY <2>1, <2>2
  <1>12. StepOwned'
    <2>1. ASSUME NEW t \in SeqIds
          PROVE  /\ sq'[t].phase \in Running \cup {"Queued"} => tail_len'[t] = 0
                 /\ sq'[t].phase = "Decoding" => sq'[t].reason = "None"
      BY <1>1, <1>2, <1>4, <1>5, IdleIsQuiet
    <2> QED
      BY <1>1, <2>1 DEF StepOwned
  <1>13. StepCounted'
    BY <1>1 DEF SchedInv, StepCounted
  <1> QED
    BY <1>2, <1>9, <1>10, <1>11, <1>12, <1>13 DEF SchedInv

\* An operation of the manager on a sequence s the scheduler does not know.
LEMMA ForeignStep ==
    ASSUME SchedInv, pc = "idle", Owned', NEW s \in SeqIds, sq[s].phase = "Absent",
           UNCHANGED <<pc, sq, queued, active, paused, finished, arrival_counter, fits,
                       step_counter, last_committed>>,
           in_flight' = NoFlight, next_seq' \in {next_seq, next_seq + 1},
           \A t \in SeqIds : t # s => /\ t \in seqs' <=> t \in seqs
                                      /\ ctx_len'[t] = ctx_len[t]
                                      /\ tail_len'[t] = tail_len[t]
                                      /\ tables'[t] = tables[t]
    PROVE  SchedInv'
  <1>1. SchedTyped'
    BY DEF SchedInv, SchedTyped
  <1>2. next_seq \in Nat
    BY DEF SchedInv, Owned, Typing, TypeOK, IdsAllocated
  <1>3. Placed'
    <2>1. ASSUME NEW t \in SeqIds
          PROVE  /\ t \in ToSet(queued') <=> sq'[t].phase = "Queued"
                 /\ t \in {active', paused'} <=> sq'[t].phase \in Running
                 /\ sq'[t].phase \in Running \cup {"Queued"} => t \in seqs'
                 /\ sq'[t].phase = "Finished" => t \notin seqs'
                 /\ t \in finished' => sq'[t].phase = "Finished"
                 /\ sq'[t].phase # "Absent" => t < next_seq'
      <3>1. /\ t \in ToSet(queued) <=> sq[t].phase = "Queued"
            /\ t \in {active, paused} <=> sq[t].phase \in Running
            /\ sq[t].phase \in Running \cup {"Queued"} => t \in seqs
            /\ sq[t].phase = "Finished" => t \notin seqs
            /\ t \in finished => sq[t].phase = "Finished"
            /\ sq[t].phase # "Absent" => t < next_seq
        BY DEF SchedInv, Placed
      <3>2. t \in Int
        BY DEF SeqIds
      <3> QED
        BY <1>2, <3>1, <3>2 DEF Running
    <2> QED
      BY <2>1 DEF SchedInv, Placed
  <1>4. ASSUME NEW t \in SeqIds PROVE Agrees(t)'
    <2>1. CASE t # s
      BY <2>1, AgreesFrame DEF SchedInv
    <2>2. CASE t = s
      BY <2>2 DEF Agrees, Running
    <2> QED
      BY <2>1, <2>2
  <1>5. StepOwned'
    <2>1. ASSUME NEW t \in SeqIds
          PROVE  /\ sq'[t].phase \in Running \cup {"Queued"} => tail_len'[t] = 0
                 /\ sq'[t].phase = "Decoding" => sq'[t].reason = "None"
      BY IdleIsQuiet DEF Running
    <2> QED
      BY <2>1 DEF StepOwned
  <1>6. StepCounted'
    BY DEF SchedInv, StepCounted
  <1> QED
    BY <1>1, <1>3, <1>4, <1>5, <1>6 DEF SchedInv

LEMMA SeqsAreIds == ASSUME SchedInv PROVE seqs \subseteq SeqIds
  BY DEF SchedInv, Owned, Typing, TypeOK

LEMMA InvAbortOpenReservation ==
    ASSUME SchedInv, NEW s \in seqs, AbortOpenReservation(s) PROVE SchedInv'
  <1>1. /\ pc = "idle" /\ tail_len[s] # 0 /\ Commit(s, 0) /\ in_flight' = NoFlight
        /\ UNCHANGED <<pc, sq, queued, active, paused, finished, arrival_counter, fits,
                       step_counter, last_committed>>
    BY DEF AbortOpenReservation
  <1>2. s \in SeqIds /\ sq[s] \in Records
    BY SeqsAreIds DEF SchedInv, SchedTyped
  <1>3. sq[s].phase = "Absent"
    <2>1. sq[s].phase \notin Running \cup {"Queued"}
      BY <1>1, <1>2, IdleIsQuiet
    <2>2. sq[s].phase # "Finished"
      BY <1>2 DEF SchedInv, Placed
    <2> QED
      BY <1>2, <2>1, <2>2 DEF Records, Phases, Running
  <1> QED
    BY <1>1, <1>2, <1>3, CommitEffect, ForeignStep DEF SchedInv

LEMMA InvOutsideNew ==
    ASSUME SchedInv, OutsideNew PROVE SchedInv'
  <1> SUFFICES ASSUME NEW id, id = next_seq PROVE SchedInv'
    OBVIOUS
  <1>1. /\ pc = "idle" /\ NewSeq(0)
        /\ UNCHANGED <<pc, sq, queued, active, paused, finished, arrival_counter, fits,
                       step_counter, last_committed, in_flight>>
    BY DEF OutsideNew
  <1>2. /\ id \in SeqIds /\ id \in Nat /\ seqs' = seqs \cup {id} /\ next_seq' = id + 1
        /\ \A t \in SeqIds : t # id => /\ ctx_len'[t] = ctx_len[t]
                                       /\ tail_len'[t] = tail_len[t]
                                       /\ tables'[t] = tables[t]
        /\ Owned'
    BY <1>1, NewSeqFacts DEF SchedInv
  <1>3. sq[id].phase = "Absent"
    BY <1>2 DEF SchedInv, Placed
  <1>4. in_flight' = NoFlight
    BY <1>1 DEF SchedInv, StepCounted
  <1> QED
    BY <1>1, <1>2, <1>3, <1>4, ForeignStep

LEMMA InvOutsideHold ==
    ASSUME SchedInv, NEW s \in OutsideSeqs, NEW n \in 1 .. MaxCtx, OutsideHold(s, n)
    PROVE  SchedInv'
  <1>1. /\ pc = "idle" /\ Reserve(s, n)
        /\ UNCHANGED <<pc, sq, queued, active, paused, finished, arrival_counter, fits,
                       step_counter, last_committed, in_flight>>
    BY DEF OutsideHold, schedVars
  <1>2. s \in SeqIds /\ sq[s].phase = "Absent" /\ n \in Nat
    BY SeqsAreIds DEF OutsideSeqs
  <1>3. in_flight' = NoFlight
    BY <1>1 DEF SchedInv, StepCounted
  <1> QED
    BY <1>1, <1>2, <1>3, ReserveEffect, ForeignStep DEF SchedInv

LEMMA InvOutsideFree ==
    ASSUME SchedInv, NEW s \in OutsideSeqs, OutsideFree(s) PROVE SchedInv'
  <1>1. /\ pc = "idle" /\ FreeSeq(s)
        /\ UNCHANGED <<pc, sq, queued, active, paused, finished, arrival_counter, fits,
                       step_counter, last_committed, in_flight>>
    BY DEF OutsideFree, schedVars
  <1>2. s \in SeqIds /\ sq[s].phase = "Absent"
    BY SeqsAreIds DEF OutsideSeqs
  <1>3. in_flight' = NoFlight
    BY <1>1 DEF SchedInv, StepCounted
  <1> QED
    BY <1>1, <1>2, <1>3, FreeFacts, ForeignStep DEF SchedInv

-----------------------------------------------------------------------------
(* The invariant is inductive                                              *)

LEMMA SchedInvStutter ==
    ASSUME SchedInv, UNCHANGED allVars PROVE SchedInv'
  <1>1. UNCHANGED vars /\ UNCHANGED schedVars
    BY DEF allVars
  <1>2. /\ UNCHANGED <<sq, queued, active, paused, arrival_counter, fits, finished, pc,
                       step_counter, last_committed, in_flight>>
        /\ UNCHANGED tail_len
    BY <1>1 DEF schedVars, vars, seqVars
  <1>3. pc' \in {"idle", "reserved", "device", "post", "finish", "log"}
    BY <1>2 DEF SchedInv, SchedTyped
  <1>4. Owned' /\ SchedTyped' /\ Placed' /\ (\A s \in SeqIds : Agrees(s))'
    BY <1>1, <1>2, <1>3, SameSequences
  <1>5. StepOwned' /\ StepCounted'
    BY <1>2 DEF SchedInv, StepOwned, StepCounted
  <1> QED
    BY <1>4, <1>5 DEF SchedInv

LEMMA SchedInvStep == SchedInv /\ [SchedNext]_allVars => SchedInv'
  <1> SUFFICES ASSUME SchedInv, [SchedNext]_allVars PROVE SchedInv'
    OBVIOUS
  <1>1. CASE Step
    <2>1. CASE StepWait
      BY <2>1, InvStepWait
    <2>2. CASE StepReserve
      BY <2>2, InvStepReserve
    <2>3. CASE StepPause
      BY <2>3, InvStepPause
    <2>4. CASE StepPrefillBlocked
      BY <2>4, InvStepPrefillBlocked
    <2>5. CASE StepRefused
      BY <2>5, InvStepRefused
    <2>6. CASE AssignStep
      BY <2>6, InvAssignStep
    <2>7. CASE DeviceCompletes
      BY <2>7, InvDeviceCompletes
    <2>8. CASE StepFails
      BY <2>8, InvStepFails
    <2>9. CASE TokenRejected
      BY <2>9, InvTokenRejected
    <2>10. CASE \E end \in Appended(sq[active]) : PostSampled(end)
      BY <2>10, InvPostSampled
    <2>11. CASE PostIntermediate
      BY <2>11, InvPostIntermediate
    <2>12. CASE FinishSequence
      BY <2>12, InvFinishSequence
    <2>13. CASE AppendRecord
      BY <2>13, InvAppendRecord
    <2> QED
      BY <1>1, <2>1, <2>2, <2>3, <2>4, <2>5, <2>6, <2>7, <2>8, <2>9, <2>10, <2>11,
         <2>12, <2>13 DEF Step
  <1>2. CASE \E req \in Requests : EnqueueRequest(req)
    BY <1>2, InvEnqueueRequest
  <1>3. CASE \E s \in SeqIds : CancelSequence(s) \/ TakeFinishedResult(s)
    BY <1>3, InvCancelSequence, InvTakeFinishedResult
  <1>4. CASE \E s \in seqs : AbortOpenReservation(s)
    BY <1>4, InvAbortOpenReservation
  <1>5. CASE OutsideNew
    BY <1>5, InvOutsideNew
  <1>6. CASE \E s \in OutsideSeqs : OutsideFree(s) \/ \E n \in 1 .. MaxCtx : OutsideHold(s, n)
    BY <1>6, InvOutsideFree, InvOutsideHold
  <1>7. CASE UNCHANGED allVars
    BY <1>7, SchedInvStutter
  <1> QED
    BY <1>1, <1>2, <1>3, <1>4, <1>5, <1>6, <1>7 DEF SchedNext

\* In every reachable state a sequence is placed by its phase, its record agrees
\* with the manager, and at most one step is open.
THEOREM SchedInvHolds == SchedSpec => []SchedInv
  <1>1. SchedInit => SchedInv
    BY SchedInvInit
  <1>2. SchedInv /\ [SchedNext]_allVars => SchedInv'
    BY SchedInvStep
  <1> QED
    BY <1>1, <1>2, PTL DEF SchedSpec

-----------------------------------------------------------------------------
(* No sequence is lost or kept twice                                       *)

LEMMA PlacedOwns == SchedInv => SequenceOwnership
  <1> SUFFICES ASSUME SchedInv PROVE SequenceOwnership
    OBVIOUS
  <1>1. \A s \in SeqIds :
            /\ s \in ToSet(queued) <=> sq[s].phase = "Queued"
            /\ s \in {active, paused} <=> sq[s].phase \in Running
            /\ sq[s].phase \in Running \cup {"Queued"} => s \in seqs
            /\ sq[s].phase = "Finished" => s \notin seqs
            /\ s \in finished => sq[s].phase = "Finished"
    BY DEF SchedInv, Placed
  <1>2. /\ active \in SeqIds \cup {NoSeq} /\ paused \in SeqIds \cup {NoSeq}
        /\ finished \subseteq SeqIds
        /\ \A s \in SeqIds : sq[s].phase \in Phases
    BY DEF SchedInv, SchedTyped, Records
  <1>3. ToSet(queued) \subseteq SeqIds
    BY ElementOfSeq, LenProperties DEF SchedInv, SchedTyped, ToSet
  <1>4. \A i, j \in 1 .. Len(queued) : queued[i] = queued[j] => i = j
    BY DEF SchedInv, Placed, NoRepeats
  <1>5. active = paused => active = NoSeq
    BY DEF SchedInv, Placed
  <1>6. {active, paused} \cap ToSet(queued) = {}
    BY <1>1, <1>3 DEF Running
  <1> DEFINE Live == {s \in Known : sq[s].phase # "Finished"}
  <1>7. \A s : s \in Live <=> s \in SeqIds /\ sq[s].phase \in Running \cup {"Queued"}
    BY <1>2 DEF Known, Phases, Running
  <1>8. ToSet(queued) \cup ({active, paused} \ {NoSeq}) = Live
    <2>1. ASSUME NEW x \in ToSet(queued) \cup ({active, paused} \ {NoSeq}) PROVE x \in Live
      BY <1>1, <1>2, <1>3, <1>7
    <2>2. ASSUME NEW x \in Live PROVE x \in ToSet(queued) \cup ({active, paused} \ {NoSeq})
      BY <1>1, <1>7, NoSeqIsNoId
    <2> QED
      BY <2>1, <2>2
  <1>9. Live = Known \cap seqs
    BY <1>1, <1>2, <1>7 DEF Known, Phases, Running
  <1>10. finished \subseteq {s \in Known : sq[s].phase = "Finished"}
    BY <1>1, <1>2 DEF Known
  <1> QED
    BY <1>4, <1>5, <1>6, <1>8, <1>9, <1>10 DEF SequenceOwnership

\* Whatever fail_step, cancel_sequence, the finish path and promotion do, for
\* every number of requests: an unfinished request sits in exactly one of queue,
\* active slot and paused slot and is live in the manager, a finished one in none.
THEOREM SequenceOwnershipHolds == SchedSpec => []SequenceOwnership
  BY SchedInvHolds, PlacedOwns, PTL

-----------------------------------------------------------------------------
(* The two views of a sequence agree                                       *)

LEMMA InvAgrees == SchedInv => SequencesAgree
  <1> SUFFICES ASSUME SchedInv PROVE SequencesAgree
    OBVIOUS
  <1>1. \A s \in SeqIds : Agrees(s)
    BY DEF SchedInv
  <1>2. \A s \in Known \cap seqs :
            s \in SeqIds /\ sq[s].phase \in Running \cup {"Queued"}
    BY DEF Known, SchedInv, Placed, SchedTyped, Records, Phases, Running
  <1>3. ContextAgrees
    BY <1>1, <1>2 DEF ContextAgrees, Agrees
  <1>4. ReservationOwned
    <2>1. \A s \in Known \cap seqs :
              tail_len[s] # 0 => s = active /\ pc \in {"reserved", "device", "post"}
      BY <1>2 DEF SchedInv, StepOwned
    <2> QED
      BY <2>1 DEF ReservationOwned, SchedInv, StepCounted
  <1>5. TokenBudgetExact
    BY <1>1 DEF TokenBudgetExact, Agrees, BudgetKept, Known
  <1> QED
    BY <1>3, <1>4, <1>5 DEF SequencesAgree

\* Through chunks, failed steps, rejected tokens and cancellations, the
\* scheduler's context length is the manager's, no reservation is stranded, and
\* no sequence keeps a token more than it asked for.
THEOREM SequencesAgreeHolds == SchedSpec => []SequencesAgree
  BY SchedInvHolds, InvAgrees, PTL

-----------------------------------------------------------------------------
(* A step commits once                                                     *)

CommitStep ==
    \A s \in Known \cap seqs \cap seqs' :
        ctx_len'[s] # ctx_len[s] =>
            /\ last_committed' > last_committed
            /\ ctx_len'[s] = ctx_len[s] + in_flight.n

\* Commit(s, 0) moves no context.
LEMMA ZeroCommit ==
    ASSUME SchedInv, NEW s \in SeqIds, Commit(s, 0) PROVE CommitStep
  <1>1. \A t \in SeqIds : ctx_len'[t] = ctx_len[t]
    BY CommitEffect DEF SchedInv
  <1> QED
    BY <1>1 DEF CommitStep, Known

LEMMA PostCommit ==
    ASSUME SchedInv, pc = "post", Commit(active, in_flight.n),
           last_committed' = in_flight.step
    PROVE  CommitStep
  <1>1. /\ active \in SeqIds /\ in_flight.n = tail_len[active] /\ in_flight.n \in Nat
        /\ in_flight.step = step_counter /\ last_committed < step_counter
    BY ActiveFacts, SizesAreNumbers DEF SchedInv, StepCounted, Owned, Typing, TypeOK
  <1>2. /\ ctx_len'[active] = ctx_len[active] + in_flight.n
        /\ \A t \in SeqIds : t # active => ctx_len'[t] = ctx_len[t]
    BY <1>1, CommitEffect DEF SchedInv
  <1>3. last_committed \in Nat /\ step_counter \in Nat
    BY DEF SchedInv, StepCounted
  <1> QED
    BY <1>1, <1>2, <1>3 DEF CommitStep, Known

LEMMA StepCommits == SchedInv /\ SchedNext => CommitStep
  <1> SUFFICES ASSUME SchedInv, SchedNext PROVE CommitStep
    OBVIOUS
  <1>1. ASSUME ctx_len' = ctx_len PROVE CommitStep
    BY <1>1 DEF CommitStep
  <1>2. ASSUME UNCHANGED vars PROVE CommitStep
    BY <1>1, <1>2 DEF vars, seqVars
  <1>3. ASSUME NEW s \in SeqIds, FreeSeq(s) PROVE CommitStep
    <2>1. /\ seqs' = seqs \ {s} /\ \A t \in SeqIds : t # s => ctx_len'[t] = ctx_len[t]
      BY <1>3, FreeFacts DEF SchedInv
    <2> QED
      BY <2>1 DEF CommitStep, Known
  <1>4. ASSUME NEW len, NewSeq(len) PROVE CommitStep
    <2>1. /\ next_seq \notin seqs
          /\ \A t \in SeqIds : t # next_seq => ctx_len'[t] = ctx_len[t]
      BY <1>4, NewSeqFacts DEF SchedInv
    <2> QED
      BY <2>1 DEF CommitStep, Known
  <1>5. ASSUME pc \in {"reserved", "device", "post"}, FailStep(sq[active]) PROVE CommitStep
    BY <1>5, ActiveFacts, ZeroCommit DEF FailStep
  <1>6. CASE StepWait \/ StepPause \/ StepPrefillBlocked \/ StepRefused
             \/ AssignStep \/ DeviceCompletes \/ AppendRecord
    BY <1>2, <1>6 DEF StepWait, StepPause, StepPrefillBlocked, StepRefused, AssignStep,
                      DeviceCompletes, AppendRecord
  <1>7. CASE StepReserve
    BY <1>1, <1>7 DEF StepReserve, Reserve
  <1>8. CASE StepFails \/ TokenRejected
    BY <1>5, <1>8 DEF StepFails, TokenRejected
  <1>9. CASE PostIntermediate \/ \E end \in Appended(sq[active]) : PostSampled(end)
    BY <1>9, PostCommit DEF PostIntermediate, PostSampled, Committed
  <1>10. CASE FinishSequence
    BY <1>3, <1>10, ActiveFacts DEF FinishSequence, Finish
  <1>11. CASE \E req \in Requests : EnqueueRequest(req)
    BY <1>4, <1>11 DEF EnqueueRequest
  <1>12. CASE \E s \in SeqIds : CancelSequence(s)
    BY <1>3, <1>12 DEF CancelSequence, CancelActive, CancelQueued, CancelPaused, Finish
  <1>13. CASE \E s \in SeqIds : TakeFinishedResult(s)
    BY <1>2, <1>13 DEF TakeFinishedResult
  <1>14. CASE \E s \in seqs : AbortOpenReservation(s)
    BY <1>14, SeqsAreIds, ZeroCommit DEF AbortOpenReservation
  <1>15. CASE OutsideNew
    BY <1>4, <1>15 DEF OutsideNew
  <1>16. CASE \E s \in OutsideSeqs : OutsideFree(s)
    BY <1>3, <1>16, SeqsAreIds DEF OutsideFree, OutsideSeqs
  <1>17. CASE \E s \in OutsideSeqs : \E n \in 1 .. MaxCtx : OutsideHold(s, n)
    BY <1>1, <1>17 DEF OutsideHold, Reserve
  <1> QED
    BY <1>6, <1>7, <1>8, <1>9, <1>10, <1>11, <1>12, <1>13, <1>14, <1>15, <1>16, <1>17
       DEF SchedNext, Step

\* Verified context grows only by the open step's tokens and only under a StepId
\* larger than every one committed before: no retry and no stale readback
\* commits a step twice.
THEOREM CommitsOnceHolds == SchedSpec => CommitsOnce
  <1>1. SchedInv /\ [SchedNext]_allVars => [CommitStep]_allVars
    BY StepCommits
  <1>2. SchedSpec => [][CommitStep]_allVars
    BY <1>1, SchedInvHolds, PTL DEF SchedSpec
  <1> QED
    BY <1>2, PTL DEF CommitsOnce, CommitStep

-----------------------------------------------------------------------------
(* A decode is paused only under an outside holder                         *)

PauseStep ==
    paused' # NoSeq /\ paused' # paused =>
        \E t \in OutsideSeqs : \E g \in PagedGroups : Held(t, g) # {}

LEMMA StepPauseHolder ==
    ASSUME SchedInv, StepPause
    PROVE  \E t \in OutsideSeqs : \E g \in PagedGroups : Held(t, g) # {}
  <1> DEFINE c == Candidate
  <1>1. /\ ~IsIdle /\ pc = "idle" /\ Plan(PromotedRecord).kind = "Decode"
        /\ ReserveResult(c, Plan(PromotedRecord).n) = "PoolExhausted"
    BY DEF StepPause, StepCalled, ReserveAnswer
  <1>2. /\ c \in SeqIds /\ c \in seqs
        /\ active = NoSeq \/ c = active
        /\ paused = NoSeq \/ c = paused
    BY <1>1, CandidateFacts
  <1>3. Plan(PromotedRecord).n \in Nat
    BY <1>1, PromotedPromotes, PromotedRuns, PlanFacts DEF SchedInv, SchedTyped
  <1> DEFINE n == Plan(PromotedRecord).n
  <1> HIDE DEF n
  <1>4. PICK g \in PagedGroups : Cardinality(Missing(c, g, n)) > Cardinality(free[g])
    BY <1>1 DEF ReserveResult, n
  <1>5. IsFiniteSet(Missing(c, g, n)) /\ IsFiniteSet(free[g])
    <2>1. IsFiniteSet(Indices) /\ IsFiniteSet(Blocks)
      BY FS_Interval, SizesAssumption DEF Indices, Blocks
    <2>2. Missing(c, g, n) \in SUBSET Indices /\ free[g] \in SUBSET Blocks
      BY DEF Missing, SchedInv, Owned, Typing, TypeOK
    <2> QED
      BY <2>1, <2>2, FS_Subset
  <1>6. ~(Cardinality(Missing(c, g, n)) <= Cardinality(free[g]))
    BY <1>4, <1>5, FS_CardinalityType
  <1>7. Owned /\ n \in Nat
    BY <1>3 DEF SchedInv, n
  <1>8. \E t \in seqs \ {c} : Held(t, g) # {}
    BY <1>2, <1>6, <1>7, SoleHolderServed
  <1>9. PICK t \in seqs \ {c} : Held(t, g) # {}
    BY <1>8
  <1>10. t \in SeqIds /\ sq[t].phase \in Phases
    BY SeqsAreIds DEF SchedInv, SchedTyped, Records
  <1>11. sq[t].phase # "Finished"
    BY <1>9, <1>10 DEF SchedInv, Placed
  <1>12. sq[t].phase \notin Running
    <2>1. t \notin {active, paused}
      BY <1>2, <1>9, <1>10, NoSeqIsNoId
    <2> QED
      BY <1>10, <2>1 DEF SchedInv, Placed
  <1>13. sq[t].phase # "Queued"
    <2>1. tables[t] = EmptyTable => Held(t, g) = {}
      BY DEF EmptyTable, Held
    <2> QED
      BY <1>9, <1>10, <2>1 DEF SchedInv, Agrees
  <1>14. t \in OutsideSeqs
    BY <1>9, <1>10, <1>11, <1>12, <1>13 DEF OutsideSeqs, Phases, Running
  <1> QED
    BY <1>9, <1>14

LEMMA StepPauses == SchedInv /\ SchedNext => PauseStep
  <1> SUFFICES ASSUME SchedInv, SchedNext, paused' # NoSeq, paused' # paused
               PROVE  \E t \in OutsideSeqs : \E g \in PagedGroups : Held(t, g) # {}
    BY DEF PauseStep
  <1>1. ASSUME NEW q, Activate(q) PROVE FALSE
    BY <1>1 DEF Activate
  <1>2. ~ (StepWait \/ StepPrefillBlocked \/ StepRefused \/ StepReserve)
    BY <1>1 DEF StepWait, StepPrefillBlocked, StepRefused, StepReserve
  <1>3. ~ (AssignStep \/ DeviceCompletes \/ AppendRecord \/ StepFails \/ TokenRejected
           \/ PostIntermediate \/ \E end \in Appended(sq[active]) : PostSampled(end))
    BY DEF AssignStep, DeviceCompletes, AppendRecord, StepFails, TokenRejected, FailStep,
           failVars, PostIntermediate, PostSampled, Committed
  <1>4. ~FinishSequence
    BY DEF FinishSequence, TryUnpause
  <1>5. ~ \E req \in Requests : EnqueueRequest(req)
    BY DEF EnqueueRequest
  <1>6. ~ \E s \in SeqIds : CancelSequence(s) \/ TakeFinishedResult(s)
    BY DEF CancelSequence, CancelActive, CancelQueued, CancelPaused, TryUnpause,
           TakeFinishedResult
  <1>7. ~ \E s \in seqs : AbortOpenReservation(s)
    BY DEF AbortOpenReservation
  <1>8. ~OutsideNew /\ ~ \E s \in OutsideSeqs :
                            OutsideFree(s) \/ \E n \in 1 .. MaxCtx : OutsideHold(s, n)
    BY DEF OutsideNew, OutsideFree, OutsideHold, schedVars
  <1>9. StepPause
    BY <1>2, <1>3, <1>4, <1>5, <1>6, <1>7, <1>8 DEF SchedNext, Step
  <1> QED
    BY <1>9, StepPauseHolder

\* Memory pressure comes from outside the scheduler: whatever the pools, chunks
\* and requests, a decode is paused only while a sequence the scheduler does not
\* know holds blocks.
THEOREM PauseNeedsHolder == SchedSpec => PauseNeedsOutsideHolder
  <1>1. SchedInv /\ [SchedNext]_allVars => [PauseStep]_allVars
    BY StepPauses
  <1>2. SchedSpec => [][PauseStep]_allVars
    BY <1>1, SchedInvHolds, PTL DEF SchedSpec
  <1> QED
    BY <1>2, PTL DEF PauseNeedsOutsideHolder, PauseStep

-----------------------------------------------------------------------------
(* First come, first served                                                *)

Serving == IF active # NoSeq THEN active ELSE paused

\* What the scheduler's variables must show: a step of the first-come server, or
\* nothing it can see.
FifoStep == Fifo!FifoNext \/ UNCHANGED <<queued, Serving, finished>>

LEMMA SameOperators ==
    /\ \A S : Fifo!Cardinality(S) = Cardinality(S)
    /\ \A q : Fifo!ToSet(q) = ToSet(q)
    /\ \A q, k : Fifo!RemoveAt(q, k) = RemoveAt(q, k)
  <1>1. ASSUME NEW S PROVE Fifo!Cardinality(S) = Cardinality(S)
    BY DEF Fifo!Cardinality, Cardinality
  <1>2. ASSUME NEW q PROVE Fifo!ToSet(q) = ToSet(q)
    BY DEF Fifo!ToSet, ToSet
  <1>3. ASSUME NEW q, NEW k PROVE Fifo!RemoveAt(q, k) = RemoveAt(q, k)
    BY DEF Fifo!RemoveAt, RemoveAt
  <1> QED
    BY <1>1, <1>2, <1>3

\* At most one slot is occupied, so the scheduler's count of outstanding
\* requests is the server's.
LEMMA OutstandingAgrees ==
    ASSUME SchedInv, OutstandingCount < MaxOutstanding
    PROVE  Fifo!Outstanding < MaxOutstanding
  <1> DEFINE slots == {active, paused} \ {NoSeq}
             card  == Cardinality(slots)
             kept  == Cardinality(finished)
             lined == Len(queued)
  <1>1. active # NoSeq => paused = NoSeq
    BY DEF SchedInv, Placed
  <1>2. card = IF Serving = NoSeq THEN 0 ELSE 1
    <2>1. CASE Serving = NoSeq
      BY <1>1, <2>1, FS_EmptySet DEF Serving
    <2>2. CASE Serving # NoSeq
      <3>1. slots = {Serving}
        BY <1>1, <2>2 DEF Serving
      <3> QED
        BY <2>2, <3>1, FS_Singleton
    <2> QED
      BY <2>1, <2>2
  <1>3. lined \in Nat /\ kept \in Nat
    <2>1. IsFiniteSet(SeqIds)
      BY FS_Interval, SizesAssumption DEF SeqIds
    <2>2. IsFiniteSet(finished)
      BY <2>1, FS_Subset DEF SchedInv, SchedTyped
    <2> QED
      BY <2>2, FS_CardinalityType, LenProperties DEF SchedInv, SchedTyped
  <1>4. OutstandingCount = kept + lined + card
    BY DEF OutstandingCount
  <1>5. Fifo!Outstanding = lined + kept + (IF Serving = NoSeq THEN 0 ELSE 1)
    <2>1. Fifo!Cardinality(finished) = kept
      BY SameOperators
    <2> HIDE DEF kept, lined
    <2> QED
      BY <2>1 DEF Fifo!Outstanding, Serving, lined
  <1> HIDE DEF card, kept, lined
  <1> QED
    BY <1>2, <1>3, <1>4, <1>5, SchedulerAssumption

\* Promotion starts the head of the line or keeps the request being served.
LEMMA FifoActivate ==
    ASSUME SchedInv, ~IsIdle, NEW q, Activate(q), finished' = finished PROVE FifoStep
  <1> DEFINE c == Candidate
  <1>1. /\ c \in SeqIds /\ c # NoSeq
        /\ sq[c].phase \in Running \cup {"Queued"}
        /\ sq[c].phase = "Queued" =>
              /\ active = NoSeq /\ paused = NoSeq /\ queued # <<>>
              /\ c = Head(queued) /\ c \in ToSet(queued)
        /\ sq[c].phase \in Running => c \in {active, paused} /\ c \notin ToSet(queued)
        /\ active = NoSeq \/ c = active
        /\ paused = NoSeq \/ c = paused
    BY CandidateFacts, NoSeqIsNoId
  <1>2. /\ active' = c
        /\ queued' = IF c \in ToSet(queued) THEN Tail(queued) ELSE queued
    BY DEF Activate
  <1>3. Serving' = c
    BY <1>1, <1>2 DEF Serving
  <1>4. CASE sq[c].phase = "Queued"
    <2>1. Serving = NoSeq /\ queued' = Tail(queued)
      BY <1>1, <1>2, <1>4 DEF Serving
    <2>2. Fifo!Start
      BY <1>1, <1>3, <1>4, <2>1 DEF Fifo!Start, Serving
    <2> QED
      BY <2>2 DEF FifoStep, Fifo!FifoNext
  <1>5. CASE sq[c].phase \in Running
    <2>1. Serving = c
      BY <1>1, <1>5 DEF Serving
    <2> QED
      BY <1>1, <1>2, <1>3, <1>5, <2>1 DEF FifoStep
  <1> QED
    BY <1>1, <1>4, <1>5

\* The request being served leaves.
LEMMA FifoLeave ==
    ASSUME NEW s, s # NoSeq, Serving = s, Serving' = NoSeq,
           finished' = finished \cup {s}, queued' = queued
    PROVE  FifoStep
  <1>1. Fifo!Leave
    BY DEF Fifo!Leave, Serving
  <1> QED
    BY <1>1 DEF FifoStep, Fifo!FifoNext

LEMMA FifoArrive ==
    ASSUME SchedInv, NEW req \in Requests, EnqueueRequest(req) PROVE FifoStep
  <1> SUFFICES ASSUME NEW id, id = next_seq PROVE FifoStep
    OBVIOUS
  <1>1. /\ OutstandingCount < MaxOutstanding /\ NewSeq(req.prompt)
        /\ queued' = Append(queued, id) /\ UNCHANGED <<active, paused, finished>>
    BY DEF EnqueueRequest
  <1>2. id \in SeqIds
    BY <1>1, NewSeqFacts DEF SchedInv
  <1>3. ASSUME NEW x \in ToSet(queued) \cup finished \cup ({Serving} \ {NoSeq})
        PROVE  x < id
    <2>1. ToSet(queued) \subseteq SeqIds
      BY ElementOfSeq, LenProperties DEF SchedInv, SchedTyped, ToSet
    <2>2. x \in SeqIds
      BY <2>1 DEF SchedInv, SchedTyped, Serving
    <2>3. x \in ToSet(queued) \/ x \in finished \/ x \in {active, paused}
      BY DEF Serving
    <2>4. sq[x].phase # "Absent"
      BY <2>2, <2>3 DEF SchedInv, Placed, Running
    <2> QED
      BY <2>2, <2>4 DEF SchedInv, Placed
  <1>4. Fifo!Outstanding < MaxOutstanding
    BY <1>1, OutstandingAgrees
  <1>5. Fifo!Arrive(id)
    <2>1. \A x \in Fifo!ToSet(queued) \cup finished \cup ({Serving} \ {NoSeq}) : x < id
      BY <1>3, SameOperators
    <2> QED
      BY <1>1, <1>4, <2>1 DEF Fifo!Arrive, Serving
  <1> QED
    BY <1>2, <1>5 DEF FifoStep, Fifo!FifoNext

LEMMA FifoCancel ==
    ASSUME SchedInv, NEW s \in SeqIds, CancelSequence(s) PROVE FifoStep
  <1>1. finished' = finished \cup {s} /\ s # NoSeq
    BY NoSeqIsNoId DEF CancelSequence, CancelActive, CancelQueued, CancelPaused, Finish
  <1>2. active # NoSeq => paused = NoSeq
    BY DEF SchedInv, Placed
  <1>3. CASE CancelActive(s)
    <2>1. Serving = s /\ Serving' = NoSeq /\ queued' = queued
      BY <1>1, <1>2, <1>3 DEF CancelActive, TryUnpause, Serving
    <2> QED
      BY <1>1, <2>1, FifoLeave
  <1>4. CASE CancelPaused(s)
    <2>1. Serving = s /\ Serving' = NoSeq /\ queued' = queued
      BY <1>1, <1>2, <1>4 DEF CancelPaused, Serving
    <2> QED
      BY <1>1, <2>1, FifoLeave
  <1>5. CASE CancelQueued(s)
    <2>1. PICK pos \in 1 .. Len(queued) :
              queued[pos] = s /\ queued' = RemoveAt(queued, pos)
      BY <1>5 DEF CancelQueued
    <2>2. queued' = Fifo!RemoveAt(queued, pos)
      BY <2>1, SameOperators
    <2>3. UNCHANGED <<active, paused>>
      BY <1>5 DEF CancelQueued
    <2>4. Fifo!Withdraw(s)
      BY <1>1, <2>1, <2>2, <2>3 DEF Fifo!Withdraw
    <2> QED
      BY <2>4 DEF FifoStep, Fifo!FifoNext
  <1> QED
    BY <1>3, <1>4, <1>5 DEF CancelSequence

LEMMA StepIsFifo == SchedInv /\ [SchedNext]_allVars => FifoStep
  <1> SUFFICES ASSUME SchedInv, [SchedNext]_allVars PROVE FifoStep
    OBVIOUS
  <1>1. ASSUME UNCHANGED <<queued, active, paused, finished>> PROVE FifoStep
    BY <1>1 DEF FifoStep, Serving
  <1>2. CASE StepWait \/ StepReserve \/ StepPrefillBlocked \/ StepRefused
    BY <1>2, FifoActivate
       DEF StepWait, StepReserve, StepPrefillBlocked, StepRefused, StepCalled, stepBegins
  <1>3. CASE StepPause
    <2>1. /\ ~IsIdle /\ Plan(PromotedRecord).kind = "Decode" /\ paused' = Candidate
          /\ active' = NoSeq /\ UNCHANGED <<queued, finished>>
      BY <1>3 DEF StepPause, StepCalled
    <2>2. Promotes(PromotedRecord) /\ PromotedRecord.phase = "Decoding"
      BY <2>1, PromotedPromotes, PromotedRuns, PlanFacts DEF SchedInv, SchedTyped
    <2>3. sq[Candidate].phase \in Running
      BY <2>1, <2>2, CandidateFacts DEF Promotes, Running
    <2>4. Serving = Candidate /\ Serving' = Candidate
      BY <2>1, <2>3, CandidateFacts, NoSeqIsNoId DEF Serving
    <2> QED
      BY <2>1, <2>4 DEF FifoStep
  <1>4. CASE AssignStep \/ DeviceCompletes \/ AppendRecord \/ StepFails \/ TokenRejected
             \/ PostIntermediate \/ \E end \in Appended(sq[active]) : PostSampled(end)
    BY <1>1, <1>4 DEF AssignStep, DeviceCompletes, AppendRecord, StepFails, TokenRejected,
                      FailStep, failVars, PostIntermediate, PostSampled, Committed
  <1>5. CASE FinishSequence
    <2>1. /\ pc = "finish" /\ finished' = finished \cup {active} /\ active' = paused
          /\ paused' = NoSeq /\ queued' = queued
      BY <1>5 DEF FinishSequence, Finish, TryUnpause
    <2>2. active # NoSeq /\ paused = NoSeq
      BY <2>1, ActiveFacts
    <2>3. Serving = active /\ Serving' = NoSeq
      BY <2>1, <2>2 DEF Serving
    <2> QED
      BY <2>1, <2>2, <2>3, FifoLeave
  <1>6. CASE \E req \in Requests : EnqueueRequest(req)
    BY <1>6, FifoArrive
  <1>7. CASE \E s \in SeqIds : CancelSequence(s)
    BY <1>7, FifoCancel
  <1>8. CASE \E s \in SeqIds : TakeFinishedResult(s)
    <2>1. PICK s \in SeqIds : TakeFinishedResult(s)
      BY <1>8
    <2>2. Fifo!Collect(s)
      BY <2>1 DEF TakeFinishedResult, Fifo!Collect
    <2> QED
      BY <2>2 DEF FifoStep, Fifo!FifoNext
  <1>9. CASE \E s \in seqs : AbortOpenReservation(s)
    BY <1>1, <1>9 DEF AbortOpenReservation
  <1>10. CASE OutsideNew
    BY <1>1, <1>10 DEF OutsideNew
  <1>11. CASE \E s \in OutsideSeqs : OutsideFree(s) \/ \E n \in 1 .. MaxCtx : OutsideHold(s, n)
    BY <1>1, <1>11 DEF OutsideFree, OutsideHold, schedVars
  <1>12. CASE UNCHANGED allVars
    BY <1>1, <1>12 DEF allVars, schedVars
  <1> QED
    BY <1>2, <1>3, <1>4, <1>5, <1>6, <1>7, <1>8, <1>9, <1>10, <1>11, <1>12
       DEF SchedNext, Step

\* The scheduler serves requests first come, first served: with an active or
\* paused sequence as the one being served, every behaviour, through waits,
\* pauses, failed steps and cancellations, is one of FifoServer.
THEOREM SchedulerIsFifo == SchedSpec => ImplementsFifo
  <1>1. SchedInit => Fifo!FifoInit
    BY DEF SchedInit, Fifo!FifoInit
  <1>2. SchedInv /\ [SchedNext]_allVars => [Fifo!FifoNext]_Fifo!fifoVars
    BY StepIsFifo DEF FifoStep, Fifo!fifoVars, Serving
  <1>3. SchedSpec => Fifo!FifoSpec
    BY <1>1, <1>2, SchedInvHolds, PTL DEF SchedSpec, Fifo!FifoSpec
  <1> QED
    BY <1>3, PTL DEF ImplementsFifo

=============================================================================
