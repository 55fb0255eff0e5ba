------------------------------ MODULE FifoServer ------------------------------
(***************************************************************************)
(* What the scheduler promises its clients, with no steps, chunks, pauses  *)
(* or faults in sight: requests are served one at a time, in the order     *)
(* they arrived, a served request keeps the server until it completes or   *)
(* is withdrawn, its result is kept until it is collected, and at most     *)
(* Capacity requests are outstanding.                                      *)
(***************************************************************************)
EXTENDS Integers, Sequences, FiniteSets, SequencesExt

CONSTANTS
    Ids,        \* request ids, given out in increasing order
    Nobody,     \* value of serving when the server is free
    Capacity    \* bound on outstanding requests

VARIABLES
    waiting,    \* requests in arrival order
    serving,    \* the request being served, or Nobody
    results     \* completed or withdrawn requests not collected yet

fifoVars == <<waiting, serving, results>>

Outstanding ==
    Len(waiting) + Cardinality(results) + (IF serving = Nobody THEN 0 ELSE 1)

FifoInit ==
    /\ waiting = <<>>
    /\ serving = Nobody
    /\ results = {}

\* A new request joins the end of the line; its id is larger than the ids of
\* all requests the server still knows.
Arrive(r) ==
    /\ Outstanding < Capacity
    /\ \A q \in ToSet(waiting) \cup results \cup ({serving} \ {Nobody}) : q < r
    /\ waiting' = Append(waiting, r)
    /\ UNCHANGED <<serving, results>>

Start ==
    /\ serving = Nobody
    /\ waiting # <<>>
    /\ serving' = Head(waiting)
    /\ waiting' = Tail(waiting)
    /\ UNCHANGED results

\* The served request completes or is withdrawn.
Leave ==
    /\ serving # Nobody
    /\ results' = results \cup {serving}
    /\ serving' = Nobody
    /\ UNCHANGED waiting

Withdraw(r) ==
    /\ \E i \in 1 .. Len(waiting) : waiting[i] = r /\ waiting' = RemoveAt(waiting, i)
    /\ results' = results \cup {r}
    /\ UNCHANGED serving

Collect(r) ==
    /\ r \in results
    /\ results' = results \ {r}
    /\ UNCHANGED <<waiting, serving>>

FifoNext ==
    \/ Start
    \/ Leave
    \/ \E r \in Ids : Arrive(r) \/ Withdraw(r) \/ Collect(r)

FifoSpec == FifoInit /\ [][FifoNext]_fifoVars

=============================================================================
