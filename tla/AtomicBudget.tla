----------------------------- MODULE AtomicBudget -----------------------------
(***************************************************************************)
(* What AllocationBudget promises its callers: one indivisible ledger. A   *)
(* reservation is granted exactly if it fits what is charged at that       *)
(* moment, and refused exactly if it does not.                             *)
(***************************************************************************)
EXTENDS Integers, FiniteSets

CONSTANTS
    Owners,     \* whoever holds at most one charge at a time
    Limit,      \* bytes that may be charged in all
    Sizes       \* bytes that may be asked for at once

VARIABLES
    charge,     \* charge[a]: bytes charged to a
    status      \* status[a]: Out, In with a charge, or Denied(n)

ledger == <<charge, status>>

Out       == <<"out", 0>>
In        == <<"in", 0>>
Denied(n) == <<"refused", n>>

\* The bytes of a map from owners to sizes, one by one, and their number.
Bytes(sizes) == {b \in Owners \X (1 .. Limit) : b[2] <= sizes[b[1]]}
Total(sizes) == Cardinality(Bytes(sizes))

AtomicInit ==
    /\ charge = [a \in Owners |-> 0]
    /\ status = [a \in Owners |-> Out]

Grant(a, n) ==
    /\ status[a] = Out
    /\ Total(charge) + n <= Limit
    /\ charge' = [charge EXCEPT ![a] = n]
    /\ status' = [status EXCEPT ![a] = In]

Refuse(a, n) ==
    /\ status[a] = Out
    /\ Total(charge) + n > Limit
    /\ status' = [status EXCEPT ![a] = Denied(n)]
    /\ UNCHANGED charge

Forget(a) ==
    /\ status[a][1] = "refused"
    /\ status' = [status EXCEPT ![a] = Out]
    /\ UNCHANGED charge

GiveBack(a) ==
    /\ status[a] = In
    /\ charge' = [charge EXCEPT ![a] = 0]
    /\ status' = [status EXCEPT ![a] = Out]

AtomicNext ==
    \E a \in Owners :
        \/ \E n \in Sizes : Grant(a, n) \/ Refuse(a, n)
        \/ Forget(a)
        \/ GiveBack(a)

AtomicSpec == AtomicInit /\ [][AtomicNext]_ledger

=============================================================================
