--------------------------- MODULE AllocationBudget ---------------------------
(***************************************************************************)
(* The GPU allocation budget of r9v-hip: clones of one AllocationBudget    *)
(* share an atomic counter, and every BudgetedDeviceBuffer charges it      *)
(* before hipMalloc and releases it after hipFree. An owner is a place in  *)
(* some thread that allocates and drops one buffer after another. A step   *)
(* is one access to the counter or one HIP call, with the local            *)
(* computation up to the next one.                                         *)
(***************************************************************************)
EXTENDS Integers, FiniteSets

CONSTANTS
    Owners,     \* buffer owners, in any threads
    Limit,      \* the byte limit fixed at construction
    Sizes,      \* sizes an owner may ask for
    MaxWord,    \* u64::MAX
    MaxLeaked   \* bound on the bytes that failed hipFree calls leave behind

ASSUME BudgetAssumption ==
    /\ IsFiniteSet(Owners)
    /\ MaxWord \in Nat
    /\ Limit \in 0 .. MaxWord
    /\ Sizes \subseteq 0 .. MaxWord
    /\ MaxLeaked \in Nat

VARIABLES
    used,       \* the shared AtomicU64
    pc,         \* pc[a]: where the allocate or drop call of a is
    request,    \* request[a]: size of the buffer of a, once charged its `charged`
    seen,       \* seen[a]: value of used that reserve works with
    resident,   \* resident[a]: device bytes behind the buffer of a (external)
    leaked      \* device bytes no buffer owns any more (external)

budgetVars == <<used, pc, request, seen, resident, leaked>>

BudgetInit ==
    /\ used = 0
    /\ pc = [a \in Owners |-> "idle"]
    /\ request = [a \in Owners |-> 0]
    /\ seen = [a \in Owners |-> 0]
    /\ resident = [a \in Owners |-> 0]
    /\ leaked = 0

\* Mutant: the limit itself is refused.
FitsStrict(v, n) == v + n <= MaxWord /\ v + n < Limit

\* checked_add and the comparison with the limit.
Fits(v, n) == v + n <= MaxWord /\ v + n <= Limit

\* One round of the loop of reserve: v was just read from the counter.
Observe(a, n, v) ==
    /\ seen' = [seen EXCEPT ![a] = v]
    /\ pc' = [pc EXCEPT ![a] = IF Fits(v, n) THEN "cas" ELSE "refused"]

\* Mutant: device memory first, the reservation after it.
AllocateMallocFirst(a, n) ==
    /\ pc[a] = "idle"
    /\ request' = [request EXCEPT ![a] = n]
    /\ Observe(a, n, used)
    /\ resident' = [resident EXCEPT ![a] = n]
    /\ UNCHANGED <<used, leaked>>

\* allocate, up to the first load of the counter.
Allocate(a, n) ==
    /\ pc[a] = "idle"
    /\ request' = [request EXCEPT ![a] = n]
    /\ Observe(a, n, used)
    /\ UNCHANGED <<used, resident, leaked>>

\* Mutant: a plain store of the sum.
CasSucceedsBlindly(a) ==
    /\ pc[a] = "cas"
    /\ used' = seen[a] + request[a]
    /\ pc' = [pc EXCEPT ![a] = "malloc"]
    /\ UNCHANGED <<request, seen, resident, leaked>>

\* compare_exchange_weak replaces the value it compared with.
CasSucceeds(a) ==
    /\ pc[a] = "cas"
    /\ used = seen[a]
    /\ used' = seen[a] + request[a]
    /\ pc' = [pc EXCEPT ![a] = "malloc"]
    /\ UNCHANGED <<request, seen, resident, leaked>>

\* It fails, because the value is another one or for no reason.
CasFails(a) ==
    /\ pc[a] = "cas"
    /\ Observe(a, request[a], used)
    /\ UNCHANGED <<used, request, resident, leaked>>

\* BudgetExceeded is returned; nothing is charged.
Refused(a) ==
    /\ pc[a] = "refused"
    /\ pc' = [pc EXCEPT ![a] = "idle"]
    /\ UNCHANGED <<used, request, seen, resident, leaked>>

MallocSucceeds(a) ==
    /\ pc[a] = "malloc"
    /\ resident' = [resident EXCEPT ![a] = request[a]]
    /\ pc' = [pc EXCEPT ![a] = "held"]
    /\ UNCHANGED <<used, request, seen, leaked>>

\* The reservation is rolled back by the same release a drop makes.
MallocFails(a) ==
    /\ pc[a] = "malloc"
    /\ pc' = [pc EXCEPT ![a] = "release"]
    /\ UNCHANGED <<used, request, seen, resident, leaked>>

\* The first half of drop: hipFree. Its error is ignored, and the bytes then
\* stay on the device with no buffer to own them.
FreeBuffer(a, bytesLost) ==
    /\ pc[a] = "held"
    /\ bytesLost \in {0, resident[a]}
    /\ leaked + bytesLost <= MaxLeaked
    /\ leaked' = leaked + bytesLost
    /\ resident' = [resident EXCEPT ![a] = 0]
    /\ pc' = [pc EXCEPT ![a] = "release"]
    /\ UNCHANGED <<used, request, seen>>

\* fetch_sub, which wraps; the assertion on its result is LedgerExact's concern.
Release(a) ==
    /\ pc[a] = "release"
    /\ used' = (used - request[a]) % (MaxWord + 1)
    /\ pc' = [pc EXCEPT ![a] = "idle"]
    /\ UNCHANGED <<request, seen, resident, leaked>>

BudgetNext ==
    \E a \in Owners :
        \/ \E n \in Sizes : Allocate(a, n)
        \/ CasSucceeds(a) \/ CasFails(a) \/ Refused(a)
        \/ MallocSucceeds(a) \/ MallocFails(a)
        \/ \E lost \in 0 .. MaxLeaked : FreeBuffer(a, lost)
        \/ Release(a)

BudgetSpec == BudgetInit /\ [][BudgetNext]_budgetVars

-----------------------------------------------------------------------------
(* Properties                                                              *)

\* The budget is charged from the successful exchange to the release.
Charging == {"malloc", "held", "release"}
Charge == [a \in Owners |-> IF pc[a] \in Charging THEN request[a] ELSE 0]

\* What the caller has been told.
Status == [a \in Owners |-> CASE pc[a] \in Charging -> <<"in", 0>>
                              [] pc[a] = "refused"  -> <<"refused", request[a]>>
                              [] OTHER              -> <<"out", 0>>]

Atomic == INSTANCE AtomicBudget WITH charge <- Charge, status <- Status

BudgetTypeOK ==
    /\ used \in 0 .. MaxWord
    /\ pc \in [Owners -> {"idle", "cas", "refused"} \cup Charging]
    /\ request \in [Owners -> Sizes \cup {0}]
    /\ seen \in [Owners -> 0 .. MaxWord]
    /\ resident \in [Owners -> 0 .. MaxWord]
    /\ leaked \in 0 .. MaxLeaked

\* The counter is the sum of the charges of all buffers and never passes the
\* limit, whatever exchanges, failed allocations and drops of other threads come
\* in between. No update is lost, and the assertion "released more bytes than
\* charged" of release cannot fail.
LedgerExact ==
    /\ used = Atomic!Total(Charge)
    /\ used <= Limit

\* The device never holds more for budgeted buffers than the counter admits:
\* bytes are charged before hipMalloc and released only after hipFree returned
\* (the order of allocate and of drop).
ResidentWithinBudget == Atomic!Total(resident) <= used

\* reserve and release are linearizable: the compare-and-swap loop grants a
\* request only if it fits, and refuses it only if it does not fit what is
\* charged at that moment, although it works on values read earlier.
ImplementsAtomic == Atomic!AtomicSpec

=============================================================================
