------------------------------ MODULE TreeWalk ------------------------------
(* Every parent list up to MaxT tokens, valid or not, through the checks. *)
EXTENDS TreeMask

CONSTANT MaxT

ASSUME TreeAssumption == MaxT \in Nat

VARIABLES parents, start, acc

treeVars == <<parents, start, acc>>

TreeInit ==
    /\ parents \in UNION {[1 .. n -> -2 .. n] : n \in 0 .. MaxT}
    /\ start = 0
    /\ acc = [done |-> {}, cycles |-> <<>>]

\* The loop of check_tree_cycles over its start tokens.
VisitNext ==
    /\ start < Len(parents)
    /\ acc' = IF start \in acc.done THEN acc ELSE Visit(parents, acc, start)
    /\ start' = start + 1
    /\ UNCHANGED parents

TreeSpec == TreeInit /\ [][VisitNext]_treeVars

-------------------------------------------------------------------------------
\* A token of the parent list p and those its parents lead to.
Above(p, k) ==
    LET up[n \in 0 .. Len(p)] ==
            IF n = 0 THEN {k}
            ELSE up[n - 1] \cup {p[j + 1] : j \in {i \in up[n - 1] : ~StopsAt(p, i)}}
    IN  up[Len(p)]

\* Token k lies on a cycle of the parent relation.
OnCycle(p, k) ==
    /\ ~StopsAt(p, k)
    /\ k \in Above(p, p[k + 1])

\* Token k is the lowest of its cycle.
LeadsCycle(p, k) == OnCycle(p, k) /\ \A j \in Above(p, k) : OnCycle(p, j) => k <= j

\* The three-mark walk of check_tree_cycles, which never looks at a token twice
\* and stops at tokens earlier walks marked, reports exactly the cycles of the
\* parent relation, each once and by its lowest token, whatever other defects
\* (bad ids, self parents, several cycles, tails into cycles) the list has.
CyclesExact ==
    start = Len(parents) =>
        /\ ToSet(acc.cycles) = {k \in TokensOf(parents) : LeadsCycle(parents, k)}
        /\ Cardinality(ToSet(acc.cycles)) = Len(acc.cycles)
        /\ acc.cycles = CheckTreeCycles(parents)

\* An accepted tree is a forest: from every token the parents lead to a root
\* inside the batch, which is what the attention mask of a verify step and
\* compact's accepted path rely on.
AcceptedIsForest ==
    \A anc_len \in {0, Len(parents), Len(parents) + 1} :
        TreeAccepted([parents |-> parents, t_max |-> 1, anc_len |-> anc_len])
        <=> /\ anc_len = Len(parents)
            /\ \A k \in TokensOf(parents) :
                /\ Above(parents, k) \subseteq TokensOf(parents)
                /\ \E r \in Above(parents, k) : parents[r + 1] = Root

\* Cycles are reported exactly and what passes the checks is a forest.
TreeChecksExact == CyclesExact /\ AcceptedIsForest

===============================================================================
