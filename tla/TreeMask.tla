------------------------------- MODULE TreeMask -------------------------------
(***************************************************************************)
(* The speculative tree of a verify step (crates/r9v-ir/src/batch.rs):     *)
(* parents of the draft tokens and an ancestor mask.  Tokens are numbered  *)
(* from 0; parents[k + 1] is the parent of token k, Root for none.  The    *)
(* mask is copied and never derived by this code, so only its length is    *)
(* kept.                                                                   *)
(***************************************************************************)
EXTENDS Integers, Sequences, FiniteSets, SequencesExt

Root == -1

TokensOf(parents) == 0 .. Len(parents) - 1

-------------------------------------------------------------------------------
\* push_tree_shape_problems
ShapeProblems(tree) ==
    (IF tree.parents # <<>> /\ tree.t_max = 0 THEN {<<"ZeroTreeMax">>} ELSE {})
    \cup (IF tree.anc_len # Len(tree.parents) * tree.t_max
          THEN {<<"AncestorLength">>} ELSE {})

\* push_tree_parent_problems
ParentProblems(parents) ==
    {<<"BadParent", k>> : k \in
        {j \in TokensOf(parents) : parents[j + 1] \notin Root .. Len(parents) - 1}}
    \cup {<<"SelfParent", k>> : k \in {j \in TokensOf(parents) : parents[j + 1] = j}}

\* The walk of check_tree_cycles leaves a token for its parent unless the token
\* is a root, points outside the tree, or points at itself.
StopsAt(parents, k) ==
    \/ parents[k + 1] < 0
    \/ parents[k + 1] >= Len(parents)
    \/ parents[k + 1] = k

\* One turn of the inner loop: at a token marked done the walk is over, at a
\* token already on the path a cycle is closed, any other token joins the path.
WalkStep(parents, done, w) ==
    LET at == {i \in DOMAIN w.path : w.path[i] = w.token}
    IN  IF w.ended THEN w
        ELSE IF w.token \in done
        THEN [token |-> w.token, path |-> w.path, ended |-> TRUE, cycle |-> <<>>]
        ELSE IF at # {}
        THEN [token |-> w.token, path |-> w.path, ended |-> TRUE,
              cycle |-> SubSeq(w.path, Min(at), Len(w.path))]
        ELSE [token |-> parents[w.token + 1], path |-> Append(w.path, w.token),
              ended |-> StopsAt(parents, w.token), cycle |-> <<>>]

\* The inner loop, up from start; the last of Len(parents) + 1 turns has ended.
Walk(parents, done, start) ==
    LET walk[k \in 0 .. Len(parents) + 1] ==
            IF k = 0 THEN [token |-> start, path |-> <<>>, ended |-> FALSE, cycle |-> <<>>]
            ELSE WalkStep(parents, done, walk[k - 1])
    IN  walk[Len(parents) + 1]

LowestOf(cycle) == IF cycle = <<>> THEN <<>> ELSE <<Min(ToSet(cycle))>>

\* Mutant: the tokens of a walk are not marked done.
VisitForgets(parents, acc, start) ==
    LET w == Walk(parents, acc.done, start)
    IN  [done |-> acc.done \cup {start}, cycles |-> acc.cycles \o LowestOf(w.cycle)]

\* One iteration of check_tree_cycles, given the tokens marked done and the
\* cycles reported so far by their lowest token.
Visit(parents, acc, start) ==
    LET w == Walk(parents, acc.done, start)
    IN  [done |-> acc.done \cup ToSet(w.path), cycles |-> acc.cycles \o LowestOf(w.cycle)]

\* The outer loop over the start tokens below k.
VisitsTo(parents, k) ==
    LET from[i \in 0 .. Len(parents)] ==
            IF i = 0 THEN [done |-> {}, cycles |-> <<>>]
            ELSE IF i - 1 \in from[i - 1].done THEN from[i - 1]
            ELSE Visit(parents, from[i - 1], i - 1)
    IN  from[k]

\* check_tree_cycles: the lowest token of every cycle found.
CheckTreeCycles(parents) == VisitsTo(parents, Len(parents)).cycles

\* TreeMask::new and validate_tree_slices accept the tree.
TreeAccepted(tree) ==
    /\ ShapeProblems(tree) = {}
    /\ ParentProblems(tree.parents) = {}
    /\ CheckTreeCycles(tree.parents) = <<>>

===============================================================================
