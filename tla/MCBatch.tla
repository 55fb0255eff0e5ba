------------------------------- MODULE MCBatch -------------------------------
(***************************************************************************)
(* Model-checking what goes into a step: the walk over a speculation tree  *)
(* and the batch workspace.  A behaviour exercises one of the two, the     *)
(* other keeps its initial state.                                          *)
(***************************************************************************)
EXTENDS KvAttention, TreeWalk

VARIABLE part

(* Two sequences; an unbounded, a windowed, a pinned and a recurrent group. *)

MCRetain ==
    [g \in PagedGroups |->
        CASE g = "all"  -> [windowed |-> FALSE, n |-> 0, w |-> 1]
          [] g = "sink" -> [windowed |-> TRUE, n |-> 1, w |-> 1]
          [] OTHER      -> [windowed |-> TRUE, n |-> 0, w |-> 1]]

MCGroupOrder == <<"all", "rec", "window", "sink">>

MCCaps ==
    [seqs |-> 2, tokens |-> 3, mrope |-> 2, slots |-> 12, blocks |-> 16, windows |-> 8,
     tree |-> 3, mask |-> 6]

\* Both orders, one or two entries, a repeated and a missing sequence, and
\* lists of different length.
MCBatches ==
    {[ids |-> <<1>>, q |-> <<1>>], [ids |-> <<1, 0>>, q |-> <<1, 1>>],
     [ids |-> <<0, 1>>, q |-> <<1, 2>>], [ids |-> <<0, 0>>, q |-> <<1, 1>>],
     [ids |-> <<0, 1>>, q |-> <<2, 2>>], [ids |-> <<0>>, q |-> <<1, 1>>]}

MCPositions == {NoPositions, [kind |-> "mrope", len |-> 2]}

\* A chain, two roots, a cycle or an edge across sequences, a self parent, a
\* mask that does not fit the workspace.
MCTrees ==
    {[parents |-> <<-1, -1>>, t_max |-> 1, anc_len |-> 2],
     [parents |-> <<1, 0>>, t_max |-> 1, anc_len |-> 2],
     [parents |-> <<-1, 2, -1>>, t_max |-> 2, anc_len |-> 6],
     [parents |-> <<1, -1, -1>>, t_max |-> 2, anc_len |-> 6],
     [parents |-> <<-1, 1, -1>>, t_max |-> 2, anc_len |-> 6],
     [parents |-> <<-1>>, t_max |-> 7, anc_len |-> 7]}

(* Kernel calls: one that fits the cache and copies of it with one fault. *)

MCKvKind == [g \in PagedGroups |-> IF g = "window" THEN "latent" ELSE "paged"]
MCKvDims == <<2, 1>>

View(heads, cols) ==
    [rank |-> 3, dtype |-> "f16", layout |-> "l0", backed |-> TRUE, extra |-> 0,
     heads |-> heads, cols |-> cols, finite |-> TRUE]

NoLatent == [some |-> FALSE, rank |-> 0, rope |-> 0]
Latent == [some |-> TRUE, rank |-> 2, rope |-> 1]
NoMla == [some |-> FALSE, nope |-> 0, rope |-> 0, rank |-> 0, v_dim |-> 0]
Mla == [some |-> TRUE, nope |-> 2, rope |-> 1, rank |-> 2, v_dim |-> 2]

MCWrite(kind, k, v, latent) ==
    [kind |-> kind, k |-> k, v |-> v, latent |-> latent, cache_dtype |-> "f16",
     granularity |-> "per_token_head", faulty |-> FALSE]

PagedWrite == MCWrite("paged", View(2, 2), View(2, 1), NoLatent)
SplitWrite == MCWrite("latent", View(1, 2), View(1, 1), Latent)

MCWriteCalls ==
    [kind \in {"paged", "latent"} |->
        IF kind = "paged"
        THEN {PagedWrite,
              [PagedWrite EXCEPT !.k.heads = 1, !.v.heads = 1, !.faulty = TRUE],
              [PagedWrite EXCEPT !.cache_dtype = "i8", !.faulty = TRUE]}
        ELSE {SplitWrite, [SplitWrite EXCEPT !.k.cols = 3],
              [SplitWrite EXCEPT !.v.cols = 3, !.faulty = TRUE]}]

MCAttention(kind, sinks, q, o, mla) ==
    [kind |-> kind, sinks |-> sinks, q |-> q, o |-> o, mla |-> mla, tree |-> FALSE,
     out_dtype |-> "f16", scale_ok |-> TRUE, softcap_ok |-> TRUE, window |-> 1,
     faulty |-> FALSE]

MCAttentionCalls ==
    [g \in PagedGroups |->
        LET ok == IF MCKvKind[g] = "paged"
                  THEN MCAttention("paged", Retain[g].n, View(4, 2), View(4, 1), NoMla)
                  ELSE MCAttention("latent", Retain[g].n, View(2, 3), View(2, 2), Mla)
        IN  {ok, [ok EXCEPT !.tree = TRUE],
             [ok EXCEPT !.q.heads = 3, !.o.heads = 3, !.faulty = MCKvKind[g] = "paged"],
             [ok EXCEPT !.q.cols = 1, !.faulty = TRUE]}]

PartInit ==
    /\ part \in {"tree", "batch"}
    /\ BatchInit /\ TreeInit
    /\ part = "batch" => parents = <<>>

PartNext ==
    /\ UNCHANGED part
    /\ \/ part = "tree" /\ VisitNext /\ UNCHANGED batchVars
       \/ part = "batch" /\ BatchNext /\ UNCHANGED treeVars

PartSpec == PartInit /\ [][PartNext]_<<part, treeVars, batchVars>>
=============================================================================
