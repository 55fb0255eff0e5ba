-------------------------------- MODULE MCOps --------------------------------
(***************************************************************************)
(* Model-checking the op IR: the validators on every case of OpCases, and  *)
(* small graphs of the step-graph builder: matrix products, rope and       *)
(* sampling over two weights, captured hidden rows and a grammar mask,     *)
(* with views of rank 2 and 3.  A behaviour exercises one of the two, the  *)
(* other keeps its initial state.                                          *)
(***************************************************************************)
EXTENDS OpCases, OpGraph

CONSTANTS MaxEdges, MaxNodes, MaxViews, MaxCount

VARIABLE part

Buckets == {1, 2, 4}
Extents == (-1 :> 3) @@ (-2 :> 2)

Tn(sh, dt, cl, sd) == [sh |-> sh, dt |-> dt, q |-> "None", ly |-> "CONTIGUOUS", pl |-> "dev0", cl |-> cl, sd |-> sd]
Act2 == Tn(<<T, 2>>, "f16", "Activation", R)
Heads3 == Tn(<<T, 1, 2>>, "f16", "Activation", R)
Weights == {Tn(<<2, 2>>, "f16", "Weight", Col(0)),
            [Tn(<<2, 2>>, "f16", "Weight", R) EXCEPT !.ly = "L1"],
            Tn(<<S, T>>, "f32", "State", R),
            [Tn(<<2, 2>>, "f16", "Weight", R) EXCEPT !.pl = "dev1"]}
Inputs == {<<"SubgraphHidden", Act2>>, <<"SubgraphHidden", Tn(<<1, 2>>, "f32", "Activation", R)>>,
           <<"EmbedOverride", [Act2 EXCEPT !.pl = "dev1"]>>}
MatmulAt == [out_dtype |-> "f16", epilogue |-> "None", transpose_w |-> FALSE]
Rope2At == [rot_dim |-> 2, theta |-> 1, scaling |-> [kind |-> "None"], sections |-> <<>>, out_dtype |-> "f16"]
Shapes == {<<4>>, <<T, 1, 2>>, <<1, 1>>}
Perms(r) == {p \in [1 .. r -> 1 .. r] : Range(p) = 1 .. r /\ p[1] # 1}

Views == Cardinality({e \in DOMAIN edges : edges[e].src # NoEdge})
Inserted == {inserted_copies[c].copy_node : c \in DOMAIN inserted_copies}
Clients == (DOMAIN nodes) \ Inserted
Room(n) == Len(edges) + n <= MaxEdges
Sources == nodes = <<>> /\ Views = 0

GraphInit ==
    /\ Init
    /\ \E s, d, p \in 0 .. MaxCount : BucketStepOK(s, d, p) /\ key = FromUnbucketed("dev0", s, d, p)

Edges(rank, dts) == {e \in DOMAIN edges : Len(edges[e].t.sh) = rank /\ edges[e].t.dt \in dts}
Both == <<"Contiguous", "Contiguous">>

\* Sources come first and only for the smallest key; the last node is the one
\* rewired; inserted copies are not rewired by hand.
GraphNext ==
    /\ key.s = 1 /\ TotalTokens(key) = 1
    /\ \/ Sources /\ Room(2) /\ \E t \in Weights : AddTensor(t)
       \/ Sources /\ Room(2) /\ \E x \in Inputs : AddExternalInput(x[1], x[2])
       \/ edges = <<>> /\ external_inputs = {} /\ \E k \in {"BatchMeta", "RngState"} : AddExternalNonTensor(k)
       \/ Sources /\ Room(2) /\ \E k \in {"Scalar"} : BindPositions(k)
       \/ ~compiled /\ \E k \in {"Hidden", "Sampled"} : AddExternalOutput(k, Len(edges))
       \/ edges = <<>> /\ HasInput("RngState") /\ AddUpdatedRngState
       \/ /\ Len(nodes) < MaxNodes /\ Room(1)
          /\ \/ \E x, w \in Edges(2, {"f16"}) : AddOp("matmul", MatmulAt, <<x, w>>, Both, <<Act2>>)
             \/ \E x \in Edges(3, {"f16"}), p \in Edges(1, {"u32"}) \cup Edges(2, {"u32"}) :
                    AddOp("rope", Rope2At, <<x, p>>, Both, <<Heads3>>)
             \/ \E x \in Edges(2, {"f32"}) :
                    AddOp("sample", [unit |-> 0], <<x>>, <<"Any">>, <<Tn(<<1>>, "u32", "Activation", R)>>)
       \/ ~compiled /\ \E n \in Clients : n = Len(nodes) /\ n = 1 /\ nodes[n].reqs[1] # "Any" /\ SetNodeInputRequirement(n, 1, "Any")
       \/ Len(nodes) >= MaxNodes /\ \E n \in Clients, e \in DOMAIN edges : n = Max(Clients) /\ RewireNodeInput(n, 1, e)
       \/ /\ Views < MaxViews /\ Room(1) /\ ~compiled
          /\ \E e \in DOMAIN edges : \E p \in Perms(Len(edges[e].t.sh)) : TransposeEdge(e, p)
       \/ /\ Views < MaxViews /\ Room(1) /\ ~compiled
          /\ \E e \in DOMAIN edges, sh \in Shapes : ReshapeEdge(e, sh)
       \/ nodes # <<>> /\ Len(inserted_copies) + Len(Planned) <= 2 /\ MaterializeCopies

-----------------------------------------------------------------------------

PartInit ==
    \/ part = "cases" /\ CaseInit /\ GraphInit /\ key = FromUnbucketed("dev0", 1, 1, 0)
    \/ part = "graph" /\ GraphInit /\ node = N("cast", [dtype |-> "f32"], <<>>, <<>>) /\ edited = TRUE

PartNext ==
    /\ UNCHANGED part
    /\ \/ part = "cases" /\ CaseNext /\ UNCHANGED gvars
       \/ part = "graph" /\ GraphNext /\ UNCHANGED caseVars

PartSpec == PartInit /\ [][PartNext]_<<part, caseVars, gvars>>
=============================================================================
