------------------------------ MODULE OpGraph ------------------------------
(***************************************************************************)
(* The step graph of the op IR (r9v-ir graph.rs): a builder appends edges  *)
(* (sources, op outputs, transposed and reshaped views) and op nodes,      *)
(* rewires inputs, and materialize_copies inserts a copy where a kernel    *)
(* needs contiguous memory and would get a strided view.                   *)
(*                                                                         *)
(* Edge and node ids are positions, 1-based; edge 0 is "none".  A call the *)
(* code refuses leaves the graph unchanged and is no step here, except     *)
(* that validate is an operator.  value and want are history variables:    *)
(* which element of which source an edge means at each index, and which    *)
(* value the client asked each node input for.                             *)
(***************************************************************************)
EXTENDS Sharding

CONSTANTS
    BucketSizes,             \* the legal bucket sizes
    Actual                   \* the extent each shape symbol has at run time

VARIABLES key, nodes, edges, external_inputs, external_outputs, inserted_copies,
          positions, value, want, compiled

graphVars == <<key, nodes, edges, external_inputs, external_outputs, inserted_copies, positions>>
gvars == <<graphVars, value, want, compiled>>

T == -1                      \* ShapeSymbol::T
S == -2                      \* ShapeSymbol::S
NoEdge == 0
Refused == 0

-----------------------------------------------------------------------------
(* Buckets and the capture key. *)

MaxBucket == Max(BucketSizes)

\* The smallest bucket that holds the count.
BucketOf(n) == IF n > MaxBucket THEN Refused ELSE Min({b \in BucketSizes : n <= b})

BucketS(n) == IF n = 0 THEN Refused ELSE BucketOf(n)
BucketTDec(n) == IF n = 0 THEN Refused ELSE BucketOf(n)
BucketTPre(n) == IF n = 0 THEN 0 ELSE BucketOf(n)

\* Any refused axis refuses the step.
BucketStepOK(s, tDec, tPre) ==
    BucketS(s) # Refused /\ BucketTDec(tDec) # Refused /\ (tPre # 0 => BucketTPre(tPre) # Refused)

FromUnbucketed(rank, s, tDec, tPre) ==
    [rank |-> rank, s |-> BucketS(s), t_dec |-> BucketTDec(tDec), t_pre |-> BucketTPre(tPre)]

\* StepGraphKey::new accepts bucket boundaries only.
KeyOK(k) == k.s \in BucketSizes /\ k.t_dec \in BucketSizes /\ k.t_pre \in BucketSizes \cup {0}

TotalTokens(k) == k.t_dec + k.t_pre

-----------------------------------------------------------------------------
(* Strides. *)

StrideExtent(d) == IF Concrete(d) THEN d ELSE 2

Product(s) == FoldSeq(LAMBDA x, y : x * y, 1, s)

ContiguousStrides(sh) ==
    [i \in DOMAIN sh |-> Product([j \in 1 .. Len(sh) - i |-> StrideExtent(sh[i + j])])]

IsContiguous(e) == e.strides = ContiguousStrides(e.t.sh)
IsSatisfied(req, e) == req = "Contiguous" => IsContiguous(e)

AllConcrete(sh) == \A i \in DOMAIN sh : Concrete(sh[i])

-----------------------------------------------------------------------------
(* What an edge means: for every index, an element of a source. *)

Extent(d) == IF Concrete(d) THEN d ELSE Actual[d]
Indices(sh) == {ix \in [DOMAIN sh -> 0 .. Max({Extent(sh[i]) : i \in DOMAIN sh}) - 1] :
                    \A i \in DOMAIN sh : ix[i] < Extent(sh[i])}
Dot(ix, strides) == FoldSeq(LAMBDA x, y : x + y, 0, [i \in DOMAIN ix |-> ix[i] * strides[i]])
RowMajor(sh, ix) ==
    Dot(ix, [i \in DOMAIN sh |-> Product([j \in 1 .. Len(sh) - i |-> Extent(sh[i + j])])])
Elements(sh) == Product([i \in DOMAIN sh |-> Extent(sh[i])])

SourceValue(e, sh) == [root |-> e, at |-> [ix \in Indices(sh) |-> RowMajor(sh, ix)]]

\* Axis k of the view is axis perm[k] of its parent.
TransposedValue(v, sh, perm) ==
    [v EXCEPT !.at =
        [ix \in Indices([k \in DOMAIN perm |-> sh[perm[k]]]) |->
            v.at[[i \in DOMAIN sh |-> ix[CHOOSE k \in DOMAIN perm : perm[k] = i]]]]]

\* The same elements in the same row-major order; an index past the last
\* element of the source names nothing.
Outside == -1

ReshapedValue(v, sh, new) ==
    [v EXCEPT !.at =
        [ix \in Indices(new) |->
            IF RowMajor(new, ix) >= Elements(sh) THEN Outside
            ELSE v.at[CHOOSE jx \in Indices(sh) : RowMajor(sh, jx) = RowMajor(new, ix)]]]

-----------------------------------------------------------------------------
(* The external signature. *)

NonTensorInputs == {"BatchMeta", "SamplingParams", "RngState"}

BucketDim(d, n, sym) == d \in {n, sym}

ExternalCommon(t, rank, dts, cl) ==
    /\ Is(t, rank, dts, {cl}) /\ t.ly = "CONTIGUOUS" /\ t.pl = key.rank

\* validate_external_input_tensor.
ExternalInputOK(kind, t) ==
    CASE kind = "TokenIds" ->
            ExternalCommon(t, 1, {"u32"}, "Activation") /\ t.q = "None" /\ BucketDim(t.sh[1], TotalTokens(key), T)
      [] kind = "GatherStaging" ->
            ExternalCommon(t, 3, {"i4", "i8"}, "Staging") /\ t.q = "Scheme" /\ BucketDim(t.sh[1], TotalTokens(key), T)
      [] kind = "GrammarMask" ->
            ExternalCommon(t, 3, {"bool"}, "Activation") /\ t.q = "None" /\ BucketDim(t.sh[1], key.s, S)
      [] kind \in {"EmbedOverride", "SubgraphHidden"} ->
            ExternalCommon(t, 2, ActFloats, "Activation") /\ t.q = "None" /\ BucketDim(t.sh[1], TotalTokens(key), T)
      [] kind = "EmbedMask" ->
            ExternalCommon(t, 1, {"bool"}, "Activation") /\ t.q = "None" /\ BucketDim(t.sh[1], TotalTokens(key), T)
      [] OTHER -> FALSE

\* validate_external_output_tensor.
ExternalOutputOK(kind, t) ==
    /\ t.q = "None"
    /\ CASE kind = "Sampled" -> ExternalCommon(t, 2, {"u32"}, "Activation") /\ BucketDim(t.sh[1], key.s, S)
         [] kind = "AcceptLen" -> ExternalCommon(t, 1, {"u32"}, "Activation") /\ BucketDim(t.sh[1], key.s, S)
         [] kind = "Logits" -> ExternalCommon(t, 3, {"f32"}, "Activation") /\ BucketDim(t.sh[1], key.s, S)
         [] kind = "Hidden" -> ExternalCommon(t, 2, ActFloats, "Activation") /\ BucketDim(t.sh[1], TotalTokens(key), T)
         [] OTHER -> FALSE

HasInput(kind) == \E x \in external_inputs : x.kind = kind
HasOutput(kind) == \E x \in external_outputs : x.kind = kind

-----------------------------------------------------------------------------
(* Producers and the execution order. *)

Producers(e) == {n \in DOMAIN nodes : e \in Range(nodes[n].outs)}

\* Follows a view to the edge that owns its memory; a view is newer than its
\* parent, so the search ends.
Base[e \in Nat] == IF edges[e].src = NoEdge THEN e ELSE Base[edges[e].src]

\* Mutant: the parent of a view is not followed.
ResolveProducerDirect(e) == Producers(e)

\* The node an edge or its view chain comes from, as a set of at most one.
ResolveProducer(e) == Producers(Base[e])

InDegree(m) == Cardinality({p \in DOMAIN nodes[m].ins : ResolveProducer(nodes[m].ins[p]) # {}})

\* How many inputs of node m node n feeds.
Feeds(n, m) == Cardinality({p \in DOMAIN nodes[m].ins : n \in ResolveProducer(nodes[m].ins[p])})

NodesWhere(Test(_)) == SelectSeq([n \in DOMAIN nodes |-> n], Test)

\* One round: take the front node, lower its consumers, queue the ready ones.
KahnStep(k) ==
    IF k.queue = <<>> THEN k
    ELSE LET n == Head(k.queue)
             left == [m \in DOMAIN nodes |-> k.left[m] - Feeds(n, m)]
         IN [queue |-> Tail(k.queue) \o NodesWhere(LAMBDA m : k.left[m] > 0 /\ left[m] = 0),
             left |-> left, order |-> Append(k.order, n)]

\* The order; shorter than the node list when there is a cycle.
TopologicalOrder ==
    FoldLeft(LAMBDA k, n : KahnStep(k),
             [queue |-> NodesWhere(LAMBDA m : InDegree(m) = 0),
              left |-> [m \in DOMAIN nodes |-> InDegree(m)], order |-> <<>>],
             [n \in DOMAIN nodes |-> n]).order

\* Graph::validate.
Valid ==
    /\ \A e \in DOMAIN edges : OnDevice(edges[e].t) => edges[e].t.pl = key.rank
    /\ Len(TopologicalOrder) = Len(nodes)
    /\ \A n \in DOMAIN nodes :
        /\ nodes[n].op \in {"attention", "state_write_kv"} => HasInput("BatchMeta")
        /\ nodes[n].op = "logits_postprocess" => HasInput("SamplingParams")
        /\ nodes[n].op \in {"sample", "verify"} => HasInput("RngState") /\ HasOutput("UpdatedRngState")
        /\ nodes[n].op = "rope" => /\ positions # NoEdge /\ Len(nodes[n].ins) >= 2
                                   /\ nodes[n].ins[2] = positions
        /\ Validate([op |-> nodes[n].op, at |-> nodes[n].at,
                     ins |-> [p \in DOMAIN nodes[n].ins |-> edges[nodes[n].ins[p]].t],
                     outs |-> [p \in DOMAIN nodes[n].outs |-> edges[nodes[n].outs[p]].t]])

-----------------------------------------------------------------------------
(* Building the graph. *)

Init ==
    /\ nodes = <<>> /\ edges = <<>> /\ external_inputs = {} /\ external_outputs = {}
    /\ inserted_copies = <<>> /\ positions = NoEdge
    /\ value = <<>> /\ want = <<>> /\ compiled = FALSE

FreshEdge(t) == [t |-> t, strides |-> ContiguousStrides(t.sh), src |-> NoEdge]
NewEdge == Len(edges) + 1

PushSource(t) ==
    /\ edges' = Append(edges, FreshEdge(t))
    /\ value' = Append(value, SourceValue(NewEdge, t.sh))

AddTensor(t) ==
    /\ t.cl \in {"Weight", "Param", "State"}
    /\ OnDevice(t) => t.pl = key.rank
    /\ PushSource(t)
    /\ UNCHANGED <<key, nodes, external_inputs, external_outputs, inserted_copies, positions, want, compiled>>

AddExternalInput(kind, t) ==
    /\ kind \notin NonTensorInputs /\ ~HasInput(kind)
    /\ ExternalInputOK(kind, t)
    /\ external_inputs' = external_inputs \cup {[kind |-> kind, edge |-> NewEdge]}
    /\ PushSource(t)
    /\ UNCHANGED <<key, nodes, external_outputs, inserted_copies, positions, want, compiled>>

AddExternalNonTensor(kind) ==
    /\ kind \in NonTensorInputs /\ ~HasInput(kind)
    /\ external_inputs' = external_inputs \cup {[kind |-> kind, edge |-> NoEdge]}
    /\ UNCHANGED <<key, nodes, edges, external_outputs, inserted_copies, positions, value, want, compiled>>

AddExternalOutput(kind, e) ==
    /\ kind # "UpdatedRngState" /\ e \in DOMAIN edges /\ ~HasOutput(kind)
    /\ ExternalOutputOK(kind, edges[e].t)
    /\ ResolveProducer(e) # {}
    /\ external_outputs' = external_outputs \cup {[kind |-> kind, edge |-> e]}
    /\ UNCHANGED <<key, nodes, edges, external_inputs, inserted_copies, positions, value, want, compiled>>

AddUpdatedRngState ==
    /\ ~HasOutput("UpdatedRngState")
    /\ external_outputs' = external_outputs \cup {[kind |-> "UpdatedRngState", edge |-> NoEdge]}
    /\ UNCHANGED <<key, nodes, edges, external_inputs, inserted_copies, positions, value, want, compiled>>

PositionsTensor(kind) ==
    [sh |-> IF kind = "Scalar" THEN <<T>> ELSE <<T, 3>>, dt |-> "u32", q |-> "None",
     ly |-> "CONTIGUOUS", pl |-> key.rank, cl |-> "Activation", sd |-> R]

BindPositions(kind) ==
    /\ positions = NoEdge /\ HasInput("BatchMeta")
    /\ positions' = NewEdge
    /\ PushSource(PositionsTensor(kind))
    /\ UNCHANGED <<key, nodes, external_inputs, external_outputs, inserted_copies, want, compiled>>

\* The op is not validated here: only validate looks at operands.
AddOp(op, at, ins, reqs, outs) ==
    /\ Range(ins) \subseteq DOMAIN edges /\ Len(reqs) = Len(ins)
    /\ edges' = edges \o [j \in DOMAIN outs |-> FreshEdge(outs[j])]
    /\ value' = value \o [j \in DOMAIN outs |-> SourceValue(Len(edges) + j, outs[j].sh)]
    /\ nodes' = Append(nodes, [op |-> op, at |-> at, ins |-> ins, reqs |-> reqs,
                               outs |-> [j \in DOMAIN outs |-> Len(edges) + j]])
    /\ want' = Append(want, [p \in DOMAIN ins |-> value[ins[p]]])
    /\ compiled' = FALSE
    /\ UNCHANGED <<key, external_inputs, external_outputs, inserted_copies, positions>>

SetNodeInputRequirement(n, p, req) ==
    /\ n \in DOMAIN nodes /\ p \in DOMAIN nodes[n].ins
    /\ nodes' = [nodes EXCEPT ![n].reqs[p] = req]
    /\ compiled' = FALSE
    /\ UNCHANGED <<key, edges, external_inputs, external_outputs, inserted_copies, positions, value, want>>

RewireNodeInput(n, p, e) ==
    /\ n \in DOMAIN nodes /\ e \in DOMAIN edges /\ p \in DOMAIN nodes[n].ins
    /\ nodes' = [nodes EXCEPT ![n].ins[p] = e]
    /\ want' = [want EXCEPT ![n][p] = value[e]]
    /\ compiled' = FALSE
    /\ UNCHANGED <<key, edges, external_inputs, external_outputs, inserted_copies, positions, value>>

-----------------------------------------------------------------------------
(* Views. *)

IsPermutation(perm, rank) == Len(perm) = rank /\ Range(perm) = 1 .. rank

\* Mutant: the strides stay in the order of the parent's axes.
PermutedStridesKept(strides, perm) == strides

PermutedStrides(strides, perm) == [k \in DOMAIN perm |-> strides[perm[k]]]

\* The shard axis moves with the axis it names; shard axes count from 0.
RemapSharding(sd, perm) ==
    IF sd.k \in {"Col", "Row"} /\ sd.n + 1 \in Range(perm)
    THEN [sd EXCEPT !.n = (CHOOSE k \in DOMAIN perm : perm[k] = sd.n + 1) - 1]
    ELSE sd

TransposeEdge(e, perm) ==
    LET sh == edges[e].t.sh
    IN /\ e \in DOMAIN edges /\ IsPermutation(perm, Len(sh))
       /\ edges' = Append(edges, [t |-> [edges[e].t EXCEPT !.sh = [k \in DOMAIN perm |-> sh[perm[k]]],
                                                          !.sd = RemapSharding(@, perm)],
                                  strides |-> PermutedStrides(edges[e].strides, perm), src |-> e])
       /\ value' = Append(value, TransposedValue(value[e], sh, perm))
       /\ UNCHANGED <<key, nodes, external_inputs, external_outputs, inserted_copies, positions, want, compiled>>

ReshapeAllowed(e, new) ==
    /\ IsContiguous(edges[e]) /\ edges[e].t.ly = "CONTIGUOUS"
    /\ new # edges[e].t.sh => edges[e].t.sd.k \in {"Replicated", "Partial"}
    /\ AllConcrete(edges[e].t.sh) /\ AllConcrete(new) => Elements(edges[e].t.sh) = Elements(new)

\* A reshape over symbols is trusted: at run time the new shape may hold more
\* or fewer elements than the old one.
ReshapeEdge(e, new) ==
    LET t == [edges[e].t EXCEPT !.sh = new]
    IN /\ e \in DOMAIN edges /\ ReshapeAllowed(e, new) /\ TensorOK(t)
       /\ edges' = Append(edges, [t |-> t, strides |-> ContiguousStrides(new), src |-> e])
       /\ value' = Append(value, ReshapedValue(value[e], edges[e].t.sh, new))
       /\ UNCHANGED <<key, nodes, external_inputs, external_outputs, inserted_copies, positions, want, compiled>>

-----------------------------------------------------------------------------
(* materialize_copies. *)

\* The inputs that ask for contiguous memory and would not get it, in node
\* and operand order.
Mismatches ==
    LET of(n) == SelectSeq([p \in DOMAIN nodes[n].ins |-> [n |-> n, p |-> p, e |-> nodes[n].ins[p]]],
                           LAMBDA m : nodes[n].op # "copy" /\ ~IsSatisfied(nodes[n].reqs[m.p], edges[m.e]))
    IN FlattenSeq([n \in DOMAIN nodes |-> of(n)])

CopyFor(e) == {c \in DOMAIN inserted_copies : inserted_copies[c].source_edge = e}

\* The sources to copy in this pass: no copy of an earlier pass, each once.
Planned ==
    LET new == SelectSeq([k \in DOMAIN Mismatches |-> Mismatches[k].e], LAMBDA e : CopyFor(e) = {})
    IN FoldLeft(LAMBDA s, e : IF e \in Range(s) THEN s ELSE Append(s, e), <<>>, new)

\* Where the contiguous twin of a source edge is, or will be.
DestOf(e) ==
    IF CopyFor(e) # {} THEN inserted_copies[CHOOSE c \in CopyFor(e) : TRUE].dest_edge
    ELSE Len(edges) + (CHOOSE k \in DOMAIN Planned : Planned[k] = e)

ConsumersOf(e) == {m.n : m \in {x \in Range(Mismatches) : x.e = e}}

\* Mutant: the first consumer of a source is rewired and the others are not.
RewiredFirst(n, p) ==
    LET mine == {m \in Range(Mismatches) : m.n = n /\ m.p = p}
    IN IF mine = {} \/ \E m \in Range(Mismatches) : m.e = nodes[n].ins[p] /\ m.n < n
       THEN nodes[n].ins[p] ELSE DestOf(nodes[n].ins[p])

RewiredInput(n, p) ==
    IF \E m \in Range(Mismatches) : m.n = n /\ m.p = p THEN DestOf(nodes[n].ins[p]) ELSE nodes[n].ins[p]

CopyNode(k) ==
    [op |-> "copy", at |-> [kind |-> "Contiguize"], ins |-> <<Planned[k]>>, reqs |-> <<"Any">>,
     outs |-> <<Len(edges) + k>>]

\* Mutant: the twin keeps the layout of its source.
CopyTensorSameLayout(e) == edges[e].t

CopyTensor(e) == [edges[e].t EXCEPT !.ly = "CONTIGUOUS"]

MaterializeCopies ==
    /\ edges' = edges \o [k \in DOMAIN Planned |-> FreshEdge(CopyTensor(Planned[k]))]
    /\ value' = value \o [k \in DOMAIN Planned |-> value[Planned[k]]]
    /\ nodes' = [n \in DOMAIN nodes |->
                    [nodes[n] EXCEPT !.ins = [p \in DOMAIN nodes[n].ins |-> RewiredInput(n, p)]]]
                \o [k \in DOMAIN Planned |-> CopyNode(k)]
    /\ want' = want \o [k \in DOMAIN Planned |-> <<value[Planned[k]]>>]
    /\ inserted_copies' =
            [c \in DOMAIN inserted_copies |->
                [inserted_copies[c] EXCEPT !.consumer_nodes = @ \cup ConsumersOf(inserted_copies[c].source_edge)]]
            \o [k \in DOMAIN Planned |->
                [copy_node |-> Len(nodes) + k, source_edge |-> Planned[k], dest_edge |-> Len(edges) + k,
                 consumer_nodes |-> ConsumersOf(Planned[k])]]
    /\ compiled' = TRUE
    /\ UNCHANGED <<key, external_inputs, external_outputs, positions>>

-----------------------------------------------------------------------------
(* Properties. *)

GraphTypeOK ==
    /\ Len(value) = Len(edges) /\ Len(want) = Len(nodes)
    /\ \A e \in DOMAIN edges : TensorOK(edges[e].t) /\ Len(edges[e].strides) = Len(edges[e].t.sh)
                               /\ edges[e].src \in 0 .. e - 1
    /\ \A n \in DOMAIN nodes : Range(nodes[n].ins) \cup Range(nodes[n].outs) \subseteq DOMAIN edges
                               /\ Len(nodes[n].reqs) = Len(nodes[n].ins)

\* A key made from raw counts is one the checked constructor accepts, and
\* bucketing it again changes nothing (StepGraphKey::new, from_unbucketed).
KeyCanonical ==
    KeyOK(key) /\ FromUnbucketed(key.rank, key.s, key.t_dec, key.t_pre) = key

Stored(e) == LET b == Base[e]
             IN [k \in 0 .. Elements(edges[b].t.sh) - 1 |->
                    value[b].at[CHOOSE ix \in Indices(edges[b].t.sh) : RowMajor(edges[b].t.sh, ix) = k]]

\* The indices of an edge that name an element of its source; all of them
\* unless a reshape over symbols grew the shape.
Named(e) == {ix \in Indices(edges[e].t.sh) : value[e].at[ix] # Outside}

\* Reading a concrete edge through its strides gives the value it stands for:
\* transposes and reshapes keep strides and shape in step (transpose_edge,
\* reshape_edge).
StridesReadValue ==
    \A e \in DOMAIN edges : AllConcrete(edges[e].t.sh) /\ AllConcrete(edges[Base[e]].t.sh) =>
        \A ix \in Named(e) : value[e].at[ix] = Stored(e)[Dot(ix, edges[e].strides)]

\* An edge the stride test calls contiguous is contiguous at run time too, for
\* symbols of any extent: a linear read gives its value (compute_contiguous_strides).
ContiguousReadsLinear ==
    \A e \in DOMAIN edges : IsContiguous(edges[e]) =>
        \A ix \in Named(e) : value[e].at[ix] = Stored(e)[RowMajor(edges[e].t.sh, ix)]

\* The shard axis of a view cuts its elements where the shard axis of the source
\* cuts them (transpose_edge).
ShardAxisFollows ==
    \A e \in DOMAIN edges : edges[e].t.sd.k \in {"Col", "Row"} =>
        LET root == edges[value[e].root].t
        IN \A ix \in Indices(edges[e].t.sh), jx \in Indices(root.sh) :
            value[e].at[ix] = RowMajor(root.sh, jx) => ix[edges[e].t.sd.n + 1] = jx[root.sd.n + 1]

\* After materialize_copies every input has the value its client asked for, and
\* every contiguous requirement is met by the edge now wired.
CopiesPreserveReads ==
    compiled => \A n \in DOMAIN nodes : \A p \in DOMAIN nodes[n].ins :
        /\ value[nodes[n].ins[p]] = want[n][p]
        /\ nodes[n].op # "copy" => IsSatisfied(nodes[n].reqs[p], edges[nodes[n].ins[p]])

\* However often the pass runs, a strided source is copied once, and the
\* record, the copy node and its edges agree (inserted_copies).
OneCopyPerSource ==
    \A c \in DOMAIN inserted_copies :
        LET r == inserted_copies[c]
        IN /\ \A d \in DOMAIN inserted_copies : inserted_copies[d].source_edge = r.source_edge => c = d
           /\ nodes[r.copy_node].ins = <<r.source_edge>> /\ nodes[r.copy_node].outs = <<r.dest_edge>>

DependsOn == {d \in (DOMAIN nodes) \X (DOMAIN nodes) :
                \E p \in DOMAIN nodes[d[1]].ins :
                    Base[nodes[d[1]].ins[p]] \in Range(nodes[d[2]].outs)}

\* The execution order runs every node after the nodes its inputs come from,
\* through views as well, and covers all nodes unless some nodes wait for each
\* other in a circle (topological_order).
OrderIsSound ==
    LET order == TopologicalOrder
        stuck == (DOMAIN nodes) \ Range(order)
    IN /\ \A i \in DOMAIN order : \A d \in DependsOn :
            d[1] = order[i] => \E j \in 1 .. i - 1 : order[j] = d[2]
       /\ Len(order) = Cardinality(Range(order))
       /\ \A m \in stuck : \E n \in stuck : <<m, n>> \in DependsOn

\* Inserting copies never turns a valid graph into an invalid one.
MaterializeKeepsValid == [][compiled' /\ ~compiled /\ Valid => Valid']_gvars

\* A view, whatever it was taken of, names the elements of its base: strides,
\* contiguity and the sharded axis follow transposes and reshapes.
ViewsSound == StridesReadValue /\ ContiguousReadsLinear /\ ShardAxisFollows

\* Inserted copies keep what every input reads and are not made twice.
CopiesSound == CopiesPreserveReads /\ OneCopyPerSource

\* Nodes come after what they read, through views and copies, and one step has
\* one key.
GraphSound == GraphTypeOK /\ OrderIsSound /\ KeyCanonical

=============================================================================
