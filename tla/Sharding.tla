------------------------------ MODULE Sharding ------------------------------
(***************************************************************************)
(* The sharding rules of the ops (r9v-ir sharding.rs): the static table of *)
(* legal input and output layouts, and how a rule is matched against the   *)
(* layouts of tensors, binding the symbolic head and expert counts.        *)
(***************************************************************************)
EXTENDS OpShapes

Sym == 0                                     \* a symbolic count in a pattern
R == [k |-> "Replicated", n |-> 0]
P == [k |-> "Partial", n |-> 0]
Col(axis) == [k |-> "Col", n |-> axis]
Row(axis) == [k |-> "Row", n |-> axis]
HeadShard(n) == [k |-> "Heads", n |-> n]
ExpertShard(n) == [k |-> "Experts", n |-> n]
HeadS == HeadShard(Sym)
ExpertS == ExpertShard(Sym)

Rule(ins, outs) == [ins |-> ins, outs |-> outs]

AllReplicated(n, m) == Rule([j \in 1 .. n |-> R], [j \in 1 .. m |-> R])

PassthroughRules ==
    {Rule(<<l>>, <<l>>) : l \in {R, Col(0), Col(1), Row(0), Row(1), HeadS, ExpertS}}

ResidualAddRules ==
    {Rule(<<l, l>>, <<l>>) : l \in {R, P, Col(1), Row(1), HeadS}}
        \cup {Rule(<<P, R>>, <<P>>), Rule(<<R, P>>, <<P>>)}

\* Mutant: the column-parallel product keeps its output replicated.
MatmulRulesReplicated ==
    {Rule(<<R, Col(0)>>, <<R>>), Rule(<<Col(1), Row(1)>>, <<P>>), AllReplicated(2, 1)}

MatmulRules ==
    {Rule(<<R, Col(0)>>, <<Col(1)>>), Rule(<<Col(1), Row(1)>>, <<P>>), AllReplicated(2, 1)}

CausalConvRules ==
    {AllReplicated(2, 1), Rule(<<Col(1), Col(0)>>, <<Col(1)>>),
     AllReplicated(3, 1), Rule(<<Col(1), Col(0), Col(0)>>, <<Col(1)>>)}

ScatterRules ==
    {AllReplicated(2, 1), Rule(<<Col(1), R>>, <<Col(1)>>),
     AllReplicated(3, 1), Rule(<<Col(1), R, Col(1)>>, <<Col(1)>>)}

VerifyRules == {AllReplicated(2, 2), AllReplicated(3, 2)}

\* legal_layouts, by op name.
LegalLayouts(op) ==
    CASE op = "embed_gather" -> {AllReplicated(2, 1), Rule(<<R, Row(0)>>, <<P>>)}
      [] op = "ngram_gather" -> {AllReplicated(2, 1), Rule(<<Row(1), Row(1)>>, <<Row(1)>>),
                                 Rule(<<Row(1), R>>, <<Row(1)>>)}
      [] op = "quant_act" -> {AllReplicated(1, 2), Rule(<<Col(1)>>, <<Col(1), R>>)}
      [] op \in {"cast", "copy"} -> PassthroughRules
      [] op = "gather_rows" -> {AllReplicated(2, 1), Rule(<<Col(1), R>>, <<Col(1)>>)}
      [] op = "scatter_add_rows" -> ScatterRules
      [] op = "split" -> {AllReplicated(1, 2)}
      [] op = "concat" -> {AllReplicated(2, 1)}
      [] op = "norm" -> {AllReplicated(2, 1), AllReplicated(3, 1)}
      [] op = "residual_add" -> ResidualAddRules
      [] op = "act_mul" -> {AllReplicated(2, 1), Rule(<<Col(1), Col(1)>>, <<Col(1)>>)}
      [] op = "activation" -> {AllReplicated(1, 1), Rule(<<Col(1)>>, <<Col(1)>>)}
      [] op = "logit_softcap" -> {AllReplicated(1, 1)}
      [] op = "rope" -> {AllReplicated(2, 1), Rule(<<HeadS, R>>, <<HeadS>>)}
      [] op = "matmul" -> MatmulRules
      [] op = "moe_route" -> {AllReplicated(1, 2), AllReplicated(2, 2)}
      [] op = "moe_ffn" -> {Rule(<<R, R, R, ExpertS, ExpertS>>, <<P>>), AllReplicated(5, 1)}
      [] op = "state_write_kv" -> {AllReplicated(2, 0), Rule(<<HeadS, HeadS>>, <<>>)}
      [] op = "attention" -> {AllReplicated(1, 1), Rule(<<HeadS>>, <<HeadS>>)}
      [] op = "causal_conv1d" -> CausalConvRules
      [] op = "linear_attn_scan" -> {AllReplicated(5, 1), Rule([j \in 1 .. 5 |-> HeadS], <<HeadS>>)}
      [] op = "logits_postprocess" -> {AllReplicated(j, 1) : j \in 1 .. 3}
      [] op = "sample" -> {AllReplicated(1, 1)}
      [] op = "verify" -> VerifyRules
      [] op = "all_reduce" -> {Rule(<<P>>, <<R>>)}
      [] op = "all_gather" -> {Rule(<<l>>, <<R>>) : l \in {Col(0), Col(1), Row(0), Row(1)}}
      [] op = "reduce_scatter" -> {Rule(<<P>>, <<l>>) : l \in {Col(0), Col(1), Row(0), Row(1)}}
      [] op = "all_to_all" -> {Rule(<<ExpertS, R>>, <<ExpertS>>), AllReplicated(2, 1)}
      [] op = "send" -> {Rule(<<l>>, <<>>) : l \in {R, Col(0), Col(1)}}
      [] op = "recv" -> {Rule(<<>>, <<l>>) : l \in {R, Col(0), Col(1)}}
      [] op = "barrier" -> {Rule(<<>>, <<>>)}

-----------------------------------------------------------------------------
(* Matching. *)

Counted == {"Heads", "Experts"}
Unbound == [ok |-> TRUE, Heads |-> 0, Experts |-> 0]

\* match_pattern_with_bindings: one pattern against one layout, with the
\* counts bound so far (0 when unbound).
MatchPattern(b, p, l) ==
    IF ~b.ok \/ p.k # l.k THEN [b EXCEPT !.ok = FALSE]
    ELSE IF p.k \notin Counted THEN [b EXCEPT !.ok = p.n = l.n]
    ELSE IF l.n = 0 THEN [b EXCEPT !.ok = FALSE]
    ELSE IF p.n # Sym THEN [b EXCEPT !.ok = p.n = l.n]
    ELSE IF b[p.k] # 0 THEN [b EXCEPT !.ok = b[p.k] = l.n]
    ELSE [b EXCEPT ![p.k] = l.n]

\* ShardingRule::matches: exact arity, inputs and then outputs in one binding.
Matches(r, ins, outs) ==
    /\ Len(r.ins) = Len(ins) /\ Len(r.outs) = Len(outs)
    /\ LET ps == r.ins \o r.outs  ls == ins \o outs
       IN FoldLeft(LAMBDA b, j : MatchPattern(b, ps[j], ls[j]), Unbound,
                   [j \in 1 .. Len(ps) |-> j]).ok

\* A tensor's own layout is sound: the axis exists, the counts are not zero.
LayoutFits(t, l) == /\ l.k \in {"Col", "Row"} => l.n < Rank(t)
                    /\ l.k \in Counted => l.n # 0

\* ShardingRule::matches_tensors on a node and the layouts of its tensors.
MatchesTensors(r, n, ins, outs) ==
    /\ Len(ins) = Len(n.ins) /\ Len(outs) = Len(n.outs)
    /\ \A j \in DOMAIN ins : LayoutFits(n.ins[j], ins[j])
    /\ \A j \in DOMAIN outs : LayoutFits(n.outs[j], outs[j])
    /\ Matches(r, ins, outs)

\* ShardLayoutPattern::to_concrete; the zero count has no layout.
ToConcrete(p, heads, experts) ==
    CASE p.k = "Heads" /\ p.n = Sym -> HeadShard(heads)
      [] p.k = "Experts" /\ p.n = Sym -> ExpertShard(experts)
      [] OTHER -> p
ConcreteExists(p, heads, experts) == p.k \in Counted => ToConcrete(p, heads, experts).n # 0
=============================================================================
