---------------------------- MODULE OpCases ----------------------------
(***************************************************************************)
(* One accepted example of every op and variant, and every node one edit   *)
(* away from it: another extent, symbol, rank, element type, quantisation, *)
(* placement, layout or class of one tensor, another attribute, a missing  *)
(* or an extra operand.                                                    *)
(***************************************************************************)
EXTENDS Sharding, OpStatics

VARIABLES node, edited

caseVars == <<node, edited>>

A(sh, dt) == [sh |-> sh, dt |-> dt, q |-> "None", ly |-> "CONTIGUOUS", pl |-> "dev0", cl |-> "Activation"]
Aq(sh, dt, q) == [A(sh, dt) EXCEPT !.q = q]
W(sh, dt, q) == [A(sh, dt) EXCEPT !.q = q, !.cl = "Weight"]
Pm(sh) == [A(sh, "f32") EXCEPT !.cl = "Param"]
N(op, at, ins, outs) == [op |-> op, at |-> at, ins |-> ins, outs |-> outs]
OutF == [out_dtype |-> "f16"]
Unit == [unit |-> 0]
x24 == A(<<2, 4>>, "f16")
y26 == A(<<2, 6>>, "f16")
ids == A(<<2>>, "u32")
h243 == A(<<2, 4, 6>>, "f16")
lg == A(<<2, 3, 4>>, "f32")

NgramAt(source, combine) ==
    [source |-> source, combine |-> combine, heads |-> 2, orders |-> <<1, 2>>,
     table_sizes |-> <<3, 3>>, out_dtype |-> "f16"]
Staged3 == [A(<<2, 2, 4>>, "i8") EXCEPT !.q = "Scheme", !.cl = "Staging"]
NormAt == [eps |-> 1, weight_offset |-> 0, perHead |-> FALSE, head |-> 0, out_dtype |-> "f16"]
RopeAt == [rot_dim |-> 4, theta |-> 1, scaling |-> [kind |-> "None"], sections |-> <<>>, out_dtype |-> "f16"]
Yarn == [kind |-> "Yarn", factor |-> 2, beta_fast |-> 2, beta_slow |-> 1, mscale |-> 1, orig_ctx |-> 4]
MatAt(e, t) == [out_dtype |-> "f16", epilogue |-> e, transpose_w |-> t]
RouteAt == [top_k |-> 2, scale |-> 1, grouped |-> FALSE, n_group |-> 0, topk_group |-> 0]
KvAt == [cache_dtype |-> "f16", latent |-> FALSE, kv_lora_rank |-> 0, rope_dim |-> 0, handle |-> "KvPaged"]
AttnAt == [softmax_scale |-> 1, mask |-> "Causal", window |-> 0, capped |-> FALSE, logit_softcap |-> 0,
           mla |-> FALSE, kv_lora_rank |-> 0, qk_nope_dim |-> 0, qk_rope_dim |-> 0, v_dim |-> 0,
           has_q_lora |-> FALSE, q_lora_rank |-> 0, out_dtype |-> "f16", handle |-> "KvPaged"]

DataNodes == {
  N("embed_gather", [scale |-> 1, out_dtype |-> "f16"], <<ids, W(<<8, 4>>, "i8", "PerRow")>>, <<x24>>),
  N("ngram_gather", NgramAt("Staged", "Concat"), <<Staged3, A(<<2, 2>>, "f32")>>, <<A(<<2, 8>>, "f16")>>),
  N("ngram_gather", NgramAt("Staged", "Concat"), <<Staged3, A(<<2>>, "f32")>>, <<A(<<2, 8>>, "f16")>>),
  N("ngram_gather", NgramAt("Staged", "Sum"), <<Staged3, A(<<2, 2>>, "f32")>>, <<x24>>),
  N("ngram_gather", NgramAt("Staged", "Sum"), <<Staged3, A(<<2>>, "f32")>>, <<x24>>),
  N("ngram_gather", NgramAt("Device", "Sum"), <<ids, W(<<6, 4>>, "f16", "None")>>, <<x24>>),
  N("quant_act", [scheme |-> "PerToken", target |-> "i8"], <<x24>>, <<Aq(<<2, 4>>, "i8", "PerToken"), A(<<2>>, "f32")>>),
  N("quant_act", [scheme |-> "PerBlock32", target |-> "i8"], <<A(<<2, 64>>, "f16")>>,
    <<Aq(<<2, 64>>, "i8", "PerBlock32"), A(<<2, 2>>, "f32")>>),
  N("cast", [dtype |-> "f32"], <<x24>>, <<A(<<2, 4>>, "f32")>>),
  N("copy", [kind |-> "Contiguize"], <<W(<<4, 6>>, "i8", "PerRow")>>, <<W(<<4, 6>>, "i8", "PerRow")>>),
  N("copy", [kind |-> "DeviceToDevice"], <<x24>>, <<[x24 EXCEPT !.pl = "dev1"]>>),
  N("copy", [kind |-> "HostToDevice"], <<[W(<<4, 4>>, "f16", "None") EXCEPT !.pl = "Host"]>>, <<W(<<4, 4>>, "f16", "None")>>),
  N("copy", [kind |-> "DeviceToHost"], <<W(<<4, 4>>, "f16", "None")>>, <<[W(<<4, 4>>, "f16", "None") EXCEPT !.pl = "Tiered"]>>),
  N("gather_rows", Unit, <<A(<<8, 4>>, "f16"), ids>>, <<x24>>),
  N("scatter_add_rows", Unit, <<x24, ids>>, <<A(<<8, 4>>, "f16")>>),
  N("scatter_add_rows", Unit, <<x24, ids, A(<<8, 4>>, "f16")>>, <<A(<<8, 4>>, "f16")>>),
  N("split", [first |-> 2], <<h243>>, <<A(<<2, 4, 2>>, "f16"), A(<<2, 4, 4>>, "f16")>>),
  N("concat", Unit, <<A(<<2, 4, 2>>, "f16"), A(<<2, 4, 4>>, "f16")>>, <<h243>>)}

ElementNodes == {
  N("norm", NormAt, <<x24, Pm(<<4>>)>>, <<x24>>),
  N("norm", [NormAt EXCEPT !.perHead = TRUE, !.head = 2], <<x24, Pm(<<4>>), Pm(<<4>>)>>, <<x24>>),
  N("residual_add", [scale |-> 1, out_dtype |-> "f16"], <<x24, x24>>, <<x24>>),
  N("residual_add", [scale |-> 1, out_dtype |-> "f16"], <<h243, h243>>, <<h243>>),
  N("act_mul", [clamped |-> TRUE, clamp |-> 1], <<x24, x24>>, <<x24>>),
  N("activation", [clamped |-> FALSE, clamp |-> 0], <<x24>>, <<x24>>),
  N("logit_softcap", [cap |-> 1], <<A(<<2, 4>>, "f32")>>, <<A(<<2, 4>>, "f32")>>),
  N("rope", RopeAt, <<h243, ids>>, <<h243>>),
  N("rope", [RopeAt EXCEPT !.scaling = Yarn], <<h243, ids>>, <<h243>>),
  N("rope", [RopeAt EXCEPT !.rot_dim = 6, !.sections = <<2, 2, 2>>, !.scaling = [kind |-> "Linear", factor |-> 2]],
    <<h243, A(<<2, 3>>, "u32")>>, <<h243>>)}

GemmNodes == {
  N("matmul", MatAt("None", FALSE), <<x24, W(<<6, 4>>, "f16", "None")>>, <<y26>>),
  N("matmul", MatAt("Act", FALSE), <<Aq(<<2, 4>>, "i8", "PerToken"), W(<<6, 4>>, "i4", "Scheme")>>, <<y26>>),
  N("matmul", MatAt("Bias", FALSE), <<x24, W(<<6, 4>>, "i8", "PerRow"), Pm(<<6>>)>>, <<y26>>),
  N("matmul", MatAt("Residual", FALSE), <<x24, W(<<6, 4>>, "f16", "None"), y26>>, <<y26>>),
  N("matmul", MatAt("None", TRUE), <<x24, W(<<4, 6>>, "f16", "None")>>, <<y26>>),
  N("moe_route", RouteAt, <<A(<<2, 4>>, "f32")>>, <<A(<<2, 2>>, "u32"), A(<<2, 2>>, "f32")>>),
  N("moe_route", [RouteAt EXCEPT !.grouped = TRUE, !.n_group = 2, !.topk_group = 1],
    <<A(<<2, 4>>, "f32"), Pm(<<4>>)>>, <<A(<<2, 2>>, "u32"), A(<<2, 2>>, "f32")>>),
  N("moe_ffn", OutF, <<x24, A(<<2, 2>>, "u32"), A(<<2, 2>>, "f32"), W(<<4, 6, 4>>, "i8", "PerRow"),
    W(<<4, 4, 3>>, "i4", "Scheme")>>, <<x24>>)}

StateNodes == {
  N("state_write_kv", KvAt, <<h243, A(<<2, 4, 2>>, "f16")>>, <<>>),
  N("state_write_kv", [KvAt EXCEPT !.latent = TRUE, !.kv_lora_rank = 4, !.rope_dim = 2, !.handle = "KvLatent"],
    <<A(<<2, 4, 4>>, "f16"), A(<<2, 4, 2>>, "f16")>>, <<>>),
  N("attention", AttnAt, <<h243>>, <<h243>>),
  N("attention", [AttnAt EXCEPT !.mask = "CausalWindow", !.window = 2, !.capped = TRUE, !.logit_softcap = 1,
    !.mla = TRUE, !.kv_lora_rank = 4, !.qk_nope_dim = 4, !.qk_rope_dim = 2, !.v_dim = 3, !.has_q_lora = TRUE,
    !.q_lora_rank = 2, !.handle = "KvLatent"], <<h243>>, <<A(<<2, 4, 3>>, "f16")>>),
  N("causal_conv1d", [kernel |-> 3, handle |-> "ConvWindow"], <<x24, W(<<4, 3>>, "f16", "None"), Pm(<<4>>)>>, <<x24>>),
  N("causal_conv1d", [kernel |-> 3, handle |-> "ConvWindow"], <<x24, W(<<4, 3>>, "f16", "None")>>, <<x24>>),
  N("linear_attn_scan", [chunk |-> 2, out_dtype |-> "f16", handle |-> "Recurrent"],
    <<h243, h243, A(<<2, 4, 3>>, "f16"), A(<<2, 4>>, "f32"), A(<<2, 4>>, "f32")>>, <<A(<<2, 4, 3>>, "f16")>>)}

SampleNodes == {
  N("logits_postprocess", Unit, <<lg>>, <<lg>>),
  N("logits_postprocess", Unit, <<lg, A(<<2, 4>>, "u32")>>, <<lg>>),
  N("logits_postprocess", Unit, <<lg, A(<<2, 3, 4>>, "bool")>>, <<lg>>),
  N("logits_postprocess", Unit, <<lg, A(<<2, 4>>, "u32"), A(<<2, 3, 4>>, "bool")>>, <<lg>>),
  N("sample", Unit, <<A(<<2, 4>>, "f32")>>, <<ids>>),
  N("verify", [method |-> "Greedy", eps |-> 0, delta |-> 0], <<A(<<2, 2>>, "u32"), lg>>, <<A(<<2, 3>>, "u32"), ids>>),
  N("verify", [method |-> "TypicalAcceptance", eps |-> 1, delta |-> 1],
    <<A(<<2, 2>>, "u32"), A(<<2, 2, 4>>, "f32"), lg>>, <<A(<<2, 3>>, "u32"), ids>>)}

CollectiveNodes == {
  N("all_reduce", [dtype |-> "f16", reduce_in |-> "f32"], <<x24>>, <<x24>>),
  N("all_gather", [dtype |-> "f16", axis |-> 1], <<x24>>, <<A(<<2, 4>>, "f16")>>),
  N("reduce_scatter", [dtype |-> "f16", axis |-> 0, reduce_in |-> "f32"], <<x24>>, <<x24>>),
  N("all_to_all", [dtype |-> "f16"], <<x24, ids>>, <<A(<<4, 4>>, "f16")>>),
  N("send", [dtype |-> "f16", peer |-> 1], <<x24>>, <<>>),
  N("recv", [dtype |-> "f16", peer |-> 1, shape |-> <<2, 4>>], <<>>, <<x24>>),
  N("barrier", Unit, <<>>, <<>>)}

Nodes == UNION {DataNodes, ElementNodes, GemmNodes, StateNodes, SampleNodes, CollectiveNodes}

-----------------------------------------------------------------------------
(* Edits.  Only tensors that Tensor::new accepts can be operands. *)

EditExtents == {1, 2, 3, 4, 5, 8, 65, -1, -2}
FloatKeys == {"scale", "eps", "weight_offset", "clamp", "cap", "theta", "softmax_scale", "logit_softcap", "delta"}
BoolKeys == {"perHead", "clamped", "grouped", "latent", "capped", "mla", "has_q_lora", "transpose_w"}
TextValues ==
    [out_dtype |-> DTypes, target |-> DTypes, dtype |-> DTypes, cache_dtype |-> DTypes, reduce_in |-> DTypes,
     scheme |-> Quants, source |-> {"Staged", "Device"}, combine |-> {"Concat", "Sum"},
     kind |-> {"Contiguize", "DeviceToDevice", "HostToDevice", "DeviceToHost"},
     epilogue |-> {"None", "Act", "Bias", "Residual"}, mask |-> {"Causal", "CausalWindow", "Tree"},
     method |-> {"Greedy", "Rejection", "TypicalAcceptance"},
     handle |-> {"KvPaged", "KvLatent", "ConvWindow", "Recurrent"}]
SeqValues ==
    [orders |-> {<<>>, <<1, 0>>, <<1>>}, table_sizes |-> {<<>>, <<6, 0>>, <<6>>, <<MaxU32, 1>>},
     sections |-> {<<2, 2, 0>>, <<2, 1, 2>>, <<2, 4, 2>>, <<>>}, shape |-> {<<2>>, <<2, 5>>, <<-1, 4>>}]
ScalingValues ==
    {[kind |-> "Dynamic"], [kind |-> "Linear", factor |-> NonFinite], [Yarn EXCEPT !.beta_slow = 3],
     [Yarn EXCEPT !.orig_ctx = 0], [Yarn EXCEPT !.mscale = -1]}

AttrValues(k) ==
    IF k \in BoolKeys THEN BOOLEAN
    ELSE IF k \in DOMAIN TextValues THEN TextValues[k]
    ELSE IF k \in DOMAIN SeqValues THEN SeqValues[k]
    ELSE IF k = "scaling" THEN ScalingValues
    ELSE IF k = "unit" THEN {0}
    ELSE IF k \in FloatKeys THEN {-1, 0, 1, NonFinite} ELSE 0 .. 4

\* Every tensor one edit away from t.
Variants(t) ==
    {v \in UNION {{[t EXCEPT !.sh[d] = e] : d \in DOMAIN t.sh, e \in EditExtents},
                  {[t EXCEPT !.sh = Append(t.sh, 1)], [t EXCEPT !.sh = SubSeq(t.sh, 1, Len(t.sh) - 1)]},
                  {[t EXCEPT !.dt = e] : e \in DTypes}, {[t EXCEPT !.q = e] : e \in Quants},
                  {[t EXCEPT !.ly = e] : e \in Layouts}, {[t EXCEPT !.pl = e] : e \in Placements},
                  {[t EXCEPT !.cl = e] : e \in Classes}} : TensorOK(v)}

CaseInit == node \in Nodes /\ edited = FALSE

EditInput == \E j \in DOMAIN node.ins : \E t \in Variants(node.ins[j]) : node' = [node EXCEPT !.ins[j] = t]
EditOutput == \E j \in DOMAIN node.outs : \E t \in Variants(node.outs[j]) : node' = [node EXCEPT !.outs[j] = t]
EditAttr == \E k \in DOMAIN node.at : \E v \in AttrValues(k) : node' = [node EXCEPT !.at[k] = v]
DropInput == node.ins # <<>> /\ node' = [node EXCEPT !.ins = Front(@)]
ExtraInput == \E t \in {x24, ids, Pm(<<4>>), lg} : node' = [node EXCEPT !.ins = Append(@, t)]
DropOutput == node.outs # <<>> /\ node' = [node EXCEPT !.outs = Front(@)]
ExtraOutput == node' = [node EXCEPT !.outs = Append(@, x24)]

CaseNext == /\ ~edited /\ edited' = TRUE
            /\ \/ EditInput \/ EditOutput \/ EditAttr
               \/ DropInput \/ ExtraInput \/ DropOutput \/ ExtraOutput

CaseSpec == CaseInit /\ [][CaseNext]_caseVars

-----------------------------------------------------------------------------
(* Inputs of OpStatic::from_op.  The caller of the registry resolves an op's *)
(* operands into facts; that caller is not part of the repository, only the  *)
(* crate's tests build facts.  TruthfulFacts is the caller that reports what *)
(* the operands are, FactVariants the callers that report one field else.    *)

WidthOf(t) == t.sh[Rank(t)]

OptionalDType(i, j) == IF j \in DOMAIN i THEN i[j].dt ELSE "none"

PlacementKind(t) == IF t.pl \in Devices THEN "Device" ELSE t.pl

Proj(w) == [dtype |-> w.dt, scheme |-> w.q, layout |-> w.ly]

GemmFacts(n) ==
    LET a == n.at  i == n.ins IN
    CASE n.op = "matmul" ->
           [m_bucket |-> i[1].sh[1], n |-> NOf(a, i[2]), k |-> KOf(a, i[2]),
            w_dtype |-> i[2].dt, w_scheme |-> i[2].q, w_layout |-> i[2].ly,
            in_dtype |-> i[1].dt, act_scheme |-> i[1].q, sparse |-> i[2].ly = "L1S",
            residual_dtype |-> IF Len(i) = 3 /\ i[3].cl = "Activation" THEN i[3].dt ELSE "none"]
      [] n.op = "moe_route" ->
           [t_bucket |-> i[1].sh[1], e_total |-> i[1].sh[2], has_bias |-> Len(i) = 2]
      [] n.op = "moe_ffn" ->
           [t_bucket |-> i[1].sh[1], e_local |-> i[4].sh[1], k_topk |-> i[2].sh[2], dm |-> i[1].sh[2],
            dff |-> i[5].sh[3], gate_up |-> Proj(i[4]), down |-> Proj(i[5]), in_dtype |-> i[1].dt,
            act_scheme |-> i[1].q, placement_kind |-> PlacementKind(i[4])]

\* The cache's own facts (heads, element type) come from its state handle.
StateFacts(n) ==
    LET i == n.ins  o == n.outs IN
    CASE n.op = "attention" ->
           [q_bucket |-> i[1].sh[1], h_local |-> i[1].sh[2], hkv_local |-> i[1].sh[2], d |-> i[1].sh[3],
            dv |-> o[1].sh[3], q_dtype |-> i[1].dt, cache_dtype |-> "f16"]
      [] n.op = "state_write_kv" ->
           [hkv_local |-> i[1].sh[2], d |-> i[1].sh[3], dv |-> i[2].sh[3], in_dtype |-> i[1].dt]
      [] n.op = "causal_conv1d" ->
           [t_bucket |-> i[1].sh[1], channels |-> i[1].sh[2], x_dtype |-> i[1].dt, w_dtype |-> i[2].dt,
            w_scheme |-> i[2].q, w_layout |-> i[2].ly, out_dtype |-> o[1].dt, bias_dtype |-> OptionalDType(i, 3)]
      [] n.op = "linear_attn_scan" ->
           [h_local |-> i[1].sh[2], d |-> i[1].sh[3], dv |-> i[3].sh[3], in_dtype |-> i[1].dt,
            mode |-> "Recurrent"]

\* The staged rows or the device table of an n-gram gather; the other of the
\* two descriptors is unused.
NgramFacts(n) ==
    LET staged == n.at.source = "Staged"
        t == IF staged THEN n.ins[1] ELSE n.ins[2]
        unused == [dtype |-> "f16", scheme |-> "None", layout |-> "CONTIGUOUS"]
        table == IF staged THEN unused ELSE Proj(t)
        staging == IF staged THEN Proj(t) ELSE unused
    IN  [dn |-> WidthOf(t), table_dtype |-> table.dtype, table_scheme |-> table.scheme,
         table_layout |-> table.layout, staging_dtype |-> staging.dtype, staging_scheme |-> staging.scheme,
         staging_layout |-> staging.layout, scales_dtype |-> IF staged THEN n.ins[2].dt ELSE "none"]

GatherFacts(n) ==
    LET i == n.ins IN
    CASE n.op = "embed_gather" ->
           [table_placement |-> PlacementKind(i[2]), table_dtype |-> i[2].dt, table_scheme |-> i[2].q,
            table_layout |-> i[2].ly, vocab_size |-> i[2].sh[1], dim |-> i[2].sh[2]]
      [] n.op = "ngram_gather" -> NgramFacts(n)
      [] n.op = "gather_rows" -> [dtype |-> i[1].dt, index_dtype |-> i[2].dt, width |-> i[1].sh[2]]
      [] n.op = "scatter_add_rows" ->
           [dtype |-> i[1].dt, index_dtype |-> i[2].dt, width |-> i[1].sh[2], has_dest |-> Len(i) = 3]

ElementwiseFacts(n) ==
    LET x == n.ins[1] IN
    CASE n.op \in {"quant_act", "cast"} -> [in_dtype |-> x.dt, n |-> WidthOf(x)]
      [] n.op = "copy" -> [dtype |-> x.dt, n |-> WidthOf(x)]
      [] n.op = "split" -> [total |-> WidthOf(x), dtype |-> x.dt]
      [] n.op = "concat" -> [c0 |-> WidthOf(x), c1 |-> WidthOf(n.ins[2]), a_dtype |-> x.dt,
                             b_dtype |-> n.ins[2].dt, out_dtype |-> n.outs[1].dt]
      [] n.op = "norm" -> [in_dtype |-> x.dt, n |-> WidthOf(x), has_bias |-> Len(n.ins) = 3]
      [] n.op = "residual_add" -> [a_dtype |-> x.dt, b_dtype |-> n.ins[2].dt, n |-> WidthOf(x)]
      [] n.op \in {"act_mul", "activation"} -> [dtype |-> x.dt, width |-> WidthOf(x)]
      [] n.op = "logit_softcap" -> [v |-> WidthOf(x)]
      [] n.op = "rope" -> [in_dtype |-> x.dt, h |-> x.sh[2], d |-> x.sh[3]]

SamplingFacts(n) ==
    LET i == n.ins IN
    CASE n.op = "logits_postprocess" ->
           [s_bucket |-> i[1].sh[1], v |-> i[1].sh[3], q_bucket |-> i[1].sh[2],
            has_history_counts |-> \E j \in 2 .. Len(i) : i[j].dt = "u32",
            has_grammar_mask |-> \E j \in 2 .. Len(i) : i[j].dt = "bool"]
      [] n.op = "sample" -> [s_bucket |-> i[1].sh[1], v |-> i[1].sh[2]]
      [] n.op = "verify" ->
           [s_bucket |-> i[1].sh[1], v |-> WidthOf(i[2]), q_bucket |-> i[Len(i)].sh[2],
            has_draft_probs |-> Len(i) = 3]

ElementCount(t) == FoldSeq(LAMBDA d, p : d * p, 1, t.sh)

CollectiveFacts(n) ==
    LET member == [rank |-> 0, world |-> Ranks] IN
    CASE n.op = "barrier" -> member
      [] n.op = "recv" -> member @@ [bytes_bucket |-> ElementCount(n.outs[1]), shape |-> n.outs[1].sh]
      [] OTHER -> member @@ [bytes_bucket |-> ElementCount(n.ins[1])]

TruthfulFacts(n) ==
    [op |-> n.op] @@
    CASE n.op \in DOMAIN GemmFields -> GemmFacts(n)
      [] n.op \in DOMAIN StateFields -> StateFacts(n)
      [] n.op \in DOMAIN GatherFields -> [t_bucket |-> n.outs[1].sh[1]] @@ GatherFacts(n)
      [] n.op \in DOMAIN ElementwiseFields -> [t_bucket |-> n.ins[1].sh[1]] @@ ElementwiseFacts(n)
      [] n.op \in DOMAIN SamplingFields -> SamplingFacts(n)
      [] OTHER -> CollectiveFacts(n)

\* Fields that count something: a bucket, an extent, heads, ranks, bytes.
ExtentFacts ==
    {"m_bucket", "n", "k", "t_bucket", "e_total", "e_local", "k_topk", "dm", "dff", "q_bucket", "h_local",
     "hkv_local", "d", "dv", "channels", "vocab_size", "dim", "dn", "width", "c0", "c1", "total", "h",
     "s_bucket", "v", "bytes_bucket", "world"}

FactValues(k) ==
    CASE k \in ExtentFacts -> {0, 1, 7}
      [] k \in {"has_bias", "has_dest", "sparse", "has_history_counts", "has_grammar_mask", "has_draft_probs"} -> BOOLEAN
      [] k \in {"residual_dtype", "scales_dtype", "bias_dtype"} -> DTypes \cup {"none"}
      [] k \in {"w_scheme", "act_scheme", "table_scheme", "staging_scheme"} -> Quants
      [] k \in {"w_layout", "table_layout", "staging_layout"} -> Layouts
      [] k \in {"gate_up", "down"} -> {[dtype |-> dt, scheme |-> q, layout |-> l] : dt \in DTypes, q \in Quants, l \in Layouts}
      [] k \in {"placement_kind", "table_placement"} -> {"Device", "Host", "Tiered"}
      [] k = "mode" -> {"Recurrent", "Chunked"}
      [] k = "rank" -> {0, 1, 7}
      [] k = "shape" -> SeqValues.shape \cup {<<>>, <<2, 0>>}
      [] OTHER -> DTypes

FactVariants(f) == UNION {{[f EXCEPT ![k] = v] : v \in FactValues(k)} : k \in DOMAIN f \ {"op"}}

-----------------------------------------------------------------------------
(* Properties. *)

Sized(n) ==
    /\ \A t \in ToSet(n.ins) \cup ToSet(n.outs) : \A d \in DOMAIN t.sh : Concrete(t.sh[d])
    /\ n.op = "recv" => \A d \in DOMAIN n.at.shape : Concrete(n.at.shape[d])

\* The extents an op leaves open: how many rows a scatter without destination
\* has, how many an exchange delivers, how wide a collective makes its axis.
FreeExtent(n, d) ==
    \/ n.op = "scatter_add_rows" /\ Len(n.ins) = 2 /\ d = 1
    \/ n.op = "all_to_all" /\ d = 1
    \/ n.op \in {"all_gather", "reduce_scatter"} /\ d = n.at.axis + 1

\* The inputs and attributes of an accepted op determine its output shapes:
\* no validator (op.rs) accepts the same op with one output extent changed.
\* A forgotten comparison lets a kernel write past, or leave unwritten, part
\* of its output buffer.
OutputsPinned ==
    (Validate(node) /\ Sized(node)) =>
        \A j \in DOMAIN node.outs : \A d \in DOMAIN node.outs[j].sh : \A e \in EditExtents :
            (Concrete(e) /\ e # node.outs[j].sh[d] /\ ~FreeExtent(node, d)) =>
                ~Validate([node EXCEPT !.outs[j].sh[d] = e])

\* A graph is built with symbols and validated again with extents: an op that
\* is accepted with extents is accepted with any one of them still a symbol
\* (check_dim_match and every guarded check of op.rs).
SymbolicIsWeaker ==
    (Validate(node) /\ Sized(node)) =>
        /\ \A j \in DOMAIN node.ins : \A d \in DOMAIN node.ins[j].sh :
                Validate([node EXCEPT !.ins[j].sh[d] = -1])
        /\ \A j \in DOMAIN node.outs : \A d \in DOMAIN node.outs[j].sh :
                Validate([node EXCEPT !.outs[j].sh[d] = -1])

\* Op::numerics returns a contract for every product the validator accepts,
\* with integer accumulation only where both operands are integers.
NumericsDefined ==
    Validate(node) =>
        \A c \in GemmNumerics(node) : c # NoNumerics /\ (c.acc = "i32" => node.ins[1].dt = "i8")

-----------------------------------------------------------------------------
(* What a rule means: one rank's share of each tensor.                       *)

SplitAxis(l) == CASE l.k \in {"Col", "Row"} -> l.n + 1
                  [] l.k = "Heads" -> 2
                  [] l.k = "Experts" -> 1
                  [] OTHER -> 0

Divides(t, l) == LET d == SplitAxis(l) IN d = 0 \/ (d <= Rank(t) /\ t.sh[d] % Ranks = 0)
Share(t, l) == LET d == SplitAxis(l) IN IF d = 0 THEN t ELSE [t EXCEPT !.sh[d] = @ \div Ranks]

\* An attribute that repeats the extent of a split axis is split with it: the
\* hash heads of ngram_gather, the shape recv announces.
ShareAttrs(n, li, lo) ==
    CASE n.op = "ngram_gather" /\ li[1] # R ->
           [n.at EXCEPT !.heads = @ \div Ranks, !.orders = SubSeq(@, 1, n.at.heads \div Ranks),
                        !.table_sizes = SubSeq(@, 1, n.at.heads \div Ranks)]
      [] n.op = "recv" /\ lo[1] # R -> [n.at EXCEPT !.shape[SplitAxis(lo[1])] = @ \div Ranks]
      [] OTHER -> n.at

Concretes(ps) == [j \in DOMAIN ps |-> ToConcrete(ps[j], Ranks, Ranks)]

SharedNode(n, r) ==
    LET li == Concretes(r.ins)  lo == Concretes(r.outs)
    IN [n EXCEPT !.at = ShareAttrs(n, li, lo),
                 !.ins = [j \in DOMAIN n.ins |-> Share(n.ins[j], li[j])],
                 !.outs = [j \in DOMAIN n.outs |-> Share(n.outs[j], lo[j])]]

Applies(n, r) ==
    /\ MatchesTensors(r, n, Concretes(r.ins), Concretes(r.outs))
    /\ \A j \in DOMAIN n.ins : Divides(n.ins[j], Concretes(r.ins)[j])
    /\ \A j \in DOMAIN n.outs : Divides(n.outs[j], Concretes(r.outs)[j])

\* legal_layouts matches on the op alone and cannot see an attribute; the
\* rules it returns that name a wrong axis for the attributes of this node.
\* A transposed product has its inner extent on axis 0.  Scales per block of
\* 32 are split with their row, the rule replicates them.  A summed n-gram
\* output has no head axis, and scales per head are split with the heads.
\* An all_gather or a reduce_scatter of one axis is not that of another.
TableBlind(n, r) ==
    \/ n.op = "matmul" /\ n.at.transpose_w /\ r.ins[2] # R
    \/ n.op = "quant_act" /\ n.at.scheme = "PerBlock32" /\ r.ins[1] # R
    \/ /\ n.op = "ngram_gather" /\ r.ins[1] # R
       /\ n.at.combine = "Sum" \/ (r.ins[2] = R /\ Rank(n.ins[2]) = 2 /\ n.ins[2].sh[2] # 1)
    \/ n.op = "all_gather" /\ r.ins[1].n # n.at.axis
    \/ n.op = "reduce_scatter" /\ r.outs[1].n # n.at.axis

\* Each rank's share of an accepted op, under every rule legal_layouts
\* returns, is itself accepted, except in the cases of TableBlind, and in
\* each of those it is refused: the layout table of sharding.rs and the shape
\* rules of op.rs agree on the axes but for exactly the cases named.
ShardsAccepted ==
    (Validate(node) /\ Sized(node)) =>
        \A r \in LegalLayouts(node.op) :
            Applies(node, r) => (Validate(SharedNode(node, r)) <=> ~TableBlind(node, r))

\* The ops without an all-replicated rule of the accepted arity are exactly
\* the collectives that exist to change a layout and the products with a
\* third operand, which the table leaves out by decision.
ReplicatedLegal ==
    Validate(node) =>
        (AllReplicated(Len(node.ins), Len(node.outs)) \in LegalLayouts(node.op) <=>
            /\ node.op \notin {"all_reduce", "all_gather", "reduce_scatter"}
            /\ ~(node.op = "matmul" /\ Len(node.ins) = 3))

LayoutValues == {R, P, Col(0), Col(1), Row(0), Row(1)}
    \cup {HeadShard(c) : c \in 0 .. 2} \cup {ExpertShard(c) : c \in 0 .. 2}

\* Binding counts while scanning accepts exactly the layouts that are the
\* rule's patterns under one head count and one expert count.
BindingExact ==
    ~edited => \A r \in LegalLayouts(node.op) :
        LET ps == r.ins \o r.outs  base == Concretes(ps)
        IN \A j \in DOMAIN ps : \A l \in LayoutValues :
            LET ls == [base EXCEPT ![j] = l]
            IN Matches(r, SubSeq(ls, 1, Len(r.ins)), SubSeq(ls, Len(r.ins) + 1, Len(ls))) <=>
                \E h, e \in 1 .. 2 : \A m \in DOMAIN ps :
                    ConcreteExists(ps[m], h, e) /\ ToConcrete(ps[m], h, e) = ls[m]

\* What the IR leaves to the registry: the scheme of a convolution weight,
\* and whether a peer is a member of the group.
RegistryOnly(n) ==
    /\ n.op = "causal_conv1d" => ConvWeightOK(n.ins[2].dt, n.ins[2].q)
    /\ n.op \in {"send", "recv"} => n.at.peer < Ranks

Builds(n, f) == FromOp(n, f) # NoStatic

\* Two validators of one op, op.rs on tensors and types.rs on the static:
\* with truthful facts from_op builds the static of every accepted op, and
\* validate accepts it except for what the IR leaves to the registry.
AgreesWithIR ==
    (Validate(node) /\ Sized(node)) =>
        LET f == TruthfulFacts(node)
        IN  Builds(node, f) /\ (StaticOK(FromOp(node, f)) <=> RegistryOnly(node))

\* The state handle is bound at launch and the extents of recv come from the
\* facts; every other attribute is the kernel's.
ReAttributed(n) ==
    UNION {{[n EXCEPT !.at[k] = v] : v \in AttrValues(k)} : k \in DOMAIN n.at \ {"shape", "handle"}}

\* The static keys the kernel registry: no other attribute of the op and no
\* other facts give the same static.
LosesNothing ==
    LET f == TruthfulFacts(node)  s == FromOp(node, f)
    IN  /\ \A m \in ReAttributed(node) \ {node} : FromOp(m, f) # s
        /\ \A g \in FactVariants(f) \ {f} : FromOp(node, g) # s

\* No kernel is named for an empty extent, an empty group or no bytes.
EmptyRefused ==
    LET f == TruthfulFacts(node)
    IN  \A k \in ExtentFacts \cap DOMAIN f :
            LET g == [f EXCEPT ![k] = 0] IN Builds(node, g) => ~StaticOK(FromOp(node, g))

\* from_op and validate (types.rs) on ready-made facts: the static is built
\* and accepted for every accepted op whose facts are truthful, it keeps
\* every attribute and every fact (a field missing from one of the structs
\* lets two ops share a kernel compiled for one of them), and a fact of zero
\* is refused whatever the op.
StaticsFaithful == AgreesWithIR /\ (~edited => LosesNothing /\ EmptyRefused)

\* An accepted op can be executed: its output extents are determined, it is
\* also accepted before its symbols have extents, and its products have a
\* numerics contract.
AcceptedIsExecutable == OutputsPinned /\ SymbolicIsWeaker /\ NumericsDefined

\* The sharding table fits the validators: shares are accepted but for the
\* disagreements TableBlind names, every op but the named ones can run
\* replicated, and binding counts while scanning is exact.
ShardingSound == ShardsAccepted /\ ReplicatedLegal /\ BindingExact

=============================================================================
