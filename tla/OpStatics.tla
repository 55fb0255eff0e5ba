----------------------------- MODULE OpStatics ------------------------------
(***************************************************************************)
(* What a kernel is compiled for (r9v-registry types.rs): the static       *)
(* parameters of an op, built by OpStatic::from_op from the op's own       *)
(* attributes and from ready-made facts.  Facts are an input: from_op sees *)
(* no operand, and no code of the crate derives facts from operands.  A    *)
(* static is a record of its op and the fields of that op's struct;        *)
(* options and nested structs are flattened into the attributes of         *)
(* OpShapes, "none" is an absent option.  Attributes that no validator     *)
(* reads (act, scoring, hash, style, rng, group, transport, fused_with and *)
(* the like) are copied like the others and left out.                      *)
(***************************************************************************)
EXTENDS OpShapes, TLC

CONSTANT Ranks           \* size of the communicator

NoStatic == [op |-> "none"]

-----------------------------------------------------------------------------
(* The structs. *)

GemmFields ==
    [matmul |-> {"m_bucket", "n", "k", "w_dtype", "w_scheme", "w_layout", "in_dtype", "act_scheme",
                 "out_dtype", "epilogue", "residual_dtype", "transpose_w", "sparse"},
     moe_route |-> {"t_bucket", "e_total", "top_k", "grouped", "n_group", "topk_group", "scale", "has_bias"},
     moe_ffn |-> {"t_bucket", "e_local", "k_topk", "dm", "dff", "gate_up", "down", "in_dtype", "act_scheme",
                  "out_dtype", "placement_kind"}]

MlaFields == {"mla", "kv_lora_rank", "qk_nope_dim", "qk_rope_dim", "v_dim", "has_q_lora", "q_lora_rank"}

LatentFields == {"latent", "kv_lora_rank", "rope_dim"}

StateFields ==
    [attention |-> {"q_bucket", "h_local", "hkv_local", "d", "dv", "q_dtype", "cache_dtype", "mask", "window",
                    "softmax_scale", "out_dtype", "capped", "logit_softcap"} \cup MlaFields,
     state_write_kv |-> {"hkv_local", "d", "dv", "in_dtype", "cache_dtype"} \cup LatentFields,
     causal_conv1d |-> {"t_bucket", "channels", "kernel", "x_dtype", "w_dtype", "w_scheme", "w_layout",
                        "out_dtype", "bias_dtype"},
     linear_attn_scan |-> {"h_local", "d", "dv", "chunk", "mode", "in_dtype", "out_dtype"}]

GatherFields ==
    [embed_gather |-> {"scale", "table_placement", "table_dtype", "table_scheme", "table_layout", "out_dtype",
                       "vocab_size", "dim"},
     ngram_gather |-> {"source", "orders", "heads", "table_sizes", "dn", "table_dtype", "table_scheme",
                       "table_layout", "staging_dtype", "staging_scheme", "staging_layout", "scales_dtype",
                       "combine", "out_dtype"},
     gather_rows |-> {"dtype", "index_dtype", "width"},
     scatter_add_rows |-> {"dtype", "index_dtype", "width", "has_dest"}]

\* Mutant: a concatenation is keyed by the element type of one side.
MoveFieldsOneType ==
    [quant_act |-> {"scheme", "in_dtype", "target", "n"}, cast |-> {"in_dtype", "dtype", "n"},
     copy |-> {"kind", "dtype", "n"}, split |-> {"first", "total", "dtype"},
     concat |-> {"c0", "c1", "a_dtype", "out_dtype"}]

MoveFields ==
    [quant_act |-> {"scheme", "in_dtype", "target", "n"}, cast |-> {"in_dtype", "dtype", "n"},
     copy |-> {"kind", "dtype", "n"}, split |-> {"first", "total", "dtype"},
     concat |-> {"c0", "c1", "a_dtype", "b_dtype", "out_dtype"}]

ArithmeticFields ==
    [norm |-> {"eps", "perHead", "head", "weight_offset", "in_dtype", "out_dtype", "n", "has_bias"},
     residual_add |-> {"a_dtype", "b_dtype", "out_dtype", "scale", "n"},
     act_mul |-> {"clamped", "clamp", "dtype", "width"}, activation |-> {"clamped", "clamp", "dtype", "width"},
     logit_softcap |-> {"cap", "v"}]

RopeFields == [rope |-> {"rot_dim", "theta", "scaling", "sections", "in_dtype", "out_dtype", "h", "d"}]

ElementwiseFields == GatherFields @@ MoveFields @@ ArithmeticFields @@ RopeFields

SamplingFields ==
    [logits_postprocess |-> {"s_bucket", "v", "q_bucket", "has_history_counts", "has_grammar_mask"},
     sample |-> {"s_bucket", "v"},
     verify |-> {"s_bucket", "v", "q_bucket", "method", "eps", "delta", "has_draft_probs"}]

CollectiveFields ==
    [all_reduce |-> {"rank", "world", "dtype", "reduce_in", "bytes_bucket"},
     all_gather |-> {"rank", "world", "dtype", "axis", "bytes_bucket"},
     reduce_scatter |-> {"rank", "world", "dtype", "reduce_in", "axis", "bytes_bucket"},
     all_to_all |-> {"rank", "world", "dtype", "bytes_bucket"},
     send |-> {"rank", "world", "peer", "dtype", "bytes_bucket"},
     recv |-> {"rank", "world", "peer", "shape", "dtype", "bytes_bucket"},
     barrier |-> {"rank", "world"}]

\* Every elementwise struct is wrapped with the bucket of the step.
Fields(op) ==
    CASE op \in DOMAIN GemmFields -> GemmFields[op]
      [] op \in DOMAIN StateFields -> StateFields[op]
      [] op \in DOMAIN ElementwiseFields -> ElementwiseFields[op] \cup {"t_bucket"}
      [] op \in DOMAIN SamplingFields -> SamplingFields[op]
      [] op \in DOMAIN CollectiveFields -> CollectiveFields[op]

-----------------------------------------------------------------------------
(* from_op: the fields it copies from the op, everything else from facts. *)

CopiedGemm ==
    [matmul |-> {"out_dtype", "epilogue", "transpose_w"},
     moe_route |-> {"top_k", "grouped", "n_group", "topk_group", "scale"}, moe_ffn |-> {"out_dtype"}]

CopiedState ==
    [attention |-> {"mask", "window", "softmax_scale", "out_dtype", "capped", "logit_softcap"} \cup MlaFields,
     state_write_kv |-> {"cache_dtype"} \cup LatentFields,
     causal_conv1d |-> {"kernel"}, linear_attn_scan |-> {"chunk", "out_dtype"}]

CopiedGather ==
    [embed_gather |-> {"scale", "out_dtype"},
     ngram_gather |-> {"source", "orders", "heads", "table_sizes", "combine", "out_dtype"},
     gather_rows |-> {}, scatter_add_rows |-> {}]

CopiedMove ==
    [quant_act |-> {"scheme", "target"}, cast |-> {"dtype"}, copy |-> {"kind"}, split |-> {"first"}, concat |-> {}]

CopiedArithmetic ==
    [norm |-> {"eps", "perHead", "head", "weight_offset", "out_dtype"}, residual_add |-> {"out_dtype", "scale"},
     act_mul |-> {"clamped", "clamp"}, activation |-> {"clamped", "clamp"}, logit_softcap |-> {"cap"},
     rope |-> {"rot_dim", "theta", "scaling", "sections", "out_dtype"}]

CopiedSampling ==
    [logits_postprocess |-> {}, sample |-> {}, verify |-> {"method", "eps", "delta"}]

CopiedCollective ==
    [all_reduce |-> {"dtype", "reduce_in"}, all_gather |-> {"dtype", "axis"},
     reduce_scatter |-> {"dtype", "reduce_in", "axis"}, all_to_all |-> {"dtype"},
     send |-> {"peer", "dtype"}, recv |-> {"peer", "dtype"}, barrier |-> {}]

Copied(op) ==
    (CopiedGemm @@ CopiedState @@ CopiedGather @@ CopiedMove @@ CopiedArithmetic @@ CopiedSampling
        @@ CopiedCollective)[op]

\* Facts of another op, or facts that contradict the op, are refused.
FactsFit(n, f) ==
    /\ f.op = n.op
    /\ n.op = "matmul" => (f.residual_dtype # "none" <=> n.at.epilogue = "Residual")
    /\ n.op = "ngram_gather" => (f.scales_dtype # "none" <=> n.at.source = "Staged")
    /\ n.op = "recv" => /\ Len(f.shape) = Len(n.at.shape)
                        /\ \A d \in DOMAIN f.shape :
                            f.shape[d] > 0 /\ (Concrete(n.at.shape[d]) => f.shape[d] = n.at.shape[d])

FromOp(n, f) ==
    IF ~FactsFit(n, f) THEN NoStatic
    ELSE [op |-> n.op] @@ [k \in Fields(n.op) |-> IF k \in Copied(n.op) THEN n.at[k] ELSE f[k]]

-----------------------------------------------------------------------------
(* OpStatic::validate. *)

Positive(s, fields) == \A k \in fields : s[k] > 0

ProjOK(p) ==
    CASE p.dtype \in {"i4", "i8", "e4m3"} -> p.scheme \in WeightQuants
      [] p.dtype = "f16" -> p.scheme = "None"
      [] OTHER -> FALSE

GemmStaticOK(s) ==
    CASE s.op = "matmul" ->
           /\ Positive(s, {"m_bucket", "n", "k"})
           /\ s.residual_dtype # "none" <=> s.epilogue = "Residual"
           /\ s.residual_dtype \in ActFloats \cup {"none"}
      [] s.op = "moe_route" ->
           /\ Positive(s, {"t_bucket", "e_total", "top_k"}) /\ s.top_k <= s.e_total
           /\ s.grouped => Positive(s, {"n_group", "topk_group"}) /\ s.topk_group <= s.top_k
      [] s.op = "moe_ffn" ->
           /\ Positive(s, {"t_bucket", "e_local", "k_topk", "dm", "dff"})
           /\ ProjOK(s.gate_up) /\ ProjOK(s.down)

AttentionStaticOK(s) ==
    /\ Positive(s, {"q_bucket", "h_local", "hkv_local", "d", "dv"}) /\ s.q_dtype \in ActFloats
    /\ s.mla => /\ Positive(s, {"kv_lora_rank", "qk_nope_dim", "qk_rope_dim", "v_dim"})
                /\ s.has_q_lora => s.q_lora_rank > 0

\* Stricter than the IR, which takes any scheme a tensor may have.
ConvWeightOK(dtype, scheme) ==
    CASE dtype \in ActFloats -> scheme = "None"
      [] dtype \in {"i8", "i4"} -> scheme \in WeightQuants
      [] OTHER -> FALSE

StateStaticOK(s) ==
    CASE s.op = "attention" -> AttentionStaticOK(s)
      [] s.op = "state_write_kv" ->
           Positive(s, {"hkv_local", "d", "dv"}) /\ (s.latent => Positive(s, {"kv_lora_rank", "rope_dim"}))
      [] s.op = "causal_conv1d" ->
           /\ Positive(s, {"t_bucket", "channels", "kernel"})
           /\ ConvWeightOK(s.w_dtype, s.w_scheme)
           /\ s.bias_dtype \in ActFloats \cup {"none"}
      [] s.op = "linear_attn_scan" -> Positive(s, {"h_local", "d", "dv", "chunk"})

NgramStaticOK(s) ==
    /\ IF s.source = "Staged" THEN s.staging_scheme = "Scheme" /\ s.scales_dtype \in {"f32", "f16"}
       ELSE s.scales_dtype = "none"
    /\ Positive(s, {"heads", "dn"}) /\ Len(s.orders) = s.heads /\ Len(s.table_sizes) = s.heads

ElementwisePositive ==
    [split |-> {"first", "total"}, concat |-> {"c0", "c1"}, quant_act |-> {"n"}, cast |-> {"n"}, copy |-> {"n"},
     gather_rows |-> {"width"}, scatter_add_rows |-> {"width"}, norm |-> {"n"}, residual_add |-> {"n"},
     act_mul |-> {"width"}, activation |-> {"width"}, logit_softcap |-> {"v"}, rope |-> {"h", "d", "rot_dim"},
     embed_gather |-> {"vocab_size", "dim"}, ngram_gather |-> {"heads", "dn"}]

ElementwiseStaticOK(s) ==
    /\ s.t_bucket > 0 /\ Positive(s, ElementwisePositive[s.op])
    /\ s.op = "ngram_gather" => NgramStaticOK(s)
    /\ s.op = "split" => s.first < s.total
    /\ s.op = "residual_add" => {s.a_dtype, s.b_dtype} \subseteq ActFloats

SamplingStaticOK(s) == Positive(s, {"s_bucket", "v"}) /\ (s.op # "sample" => s.q_bucket > 0)

CollectiveStaticOK(s) ==
    /\ s.world > 0 /\ s.rank < s.world
    /\ s.op # "barrier" => s.bytes_bucket > 0
    /\ s.op \in {"all_reduce", "reduce_scatter"} => s.reduce_in = "f32"
    /\ s.op \in {"send", "recv"} => s.peer < s.world
    /\ s.op = "recv" => s.shape # <<>> /\ \A d \in DOMAIN s.shape : s.shape[d] # 0

StaticOK(s) ==
    CASE s.op \in DOMAIN GemmFields -> GemmStaticOK(s)
      [] s.op \in DOMAIN StateFields -> StateStaticOK(s)
      [] s.op \in DOMAIN ElementwiseFields -> ElementwiseStaticOK(s)
      [] s.op \in DOMAIN SamplingFields -> SamplingStaticOK(s)
      [] s.op \in DOMAIN CollectiveFields -> CollectiveStaticOK(s)
=============================================================================
