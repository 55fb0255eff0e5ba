------------------------------ MODULE OpShapes ------------------------------
(***************************************************************************)
(* The validators of the 32 closed ops (r9v-ir op.rs).  Each takes the     *)
(* op's attributes a, its inputs i and its outputs o and says whether      *)
(* validate returns Ok: the code collects every problem and refuses when   *)
(* there is one, so a validator is the conjunction of its checks.          *)
(***************************************************************************)
EXTENDS OpTensor, SequencesExt

-----------------------------------------------------------------------------
(* A. Data movement and lookup. *)

EmbedTable(t) ==
    /\ Is(t, 2, {"i4", "i8", "f16"}, {"Weight"})
    /\ t.pl \in Devices \cup {"Tiered"}
    /\ IF t.dt = "f16" THEN t.q = "None" ELSE t.q \in WeightQuants

EmbedGather(a, i, o) ==
    /\ FinitePositive(a.scale) /\ a.out_dtype \in ActFloats
    /\ Len(i) = 2 /\ Len(o) = 1
    /\ Act(i[1], 1, {"u32"}) /\ OnDevice(i[1])
    /\ EmbedTable(i[2])
    /\ Act(o[1], 2, {a.out_dtype}) /\ OnDevice(o[1])
    /\ DimMatch(o[1].sh[1], i[1].sh[1])
    /\ DimMatch(o[1].sh[2], i[2].sh[2])

TableEntries(a) == FoldSeq(LAMBDA n, s : n + s, 0, a.table_sizes)

NgramAttrs(a) ==
    /\ a.heads > 0
    /\ Len(a.orders) = a.heads /\ \A j \in DOMAIN a.orders : a.orders[j] # 0
    /\ Len(a.table_sizes) = a.heads /\ \A j \in DOMAIN a.table_sizes : a.table_sizes[j] # 0
    /\ a.out_dtype \in ActFloats

NgramStaged(a, staging, scales) ==
    /\ Is(staging, 3, {"i4", "i8"}, {"Staging", "Weight"})
    /\ staging.q = "Scheme" /\ OnDevice(staging)
    /\ Rank(scales) \in {1, 2} /\ scales.dt \in {"f32", "f16"}
    /\ scales.cl \in {"Activation", "Staging"} /\ OnDevice(scales)
    /\ ExtentIs(staging.sh[2], a.heads)
    /\ DimMatch(scales.sh[1], staging.sh[1])
    /\ (Rank(scales) = 2 /\ Concrete(scales.sh[2]) /\ Concrete(staging.sh[2])) =>
            scales.sh[2] \in {1, staging.sh[2]}

NgramDevice(a, ids, table) ==
    /\ Act(ids, 1, {"u32"}) /\ OnDevice(ids)
    /\ Is(table, 2, {"i4", "i8", "f16", "bf16", "f32"}, {"Weight"}) /\ OnDevice(table)
    /\ TableEntries(a) <= MaxU32
    /\ ExtentIs(table.sh[1], TableEntries(a))

\* The row width of the result: heads laid side by side, or summed.
NgramWidth(a, x, rowWidth) ==
    (Concrete(x) /\ Concrete(rowWidth)) =>
        x = IF a.combine = "Concat" THEN a.heads * rowWidth ELSE rowWidth

NgramGather(a, i, o) ==
    /\ NgramAttrs(a)
    /\ Len(i) = 2 /\ Len(o) = 1
    /\ IF a.source = "Staged" THEN NgramStaged(a, i[1], i[2]) ELSE NgramDevice(a, i[1], i[2])
    /\ Act(o[1], 2, {a.out_dtype}) /\ OnDevice(o[1])
    /\ DimMatch(o[1].sh[1], i[1].sh[1])
    /\ NgramWidth(a, o[1].sh[2], IF a.source = "Staged" THEN i[1].sh[3] ELSE i[2].sh[2])

QuantActOutputs(a, xq, scale) ==
    /\ Act(xq, 2, {a.target}) /\ xq.q = a.scheme /\ OnDevice(xq)
    /\ Act(scale, IF a.scheme = "PerBlock32" THEN 2 ELSE 1, {"f32"})
    /\ scale.q = "None" /\ OnDevice(scale)

BlockWidth == 32

\* Mutant: one scale is kept for a partial last block.
QuantBlocksRounded(a, x, scale) ==
    (a.scheme = "PerBlock32" /\ Concrete(x.sh[2]) /\ Concrete(scale.sh[2])) =>
        scale.sh[2] \in {x.sh[2] \div BlockWidth, x.sh[2] \div BlockWidth + 1}

QuantBlocks(a, x, scale) ==
    (a.scheme = "PerBlock32" /\ Concrete(x.sh[2])) =>
        /\ x.sh[2] % BlockWidth = 0
        /\ Concrete(scale.sh[2]) => scale.sh[2] = x.sh[2] \div BlockWidth

QuantAct(a, i, o) ==
    /\ a.scheme \in {"PerToken", "PerBlock32"} /\ a.target \in {"i8", "e4m3"}
    /\ a.scheme = "PerBlock32" => a.target = "i8"
    /\ Len(i) = 1 /\ Len(o) = 2
    /\ Act(i[1], 2, ActFloats)
    /\ QuantActOutputs(a, o[1], o[2])
    /\ SameShape(o[1], i[1])
    /\ DimMatch(o[2].sh[1], i[1].sh[1])
    /\ QuantBlocks(a, i[1], o[2])

Cast(a, i, o) ==
    /\ Len(i) = 1 /\ Len(o) = 1
    /\ o[1].dt = a.dtype /\ SameShape(o[1], i[1])
    /\ o[1].ly = i[1].ly /\ o[1].q = i[1].q /\ o[1].pl = i[1].pl /\ o[1].cl = i[1].cl

\* Where a copy of each kind may go from and to.
CopyRoute(kind, x, y) ==
    CASE kind = "Contiguize" -> x.pl = y.pl /\ y.ly = "CONTIGUOUS"
      [] kind = "DeviceToDevice" -> /\ OnDevice(x) /\ OnDevice(y)
                                    /\ x.pl # y.pl /\ y.ly = x.ly
      [] kind = "HostToDevice" -> ~OnDevice(x) /\ OnDevice(y) /\ y.ly = x.ly
      [] kind = "DeviceToHost" -> OnDevice(x) /\ ~OnDevice(y) /\ y.ly = x.ly

Copy(a, i, o) ==
    /\ Len(i) = 1 /\ Len(o) = 1
    /\ o[1].dt = i[1].dt /\ SameShape(o[1], i[1])
    /\ o[1].q = i[1].q /\ o[1].cl = i[1].cl
    /\ CopyRoute(a.kind, i[1], o[1])

GatherRows(a, i, o) ==
    /\ Len(i) = 2 /\ Len(o) = 1
    /\ Act(i[1], 2, ActFloats) /\ Act(i[2], 1, {"u32"})
    /\ Act(o[1], 2, {i[1].dt})
    /\ DimMatch(o[1].sh[1], i[2].sh[1])
    /\ DimMatch(o[1].sh[2], i[1].sh[2])

ScatterAddRows(a, i, o) ==
    /\ Len(i) \in {2, 3} /\ Len(o) = 1
    /\ Act(i[1], 2, ActFloats) /\ Act(i[2], 1, {"u32"})
    /\ DimMatch(i[1].sh[1], i[2].sh[1])
    /\ Act(o[1], 2, {i[1].dt})
    /\ DimMatch(o[1].sh[2], i[1].sh[2])
    /\ Len(i) = 3 => /\ Act(i[3], 2, {i[1].dt})
                     /\ DimMatch(i[3].sh[2], i[1].sh[2])
                     /\ DimMatch(o[1].sh[1], i[3].sh[1])

Split(a, i, o) ==
    /\ a.first > 0
    /\ Len(i) = 1 /\ Len(o) = 2
    /\ \A t \in {i[1], o[1], o[2]} : Act(t, 3, ActFloats)
    /\ Concrete(i[1].sh[3]) => a.first < i[1].sh[3]
    /\ o[1].dt = i[1].dt /\ o[2].dt = i[1].dt
    /\ SameOn(o[1], i[1], {1, 2}) /\ SameOn(o[2], i[1], {1, 2})
    /\ (\A t \in {i[1], o[1], o[2]} : Concrete(t.sh[3])) =>
            /\ o[1].sh[3] + o[2].sh[3] = i[1].sh[3]
            /\ o[1].sh[3] = a.first

Concat(a, i, o) ==
    /\ Len(i) = 2 /\ Len(o) = 1
    /\ \A t \in {i[1], i[2], o[1]} : Act(t, 3, ActFloats) /\ t.dt = i[1].dt
    /\ SameOn(i[2], i[1], {1, 2}) /\ SameOn(o[1], i[1], {1, 2})
    /\ (\A t \in {i[1], i[2], o[1]} : Concrete(t.sh[3])) =>
            i[1].sh[3] + i[2].sh[3] = o[1].sh[3]

-----------------------------------------------------------------------------
(* B. Normalisation and elementwise. *)

NormParam(t) == Is(t, 1, {"f32"}, {"Weight", "Param"})

\* axis is 0 for the last axis, or the head width.
NormAttrs(a) ==
    /\ FinitePositive(a.eps) /\ Finite(a.weight_offset) /\ a.out_dtype \in ActFloats
    /\ a.perHead => a.head > 0

Norm(a, i, o) ==
    /\ NormAttrs(a)
    /\ Len(i) \in {2, 3} /\ Len(o) = 1
    /\ Act(i[1], 2, ActFloats) /\ NormParam(i[2])
    /\ DimMatch(i[2].sh[1], i[1].sh[2])
    /\ (a.perHead /\ Concrete(i[1].sh[2])) => i[1].sh[2] % a.head = 0
    /\ Len(i) = 3 => NormParam(i[3]) /\ DimMatch(i[3].sh[1], i[2].sh[1])
    /\ Act(o[1], 2, {a.out_dtype}) /\ SameShape(o[1], i[1])

ResidualAdd(a, i, o) ==
    /\ a.out_dtype \in ActFloats /\ Finite(a.scale) /\ a.scale # 0
    /\ Len(i) = 2 /\ Len(o) = 1
    /\ \A t \in {i[1], i[2]} : t.dt \in ActFloats /\ t.cl = "Activation"
    /\ SameShape(i[2], i[1])
    /\ o[1].dt = a.out_dtype /\ o[1].cl = "Activation"
    /\ SameShape(o[1], i[1])

ClampOK(a) == a.clamped => FinitePositive(a.clamp)

ActMul(a, i, o) ==
    /\ ClampOK(a)
    /\ Len(i) = 2 /\ Len(o) = 1
    /\ Act(i[1], 2, ActFloats) /\ Act(i[2], 2, {i[1].dt}) /\ SameShape(i[2], i[1])
    /\ Act(o[1], 2, {i[1].dt}) /\ SameShape(o[1], i[1])

Activation(a, i, o) ==
    /\ ClampOK(a)
    /\ Len(i) = 1 /\ Len(o) = 1
    /\ Act(i[1], 2, ActFloats)
    /\ Act(o[1], 2, {i[1].dt}) /\ SameShape(o[1], i[1])

LogitSoftcap(a, i, o) ==
    /\ FinitePositive(a.cap)
    /\ Len(i) = 1 /\ Len(o) = 1
    /\ Act(i[1], 2, {"f32"}) /\ Act(o[1], 2, {"f32"}) /\ SameShape(o[1], i[1])

\* mrope_sections is empty when the option is None.
RopeSections(a) ==
    /\ \A j \in DOMAIN a.sections : a.sections[j] # 0 /\ a.sections[j] % 2 = 0
    /\ FoldSeq(LAMBDA n, s : n + s, 0, a.sections) <= a.rot_dim

RopeScaling(s) ==
    CASE s.kind \in {"None", "Dynamic"} -> TRUE
      [] s.kind = "Linear" -> FinitePositive(s.factor)
      [] s.kind = "Yarn" -> /\ \A f \in {s.factor, s.beta_fast, s.beta_slow, s.mscale} :
                                    FinitePositive(f)
                            /\ s.beta_slow <= s.beta_fast /\ s.orig_ctx # 0

RopeAttrs(a) ==
    /\ a.rot_dim # 0 /\ a.rot_dim % 2 = 0
    /\ FinitePositive(a.theta) /\ a.out_dtype \in ActFloats
    /\ RopeSections(a) /\ RopeScaling(a.scaling)

Rope(a, i, o) ==
    /\ RopeAttrs(a)
    /\ Len(i) = 2 /\ Len(o) = 1
    /\ Act(i[1], 3, ActFloats)
    /\ Act(i[2], IF a.sections = <<>> THEN 1 ELSE 2, {"u32"})
    /\ a.sections # <<>> => ExtentIs(i[2].sh[2], 3)
    /\ DimMatch(i[2].sh[1], i[1].sh[1])
    /\ Concrete(i[1].sh[3]) => a.rot_dim <= i[1].sh[3]
    /\ Act(o[1], 3, {a.out_dtype}) /\ SameShape(o[1], i[1])

-----------------------------------------------------------------------------
(* C. Matrix products and experts. *)

\* The contracted and the produced extent of the weight.
KOf(a, w) == IF a.transpose_w THEN w.sh[1] ELSE w.sh[2]
NOf(a, w) == IF a.transpose_w THEN w.sh[2] ELSE w.sh[1]

\* The third operand that a bias or residual epilogue reads.
MatmulEpilogue(a, i) ==
    CASE a.epilogue = "Bias" -> /\ Len(i) = 3
                                /\ Is(i[3], 1, {"f32"}, {"Param"})
                                /\ DimMatch(i[3].sh[1], NOf(a, i[2]))
      [] a.epilogue = "Residual" -> /\ Len(i) = 3
                                    /\ Act(i[3], 2, ActFloats)
                                    /\ DimMatch(i[3].sh[1], i[1].sh[1])
                                    /\ DimMatch(i[3].sh[2], NOf(a, i[2]))
      [] OTHER -> Len(i) = 2

MatmulOperands(a, x, w) ==
    /\ Rank(x) = 2 /\ x.cl = "Activation" /\ GemmActivationOperand(x)
    /\ Rank(w) = 2 /\ w.cl = "Weight" /\ GemmWeightOperand(w) /\ OnDevice(w)
    /\ DimMatch(KOf(a, w), x.sh[2])

Matmul(a, i, o) ==
    /\ a.out_dtype \in ActFloats /\ Len(o) = 1 /\ Len(i) >= 2
    /\ MatmulOperands(a, i[1], i[2]) /\ MatmulEpilogue(a, i)
    /\ Act(o[1], 2, {a.out_dtype})
    /\ DimMatch(o[1].sh[1], i[1].sh[1])
    /\ DimMatch(o[1].sh[2], NOf(a, i[2]))

MoeRouteAttrs(a) ==
    /\ a.top_k > 0 /\ FinitePositive(a.scale)
    /\ a.grouped => a.n_group > 0 /\ a.topk_group > 0 /\ a.topk_group <= a.top_k

\* The checks against the number of experts, made only when it is concrete.
MoeRouteExperts(a, i) ==
    LET e == i[1].sh[2]
    IN Concrete(e) =>
        /\ a.top_k <= e
        /\ Len(i) = 2 => DimMatch(i[2].sh[1], e)
        /\ a.grouped => e % a.n_group = 0 /\ a.topk_group <= e \div a.n_group

\* The code reads axis 1 of expert_ids also after it has noted a rank other
\* than two, and panics on rank one: a refusal here.
MoeRoute(a, i, o) ==
    /\ MoeRouteAttrs(a)
    /\ Len(i) \in {1, 2} /\ Len(o) = 2
    /\ Act(i[1], 2, {"f32"})
    /\ Len(i) = 2 => Is(i[2], 1, {"f32"}, {"Param"})
    /\ MoeRouteExperts(a, i)
    /\ Act(o[1], 2, {"u32"}) /\ Act(o[2], 2, {"f32"}) /\ SameShape(o[2], o[1])
    /\ ExtentIs(o[1].sh[2], a.top_k)
    /\ DimMatch(o[1].sh[1], i[1].sh[1])

ExpertWeight(w) ==
    /\ Rank(w) = 3 /\ w.cl = "Weight" /\ GemmWeightOperand(w)
    /\ w.pl \in Devices \cup {"Tiered"}

MoeFfnShapes(x, ids, weights, gateUp, down) ==
    /\ DimMatch(ids.sh[1], x.sh[1]) /\ DimMatch(weights.sh[1], x.sh[1])
    /\ DimMatch(ids.sh[2], weights.sh[2])
    /\ DimMatch(gateUp.sh[3], x.sh[2]) /\ DimMatch(down.sh[2], x.sh[2])
    /\ DimMatch(gateUp.sh[1], down.sh[1])
    /\ (Concrete(gateUp.sh[2]) /\ Concrete(down.sh[3])) => gateUp.sh[2] = 2 * down.sh[3]

MoeFfn(a, i, o) ==
    /\ a.out_dtype \in ActFloats
    /\ Len(i) = 5 /\ Len(o) = 1
    /\ Rank(i[1]) = 2 /\ i[1].cl = "Activation" /\ GemmActivationOperand(i[1])
    /\ Act(i[2], 2, {"u32"}) /\ Act(i[3], 2, {"f32"})
    /\ ExpertWeight(i[4]) /\ ExpertWeight(i[5])
    /\ MoeFfnShapes(i[1], i[2], i[3], i[4], i[5])
    /\ Act(o[1], 2, {a.out_dtype}) /\ SameShape(o[1], i[1])

-----------------------------------------------------------------------------
(* D, E. Attention and the other ops on sequence state. *)

\* A latent cache is written as one combined operand or as the exact pair.
LatentShapes(a, k, v) ==
    (Concrete(k.sh[3]) /\ Concrete(v.sh[3])) =>
        \/ k.sh[3] = a.kv_lora_rank + a.rope_dim
        \/ k.sh[3] = a.kv_lora_rank /\ v.sh[3] = a.rope_dim

StateWriteKv(a, i, o) ==
    /\ a.cache_dtype \in {"f16", "i8", "e4m3"}
    /\ a.handle = IF a.latent THEN "KvLatent" ELSE "KvPaged"
    /\ a.latent => a.kv_lora_rank # 0 /\ a.rope_dim # 0
    /\ Len(i) = 2 /\ Len(o) = 0
    /\ Act(i[1], 3, ActFloats) /\ Act(i[2], 3, {i[1].dt})
    /\ SameOn(i[2], i[1], {1, 2})
    /\ a.latent => LatentShapes(a, i[1], i[2])

AttentionAttrs(a) ==
    /\ FinitePositive(a.softmax_scale) /\ a.out_dtype \in ActFloats
    /\ a.mask = "CausalWindow" => a.window # 0
    /\ a.capped => FinitePositive(a.logit_softcap)
    /\ a.handle = IF a.mla THEN "KvLatent" ELSE "KvPaged"
    /\ a.mla => \A n \in {a.kv_lora_rank, a.qk_nope_dim, a.qk_rope_dim, a.v_dim} : n # 0
    /\ (a.mla /\ a.has_q_lora) => a.q_lora_rank # 0

Attention(a, i, o) ==
    /\ AttentionAttrs(a)
    /\ Len(i) = 1 /\ Len(o) = 1
    /\ Act(i[1], 3, ActFloats) /\ Act(o[1], 3, {a.out_dtype})
    /\ SameOn(o[1], i[1], {1, 2})
    /\ IF a.mla THEN /\ ExtentIs(i[1].sh[3], a.qk_nope_dim + a.qk_rope_dim)
                     /\ ExtentIs(o[1].sh[3], a.v_dim)
       ELSE DimMatch(o[1].sh[3], i[1].sh[3])

CausalConv1d(a, i, o) ==
    /\ a.kernel # 0 /\ a.handle = "ConvWindow"
    /\ Len(i) \in {2, 3} /\ Len(o) = 1
    /\ Act(i[1], 2, ActFloats)
    /\ Is(i[2], 2, ActFloats \cup {"i8", "i4"}, {"Weight"})
    /\ ExtentIs(i[2].sh[2], a.kernel) /\ DimMatch(i[2].sh[1], i[1].sh[2])
    /\ Len(i) = 3 => /\ Is(i[3], 1, ActFloats, {"Param"})
                     /\ DimMatch(i[3].sh[1], i[1].sh[2])
    /\ Act(o[1], 2, {i[1].dt}) /\ SameShape(o[1], i[1])

LinearAttnInputs(q, k, v, alpha, beta) ==
    /\ Act(q, 3, ActFloats) /\ Act(k, 3, {q.dt}) /\ Act(v, 3, {q.dt})
    /\ Act(alpha, 2, {"f32"}) /\ Act(beta, 2, {"f32"})
    /\ SameShape(k, q) /\ SameOn(v, q, {1, 2})
    /\ SameOn(alpha, q, {1, 2}) /\ SameOn(beta, q, {1, 2})

LinearAttnScan(a, i, o) ==
    /\ a.chunk # 0 /\ a.out_dtype \in ActFloats /\ a.handle = "Recurrent"
    /\ Len(i) = 5 /\ Len(o) = 1
    /\ LinearAttnInputs(i[1], i[2], i[3], i[4], i[5])
    /\ Act(o[1], 3, {a.out_dtype}) /\ SameOn(o[1], i[1], {1, 2})
    /\ DimMatch(o[1].sh[3], i[3].sh[3])

-----------------------------------------------------------------------------
(* F. Sampling and verification. *)

HistoryCounts(h, logits) ==
    /\ Act(h, 2, {"u32"})
    /\ DimMatch(h.sh[1], logits.sh[1]) /\ DimMatch(h.sh[2], logits.sh[3])

GrammarMask(m, logits) == Act(m, 3, {"bool"}) /\ SameShape(m, logits)

\* A lone optional operand is told apart by its element type or its rank.
LoneOption(t, logits) ==
    IF t.dt = "bool" \/ Rank(t) = 3 THEN GrammarMask(t, logits) ELSE HistoryCounts(t, logits)

LogitsPostprocess(a, i, o) ==
    /\ Len(i) \in 1 .. 3 /\ Len(o) = 1
    /\ Act(i[1], 3, {"f32"})
    /\ Len(i) = 2 => LoneOption(i[2], i[1])
    /\ Len(i) = 3 => HistoryCounts(i[2], i[1]) /\ GrammarMask(i[3], i[1])
    /\ Act(o[1], 3, {"f32"}) /\ SameShape(o[1], i[1])

Sample(a, i, o) ==
    /\ Len(i) = 1 /\ Len(o) = 1
    /\ Act(i[1], 2, {"f32"}) /\ Act(o[1], 1, {"u32"})
    /\ DimMatch(o[1].sh[1], i[1].sh[1])

\* One row more than the draft has tokens.
OneMore(d, k) == (Concrete(d) /\ Concrete(k)) => d = k + 1

DraftProbs(draft, tokens, target) ==
    /\ Act(draft, 3, {"f32"}) /\ SameOn(draft, tokens, {1, 2})
    /\ DimMatch(draft.sh[3], target.sh[3])

VerifyOutputs(o, tokens) ==
    /\ Act(o[1], 2, {"u32"}) /\ Act(o[2], 1, {"u32"})
    /\ DimMatch(o[1].sh[1], tokens.sh[1]) /\ OneMore(o[1].sh[2], tokens.sh[2])
    /\ DimMatch(o[2].sh[1], tokens.sh[1])

Verify(a, i, o) ==
    /\ a.method = "TypicalAcceptance" => FinitePositive(a.eps) /\ FinitePositive(a.delta)
    /\ Len(i) \in {2, 3} /\ Len(o) = 2
    /\ Act(i[1], 2, {"u32"})
    /\ LET target == i[Len(i)]
       IN /\ Act(target, 3, {"f32"})
          /\ DimMatch(target.sh[1], i[1].sh[1]) /\ OneMore(target.sh[2], i[1].sh[2])
          /\ Len(i) = 3 => DraftProbs(i[2], i[1], target)
    /\ VerifyOutputs(o, i[1])

-----------------------------------------------------------------------------
(* G. Collectives. *)

Carries(a, t) == t.dt = a.dtype /\ t.cl = "Activation"

AllReduce(a, i, o) ==
    /\ a.reduce_in = "f32"
    /\ Len(i) = 1 /\ Len(o) = 1
    /\ Carries(a, i[1]) /\ Carries(a, o[1]) /\ SameShape(o[1], i[1])

\* Whole shards along one axis (counted from zero), equal extents on the others.
WholeShards(axis, whole, shard) ==
    /\ axis < Rank(shard) /\ Rank(whole) = Rank(shard)
    /\ \A j \in 1 .. Rank(shard) :
        IF j # axis + 1 THEN DimMatch(whole.sh[j], shard.sh[j])
        ELSE (Concrete(whole.sh[j]) /\ Concrete(shard.sh[j])) => whole.sh[j] % shard.sh[j] = 0

AllGather(a, i, o) ==
    /\ Len(i) = 1 /\ Len(o) = 1
    /\ Carries(a, i[1]) /\ Carries(a, o[1]) /\ WholeShards(a.axis, o[1], i[1])

ReduceScatter(a, i, o) ==
    /\ a.reduce_in = "f32"
    /\ Len(i) = 1 /\ Len(o) = 1
    /\ Carries(a, i[1]) /\ Carries(a, o[1]) /\ WholeShards(a.axis, i[1], o[1])

AllToAll(a, i, o) ==
    /\ Len(i) = 2 /\ Len(o) = 1
    /\ Carries(a, i[1]) /\ Act(i[2], 1, {"u32"}) /\ Carries(a, o[1])
    /\ Rank(o[1]) = Rank(i[1]) /\ SameOn(o[1], i[1], 2 .. Rank(i[1]))

Send(a, i, o) == Len(i) = 1 /\ Len(o) = 0 /\ Carries(a, i[1])

Recv(a, i, o) == Len(i) = 0 /\ Len(o) = 1 /\ Carries(a, o[1]) /\ SameShape(o[1], [sh |-> a.shape])

Barrier(a, i, o) == Len(i) = 0 /\ Len(o) = 0

-----------------------------------------------------------------------------
\* Op::validate on a node [op, at, ins, outs].
Validate(n) ==
    LET a == n.at  i == n.ins  o == n.outs
    IN CASE n.op = "embed_gather" -> EmbedGather(a, i, o)
         [] n.op = "ngram_gather" -> NgramGather(a, i, o)
         [] n.op = "quant_act" -> QuantAct(a, i, o)
         [] n.op = "cast" -> Cast(a, i, o)
         [] n.op = "copy" -> Copy(a, i, o)
         [] n.op = "gather_rows" -> GatherRows(a, i, o)
         [] n.op = "scatter_add_rows" -> ScatterAddRows(a, i, o)
         [] n.op = "split" -> Split(a, i, o)
         [] n.op = "concat" -> Concat(a, i, o)
         [] n.op = "norm" -> Norm(a, i, o)
         [] n.op = "residual_add" -> ResidualAdd(a, i, o)
         [] n.op = "act_mul" -> ActMul(a, i, o)
         [] n.op = "activation" -> Activation(a, i, o)
         [] n.op = "logit_softcap" -> LogitSoftcap(a, i, o)
         [] n.op = "rope" -> Rope(a, i, o)
         [] n.op = "matmul" -> Matmul(a, i, o)
         [] n.op = "moe_route" -> MoeRoute(a, i, o)
         [] n.op = "moe_ffn" -> MoeFfn(a, i, o)
         [] n.op = "state_write_kv" -> StateWriteKv(a, i, o)
         [] n.op = "attention" -> Attention(a, i, o)
         [] n.op = "causal_conv1d" -> CausalConv1d(a, i, o)
         [] n.op = "linear_attn_scan" -> LinearAttnScan(a, i, o)
         [] n.op = "logits_postprocess" -> LogitsPostprocess(a, i, o)
         [] n.op = "sample" -> Sample(a, i, o)
         [] n.op = "verify" -> Verify(a, i, o)
         [] n.op = "all_reduce" -> AllReduce(a, i, o)
         [] n.op = "all_gather" -> AllGather(a, i, o)
         [] n.op = "reduce_scatter" -> ReduceScatter(a, i, o)
         [] n.op = "all_to_all" -> AllToAll(a, i, o)
         [] n.op = "send" -> Send(a, i, o)
         [] n.op = "recv" -> Recv(a, i, o)
         [] n.op = "barrier" -> Barrier(a, i, o)

\* Op::numerics of a matrix product: both expert weights must have a contract.
GemmNumerics(n) ==
    CASE n.op = "matmul" -> {MatmulNumerics(n.ins[1], n.ins[2])}
      [] n.op = "moe_ffn" -> {MatmulNumerics(n.ins[1], n.ins[4]), MatmulNumerics(n.ins[1], n.ins[5])}
      [] OTHER -> {}
=============================================================================
