------------------------------ MODULE MCFormat ------------------------------
(***************************************************************************)
(* Model-checking r9v-format and its readers: repacking of tensors, the    *)
(* container written, edited and read, shard sets, the kernels that decode *)
(* weights and the mixture-of-experts layers.  A behaviour exercises one   *)
(* of them, the others keep their initial state.                           *)
(***************************************************************************)
EXTENDS Repack, Container, MoeExperts

VARIABLE part

-----------------------------------------------------------------------------
(* Repacking: every ggml type, on tensors of one row and of a tile row and  *)
(* one more, one and two blocks wide (three, of the 32-value types).        *)

Jobs ==
    {j \in {[g |-> g, n |-> n, k |-> m * BlockLen(g)] : g \in Ggml, n \in {1, 17}, m \in {1, 2, 3}} :
        BlockLen(j.g) > 32 => j.n * j.k <= 17 * 256}

-----------------------------------------------------------------------------
(* Containers: a writer that has made the calls of a preamble goes on with  *)
(* keys and tensors, most of them right somewhere and wrong elsewhere.      *)

E(key, val) == [key |-> key, val |-> val]
Num(ty, n) == [ty |-> ty, elem |-> ty, n |-> <<n>>, s |-> <<>>]
Str(s) == [ty |-> "str", elem |-> "str", n |-> <<>>, s |-> <<s>>]
NumArray(elem, n) == [ty |-> "array", elem |-> elem, n |-> n, s |-> <<>>]
StrArray(s) == [ty |-> "array", elem |-> "str", n |-> <<>>, s |-> s]

GA(n) == E(<<"general.alignment">>, Num("u32", n))
FV(n) == E(<<"r9v.format_version">>, Num("u32", n))
LayoutId(s) == E(<<"r9v.layout_id">>, Str(s))

W(alignment, kvs) == [alignment |-> alignment, kvs |-> kvs, tensors |-> <<>>, added |-> 0]

Preambles ==
    {W(32, <<>>), W(64, <<GA(64)>>), W(4096, <<GA(4096)>>), W(32, <<FV(1), LayoutId("l1")>>)}
    \cup {W(4096, <<GA(4096), FV(1), LayoutId(l)>>) : l \in {"l0", "L1", "l1s"}}

T(suffix, val) == E(<<"r9v.tensor", "a", suffix>>, val)

I4kRegions == Offsets(EntryRegions("i4_k", "l1", 2, 256))

MCKvArgs ==
    {T("roles", StrArray(r)) : r \in {<<"matmul">>, <<"embed">>, <<"embed", "lm_head">>, <<"vector">>,
                                          <<"matmul", "embed">>, <<>>}}
    \cup {T("sparse", Str(s)) : s \in {"none", "s24", "s48"}}
    \cup {T("scheme", Str(s)) : s \in {"i4_k", "iq3_s"}}
    \cup {T("regions", NumArray("u64", r)) : r \in {I4kRegions, <<0, 4096, 4096>>}}
    \cup {T("scheme", Num("u32", 1)), T("roles", NumArray("u32", <<1>>)), T("regions", Num("u64", 0)),
          T("act", Str("i8/PerToken")), T("act", Str("i8")),
          T("xxh3", Num("u32", 7)), E(<<"r9v.tensor", "z", "act">>, Str("i8/PerToken")),
          E(<<"r9v.tensor", "z", "later">>, Num("u32", 1)),
          E(<<"r9v.arch_hint">>, Num("u32", 1)), E(<<"general.name">>, Str("m")),
          E(<<"general.alignment">>, Str("64")),
          E(<<"split.no">>, Num("u16", 0)), E(<<"split.count">>, Num("u16", 1)),
          E(<<"split.other">>, Num("u32", 1)), FV(1), FV(2), LayoutId("l1"), LayoutId("l2"),
          E(<<"nested">>, NumArray("array", <<>>))}

Tn(name, kind, scheme, dims, len) ==
    [name |-> name, kind |-> kind, scheme |-> scheme, dims |-> dims, len |-> len]

MCTensorArgs ==
    {Tn("a", "R9v", "i4_k", <<256, 2>>, EntryRegions("i4_k", l, 2, 256).entry) : l \in {"l0", "l1", "l1s"}}
    \cup {Tn("a", "R9v", "iq3_s", <<256, 2, 9>>, EntryRegions("iq3_s", l, 18, 256).entry) : l \in {"l0", "l1"}}
    \cup {Tn("a", "F16", "none", <<8, 300>>, n) : n \in {4800, 8192, 12288}}
    \cup {Tn("a", "F32", "none", <<8>>, n) : n \in {32, 4096}}
    \cup {Tn("a", "F32", "none", <<8, 2>>, 64), Tn("a", "Q8_0", "none", <<32, 3>>, 102),
          Tn("a", "R9v", "i4_k", <<256>>, 4096), Tn("a", "BF16", "none", <<0, 2>>, 0),
          Tn("b", "F16", "none", <<9>>, 18), Tn("b", "F16", "none", <<9>>, 4096),
          Tn("b", "R9v", "i8_r", <<16, 1>>, EntryRegions("i8_r", "l1", 1, 16).entry)}

-----------------------------------------------------------------------------
(* Shard sets: files of one or two small tensors with every combination of  *)
(* split keys that can be right in a set of one or two.                     *)

ShardFile(names, kvs) ==
    LET w == [alignment |-> 32, kvs |-> kvs, added |-> 0,
              tensors |-> [i \in DOMAIN names |-> Tn(names[i], "I8", "none", <<5>>, 5)]]
    IN  EmittedFile(w)

SplitKvs(no, count, total) ==
    <<E(<<"split.no">>, Num("u16", no)), E(<<"split.count">>, Num("u16", count)),
      E(<<"split.tensors.count">>, Num("i32", total))>>

MCShardFiles ==
    {ShardFile(names, SplitKvs(no, count, total)) :
        names \in {<<>>, <<"a">>, <<"a", "b">>, <<"c">>}, no \in 0..1, count \in 1..2, total \in 1..3}
    \cup {ShardFile(<<"b">>, <<>>), ShardFile(<<"b">>, SplitKvs(1, 2, 2) \o <<E(<<"split.other">>, Num("u32", 1))>>)}

-----------------------------------------------------------------------------
(* Kernel calls: weights laid out by the format, scales beside or behind    *)
(* them, in every pair with an activation, each call also with one thing    *)
(* wrong.  Two rows of two blocks and more, or a tile row and one of one.   *)

DtypeOf == [none |-> "F16", i8_r |-> "I8", i8_b128 |-> "I8", i4_k |-> "I4", e4m3_b128 |-> "E4m3"]

\* Rows and columns of the weight matrices.
MatrixDims(scheme) ==
    CASE scheme = "i4_k" -> {<<17, 256>>, <<2, 512>>}
      [] scheme \in Block128 -> {<<17, 128>>, <<2, 384>>}
      [] OTHER -> {<<17, 24>>, <<2, 64>>}

StoredBytes(scheme, layout, sep, n, k) ==
    IF scheme = "none" THEN 2 * IF layout = "l1" THEN Elems(PaddedDims(n, k, 0)) ELSE n * k
    ELSE IF sep THEN IF layout = "l1" THEN EntryRegions(scheme, "l1", n, k).values ELSE (n * k * Schemes[scheme].bits) \div 8
    ELSE IF layout = "l1" THEN EntryRegions(scheme, "l1", n, k).scalesAt + EntryRegions(scheme, "l1", n, k).scales
    ELSE n * RowBytes(scheme, k)

StoredWeight(scheme, layout, sep, shape, n, k) ==
    View(DtypeOf[scheme], scheme, layout, shape, TRUE, StoredBytes(scheme, layout, sep, n, k))

StoredScales(scheme, layout, sep, n, k) ==
    IF ~sep THEN Absent
    ELSE View(IF scheme = "i4_k" THEN "U32" ELSE "F16", "none", "contiguous", CarrierShape(scheme, layout = "l1", n, k),
              TRUE, CarrierBytes(scheme, layout = "l1", n, k))

Storage == {s \in [scheme : DOMAIN DtypeOf, layout : {"l0", "l1"}, sep : BOOLEAN] : s.scheme = "none" => ~s.sep}

F32View(shape) == View("F32", "none", "contiguous", shape, FALSE, FoldLeft(LAMBDA a, d : a * d, 1, shape))

MatmulCall(s, x, m, n, k) ==
    [op |-> "matmul", x |-> View(x[1], x[2], "contiguous", <<m, k>>, x[1] = "E4m3", m * k),
     xs |-> CASE x[2] = "none" -> Absent [] x[2] = "per_token" -> F32View(<<m>>) [] OTHER -> F32View(<<m, k \div 32>>),
     w |-> StoredWeight(s.scheme, s.layout, s.sep, <<n, k>>, n, k), ws |-> StoredScales(s.scheme, s.layout, s.sep, n, k),
     bias |-> Absent, residual |-> Absent, y |-> F32View(<<m, n>>), epilogue |-> "none", out_dtype |-> "F32",
     transpose_w |-> FALSE, finite |-> TRUE, packed |-> TRUE]

Activations == {<<"F16", "none">>, <<"I8", "per_token">>, <<"I8", "per_block32">>, <<"E4m3", "per_token">>}

\* With half activations one storage has a broken tile row, the loops being
\* the same for all.
MatmulCalls ==
    UNION {{MatmulCall(s, x, IF nk[1] = 2 THEN 2 ELSE 1, nk[1], nk[2]) :
                nk \in {d \in MatrixDims(s.scheme) : d[1] = 17 /\ x[1] = "F16" => s.layout = "l1" /\ ~s.sep}} :
           s \in Storage, x \in Activations}

Transposed(c) == [c EXCEPT !.w.shape = <<@[2], @[1]>>, !.transpose_w = TRUE]

GoodMatmuls ==
    LET good == {c \in MatmulCalls : /\ PairOK(c.x, WeightScheme(c.w))
                                     /\ c.x.quant = "per_block32" => c.x.shape[2] % 32 = 0}
    IN  good \cup {Transposed(c) : c \in {d \in good : d.w.dtype = "F16" /\ d.w.layout = "l0"}}

EmbedCall(s, n, k) ==
    [op |-> "embed", ids |-> View("U32", "none", "contiguous", <<2>>, FALSE, 2), tokens |-> <<n - 1, 0>>,
     w |-> StoredWeight(s.scheme, s.layout, s.sep, <<n, k>>, n, k), ws |-> StoredScales(s.scheme, s.layout, s.sep, n, k),
     y |-> F32View(<<2, k>>), out_dtype |-> "F32", scale |-> "positive", packed |-> TRUE]

NgramCall(s, n, k) ==
    [op |-> "ngram", source |-> "device", ids |-> View("U32", "none", "contiguous", <<2>>, FALSE, 2),
     w |-> StoredWeight(s.scheme, "l0", s.sep, <<n, k>>, n, k),
     ws |-> IF s.sep THEN [StoredScales(s.scheme, "l0", TRUE, n, k) EXCEPT !.shape = NgramCarrierShape(s.scheme, n, k)] ELSE Absent,
     y |-> F32View(<<2, 2 * k>>), out_dtype |-> "F32", table_sizes |-> <<1, n - 1>>, orders |-> <<1, 1>>,
     rows |-> <<<<0, n - 2>>, <<0, 0>>>>, combine |-> "concat", packed |-> TRUE]

DownCall(s, n, k) ==
    [op |-> "down", w |-> StoredWeight(s.scheme, s.layout, s.sep, <<2, n, k>>, 2 * n, k),
     ws |-> StoredScales(s.scheme, s.layout, s.sep, 2 * n, k), expert |-> 1, packed |-> TRUE]

GoodCalls ==
    GoodMatmuls
    \cup UNION {{EmbedCall(s, nk[1], nk[2]) : nk \in MatrixDims(s.scheme)} :
                 s \in {u \in Storage : u.scheme # "e4m3_b128"}}
    \cup UNION {{NgramCall(s, nk[1], nk[2]) : nk \in MatrixDims(s.scheme)} :
                 s \in {u \in Storage : u.scheme # "e4m3_b128" /\ u.layout = "l0" /\ (u.sep \/ u.scheme = "none")}}
    \cup UNION {{DownCall(s, nk[1], nk[2]) : nk \in MatrixDims(s.scheme)} : s \in Storage}

\* One thing wrong with a call, or merely different.
Spoilt(c) ==
    {[c EXCEPT !.w.len = @ - 1], [c EXCEPT !.w.quant = "i6_k"], [c EXCEPT !.w.layout = "l1s"],
     [c EXCEPT !.ws = F32View(<<1>>)], [c EXCEPT !.ws = Absent], [c EXCEPT !.w.raw = FALSE],
     [c EXCEPT !.w.layout = "l1"], [c EXCEPT !.w.layout = "contiguous"]}
    \cup (IF Present(c.ws) THEN {[c EXCEPT !.ws.len = @ - 2], [c EXCEPT !.ws.layout = "l0"],
                                 [c EXCEPT !.ws.shape = <<@[1], 1>> \o Tail(@)], [c EXCEPT !.ws.dtype = "I8"]} ELSE {})
    \cup (IF c.op = "matmul"
          THEN {[c EXCEPT !.y.shape = <<@[2], @[1]>>], [c EXCEPT !.bias = F32View(<<c.y.shape[2]>>)],
                [c EXCEPT !.epilogue = "bias", !.bias = F32View(<<c.y.shape[2]>>)], [c EXCEPT !.finite = FALSE],
                [c EXCEPT !.epilogue = "residual", !.residual = c.y], [c EXCEPT !.out_dtype = "I8"],
                [c EXCEPT !.transpose_w = TRUE], [c EXCEPT !.xs = Absent]} ELSE {})
    \cup (IF c.op = "embed"
          THEN {[c EXCEPT !.tokens = <<c.w.shape[1], 0>>], [c EXCEPT !.scale = "zero"]} ELSE {})
    \cup (IF c.op = "ngram"
          THEN {[c EXCEPT !.rows = <<<<1, 0>>, <<0, 0>>>>], [c EXCEPT !.table_sizes = <<1, 1>>], [c EXCEPT !.orders = <<1, 2>>],
                [c EXCEPT !.combine = "sum"], [c EXCEPT !.source = "staged"], [c EXCEPT !.ids.dtype = "F32"],
                [c EXCEPT !.ids.shape = <<1, 2>>], [c EXCEPT !.ids.len = 1], [c EXCEPT !.ids.shape = <<1>>]} ELSE {})

\* Only the smaller matrices are spoilt.
MCKernelCalls ==
    GoodCalls \cup UNION {{[d EXCEPT !.packed = FALSE] : d \in Spoilt(c)} :
                          c \in {g \in GoodCalls : KernelN(g) \in {2, 4} /\ (g.op = "matmul" => g.x.dtype = "I8")}}

-----------------------------------------------------------------------------
(* Experts: two tokens, three experts and two slots; operands of the right   *)
(* shapes, and with one of them different.                                  *)

MCLogits == {-3, -2, 0}

RouteCall(scoring, renormalize, added) ==
    [scoring |-> scoring, renormalize |-> renormalize, top_k |-> 2, scale |-> "positive", grouped |-> FALSE,
     finite |-> TRUE, logits |-> F32View(<<2, 3>>), bias |-> IF added[0] = 0 THEN Absent ELSE F32View(<<3>>), added |-> added,
     expert_ids |-> View("U32", "none", "contiguous", <<2, 2>>, TRUE, 16), weights |-> F32View(<<2, 2>>)]

MCRouteCalls ==
    LET good == {RouteCall(s, r, [e \in ExpertIds |-> 0]) : s \in {"softmax", "sigmoid"}, r \in BOOLEAN}
                \cup {RouteCall("sigmoid", TRUE, [e \in ExpertIds |-> 1 - e])}
        c == RouteCall("sigmoid", TRUE, [e \in ExpertIds |-> 1])
    IN  good \cup {[c EXCEPT !.top_k = 4], [c EXCEPT !.top_k = 0], [c EXCEPT !.bias = F32View(<<2>>)], [c EXCEPT !.finite = FALSE],
                   [c EXCEPT !.expert_ids.len = 15], [c EXCEPT !.weights.shape = <<2, 1>>], [c EXCEPT !.grouped = TRUE]}

FfnCallOf(x, xs, scheme, gate_up_scale, down_scale) ==
    [x |-> x, xs |-> xs, expert_ids |-> View("U32", "none", "contiguous", <<2, 2>>, FALSE, 4), weights |-> F32View(<<2, 2>>),
     w_gate_up |-> StoredWeight(scheme, "l0", Present(gate_up_scale), <<3, 4, MoeDm>>, 12, MoeDm), gate_up_scale |-> gate_up_scale,
     w_down |-> StoredWeight(scheme, "l0", Present(down_scale), <<3, MoeDm, 2>>, 3 * MoeDm, 2), down_scale |-> down_scale,
     y |-> F32View(<<2, MoeDm>>), out_dtype |-> "F32", shared_experts |-> 1, finite |-> TRUE]

MCFfnCalls ==
    LET halves == FfnCallOf(View("Bf16", "none", "contiguous", <<2, MoeDm>>, TRUE, 4 * MoeDm), Absent, "none", Absent, Absent)
        scales == StoredScales("i8_r", "l0", TRUE, 12, MoeDm)
        bytes == FfnCallOf(View("I8", "per_token", "l0", <<2, MoeDm>>, FALSE, 2 * MoeDm), F32View(<<2>>), "i8_r", scales, Absent)
        blocks == FfnCallOf(View("I8", "per_block32", "l0", <<2, MoeDm>>, FALSE, 2 * MoeDm), F32View(<<2, MoeDm \div 32>>),
                            "i8_r", scales, Absent)
    IN  {halves, bytes, blocks, [bytes EXCEPT !.gate_up_scale = Absent], [halves EXCEPT !.w_gate_up.quant = "i6_k"], [halves EXCEPT !.w_gate_up.layout = "l1"],
         [bytes EXCEPT !.expert_ids.shape = <<3, 2>>, !.expert_ids.len = 6], [bytes EXCEPT !.expert_ids.shape = <<1, 2>>],
         [bytes EXCEPT !.expert_ids.shape = <<1, 2>>, !.expert_ids.len = 2],
         [bytes EXCEPT !.w_down.shape = <<3, MoeDm, 1>>], [bytes EXCEPT !.weights.shape = <<2, 1>>], [bytes EXCEPT !.xs = Absent],
         [bytes EXCEPT !.w_down.len = @ - 1], [halves EXCEPT !.shared_experts = 4], [halves EXCEPT !.y.shape = <<2, 1>>], [blocks EXCEPT !.xs = F32View(<<2>>)],
         [halves EXCEPT !.expert_ids.dtype = "F32"], [halves EXCEPT !.x.layout = "l1"]}

ZeroIds == [t \in Toks |-> [s \in Slots |-> 0]]

-----------------------------------------------------------------------------

PartInit ==
    /\ part \in {"repack", "container", "shards", "kernels", "experts"}
    /\ job \in Jobs /\ packed = NoTensor /\ wire = NoTensor
    /\ part # "repack" => job = [g |-> "F16", n |-> 1, k |-> 1]
    /\ writer \in Preambles
    /\ part # "container" => writer = W(32, <<>>)
    /\ file = NoFile /\ edited = FALSE /\ verdict = "none" /\ shards = <<>>
    /\ KernelInit
    /\ MoeInit
    /\ part # "experts" => expert_ids = ZeroIds

\* The caller adds keys before tensors; two keys beyond the preamble only to a
\* native one, two tensors, or an edit of the file, only with one key.
CallOrder ==
    /\ writer'.kvs # writer.kvs => writer.tensors = <<>>
    /\ writer'.added = 2 => Len(writer.kvs) > 2
    /\ edited' \/ Len(writer'.tensors) = 2 => writer.added <= 1

\* A route overwrites whatever the buffers hold: it starts from one content.
PartNext ==
    /\ UNCHANGED part
    /\ \/ part = "repack" /\ RepackNext /\ UNCHANGED <<containerVars, kernel, moeVars>>
       \/ part = "container" /\ ContainerNext /\ CallOrder /\ UNCHANGED <<repackVars, kernel, moeVars>>
       \/ part = "shards" /\ ShardNext /\ UNCHANGED <<repackVars, kernel, moeVars>>
       \/ part = "kernels" /\ KernelNext /\ UNCHANGED <<repackVars, containerVars, moeVars>>
       \/ part = "experts" /\ expert_ids = ZeroIds /\ MoeRoute /\ UNCHANGED <<repackVars, containerVars, kernel>>
       \/ part = "experts" /\ MoeCallNext /\ UNCHANGED <<repackVars, containerVars, kernel>>

PartSpec == PartInit /\ [][PartNext]_<<part, repackVars, containerVars, kernel, moeVars>>
=============================================================================
