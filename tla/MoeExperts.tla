---------------------------- MODULE MoeExperts ----------------------------
(***************************************************************************)
(* Mixture-of-experts layers in the reference kernels of r9v-t0: moe_route *)
(* scores the experts of every token and stages the ids and weights of the *)
(* best; moe_ffn runs one expert after another over the tokens routed to   *)
(* it, through matmul and its own down projection, and adds every slot's   *)
(* share to a staged output.  Numbers are left out but for the order of    *)
(* scores: a share keeps which activation row, which gate, up and down     *)
(* rows and which routing weight it is made of.                            *)
(***************************************************************************)
EXTENDS WeightKernels, FiniteSets

CONSTANTS
    MoeTokens,      \* tokens of a batch (T)
    MoeExpertCount, \* experts (E)
    MoeTopK,        \* slots per token (K)
    MoeDff, MoeDm,  \* widths of the inner and outer layer
    Logits,         \* router logits, a bounded range of integers
    Saturation,     \* logits a score no longer tells apart
    RouteCalls,     \* attributes and operands of moe_route
    FfnCalls        \* operands of moe_ffn

VARIABLES
    expert_ids,     \* the routing buffers: id and weight of every slot
    weights,
    ffn             \* the call of moe_ffn

moeVars == <<expert_ids, weights, ffn>>

Toks == 0..MoeTokens - 1
Slots == 0..MoeTopK - 1
ExpertIds == 0..MoeExpertCount - 1

ASSUME MoeAssumption == MoeTopK \in 1..MoeExpertCount /\ MoeTokens >= 1 /\ Saturation >= 1

-----------------------------------------------------------------------------
(* moe_route *)

RouteViewsOK(c) ==
    /\ \A v \in {c.logits, c.bias, c.expert_ids, c.weights} : Backed(v)
    /\ Rank(c.logits) = 2 /\ c.logits.dtype = "F32" /\ RowMajorView(c.logits)
    /\ Present(c.bias) => Rank(c.bias) = 1 /\ c.bias.dtype = "F32" /\ RowMajorView(c.bias)
    /\ Rank(c.expert_ids) = 2 /\ c.expert_ids.dtype = "U32"
    /\ Rank(c.weights) = 2 /\ c.weights.dtype = "F32"
    /\ c.top_k > 0 /\ c.scale = "positive" /\ ~c.grouped

\* finite: every logit and every bias.
RouteShapesOK(c) ==
    LET t == c.logits.shape[1]
        e == c.logits.shape[2]
    IN  /\ t > 0 /\ e > 0 /\ c.top_k <= e
        /\ Present(c.bias) => c.bias.shape = <<e>>
        /\ c.expert_ids.shape = <<t, c.top_k>> /\ c.weights.shape = <<t, c.top_k>>
        /\ c.finite

\* A softmax score underflows to zero far below the maximum; a sigmoid score
\* is zero far below and one far above zero.
RouteScore(op, row) ==
    IF op.scoring = "softmax"
    THEN LET max == CHOOSE m \in {row[e] : e \in ExpertIds} : \A e \in ExpertIds : row[e] <= m
         IN  [e \in ExpertIds |-> IF max - row[e] > Saturation THEN 0 ELSE Saturation + 1 - (max - row[e])]
    ELSE [e \in ExpertIds |-> IF row[e] < -Saturation THEN 0
                              ELSE IF row[e] > Saturation THEN 2 * Saturation + 1 ELSE row[e] + Saturation + 1]

\* Mutant: ties are broken by the larger id.
BetterLast(scores, a, b) == scores[a] > scores[b] \/ (scores[a] = scores[b] /\ a > b)

\* Descending by score, then ascending by id.
Better(scores, a, b) == scores[a] > scores[b] \/ (scores[a] = scores[b] /\ a < b)

\* The K best experts, best first.
RouteOrder(scores) ==
    [s \in Slots |-> CHOOSE e \in ExpertIds :
        Cardinality({f \in ExpertIds : Better(scores, f, e)}) = s]

SlotSum(f) == FoldFunction(+, 0, f)

\* A share of the scores: the numerator and what it is divided by (1: the
\* scores as they are).
RouteRow(op, row) ==
    LET scores == RouteScore(op, [e \in ExpertIds |-> row[e] + op.added[e]])
        ids == RouteOrder(scores)
        total == SlotSum([s \in Slots |-> scores[ids[s]]])
    IN  [ids |-> ids, weights |-> [s \in Slots |-> <<scores[ids[s]], IF op.renormalize THEN total ELSE 1>>],
         ok |-> op.renormalize => total # 0]

\* Nothing is written when one row fails.
MoeRoute ==
    /\ ffn.status = "idle"
    /\ \E op \in RouteCalls :
         IF ~RouteViewsOK(op) \/ ~RouteShapesOK(op)
         THEN ffn' = [ffn EXCEPT !.status = "refused"] /\ UNCHANGED <<expert_ids, weights>>
         ELSE \E logits \in [Toks -> [ExpertIds -> Logits]] :
                LET rows == [t \in Toks |-> RouteRow(op, logits[t])] IN
                IF \A t \in Toks : rows[t].ok
                THEN /\ expert_ids' = [t \in Toks |-> rows[t].ids]
                     /\ weights' = [t \in Toks |-> rows[t].weights]
                     /\ ffn' = [ffn EXCEPT !.status = "routed"]
                ELSE ffn' = [ffn EXCEPT !.status = "refused"] /\ UNCHANGED <<expert_ids, weights>>

-----------------------------------------------------------------------------
(* moe_ffn *)

FfnViewsOK(c) ==
    /\ \A v \in {c.x, c.xs, c.expert_ids, c.weights, c.w_gate_up, c.gate_up_scale, c.w_down, c.down_scale, c.y} :
         Backed(v)
    /\ \A v \in {c.x, c.expert_ids, c.weights, c.y} : Rank(v) = 2 /\ RowMajorView(v)
    /\ Rank(c.w_gate_up) = 3 /\ WeightLayout(c.w_gate_up)
    /\ RowMajorView(c.xs)

\* The weight views and scales of the down projection are checked with it.
FfnTypesOK(c) ==
    /\ ActivationOK(c.x) /\ NativeQuant(c.w_gate_up) /\ NativeQuant(c.w_down)
    /\ c.expert_ids.dtype = "U32" /\ c.weights.dtype = "F32"
    /\ c.out_dtype \in FloatOut /\ c.y.dtype = c.out_dtype
    /\ c.w_gate_up.dtype \notin {"F32", "Bf16"}

MoeScaleOK(c) == ActivationScaleOK(c.x, c.xs, c.finite, c.x.shape[1], c.x.shape[2])

\* The rows of expert_ids are not compared with the tokens of x.  The ids of
\* all tokens are read, past the end of the view too, and only an id outside
\* the backing ends the call.
FfnShapesOK(c) ==
    LET dm == c.x.shape[2]
        dff == c.w_down.shape[3]
        e == c.w_gate_up.shape[1]
    IN  /\ \A d \in {c.x.shape[1], dm, e, dff, c.expert_ids.shape[2]} : d > 0
        /\ c.shared_experts <= e
        /\ c.weights.shape = <<c.x.shape[1], c.expert_ids.shape[2]>>
        /\ c.w_gate_up.shape = <<e, 2 * dff, dm>> /\ c.w_down.shape = <<e, dm, dff>>
        /\ c.y.shape = c.x.shape
        /\ c.x.shape[1] * c.expert_ids.shape[2] * ElementWidth(c.expert_ids) <= c.expert_ids.len

DownCallOf(c, expert) == [op |-> "down", w |-> c.w_down, ws |-> c.down_scale, expert |-> expert]

\* (expert, token, slot) by expert, then token; equal pairs keep their slots'
\* order.
Triples(ids) ==
    LET pushed == [i \in 1..MoeTokens * MoeTopK |->
                     LET t == (i - 1) \div MoeTopK
                         s == (i - 1) % MoeTopK
                     IN  <<ids[t][s], t, s>>]
    IN  FlattenSeq([e \in 1..MoeExpertCount |-> SelectSeq(pushed, LAMBDA x : x[1] = e - 1)])

IdsInRange == \A t \in Toks, s \in Slots : expert_ids[t][s] < MoeExpertCount

FfnCall ==
    /\ ffn.status \in {"idle", "routed"}
    /\ \E c \in FfnCalls :
         IF /\ FfnViewsOK(c) /\ FfnTypesOK(c) /\ DownOK(DownCallOf(c, 0)) /\ FfnShapesOK(c)
            /\ MoeScaleOK(c) /\ IdsInRange /\ c.w_gate_up.raw
         THEN ffn' = [ffn EXCEPT !.status = "running", !.call = c, !.triples = Triples(expert_ids)]
         ELSE ffn' = [ffn EXCEPT !.status = "refused"]
    /\ UNCHANGED <<expert_ids, weights>>

\* The triples of the first expert left.
Run == SelectSeq(ffn.triples, LAMBDA x : x[1] = ffn.triples[1][1])

\* Its tokens, each once, in ascending order.
RunTokens == SelectSeq([i \in 1..MoeTokens |-> i - 1], LAMBDA t : \E i \in DOMAIN Run : Run[i][2] = t)

\* The inner matmul: gathered rows against the gate and up rows of every
\* expert as one matrix.
GateUpCall(c, le) ==
    LET dm == c.x.shape[2]
        rows == c.w_gate_up.shape[1] * c.w_gate_up.shape[2]
    IN  [op |-> "matmul", x |-> [c.x EXCEPT !.shape = <<le, dm>>, !.len = le * dm * ElementWidth(c.x)],
         xs |-> IF ~Present(c.xs) THEN Absent ELSE [c.xs EXCEPT !.shape[1] = le, !.len = le * (c.xs.len \div c.xs.shape[1])],
         w |-> [c.w_gate_up EXCEPT !.shape = <<rows, dm>>], ws |-> c.gate_up_scale,
         bias |-> Absent, residual |-> Absent, y |-> View("F32", "none", "contiguous", <<le, rows>>, FALSE, le * rows),
         epilogue |-> "none", out_dtype |-> "F32", transpose_w |-> FALSE, finite |-> c.finite]

\* The gathered buffer: the element of x each of its elements is copied from.
GatherActivationRows(tokens) ==
    [i \in 0..Len(tokens) * MoeDm - 1 |-> tokens[(i \div MoeDm) + 1] * MoeDm + (i % MoeDm)]

\* The gathered scales: the element of x_scale of each.
GatherScaleRows(c, tokens) ==
    LET blocks == MoeDm \div 32 IN
    CASE c.x.quant = "per_token" -> [r \in 0..Len(tokens) - 1 |-> tokens[r + 1]]
      [] c.x.quant = "per_block32" ->
            [i \in 0..Len(tokens) * blocks - 1 |-> tokens[(i \div blocks) + 1] * blocks + (i % blocks)]
      [] OTHER -> <<>>

\* What the inner matmul makes an element of h_all from: a gathered row, a row
\* of the flattened gate and up matrix, and for each block of columns it adds
\* the gathered scale.
HAll(tokens, index) ==
    LET width == MoeExpertCount * 2 * MoeDff
        r == index \div width
        c == GateUpCall(ffn.call, Len(tokens))
        gx == GatherActivationRows(tokens)
        gx_scale == GatherScaleRows(c, tokens)
        blocks == MatmulBlocks(c, r)
    IN  [x |-> [d \in 0..MoeDm - 1 |-> gx[r * MoeDm + d]],
         blocks |-> [i \in DOMAIN blocks |-> [blocks[i] EXCEPT !.xs = IF @ = NoScale THEN NoScale ELSE gx_scale[@]]],
         row |-> index % width]

\* Row r (from 0) of the expert's output: what its gate, up and down values
\* are computed from.
DownOut(tokens, expert, r) ==
    LET width == MoeExpertCount * 2 * MoeDff
        base == expert * 2 * MoeDff
    IN  [gate |-> [d \in 0..MoeDff - 1 |-> HAll(tokens, r * width + base + d)],
         up |-> [d \in 0..MoeDff - 1 |-> HAll(tokens, r * width + base + MoeDff + d)],
         down |-> [d \in 0..MoeDm - 1 |-> expert * MoeDm + d]]

\* Mutant: each slot of the run takes the row at its own place in the run.
CombineByPlace(y_tmp, run, tokens) ==
    [t \in Toks |->
        y_tmp[t] \o [i \in DOMAIN SelectSeq(run, LAMBDA x : x[2] = t) |->
            LET x == SelectSeq(run, LAMBDA y : y[2] = t)[i]
                place == (CHOOSE p \in DOMAIN run : run[p] = x) - 1
            IN  [w |-> t * MoeTopK + x[3],
                 out |-> DownOut(tokens, x[1], IF place < Len(tokens) THEN place ELSE Len(tokens) - 1)]]]

\* Every slot of the run in ascending (token, slot) order takes the expert's
\* row of its token.
Combine(y_tmp, run, tokens) ==
    [t \in Toks |->
        LET slots == SelectSeq(run, LAMBDA x : x[2] = t) IN
        y_tmp[t] \o [i \in DOMAIN slots |->
            LET position == (CHOOSE r \in DOMAIN tokens : tokens[r] = t) - 1 IN
            [w |-> t * MoeTopK + slots[i][3], out |-> DownOut(tokens, slots[i][1], position)]]]

ExpertRun ==
    /\ ffn.status = "running" /\ ffn.triples # <<>>
    /\ MatmulOK(GateUpCall(ffn.call, Len(RunTokens)))
    /\ ffn' = [ffn EXCEPT !.y_tmp = Combine(@, Run, RunTokens),
                          !.triples = SelectSeq(@, LAMBDA x : x[1] # ffn.triples[1][1])]
    /\ UNCHANGED <<expert_ids, weights>>

\* The inner matmul refuses, or a weight or scale cannot be decoded: the call
\* ends.
ExpertRunFails ==
    /\ ffn.status = "running" /\ ffn.triples # <<>>
    /\ ffn' = [ffn EXCEPT !.status = "failed"]
    /\ UNCHANGED <<expert_ids, weights>>

FfnCommit ==
    /\ ffn.status = "running" /\ ffn.triples = <<>>
    /\ ffn' = [ffn EXCEPT !.status = "done", !.y = ffn.y_tmp]
    /\ UNCHANGED <<expert_ids, weights>>

Empty == [t \in Toks |-> <<>>]

\* The routing buffers hold what an earlier call left, or ids of a caller.
MoeInit ==
    /\ expert_ids \in [Toks -> [Slots -> 0..MoeExpertCount]]
    /\ weights = [t \in Toks |-> [s \in Slots |-> <<0, 1>>]]
    /\ ffn = [status |-> "idle", call |-> NoCall, triples |-> <<>>, y_tmp |-> Empty, y |-> Empty]

MoeCallNext == FfnCall \/ ExpertRun \/ ExpertRunFails \/ FfnCommit

MoeNext == MoeRoute \/ MoeCallNext

MoeSpec == MoeInit /\ [][MoeNext]_moeVars

-----------------------------------------------------------------------------
(* The properties. *)

\* A value of the inner layer is made of the token's row of activations, each
\* with the scale of the token or of its block of 32, and of one weight row.
InnerExact(t, h, row) ==
    /\ h.row = row
    /\ \A d \in 0..MoeDm - 1 : h.x[d] \div MoeDm = t /\ h.x[d] % MoeDm = d
    /\ \A i \in DOMAIN h.blocks : \A d \in h.blocks[i].from..(h.blocks[i].from + h.blocks[i].len - 1) :
         h.blocks[i].xs = CASE ffn.call.x.quant = "none" -> NoScale
                            [] ffn.call.x.quant = "per_token" -> t
                            [] OTHER -> t * ffn.call.xs.shape[2] + d \div 32

\* A share: its expert comes from the slot's id, and all of it from its token.
ShareExact(t, share) ==
    LET e == expert_ids[t][share.w - t * MoeTopK] IN
    /\ \A d \in 0..MoeDff - 1 :
         /\ InnerExact(t, share.out.gate[d], e * (2 * MoeDff) + d)
         /\ InnerExact(t, share.out.up[d], e * (2 * MoeDff) + MoeDff + d)
    /\ \A d \in 0..MoeDm - 1 : share.out.down[d] \div MoeDm = e /\ share.out.down[d] % MoeDm = d

\* The output of a token is the sum of one share per slot, duplicates of an
\* expert included, each of the slot's own expert, routing weight and of the
\* token's own activations, added by ascending expert and slot: it does not
\* depend on the other tokens of the batch.  A call that is refused or fails
\* between two experts leaves the output as it was.  The experts a route
\* writes are different, by descending score and, where scores saturate to
\* the same value, by ascending id, and moe_ffn takes them all.
ExpertsExact ==
    /\ ffn.status # "done" => ffn.y = Empty
    /\ ffn.status = "routed" =>
         \A t \in Toks : \A a, b \in Slots :
            a < b => LET wa == weights[t][a][1]
                         wb == weights[t][b][1]
                     IN  wa > wb \/ (wa = wb /\ expert_ids[t][a] < expert_ids[t][b])
    /\ ffn.status = "done" =>
         \A t \in Toks :
            LET y == ffn.y[t]
                slot(i) == y[i].w - t * MoeTopK
                e(i) == expert_ids[t][slot(i)]
            IN  /\ Len(y) = MoeTopK
                /\ \A i \in DOMAIN y : slot(i) \in Slots /\ ShareExact(t, y[i])
                /\ \A i, j \in DOMAIN y : i < j => e(i) < e(j) \/ (e(i) = e(j) /\ slot(i) < slot(j))
=============================================================================
