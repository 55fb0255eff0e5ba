------------------------------ MODULE KvAttention ------------------------------
(***************************************************************************)
(* The reference kernels that write and read the KV cache of a layer group *)
(* (crates/r9v-t0/src/attention.rs), run on the batches the workspace      *)
(* hands out.                                                              *)
(*                                                                         *)
(* Numbers are abstracted to where they come from: a cache element holds   *)
(* the set of labels <<sequence, position, part, head, column>> that are   *)
(* stored there (sequences that share a block share its elements).  Both   *)
(* caches are two flat regions a and b: K and V rows per head of a paged   *)
(* cache, the latent and the rope row of a latent one, which has no heads. *)
(* A row that cannot be quantized to e4m3 in the middle of a commit, which *)
(* depends on its numbers, is left out.                                    *)
(***************************************************************************)
EXTENDS BatchWorkspace

CONSTANTS
    KvKind,         \* "paged" or "latent" for every paged group
    KvHeads,        \* KV heads of a paged cache
    KvDims,         \* columns of the two regions
    WriteCalls,     \* state_write_kv calls: op attributes and the two operands
    AttentionCalls  \* attention calls: op attributes, q and o

Refused == [refused |-> TRUE]

-------------------------------------------------------------------------------
(* Cache geometry                                                          *)

\* KvPagedCache::new: zeroed, nothing written.
NewCache(kind, blocks, heads, d, dv, dtype) ==
    IF dtype \notin {"f16", "i8", "e4m3"} \/ 0 \in {blocks, heads, d, dv} THEN Refused
    ELSE [refused |-> FALSE, kind |-> kind, heads |-> heads, d |-> d, dv |-> dv, dtype |-> dtype,
          a |-> [o \in 0 .. blocks * BlockTokens * heads * d - 1 |-> {}],
          b |-> [o \in 0 .. blocks * BlockTokens * heads * dv - 1 |-> {}],
          written |-> [slot \in 0 .. blocks * BlockTokens - 1 |-> FALSE]]

\* KvLatentCache::new: one latent and one rope row per slot, no heads.
NewLatentCache(blocks, latent, rope, dtype) ==
    NewCache("latent", blocks, 1, latent, rope, dtype)

NumSlots(cache) == Cardinality(DOMAIN cache.written)

\* k_offset and the latent address: row-major slot, head, column.
AOffset(cache, slot, head, dim) == (slot * cache.heads + head) * cache.d + dim

\* v_offset and the rope address.
BOffset(cache, slot, head, dim) == (slot * cache.heads + head) * cache.dv + dim

\* read_k_f32: an element, or nothing outside the region.
ReadA(cache, slot, head, dim) ==
    IF slot < NumSlots(cache) /\ AOffset(cache, slot, head, dim) \in DOMAIN cache.a
    THEN cache.a[AOffset(cache, slot, head, dim)] ELSE {}

\* read_v_f32
ReadB(cache, slot, head, dim) ==
    IF slot < NumSlots(cache) /\ BOffset(cache, slot, head, dim) \in DOMAIN cache.b
    THEN cache.b[BOffset(cache, slot, head, dim)] ELSE {}

\* read_latent_f32
ReadLatent(cache, slot, dim) == ReadA(cache, slot, 0, dim)

\* read_rope_f32
ReadRope(cache, slot, dim) == ReadB(cache, slot, 0, dim)

IsWritten(cache, slot) == slot \in DOMAIN cache.written /\ cache.written[slot]

-------------------------------------------------------------------------------
(* state_write_kv                                                          *)

RowMajor(view) == view.layout \in {"contiguous", "l0"}
FloatView(view) == view.dtype \in {"f16", "bf16", "f32"}

GroupInRange(m, gi) == gi \in 1 .. m.g

\* validate_write_common; extra counts the rows beyond the tokens of the batch.
WriteCommonOK(call, m, gi) ==
    /\ \A view \in {call.k, call.v} :
        view.rank = 3 /\ FloatView(view) /\ RowMajor(view) /\ view.backed /\ view.extra = 0
    /\ call.k.heads = call.v.heads
    /\ call.cache_dtype \in {"f16", "i8", "e4m3"}
    /\ call.granularity = "per_token_head"
    /\ GroupInRange(m, gi)

Quantized(call) == call.cache_dtype \in {"i8", "e4m3"}

\* The checks of state_write_kv_paged.
PagedWriteOK(call, cache) ==
    /\ ~call.latent.some
    /\ call.k.heads = cache.heads /\ call.k.cols = cache.d /\ call.v.cols = cache.dv
    /\ Quantized(call) => call.k.finite /\ call.v.finite

\* Exact split pair, or everything in operand 0.
IsSplit(call)    == call.k.cols = call.latent.rank /\ call.v.cols = call.latent.rope
IsCombined(call) == call.k.cols = call.latent.rank + call.latent.rope

\* The checks of state_write_kv_latent; the rope row is stored in f16.
LatentWriteOK(call, cache) ==
    /\ call.latent.some /\ call.latent.rank # 0 /\ call.latent.rope # 0
    /\ IsSplit(call) \/ IsCombined(call)
    /\ call.k.heads = 1 /\ call.v.heads = 1
    /\ call.latent.rank = cache.d /\ call.latent.rope = cache.dv
    /\ Quantized(call) => call.k.finite

\* plan_write_slots: every slot skippable or inside the cache.
SlotsOK(m, gi, slots) ==
    \A tok \in 0 .. m.t - 1 : SlotAt(m, gi, tok) = SlotNone \/ SlotAt(m, gi, tok) < slots

SeqOfToken(m, tok) ==
    CHOOSE k \in 1 .. m.s :
        tok \in SegmentStart(m.query_lens, k) .. SegmentStart(m.query_lens, k + 1) - 1

TokenPosition(m, tok) ==
    LET k == SeqOfToken(m, tok) IN m.ctx_lens[k] + tok - SegmentStart(m.query_lens, k)

\* What column col of operand 0 or 1 of token tok holds, as its producer made it.
OperandLabel(call, m, tok, operand, head, col) ==
    <<m.seq_ids[SeqOfToken(m, tok)], TokenPosition(m, tok)>> \o
    (IF ~call.latent.some THEN <<IF operand = 0 THEN "k" ELSE "v", head, col>>
     ELSE IF operand = 0 /\ col < call.latent.rank THEN <<"latent", head, col>>
     ELSE <<"rope", head, IF operand = 0 THEN col - call.latent.rank ELSE col>>)

\* The row of region b: the second operand, or the tail of the combined one.
RopeLabel(call, m, tok, head, dim) ==
    IF call.latent.some /\ ~IsSplit(call)
    THEN OperandLabel(call, m, tok, 0, head, call.latent.rank + dim)
    ELSE OperandLabel(call, m, tok, 1, head, dim)

\* The stores a planned write makes into one region, later tokens over earlier.
Stored(region, stores) ==
    [o \in DOMAIN region |->
        LET here == {st \in stores : st.at = o} IN
        IF here = {} THEN region[o]
        ELSE {(CHOOSE st \in here : \A other \in here : other.tok <= st.tok).label}]

\* Plan-then-commit: all rows are read, then stored and the slots marked.
CommitWrite(call, m, gi, cache) ==
    LET toks == {tok \in 0 .. m.t - 1 : SlotAt(m, gi, tok) # SlotNone}
        heads == 0 .. cache.heads - 1
    IN  IF toks # {} /\ call.cache_dtype # cache.dtype THEN Refused
        ELSE [cache EXCEPT
            !.a = Stored(@, {[at |-> AOffset(cache, SlotAt(m, gi, x[1]), x[2], x[3]), tok |-> x[1],
                              label |-> OperandLabel(call, m, x[1], 0, x[2], x[3])] :
                             x \in toks \X heads \X (0 .. cache.d - 1)}),
            !.b = Stored(@, {[at |-> BOffset(cache, SlotAt(m, gi, x[1]), x[2], x[3]), tok |-> x[1],
                              label |-> RopeLabel(call, m, x[1], x[2], x[3])] :
                             x \in toks \X heads \X (0 .. cache.dv - 1)}),
            !.written = [slot \in DOMAIN @ |->
                            @[slot] \/ \E tok \in toks : SlotAt(m, gi, tok) = slot]]

\* state_write_kv: the handle's kind must be the cache's.
StateWriteKv(call, m, gi, cache) ==
    IF /\ call.kind = cache.kind
       /\ WriteCommonOK(call, m, gi)
       /\ IF cache.kind = "paged" THEN PagedWriteOK(call, cache) ELSE LatentWriteOK(call, cache)
       /\ SlotsOK(m, gi, NumSlots(cache))
    THEN CommitWrite(call, m, gi, cache) ELSE Refused

-------------------------------------------------------------------------------
(* attention                                                               *)

\* plan_queries: the tokens of the batch in ascending sequence order.
PlanQueries(m) ==
    FlattenSeq([k \in 1 .. m.s |->
        [i \in 1 .. m.query_lens[k] |->
            [seq |-> k, abs_pos |-> m.ctx_lens[k] + i - 1, ctx |-> m.ctx_lens[k],
             qlen |-> m.query_lens[k]]]])

\* Mutant: the pinned prefix is forgotten.
IsRetainedNoSinks(sinks, window_start, pos) == pos >= window_start

\* is_retained
IsRetained(sinks, window_start, pos) == pos < sinks \/ pos >= window_start

\* Ancestor or self, by following parents.
Lineage(tree, tok) ==
    LET up[n \in 0 .. Len(tree.parents)] ==
            IF n = 0 THEN {tok}
            ELSE up[n - 1] \cup {tree.parents[k + 1] : k \in up[n - 1] \ {Root}}
    IN  up[Len(tree.parents)] \ {Root}

\* Bit col of row tok of the ancestors matrix the drafter supplies.
AncestorBit(m, tree, tok, col) ==
    SegmentStart(m.query_lens, SeqOfToken(m, tok)) + col \in Lineage(tree, tok)

\* tree_query_visible: "error" past t_max.
TreeQueryVisible(m, tree, tok, col) ==
    IF col >= tree.t_max THEN "error"
    ELSE IF AncestorBit(m, tree, tok, col) THEN "yes" ELSE "no"

\* slot_for_position: a slot, SlotNone for a hole, or an error.
BadSlot == -2
SlotForPosition(m, gi, si, pos, slots) ==
    IF pos \div BlockTokens >= m.max_blocks THEN BadSlot
    ELSE LET block == BlockAt(m, gi, si, pos \div BlockTokens) IN
         IF block = NoBlock THEN SlotNone
         ELSE IF block * BlockTokens + (pos % BlockTokens) >= slots THEN BadSlot
         ELSE block * BlockTokens + (pos % BlockTokens)

\* The mask of plan_visible: the context, and causal order or the ancestors bit.
InSight(call, m, tree, tok, query, p) ==
    IF p < query.ctx \/ (~call.tree /\ p <= query.abs_pos) THEN "yes"
    ELSE IF ~call.tree \/ tree = NoTree THEN "no"
    ELSE TreeQueryVisible(m, tree, tok, p - query.ctx)

\* Positions in the order the kernels visit them.
Ascending(positions) ==
    SelectSeq([i \in 1 .. MaxCtx |-> i - 1], LAMBDA p : p \in positions)

\* plan_visible for one query: the slots it reads in position order, or Refused.
PlanVisible(call, m, gi, tree, cache, tok, query) ==
    LET last_pos == IF call.tree THEN query.ctx + query.qlen - 1 ELSE query.abs_pos
        seen == {p \in 0 .. last_pos :
                    /\ IsRetained(call.sinks, WindowAt(m, gi, query.seq), p)
                    /\ InSight(call, m, tree, tok, query, p) # "no"}
        slot == [p \in seen |-> SlotForPosition(m, gi, query.seq, p, NumSlots(cache))]
        kept == {p \in seen : slot[p] # SlotNone}
        order == Ascending(kept)
    IN  IF \/ \E p \in seen : InSight(call, m, tree, tok, query, p) = "error"
           \/ \E p \in kept : slot[p] = BadSlot \/ ~IsWritten(cache, slot[p])
           \/ kept = {}
        THEN Refused
        ELSE [refused |-> FALSE,
              slots |-> [i \in DOMAIN order |-> slot[order[i]]]]

\* validate_attention_common
AttentionCommonOK(call, m, gi, tree) ==
    /\ \A view \in {call.q, call.o} :
        view.rank = 3 /\ RowMajor(view) /\ view.backed /\ view.extra = 0
    /\ FloatView(call.q)
    /\ call.out_dtype \in {"f16", "bf16", "f32"} /\ call.o.dtype = call.out_dtype
    /\ call.scale_ok /\ call.window # 0 /\ call.softcap_ok
    /\ call.tree => tree # NoTree
    /\ GroupInRange(m, gi)
    /\ call.q.heads = call.o.heads /\ call.q.heads # 0

\* The checks of attention_paged.
PagedAttentionOK(call, cache) ==
    /\ ~call.mla.some
    /\ cache.heads # 0 /\ call.q.heads % cache.heads = 0
    /\ call.q.cols = cache.d /\ call.o.cols = cache.dv

\* validate_mla_dims: the absorbed form only.
MlaDimsOK(call, cache) ==
    /\ call.mla.some
    /\ call.mla.nope + call.mla.rope = call.q.cols /\ call.o.cols = call.mla.v_dim
    /\ call.mla.nope = call.mla.rank /\ call.mla.v_dim = call.mla.rank
    /\ call.mla.rope = cache.dv /\ call.mla.rank = cache.d

\* The KV head a query head of paged attention reads.
KvHead(cache, call, head) == head \div (call.q.heads \div cache.heads)

\* The elements a visible slot contributes to one query head: keys then values.
KeyRead(cache, call, slot, head) ==
    LET kv == KvHead(cache, call, head) IN
    [a |-> [dim \in 0 .. cache.d - 1 |-> ReadA(cache, slot, kv, dim)],
     b |-> [dim \in 0 .. cache.dv - 1 |-> ReadB(cache, slot, kv, dim)]]

\* The same of attention_mla: one latent row is key and value of every head.
LatentRead(cache, slot) ==
    [a |-> [dim \in 0 .. cache.d - 1 |-> ReadLatent(cache, slot, dim)],
     b |-> [dim \in 0 .. cache.dv - 1 |-> ReadRope(cache, slot, dim)]]

\* attention_paged and attention_mla: what every query and head reads, in order.
AttentionReads(call, m, gi, tree, cache) ==
    LET queries == PlanQueries(m)
        plans == [tok \in 0 .. m.t - 1 |->
                    PlanVisible(call, m, gi, tree, cache, tok, queries[tok + 1])]
    IN  IF Len(queries) # m.t \/ \E tok \in 0 .. m.t - 1 : plans[tok].refused THEN Refused
        ELSE [refused |-> FALSE, reads |-> [tok \in 0 .. m.t - 1 |->
            [head \in 0 .. call.q.heads - 1 |->
                [i \in 1 .. Len(plans[tok].slots) |->
                    IF cache.kind = "paged" THEN KeyRead(cache, call, plans[tok].slots[i], head)
                    ELSE LatentRead(cache, plans[tok].slots[i])]]]]

\* attention: the handle, the MLA spec and the cache must agree.
Attention(call, m, gi, tree, cache) ==
    IF /\ call.kind = cache.kind
       /\ AttentionCommonOK(call, m, gi, tree)
       /\ IF cache.kind = "paged" THEN PagedAttentionOK(call, cache) ELSE MlaDimsOK(call, cache)
    THEN AttentionReads(call, m, gi, tree, cache) ELSE Refused

-------------------------------------------------------------------------------
(* What the cache of a group holds before a step                           *)

\* The parts a cache stores, per region.
PartA(g) == IF KvKind[g] = "paged" THEN "k" ELSE "latent"
PartB(g) == IF KvKind[g] = "paged" THEN "v" ELSE "rope"
HeadsOf(g) == IF KvKind[g] = "paged" THEN KvHeads ELSE 1

\* Committed positions with a block: the steps that committed them wrote them.
Mapped(g) ==
    {sp \in seqs \X (0 .. MaxCtx - 1) :
        sp[2] < ctx_len[sp[1]] /\ tables[sp[1]][g][BlockOf(sp[2])] # NoBlock}

CommittedCache(g) ==
    LET heads == HeadsOf(g)
        empty == IF KvKind[g] = "paged"
                 THEN NewCache("paged", NumBlocks, heads, KvDims[1], KvDims[2], "f16")
                 ELSE NewLatentCache(NumBlocks, KvDims[1], KvDims[2], "f16")
        Holds(part, cols, o) ==
            {<<sp[1], sp[2], part, (o \div cols) % heads, o % cols>> :
                sp \in {x \in Mapped(g) : FlatSlot(x[1], g, x[2]) = (o \div cols) \div heads}}
    IN  [empty EXCEPT
            !.a = [o \in DOMAIN @ |-> Holds(PartA(g), KvDims[1], o)],
            !.b = [o \in DOMAIN @ |-> Holds(PartB(g), KvDims[2], o)],
            !.written = [slot \in DOMAIN @ |->
                            \E sp \in Mapped(g) : FlatSlot(sp[1], g, sp[2]) = slot]]

-------------------------------------------------------------------------------
(* Properties                                                              *)

\* Positions a query must read: its retained context, and among the new tokens
\* those up to it or those on its branch of the tree.
MustRead(call, m, gi, tree, tok) ==
    LET k == SeqOfToken(m, tok) IN
    {p \in AttendedBy(m, gi, k) :
        /\ p < call.sinks \/ p >= WindowAt(m, gi, k)
        /\ \/ p < m.ctx_lens[k]
           \/ IF call.tree
              THEN SegmentStart(m.query_lens, k) + p - m.ctx_lens[k] \in Lineage(tree, tok)
              ELSE p <= TokenPosition(m, tok)}

Sole(labels, label) ==
    label \in labels /\ \A l \in labels : l[2] = label[2] /\ l[3] = label[3]
                                         /\ l[4] = label[4] /\ l[5] = label[5]

ReadsExact(call, m, gi, tree, cache, out) ==
    LET g == GroupOrder[gi] IN
    \A tok \in 0 .. m.t - 1 :
        LET order == Ascending(MustRead(call, m, gi, tree, tok))
            s == m.seq_ids[SeqOfToken(m, tok)]
        IN  \A head \in DOMAIN out.reads[tok] :
            LET got == out.reads[tok][head]
                kv  == (head * cache.heads) \div Cardinality(DOMAIN out.reads[tok])
            IN  /\ Len(got) = Len(order)
                /\ \A i \in DOMAIN got :
                    /\ \A d \in DOMAIN got[i].a :
                        Sole(got[i].a[d], <<s, order[i], PartA(g), kv, d>>)
                    /\ \A d \in DOMAIN got[i].b :
                        Sole(got[i].b[d], <<s, order[i], PartB(g), kv, d>>)

\* The write leaves every committed row of every sequence as it was.
HistoryKept(before, after) ==
    \A o \in DOMAIN before.a : before.a[o] # {} => before.a[o] = after.a[o]

\* On every batch a fill hands out, the cache write and the attention that
\* follows it agree with the state manager: calls that pass their checks never
\* meet an unwritten or foreign slot, every query head reads exactly the rows of
\* its own sequence that retention, causality or the draft tree leave visible,
\* in position order and none skipped as a hole, and the write touches no row
\* another step committed. Four components lay out the same slots separately.
AttentionExact ==
    last = "ok" =>
        \A gi \in {i \in 1 .. G : Paged(i)} :
            LET m == ws.tensors
                tree == TreeView(ws)
                before == CommittedCache(GroupOrder[gi])
            IN  \A w \in WriteCalls[KvKind[GroupOrder[gi]]] :
                    LET after == StateWriteKv(w, m, gi, before) IN
                    IF after.refused THEN w.faulty ELSE
                    /\ HistoryKept(before, after)
                    /\ \A c \in AttentionCalls[GroupOrder[gi]] :
                        LET out == Attention(c, m, gi, tree, after) IN
                        IF out.refused THEN c.faulty \/ (c.tree /\ tree = NoTree)
                        ELSE ReadsExact(c, m, gi, tree, after, out)

===============================================================================
