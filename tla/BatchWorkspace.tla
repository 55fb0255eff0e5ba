---------------------------- MODULE BatchWorkspace ----------------------------
(***************************************************************************)
(* The metadata of one step: plan_batch, emit_batch_into and the two fill  *)
(* paths of the sequence-state manager (crates/r9v-state/src/manager.rs),  *)
(* the reused BatchWorkspace they write, and the owned builder of          *)
(* crates/r9v-ir/src/batch.rs they must agree with.                        *)
(*                                                                         *)
(* Buffers are row-major sequences exactly as a kernel receives them; the  *)
(* tokens of a batch are flattened in batch order.  fill_tree and          *)
(* clear_tree are steps of the fills; a caller that calls them on its own  *)
(* between fills is left out.                                              *)
(***************************************************************************)
EXTENDS StateManager, TreeMask

CONSTANTS
    GroupOrder,     \* the layer groups in declaration order
    MaxBatchTokens, \* MAX_BATCH_TOKENS_HARD
    Caps,           \* capacities the workspace was sized with
    Batches,        \* <<sequence ids, query lengths>> a caller may ask for
    PositionArgs,   \* explicit positions: None, scalar or mrope, of a length
    TreeArgs        \* trees a caller may pass

ASSUME WorkspaceAssumption ==
    /\ GroupOrder \in Seq(PagedGroups \cup FixedGroups)
    /\ ToSet(GroupOrder) = PagedGroups \cup FixedGroups
    /\ MaxBatchTokens \in Nat
    /\ \A f \in DOMAIN Caps : Caps[f] \in Nat

\* Ids and lengths are unsigned; parents may be any i32.
ASSUME ArgumentsAssumption ==
    /\ \A batch \in Batches : batch.ids \in Seq(Nat) /\ batch.q \in Seq(Nat)
    /\ \A pos \in PositionArgs : pos.len \in Nat
    /\ \A tree \in TreeArgs : tree.parents \in Seq(Int)

NoTree == [parents |-> <<>>, t_max |-> 0, anc_len |-> 0]
NoPositions == [kind |-> "none", len |-> 0]
SlotNone == -1

VARIABLES
    ws,      \* the workspace: tensors of the last fill and its tree
    last     \* what the fill just made returned: "ok", "refused", or "none" before a
             \* fill and once the manager has moved on

batchVars == <<vars, ws, last>>

EmptyTensors ==
    [g |-> 0, s |-> 0, t |-> 0, max_blocks |-> 0, width |-> 0,
     seq_ids |-> <<>>, query_lens |-> <<>>, ctx_lens |-> <<>>, positions |-> <<>>,
     slot_map |-> <<>>, block_table |-> <<>>, window_start |-> <<>>]

\* tree is the owned mask, staged the copy of borrowed slices.
WorkspaceInit ==
    /\ ws = [tensors |-> EmptyTensors, tree |-> NoTree, staged |-> NoTree]
    /\ last = "none"

TreeView(w) == IF w.staged # NoTree THEN w.staged ELSE w.tree

G == Len(GroupOrder)

-------------------------------------------------------------------------------
(* plan_batch                                                              *)

\* The sum of the first n lengths.
SumTo(lens, n) ==
    LET sum[k \in 0 .. Len(lens)] == IF k = 0 THEN 0 ELSE sum[k - 1] + lens[k]
    IN  sum[n]

\* Tokens of the batch; an unknown sequence counts none.
Total(batch) ==
    SumTo([k \in DOMAIN batch.ids |-> IF batch.ids[k] \in seqs THEN batch.q[k] ELSE 0],
          Len(batch.ids))

EntryOK(s, q) ==
    /\ s \in seqs
    /\ q \in 1 .. tail_len[s]
    /\ ctx_len[s] + q <= MaxCtx

\* Mutant: the same sequence may appear twice.
PlanOKDuplicates(batch, posLen, treeLen) ==
    /\ Len(batch.ids) = Len(batch.q) /\ batch.ids # <<>>
    /\ \A k \in DOMAIN batch.ids : EntryOK(batch.ids[k], batch.q[k])
    /\ Total(batch) <= MaxBatchTokens
    /\ posLen \in {NoSlot, Total(batch)} /\ treeLen \in {NoSlot, Total(batch)}

\* The batch passes plan_batch; NoSlot stands for a None length.
PlanOK(batch, posLen, treeLen) ==
    /\ Len(batch.ids) = Len(batch.q) /\ batch.ids # <<>>
    /\ \A j, k \in DOMAIN batch.ids : batch.ids[j] = batch.ids[k] => j = k
    /\ \A k \in DOMAIN batch.ids : EntryOK(batch.ids[k], batch.q[k])
    /\ Total(batch) <= MaxBatchTokens
    /\ posLen \in {NoSlot, Total(batch)} /\ treeLen \in {NoSlot, Total(batch)}

PosLen(pos) == IF pos = NoPositions THEN NoSlot ELSE pos.len

-------------------------------------------------------------------------------
(* emit_batch_into                                                         *)

\* The flat slot id of a position (flatten_slot).
FlatSlot(s, g, p) ==
    LET at == FlattenSlot(s, g, p) IN at.block * BlockTokens + at.lane

SlotRow(batch, g) ==
    IF g \in FixedGroups THEN [k \in 1 .. Total(batch) |-> SlotNone]
    ELSE FlattenSeq([k \in DOMAIN batch.ids |->
            [i \in 1 .. batch.q[k] |->
                FlatSlot(batch.ids[k], g, ctx_len[batch.ids[k]] + i - 1)]])

\* Mutant: rows of one sequence are kept together.
BlockOffsetBySeq(gi, si, cell, nseqs) == ((si - 1) * G + gi - 1) * MaxBlocks + cell + 1

\* Where the id of logical block cell goes in the flat [G, S, max_blocks].
BlockOffset(gi, si, cell, nseqs) == ((gi - 1) * nseqs + si - 1) * MaxBlocks + cell + 1

\* The table resized to sentinels, then every mapped block written to its cell.
BlockTable(batch) ==
    LET S == Len(batch.ids)
        cells == {gi \in 1 .. G : GroupOrder[gi] \in PagedGroups} \X (1 .. S) \X Indices
        Offset(c) == BlockOffset(c[1], c[2], c[3], S)
        Block(c) == tables[batch.ids[c[2]]][GroupOrder[c[1]]][c[3]]
    IN  [o \in 1 .. G * S * MaxBlocks |->
            IF \E c \in cells : Offset(c) = o
            THEN Block(CHOOSE c \in cells : Offset(c) = o) ELSE NoBlock]

GroupWindow(s, g) == IF g \in FixedGroups THEN 0 ELSE WindowStart(s, g)

DefaultPositions(batch) ==
    FlattenSeq([k \in DOMAIN batch.ids |->
        [i \in 1 .. batch.q[k] |-> ctx_len[batch.ids[k]] + i - 1]])

\* All tensors of a planned batch, with default or the caller's positions (told
\* apart by lying beyond the context; a triplet is one element).
Emit(batch, pos) ==
    [g |-> G, s |-> Len(batch.ids), t |-> Total(batch), max_blocks |-> MaxBlocks,
     width |-> IF pos.kind = "mrope" THEN 3 ELSE 1,
     seq_ids |-> batch.ids, query_lens |-> batch.q,
     ctx_lens |-> [k \in DOMAIN batch.ids |-> ctx_len[batch.ids[k]]],
     positions |-> IF pos = NoPositions THEN DefaultPositions(batch)
                   ELSE [k \in 1 .. pos.len |-> MaxCtx + k],
     slot_map |-> FlattenSeq([gi \in 1 .. G |-> SlotRow(batch, GroupOrder[gi])]),
     block_table |-> BlockTable(batch),
     window_start |-> FlattenSeq([gi \in 1 .. G |->
         [si \in DOMAIN batch.ids |-> GroupWindow(batch.ids[si], GroupOrder[gi])]])]

-------------------------------------------------------------------------------
(* The fills                                                               *)

CapacityOK(batch, pos) ==
    /\ Caps.seqs >= Len(batch.ids)
    /\ (IF pos.kind = "mrope" THEN Caps.mrope ELSE Caps.tokens) >= Total(batch)
    /\ Caps.slots >= G * Total(batch)
    /\ Caps.blocks >= G * Len(batch.ids) * MaxBlocks
    /\ Caps.windows >= G * Len(batch.ids)

\* First flattened token of the k-th sequence.
SegmentStart(q, k) == SumTo(q, k - 1)

\* check_tree_batch_rules
TreeBatchRules(tree, q) ==
    /\ \A k \in DOMAIN q : tree.t_max >= q[k]
    /\ Len(tree.parents) = SegmentStart(q, Len(q) + 1) =>
        \A k \in DOMAIN q : \A j \in SegmentStart(q, k) .. SegmentStart(q, k + 1) - 1 :
            tree.parents[j + 1] >= 0 =>
                tree.parents[j + 1] \in SegmentStart(q, k) .. SegmentStart(q, k + 1) - 1

\* fill_batch_meta, fill_batch_meta_with_options: the tree is an owned mask.
OwnedFillOK(batch, pos, tree) ==
    /\ PlanOK(batch, PosLen(pos), IF tree = NoTree THEN NoSlot ELSE Len(tree.parents))
    /\ CapacityOK(batch, pos)
    /\ tree # NoTree => TreeBatchRules(tree, batch.q)

\* The workspace after an owned fill: one live source of the tree.
OwnedFilled(w, batch, pos, tree) ==
    [tensors |-> Emit(batch, pos), tree |-> tree, staged |-> NoTree]

FillOwned(batch, pos, tree) ==
    /\ tree # NoTree => TreeAccepted(tree)
    /\ UNCHANGED vars
    /\ IF OwnedFillOK(batch, pos, tree)
       THEN ws' = OwnedFilled(ws, batch, pos, tree) /\ last' = "ok"
       ELSE UNCHANGED ws /\ last' = "refused"

\* The part of the slices fill before fill_tree: it reads the workspace only.
SlicesPlanOK(batch, pos, tree) ==
    /\ PlanOK(batch, PosLen(pos), NoSlot)
    /\ tree # NoTree => Len(tree.parents) = Total(batch)
    /\ CapacityOK(batch, pos)
    /\ tree # NoTree => TreeBatchRules(tree, batch.q)

TreeCapacityOK(tree) ==
    /\ Caps.tree >= Len(tree.parents)
    /\ Caps.mask >= Len(tree.parents) * tree.t_max

\* fill_tree after a failed validation: nothing stays staged.
TreeRefused(w) == [w EXCEPT !.staged = NoTree]

\* fill_batch_meta_with_tree_input and its variant with explicit positions.
FillSlices(batch, pos, tree) ==
    /\ UNCHANGED vars
    /\ \/ /\ \/ ~SlicesPlanOK(batch, pos, tree)
             \/ tree # NoTree /\ ~TreeCapacityOK(tree)
          /\ UNCHANGED ws /\ last' = "refused"
       \/ /\ SlicesPlanOK(batch, pos, tree)
          /\ tree # NoTree /\ TreeCapacityOK(tree) /\ ~TreeAccepted(tree)
          /\ ws' = TreeRefused(ws) /\ last' = "refused"
       \/ /\ SlicesPlanOK(batch, pos, tree)
          /\ tree # NoTree => TreeCapacityOK(tree) /\ TreeAccepted(tree)
          /\ ws' = [tensors |-> Emit(batch, pos), tree |-> NoTree, staged |-> tree]
          /\ last' = "ok"

-------------------------------------------------------------------------------
(* batch_meta_with_options: the owned builder's own checks over what         *)
(* emit_batch_into produced.                                               *)

\* The builder's copy of the tree rules.
BuilderTreeOK(m, tree) ==
    /\ Len(tree.parents) = m.t
    /\ \A k \in 1 .. m.s : tree.t_max >= m.query_lens[k]
    /\ \A k \in 1 .. m.s :
        LET own == SegmentStart(m.query_lens, k) .. SegmentStart(m.query_lens, k + 1) - 1
        IN  \A tok \in own : tree.parents[tok + 1] >= 0 => tree.parents[tok + 1] \in own

BuilderOK(m, tree) ==
    /\ m.g # 0 /\ m.s # 0 /\ m.t # 0 /\ m.max_blocks # 0
    /\ Len(m.seq_ids) = m.s /\ Len(m.query_lens) = m.s /\ Len(m.ctx_lens) = m.s
    /\ Len(m.slot_map) = m.g * m.t
    /\ Len(m.block_table) = m.g * m.s * m.max_blocks
    /\ Len(m.window_start) = m.g * m.s
    /\ Len(m.positions) = m.t
    /\ \A k \in DOMAIN m.query_lens : m.query_lens[k] # 0
    /\ SegmentStart(m.query_lens, m.s + 1) = m.t
    /\ tree # NoTree => BuilderTreeOK(m, tree)

ColdOK(batch, pos, tree) ==
    /\ tree # NoTree => TreeAccepted(tree)
    /\ PlanOK(batch, PosLen(pos), IF tree = NoTree THEN NoSlot ELSE Len(tree.parents))
    /\ BuilderOK(Emit(batch, pos), tree)

-------------------------------------------------------------------------------
\* What a kernel reads through the accessors slot, block and window.
SlotAt(m, gi, tok)     == m.slot_map[(gi - 1) * m.t + tok + 1]
BlockAt(m, gi, si, b)  == m.block_table[((gi - 1) * m.s + si - 1) * m.max_blocks + b + 1]
WindowAt(m, gi, si)    == m.window_start[(gi - 1) * m.s + si]

BatchInit == Init /\ WorkspaceInit

BatchNext ==
    \/ Next /\ UNCHANGED ws /\ last' = "none"
    \/ \E batch \in Batches, pos \in PositionArgs, tree \in TreeArgs \cup {NoTree} :
        \/ FillOwned(batch, pos, tree)
        \/ FillSlices(batch, pos, tree)

BatchSpec == BatchInit /\ [][BatchNext]_batchVars

-------------------------------------------------------------------------------
(* Properties                                                              *)

Paged(gi) == GroupOrder[gi] \in PagedGroups

\* Positions group gi attends for batch entry si: sinks, window, new tokens.
AttendedBy(m, gi, si) ==
    LET g == GroupOrder[gi] IN
    {p \in 0 .. m.ctx_lens[si] + m.query_lens[si] - 1 :
        \/ ~Retain[g].windowed
        \/ BlockOf(p) < SinkBlocks(g)
        \/ p >= WindowAt(m, gi, si)}

\* The slot map and the block table are the manager's: through the row-major
\* accessors, every position a group attends has a block and it is that
\* sequence's block, the slot of every new token is the lane of its position
\* in that block, and unpaged groups have no slot. Batch order, group order and
\* sentinel holes must line up across four flat buffers.
KernelViewOf(m) ==
    \A gi \in 1 .. G : \A si \in 1 .. m.s :
        IF Paged(gi)
        THEN /\ \A p \in AttendedBy(m, gi, si) :
                  /\ BlockAt(m, gi, si, BlockOf(p)) # NoBlock
                  /\ BlockAt(m, gi, si, BlockOf(p)) =
                        tables[m.seq_ids[si]][GroupOrder[gi]][BlockOf(p)]
             /\ \A k \in 0 .. m.query_lens[si] - 1 :
                  LET p == m.ctx_lens[si] + k IN
                  SlotAt(m, gi, SegmentStart(m.query_lens, si) + k) =
                    BlockAt(m, gi, si, BlockOf(p)) * BlockTokens + LaneOf(p)
        ELSE \A tok \in 0 .. m.t - 1 : SlotAt(m, gi, tok) = SlotNone

\* Two tokens of one batch never write one KV slot of a group, whichever
\* sequences and lengths the caller asks for.
BatchSlotsDistinct ==
    \A gi \in 1 .. G : Paged(gi) => \A i, j \in 0 .. ws.tensors.t - 1 :
        SlotAt(ws.tensors, gi, i) = SlotAt(ws.tensors, gi, j) => i = j

\* The tree a kernel sees always fits the tensors beside it: it has one row per
\* token, covers the longest query and no edge leaves its sequence. The two fill
\* paths keep the tree in two places, and a fill may fail between them.
TreeFitsBatch ==
    TreeView(ws) # NoTree =>
        /\ Len(TreeView(ws).parents) = ws.tensors.t
        /\ TreeAccepted(TreeView(ws))
        /\ TreeBatchRules(TreeView(ws), ws.tensors.query_lens)

\* A fill is all or nothing: the slot map and the attended entries of the block
\* table an accepted one gives the kernels are the manager's, and a refused one leaves them the tensors they had
\* ("Every failure below leaves the batch buffers exactly as they were").
FillsExact ==
    [][/\ ws' # ws /\ last' = "ok" => KernelViewOf(ws'.tensors)
       /\ last' = "refused" => ws'.tensors = ws.tensors]_batchVars

\* The hot slices path and the cold builder accept the same batches, although
\* one checks the tree against the plan and the other against finished tensors.
\* Only a manager without any layer group is told apart: the constructor allows
\* it, the fills serve it, and the builder refuses a batch of no groups.
HotAgreesWithCold ==
    G # 0 => \A batch \in Batches, pos \in PositionArgs, tree \in TreeArgs \cup {NoTree} :
        CapacityOK(batch, pos) /\ TreeCapacityOK(tree) =>
            (ColdOK(batch, pos, tree)
             <=> SlicesPlanOK(batch, pos, tree) /\ (tree # NoTree => TreeAccepted(tree)))

\* What the workspace holds is a well-formed batch, its tree is of that batch,
\* and the allocation-free path accepts what the cold builder accepts.
BatchWellFormed == BatchSlotsDistinct /\ TreeFitsBatch /\ HotAgreesWithCold

===============================================================================
