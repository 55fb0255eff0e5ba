---------------------------- MODULE StateManager ----------------------------
(***************************************************************************)
(* The host-side sequence-state manager of crates/r9v-state: block pools,  *)
(* per-sequence block tables, fixed A/B slots, and the transaction          *)
(* reserve -> write_tokens/compact -> commit that every engine step runs.  *)
(*                                                                         *)
(* A call the code refuses returns a typed error and leaves the manager    *)
(* untouched; such a call is a stuttering step here, and the operators     *)
(* XxxResult say which error a caller sees, in the order the code checks.  *)
(***************************************************************************)
EXTENDS Integers, Sequences, FiniteSets

CONSTANTS
    PagedGroups,        \* layer groups with a paged KV pool (KvPaged, KvLatent)
    FixedGroups,        \* layer groups with fixed slots (Recurrent, ConvWindow)
    Retain,             \* retention rule of each paged group
    BlockTokens,        \* BLOCK_TOKENS, token positions per block
    MaxBlocks,          \* max_ctx / BLOCK_TOKENS
    NumBlocks,          \* blocks_per_group, the size of every paged pool
    MaxSeqs,            \* max_seqs
    MaxSeqId,           \* u32::MAX, the last sequence id ever handed out
    MaxReserve,         \* MAX_RESERVE_HARD
    MaxCompactTokens,   \* MAX_COMPACT_TOKENS
    Tokens              \* token ids write_tokens may be given

\* What new_from_validated_groups and check_retain accept. A Retain::All group
\* has windowed = FALSE; Window{w} has n = 0; SinkWindow{n, w} has n > 0.
ASSUME GroupsAssumption ==
    /\ PagedGroups \cap FixedGroups = {}
    /\ Retain \in [PagedGroups -> [windowed : BOOLEAN, n : Nat, w : Nat \ {0}]]

ASSUME SizesAssumption ==
    /\ BlockTokens \in Nat \ {0}
    /\ MaxBlocks \in Nat \ {0}
    /\ NumBlocks \in Nat
    /\ NumBlocks >= MaxBlocks
    /\ MaxSeqs \in Nat \ {0}
    /\ MaxSeqId \in Nat
    /\ MaxReserve \in Nat
    /\ MaxCompactTokens \in Nat
    /\ Tokens \subseteq Nat

NoBlock   == -1     \* BLOCK_TABLE_SENTINEL: no block at this logical index
NoSlot    == -1     \* fixed_slots entry None
NoToken   == -1     \* no mirror entry
NoCompact == -1     \* compacted = None

MaxCtx    == MaxBlocks * BlockTokens
SeqIds    == 0 .. MaxSeqId
Indices   == 0 .. MaxBlocks - 1
Blocks    == 0 .. NumBlocks - 1
Slots     == 0 .. MaxSeqs - 1
Positions == 0 .. MaxCtx - 1

VARIABLES
    seqs,         \* keys of StateManager.seqs: the live sequences
    next_seq,     \* next id new_seq hands out
    live_count,   \* number of live sequences, as the code counts them
    ctx_len,      \* ctx_len[s]: verified positions
    tail_len,     \* tail_len[s]: positions of the open reservation, 0 if none
    tables,       \* tables[s][g][i]: block id at logical index i, or NoBlock
    free,         \* free[g]: free block ids of a paged pool
    fixed_slots,  \* fixed_slots[s][g]: owned slot of a fixed group
    free_slots,   \* free_slots[g]: free slots of a fixed pool
    parity,       \* parity[s][g]: active A/B buffer of a fixed group
    compacted,    \* compacted[s]: length given to compact since reserve
    mirror        \* mirror[s][g][p]: token written at p, or NoToken

poolVars == <<free, free_slots>>
seqVars  == <<ctx_len, tail_len, tables, fixed_slots, parity, compacted, mirror>>
vars     == <<seqs, next_seq, live_count, poolVars, seqVars>>

-----------------------------------------------------------------------------
(* Positions, blocks and retention.                                        *)

CeilDiv(a, b) == (a + b - 1) \div b

WindowStartOf(ctx, w) == IF ctx >= w THEN ctx - w ELSE 0

\* What window_start and the batch metadata report for a group.
WindowStart(s, g) ==
    IF Retain[g].windowed THEN WindowStartOf(ctx_len[s], Retain[g].w) ELSE 0

\* Leading blocks that attention sinks pin.
SinkBlocks(g) == CeilDiv(Retain[g].n, BlockTokens)

\* Mutant: the block the window start falls into is evicted with the rest.
EvictRangeRoundUp(g, ctx) ==
    IF Retain[g].windowed
    THEN SinkBlocks(g) .. CeilDiv(WindowStartOf(ctx, Retain[g].w), BlockTokens) - 1
    ELSE {}

\* Logical indices commit evicts once the context length is ctx.
EvictRange(g, ctx) ==
    IF Retain[g].windowed
    THEN SinkBlocks(g) .. (WindowStartOf(ctx, Retain[g].w) \div BlockTokens) - 1
    ELSE {}

BlockOf(p) == p \div BlockTokens
LaneOf(p)  == p % BlockTokens

\* Logical indices a reservation of n positions at ctx spans.
ReserveSpan(ctx, n) == (ctx \div BlockTokens) .. CeilDiv(ctx + n, BlockTokens) - 1

\* flatten_slot: the physical block and lane of a position; block NoBlock is
\* the UnmappedPosition error.
FlattenSlot(s, g, p) == [block |-> tables[s][g][BlockOf(p)], lane |-> LaneOf(p)]

-----------------------------------------------------------------------------
(* Initial state: every pool full, no sequence (new_from_validated_groups). *)

EmptyTable  == [g \in PagedGroups |-> [i \in Indices |-> NoBlock]]
EmptyMirror == [g \in PagedGroups |-> [p \in Positions |-> NoToken]]
EmptySlots  == [g \in FixedGroups |-> NoSlot]
ParityA     == [g \in FixedGroups |-> 0]

Init ==
    /\ seqs = {}
    /\ next_seq = 0
    /\ live_count = 0
    /\ ctx_len = [s \in SeqIds |-> 0]
    /\ tail_len = [s \in SeqIds |-> 0]
    /\ tables = [s \in SeqIds |-> EmptyTable]
    /\ free = [g \in PagedGroups |-> Blocks]
    /\ fixed_slots = [s \in SeqIds |-> EmptySlots]
    /\ free_slots = [g \in FixedGroups |-> Slots]
    /\ parity = [s \in SeqIds |-> ParityA]
    /\ compacted = [s \in SeqIds |-> NoCompact]
    /\ mirror = [s \in SeqIds |-> EmptyMirror]

-----------------------------------------------------------------------------
(* new_seq                                                                 *)

NewSeqResult(promptLen) ==
    IF promptLen > MaxCtx THEN "ReserveTooLarge"
    ELSE IF next_seq > MaxSeqId THEN "SeqIdOverflow"
    ELSE IF live_count >= MaxSeqs THEN "SeqLimit"
    ELSE IF \E g \in FixedGroups : free_slots[g] = {} THEN "SeqLimit"
    ELSE "Ok"

\* Mutant: the slot is the live count, not a free slot.
SlotsByCount == {[g \in FixedGroups |-> live_count]}

\* The smallest free slot of every fixed group.
SmallestSlots ==
    {f \in [FixedGroups -> Slots] :
        \A g \in FixedGroups :
            /\ f[g] \in free_slots[g]
            /\ \A y \in free_slots[g] : f[g] <= y}

NewSeq(promptLen) ==
    /\ NewSeqResult(promptLen) = "Ok"
    /\ \E slots \in SmallestSlots :
        /\ fixed_slots' = [fixed_slots EXCEPT ![next_seq] = slots]
        /\ free_slots' = [g \in FixedGroups |-> free_slots[g] \ {slots[g]}]
    /\ seqs' = seqs \cup {next_seq}
    /\ next_seq' = next_seq + 1
    /\ live_count' = live_count + 1
    /\ ctx_len' = [ctx_len EXCEPT ![next_seq] = 0]
    /\ tail_len' = [tail_len EXCEPT ![next_seq] = 0]
    /\ tables' = [tables EXCEPT ![next_seq] = EmptyTable]
    /\ parity' = [parity EXCEPT ![next_seq] = ParityA]
    /\ compacted' = [compacted EXCEPT ![next_seq] = NoCompact]
    /\ mirror' = [mirror EXCEPT ![next_seq] = EmptyMirror]
    /\ UNCHANGED free

-----------------------------------------------------------------------------
(* reserve                                                                 *)

\* Mutant: blocks already mapped are allocated again.
MissingWholeSpan(s, g, n) == Indices \cap ReserveSpan(ctx_len[s], n)

\* Indices of the span that the group's table does not map yet.
Missing(s, g, n) ==
    {i \in Indices \cap ReserveSpan(ctx_len[s], n) : tables[s][g][i] = NoBlock}

\* Mutant: no max_ctx check.
ReserveResultUnbounded(s, n) ==
    IF s \notin seqs THEN "UnknownSeq"
    ELSE IF n = 0 \/ n > MaxReserve \/ tail_len[s] # 0 THEN "InvalidReserve"
    ELSE IF \E g \in PagedGroups :
          Cardinality(Missing(s, g, n)) > Cardinality(free[g]) THEN "PoolExhausted"
    ELSE "Ok"

ReserveResult(s, n) ==
    IF s \notin seqs THEN "UnknownSeq"
    ELSE IF n = 0 \/ n > MaxReserve \/ tail_len[s] # 0 THEN "InvalidReserve"
    ELSE IF ctx_len[s] + n > MaxCtx THEN "ReserveTooLarge"
    ELSE IF \E g \in PagedGroups :
          Cardinality(Missing(s, g, n)) > Cardinality(free[g]) THEN "PoolExhausted"
    ELSE "Ok"

\* Mutant: the id handed out stays in the free list until the call returns.
SmallestAgain(missing, avail) ==
    {f \in [missing -> avail] : \A i \in missing : \A b \in avail : f[i] <= b}

\* The assignment of the smallest free ids to the missing indices, in ascending
\* index order: BlockPool::alloc called once per index. It is unique; with
\* fewer free ids than missing indices there is none.
SmallestFirst(missing, avail) ==
    {f \in [missing -> avail] :
        /\ \A i, j \in missing : i < j => f[i] < f[j]
        /\ \A i \in missing : \A b \in avail :
              b < f[i] => \E j \in missing : f[j] = b}

\* One group's table after place_reserve_blocks.
PlacedTable(s, g, n) ==
    {[i \in Indices |-> IF i \in Missing(s, g, n) THEN f[i] ELSE tables[s][g][i]] :
        f \in SmallestFirst(Missing(s, g, n), free[g])}

\* All groups' tables after place_reserve_blocks.
Placements(s, n) ==
    {t \in [PagedGroups -> UNION {PlacedTable(s, g, n) : g \in PagedGroups}] :
        \A g \in PagedGroups : t[g] \in PlacedTable(s, g, n)}

Reserve(s, n) ==
    /\ ReserveResult(s, n) = "Ok"
    /\ \E placed \in Placements(s, n) :
        /\ tables' = [tables EXCEPT ![s] = placed]
        /\ free' = [g \in PagedGroups |->
                        free[g] \ {placed[g][i] : i \in Missing(s, g, n)}]
    /\ tail_len' = [tail_len EXCEPT ![s] = n]
    /\ compacted' = [compacted EXCEPT ![s] = NoCompact]
    /\ UNCHANGED <<seqs, next_seq, live_count, ctx_len, fixed_slots, free_slots,
                   parity, mirror>>

-----------------------------------------------------------------------------
(* write_tokens and compact: they edit the open reservation only.          *)

WriteResult(s, start, len) ==
    IF s \notin seqs THEN "UnknownSeq"
    ELSE IF start < ctx_len[s] \/ start + len > ctx_len[s] + tail_len[s] THEN "OutOfRange"
    ELSE "Ok"

WriteTokens(s, start, toks) ==
    /\ WriteResult(s, start, Len(toks)) = "Ok"
    /\ mirror' = [mirror EXCEPT ![s] =
            [g \in PagedGroups |-> [p \in Positions |->
                IF p \in start .. start + Len(toks) - 1
                THEN toks[p - start + 1]
                ELSE mirror[s][g][p]]]]
    /\ UNCHANGED <<seqs, next_seq, live_count, poolVars, ctx_len, tail_len,
                   tables, fixed_slots, parity, compacted>>

CompactResult(s, path) ==
    IF s \notin seqs THEN "UnknownSeq"
    ELSE IF \/ tail_len[s] = 0
            \/ Len(path) > MaxCompactTokens
            \/ \E i \in 1 .. Len(path) : path[i] >= tail_len[s]
            \/ \E i, j \in 1 .. Len(path) : i # j /\ path[i] = path[j]
         THEN "InvalidCompact"
    ELSE "Ok"

\* Mutant: the copy runs in place, so a source below its destination is read
\* after it was overwritten.
CompactSourceInPlace(s, path, p) ==
    LET k == p - ctx_len[s] IN
    ctx_len[s] + (IF path[k + 1] < k THEN path[path[k + 1] + 1] ELSE path[k + 1])

\* The position whose token compact moves to p.
CompactSource(s, path, p) == ctx_len[s] + path[p - ctx_len[s] + 1]

\* Every source is read before any destination is written (the stack staging
\* copy), so overlapping source and destination sets compact correctly.
Compact(s, path) ==
    /\ CompactResult(s, path) = "Ok"
    /\ mirror' = [mirror EXCEPT ![s] =
            [g \in PagedGroups |-> [p \in Positions |->
                IF p \in ctx_len[s] .. ctx_len[s] + Len(path) - 1
                THEN mirror[s][g][CompactSource(s, path, p)]
                ELSE mirror[s][g][p]]]]
    /\ compacted' = [compacted EXCEPT ![s] = Len(path)]
    /\ UNCHANGED <<seqs, next_seq, live_count, poolVars, ctx_len, tail_len,
                   tables, fixed_slots, parity>>

-----------------------------------------------------------------------------
(* commit                                                                  *)

\* The code then scans the blocks to evict and refuses an id that is out of
\* range or already free, with nothing changed.  BlockOwnership says there is
\* none, so this error is left out.
CommitResult(s, accepted) ==
    IF s \notin seqs THEN "UnknownSeq"
    ELSE IF tail_len[s] = 0 THEN "NoReservation"
    ELSE IF accepted > tail_len[s] THEN "CommitTooLarge"
    ELSE IF compacted[s] # NoCompact /\ compacted[s] # accepted THEN "InvalidCompact"
    ELSE "Ok"

\* The context length after the commit.
CommittedLen(s, accepted) == ctx_len[s] + accepted

\* Mutant: a commit of nothing flips the buffers too.
FlippedAlways(s, accepted) == [g \in FixedGroups |-> 1 - parity[s][g]]

\* The active buffers after the commit: the working buffers become active
\* unless every token was rejected.
Flipped(s, accepted) ==
    IF accepted > 0 THEN [g \in FixedGroups |-> 1 - parity[s][g]] ELSE parity[s]

\* Ids of the held blocks a commit to context length ctx releases.
Evicted(s, g, ctx) ==
    {tables[s][g][i] : i \in {j \in EvictRange(g, ctx) \cap Indices :
                                 tables[s][g][j] # NoBlock}}

Commit(s, accepted) ==
    /\ CommitResult(s, accepted) = "Ok"
    /\ LET ctx == CommittedLen(s, accepted) IN
        /\ ctx_len' = [ctx_len EXCEPT ![s] = ctx]
        /\ tables' = [tables EXCEPT ![s] =
                [g \in PagedGroups |-> [i \in Indices |->
                    IF i \in EvictRange(g, ctx) THEN NoBlock ELSE tables[s][g][i]]]]
        /\ free' = [g \in PagedGroups |-> free[g] \cup Evicted(s, g, ctx)]
        /\ mirror' = [mirror EXCEPT ![s] =
                [g \in PagedGroups |-> [p \in Positions |->
                    IF BlockOf(p) \in EvictRange(g, ctx)
                    THEN NoToken ELSE mirror[s][g][p]]]]
    /\ tail_len' = [tail_len EXCEPT ![s] = 0]
    /\ compacted' = [compacted EXCEPT ![s] = NoCompact]
    /\ parity' = [parity EXCEPT ![s] = Flipped(s, accepted)]
    /\ UNCHANGED <<seqs, next_seq, live_count, fixed_slots, free_slots>>

-----------------------------------------------------------------------------
(* free_seq                                                                *)

\* Mutant: only the blocks of verified positions are released.
HeldVerified(s, g) ==
    {tables[s][g][i] : i \in {j \in Indices :
        j * BlockTokens < ctx_len[s] /\ tables[s][g][j] # NoBlock}}

\* Block ids a sequence holds in a group.
Held(s, g) == {tables[s][g][i] : i \in {j \in Indices : tables[s][g][j] # NoBlock}}

\* The validation phase: a block or slot already in its free list, or a block
\* listed twice, refuses the call before anything is released.
FreeSeqResult(s) ==
    IF s \notin seqs THEN "UnknownSeq"
    ELSE IF \E g \in PagedGroups : Held(s, g) \cap free[g] # {} THEN "InvalidBatch"
    ELSE IF \E g \in PagedGroups : \E i, j \in Indices :
          /\ i # j
          /\ tables[s][g][i] = tables[s][g][j]
          /\ tables[s][g][i] # NoBlock THEN "InvalidBatch"
    ELSE IF \E g \in FixedGroups : fixed_slots[s][g] \in free_slots[g] THEN "InvalidBatch"
    ELSE "Ok"

FreeSeq(s) ==
    /\ FreeSeqResult(s) = "Ok"
    /\ seqs' = seqs \ {s}
    /\ live_count' = live_count - 1
    /\ free' = [g \in PagedGroups |-> free[g] \cup Held(s, g)]
    /\ free_slots' = [g \in FixedGroups |-> free_slots[g] \cup {fixed_slots[s][g]}]
    /\ ctx_len' = [ctx_len EXCEPT ![s] = 0]
    /\ tail_len' = [tail_len EXCEPT ![s] = 0]
    /\ tables' = [tables EXCEPT ![s] = EmptyTable]
    /\ fixed_slots' = [fixed_slots EXCEPT ![s] = EmptySlots]
    /\ parity' = [parity EXCEPT ![s] = ParityA]
    /\ compacted' = [compacted EXCEPT ![s] = NoCompact]
    /\ mirror' = [mirror EXCEPT ![s] = EmptyMirror]
    /\ UNCHANGED next_seq

-----------------------------------------------------------------------------
(* The manager is called from one thread (&mut self); any order of calls a  *)
(* caller can make is a behaviour.                                          *)

\* Token lists a caller can write into an open tail of length n, and paths
\* compact accepts for it.
TokenLists(n) == UNION {[1 .. k -> Tokens] : k \in 1 .. n}
Paths(n)      == UNION {[1 .. k -> 0 .. n - 1] : k \in 0 .. n}

Next ==
    \/ \E promptLen \in {0, MaxCtx, MaxCtx + 1} : NewSeq(promptLen)
    \/ \E s \in seqs :
        \/ \E n \in 1 .. MaxCtx : Reserve(s, n)
        \/ \E start \in Positions : \E toks \in TokenLists(tail_len[s]) :
              WriteTokens(s, start, toks)
        \/ \E path \in Paths(tail_len[s]) : Compact(s, path)
        \/ \E accepted \in 0 .. MaxCtx : Commit(s, accepted)
        \/ FreeSeq(s)

Spec == Init /\ [][Next]_vars

-----------------------------------------------------------------------------
(* Properties                                                              *)

TypeOK ==
    /\ seqs \subseteq SeqIds
    /\ next_seq \in 0 .. MaxSeqId + 1
    /\ live_count \in 0 .. MaxSeqs
    /\ ctx_len \in [SeqIds -> 0 .. MaxCtx]
    /\ tail_len \in [SeqIds -> 0 .. MaxCtx]
    /\ tables \in [SeqIds -> [PagedGroups -> [Indices -> Blocks \cup {NoBlock}]]]
    /\ free \in [PagedGroups -> SUBSET Blocks]
    /\ fixed_slots \in [SeqIds -> [FixedGroups -> Slots \cup {NoSlot}]]
    /\ free_slots \in [FixedGroups -> SUBSET Slots]
    /\ parity \in [SeqIds -> [FixedGroups -> {0, 1}]]
    /\ compacted \in [SeqIds -> (0 .. MaxCtx) \cup {NoCompact}]
    /\ mirror \in [SeqIds -> [PagedGroups -> [Positions -> Tokens \cup {NoToken}]]]

\* Block ownership. A block id sits in one table cell of one sequence at most,
\* a held block is not in the free list, and no block is lost: together, every
\* block of a pool is either free or mapped exactly once. A break of the first
\* lets two sequences write one KV block; of the second, hands a block in use to
\* the next reserve; of the third, shrinks the pool for good
\* (BlockPool::alloc/release, reserve, commit's eviction, free_seq).
NoAliasing ==
    \A g \in PagedGroups : \A s1, s2 \in SeqIds : \A i1, i2 \in Indices :
        /\ tables[s1][g][i1] = tables[s2][g][i2]
        /\ tables[s1][g][i1] # NoBlock
        => s1 = s2 /\ i1 = i2

HeldNotFree ==
    \A g \in PagedGroups : \A s \in SeqIds : \A i \in Indices :
        tables[s][g][i] \notin free[g]

NoLeak ==
    \A g \in PagedGroups : \A b \in Blocks :
        \/ b \in free[g]
        \/ \E s \in seqs : \E i \in Indices : tables[s][g][i] = b

BlockOwnership == NoAliasing /\ HeldNotFree /\ NoLeak

\* Slot ownership. Each fixed slot is free or owned by exactly one live
\* sequence, and a live sequence owns one in every fixed group: two sequences on
\* one slot would overwrite each other's recurrent state
\* (new_seq's slot take, free_seq's release).
SlotsDisjoint ==
    \A g \in FixedGroups : \A s1, s2 \in seqs :
        fixed_slots[s1][g] = fixed_slots[s2][g] => s1 = s2

SlotsAccounted ==
    \A g \in FixedGroups :
        /\ \A s \in seqs : fixed_slots[s][g] \in Slots \ free_slots[g]
        /\ \A k \in Slots \ free_slots[g] : \E s \in seqs : fixed_slots[s][g] = k

SlotOwnership == SlotsDisjoint /\ SlotsAccounted

\* Positions a kernel reads for a group: the pinned sink blocks, the window,
\* and the open reservation it writes (window_start, spec comment at SI-17).
Attended(s, g) ==
    {p \in 0 .. ctx_len[s] + tail_len[s] - 1 :
        \/ ~Retain[g].windowed
        \/ BlockOf(p) < SinkBlocks(g)
        \/ p >= WindowStart(s, g)}

\* Every position attention reads, and every position of the open reservation,
\* has a block: eviction never takes a block the window or the sinks still
\* need, and reserve maps the whole range (so flatten_slot cannot fail for it).
AttendedMapped ==
    \A s \in seqs : \A g \in PagedGroups : \A p \in Attended(s, g) :
        tables[s][g][BlockOf(p)] # NoBlock

\* The memory bound of a windowed group: what has left the window is released
\* at the commit that moves the window and is never mapped again.
EvictedUnmapped ==
    \A s \in seqs : \A g \in PagedGroups : \A i \in EvictRange(g, ctx_len[s]) \cap Indices :
        tables[s][g][i] = NoBlock

\* commit's comment "Mirror entries always name mapped blocks": what makes the
\* index-range test of its mirror.retain exact.
MirrorMapped ==
    \A s \in seqs : \A g \in PagedGroups : \A p \in Positions :
        mirror[s][g][p] # NoToken => tables[s][g][BlockOf(p)] # NoBlock

\* The minimum pool guarantee (new_from_validated_groups): while no other
\* sequence holds a block, a sequence can reserve up to max_ctx and is never
\* refused for lack of blocks, whatever was evicted or over-reserved before.
SoleHolderNeverExhausts ==
    \A s \in seqs :
        (\A t \in seqs \ {s} : \A g \in PagedGroups : Held(t, g) = {})
        => \A n \in 1 .. MaxCtx : ReserveResult(s, n) # "PoolExhausted"

\* The live counter is exact, and a fixed pool runs dry only at the sequence
\* limit: new_seq's second SeqLimit check never refuses before its first.
SeqLimitExact ==
    /\ live_count = Cardinality(seqs)
    /\ \A g \in FixedGroups : Cardinality(free_slots[g]) = MaxSeqs - live_count

\* Blocks and retention agree at any window offset: what attention may read is
\* mapped, what the window has passed is not (evict_window, reserve).
RetentionExact == AttendedMapped /\ EvictedUnmapped

\* Recurrent slots are owned once, and new_seq refuses exactly when none is
\* left, although the live counter and the pools are separate counts.
SlotsExact == SlotOwnership /\ SeqLimitExact

=============================================================================
