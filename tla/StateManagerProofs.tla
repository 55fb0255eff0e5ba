-------------------------- MODULE StateManagerProofs --------------------------
(***************************************************************************)
(* Proofs about StateManager, for every choice of its constants: types and *)
(* block ownership, fixed slots, retention windows and the minimum pool.   *)
(***************************************************************************)
EXTENDS StateManager, FiniteSetTheorems, TLAPS

\* The parts of the inductive invariant that are not properties of their own.
\* An id not live has empty tables; live ids are below next_seq, so that a new
\* sequence cannot meet an old one; the live counter is exact (free_seq's
\* checked_sub cannot underflow); a reservation ends inside max_ctx; and a live
\* sequence owns a slot in every fixed group.
DeadHoldNothing == \A s \in SeqIds \ seqs : tables[s] = EmptyTable
IdsAllocated    == \A s \in seqs : s < next_seq
CountExact      == IsFiniteSet(seqs) /\ live_count = Cardinality(seqs)
TailFits        == \A s \in SeqIds : ctx_len[s] + tail_len[s] <= MaxCtx

SlotsHeld       == \A s \in seqs : \A g \in FixedGroups : fixed_slots[s][g] \in Slots

Typing == TypeOK /\ IdsAllocated /\ CountExact /\ TailFits /\ SlotsHeld

\* max_ctx and every index set built from it are sets of numbers.
LEMMA SizesAreNumbers ==
    /\ MaxCtx \in Nat
    /\ NoBlock \notin Blocks
    /\ \A p \in Positions : p \in Nat /\ p < MaxCtx
  BY SizesAssumption DEF MaxCtx, NoBlock, Blocks, Positions

\* A block table after place_reserve_blocks is a table.
LEMMA PlacementTyped ==
    ASSUME TypeOK, NEW s \in SeqIds, NEW n \in Nat, NEW placed \in Placements(s, n)
    PROVE  /\ placed \in [PagedGroups -> [Indices -> Blocks \cup {NoBlock}]]
           /\ \A g \in PagedGroups :
                 \E f \in [Missing(s, g, n) -> free[g]] :
                    /\ \A i, j \in Missing(s, g, n) : f[i] = f[j] => i = j
                    /\ placed[g] = [i \in Indices |-> IF i \in Missing(s, g, n)
                                                      THEN f[i] ELSE tables[s][g][i]]
  <1>1. \A g \in PagedGroups :
            \E f \in SmallestFirst(Missing(s, g, n), free[g]) :
                placed[g] = [i \in Indices |-> IF i \in Missing(s, g, n)
                                               THEN f[i] ELSE tables[s][g][i]]
    BY DEF Placements, PlacedTable
  <1>2. \A g \in PagedGroups : Missing(s, g, n) \subseteq Indices /\ Indices \subseteq Int
    BY SizesAssumption DEF Missing, Indices
  <1>3. \A g \in PagedGroups :
            \E f \in [Missing(s, g, n) -> free[g]] :
               /\ \A i, j \in Missing(s, g, n) : f[i] = f[j] => i = j
               /\ placed[g] = [i \in Indices |-> IF i \in Missing(s, g, n)
                                                 THEN f[i] ELSE tables[s][g][i]]
    <2> TAKE g \in PagedGroups
    <2>1. PICK f \in SmallestFirst(Missing(s, g, n), free[g]) :
                placed[g] = [i \in Indices |-> IF i \in Missing(s, g, n)
                                               THEN f[i] ELSE tables[s][g][i]]
      BY <1>1
    <2>2. free[g] \subseteq Int
      BY SizesAssumption DEF TypeOK, Blocks
    <2>3. \A i, j \in Missing(s, g, n) : f[i] = f[j] => i = j
      BY <1>2, <2>2 DEF SmallestFirst
    <2> QED
      BY <2>1, <2>3 DEF SmallestFirst
  <1>4. \A g \in PagedGroups : placed[g] \in [Indices -> Blocks \cup {NoBlock}]
    <2> TAKE g \in PagedGroups
    <2>1. PICK f \in [Missing(s, g, n) -> free[g]] :
              placed[g] = [i \in Indices |-> IF i \in Missing(s, g, n)
                                             THEN f[i] ELSE tables[s][g][i]]
      BY <1>3
    <2>2. free[g] \subseteq Blocks /\ tables[s][g] \in [Indices -> Blocks \cup {NoBlock}]
      BY DEF TypeOK
    <2>3. \A i \in Indices : (IF i \in Missing(s, g, n) THEN f[i] ELSE tables[s][g][i])
                                \in Blocks \cup {NoBlock}
      BY <2>2
    <2> QED
      BY <2>1, <2>3
  <1>5. DOMAIN placed = PagedGroups /\ placed = [g \in PagedGroups |-> placed[g]]
    BY DEF Placements
  <1> QED
    BY <1>3, <1>4, <1>5

-----------------------------------------------------------------------------
(* Typing                                                                  *)

LEMMA TypingInit == Init => Typing
  <1> SUFFICES ASSUME Init PROVE Typing
    OBVIOUS
  <1>1. TypeOK
    BY SizesAssumption, SizesAreNumbers
    DEF Init, TypeOK, SeqIds, EmptyTable, EmptySlots, ParityA, EmptyMirror
  <1>2. IdsAllocated /\ TailFits /\ SlotsHeld
    BY SizesAreNumbers DEF Init, IdsAllocated, TailFits, SlotsHeld
  <1>3. CountExact
    BY FS_EmptySet DEF Init, CountExact
  <1> QED
    BY <1>1, <1>2, <1>3 DEF Typing

LEMMA TypingNewSeq ==
    ASSUME Typing, NEW len, NewSeq(len) PROVE Typing'
  <1>1. /\ next_seq \in SeqIds
        /\ live_count < MaxSeqs
        /\ next_seq \notin seqs
    BY SizesAssumption DEF Typing, TypeOK, IdsAllocated, NewSeq, NewSeqResult, SeqIds
  <1>2. PICK slots \in SmallestSlots :
            /\ fixed_slots' = [fixed_slots EXCEPT ![next_seq] = slots]
            /\ free_slots' = [g \in FixedGroups |-> free_slots[g] \ {slots[g]}]
    BY DEF NewSeq
  <1>3. TypeOK'
    <2>1. seqs' \subseteq SeqIds /\ next_seq' \in 0 .. MaxSeqId + 1 /\ live_count' \in 0 .. MaxSeqs
      BY <1>1, SizesAssumption DEF NewSeq, Typing, TypeOK, SeqIds
    <2>2. ctx_len' \in [SeqIds -> 0 .. MaxCtx] /\ tail_len' \in [SeqIds -> 0 .. MaxCtx]
      BY <1>1, SizesAreNumbers DEF NewSeq, Typing, TypeOK
    <2>3. /\ tables' \in [SeqIds -> [PagedGroups -> [Indices -> Blocks \cup {NoBlock}]]]
          /\ mirror' \in [SeqIds -> [PagedGroups -> [Positions -> Tokens \cup {NoToken}]]]
          /\ free' \in [PagedGroups -> SUBSET Blocks]
      BY <1>1 DEF NewSeq, Typing, TypeOK, EmptyTable, EmptyMirror
    <2>4. /\ fixed_slots' \in [SeqIds -> [FixedGroups -> Slots \cup {NoSlot}]]
          /\ free_slots' \in [FixedGroups -> SUBSET Slots]
      BY <1>1, <1>2 DEF Typing, TypeOK, SmallestSlots
    <2>5. /\ parity' \in [SeqIds -> [FixedGroups -> {0, 1}]]
          /\ compacted' \in [SeqIds -> (0 .. MaxCtx) \cup {NoCompact}]
      BY <1>1 DEF NewSeq, Typing, TypeOK, ParityA
    <2> QED
      BY <2>1, <2>2, <2>3, <2>4, <2>5 DEF TypeOK
  <1>4. IdsAllocated'
    BY <1>1 DEF NewSeq, Typing, TypeOK, IdsAllocated, SeqIds
  <1>5. CountExact'
    BY <1>1, FS_AddElement DEF NewSeq, Typing, TypeOK, CountExact
  <1>6. TailFits'
    BY <1>1, SizesAreNumbers DEF NewSeq, Typing, TypeOK, TailFits
  <1>7. SlotsHeld'
    BY <1>1, <1>2 DEF NewSeq, Typing, TypeOK, SlotsHeld, SmallestSlots
  <1> QED
    BY <1>3, <1>4, <1>5, <1>6, <1>7 DEF Typing

LEMMA TypingReserve ==
    ASSUME Typing, NEW s \in seqs, NEW n \in 1 .. MaxCtx, Reserve(s, n) PROVE Typing'
  <1>1. s \in SeqIds /\ n \in 0 .. MaxCtx /\ n \in Nat /\ ctx_len[s] + n <= MaxCtx
    BY SizesAreNumbers DEF Typing, TypeOK, Reserve, ReserveResult
  <1>2. PICK placed \in Placements(s, n) :
            /\ tables' = [tables EXCEPT ![s] = placed]
            /\ free' = [g \in PagedGroups |->
                            free[g] \ {placed[g][i] : i \in Missing(s, g, n)}]
    BY DEF Reserve
  <1>3. TypeOK'
    <2>1. placed \in [PagedGroups -> [Indices -> Blocks \cup {NoBlock}]]
      BY <1>1, PlacementTyped DEF Typing
    <2>2. tables' \in [SeqIds -> [PagedGroups -> [Indices -> Blocks \cup {NoBlock}]]]
      BY <1>1, <1>2, <2>1 DEF Typing, TypeOK
    <2>3. free' \in [PagedGroups -> SUBSET Blocks]
      BY <1>2 DEF Typing, TypeOK
    <2> QED
      BY <1>1, <2>2, <2>3 DEF Reserve, Typing, TypeOK
  <1>4. IdsAllocated' /\ CountExact' /\ SlotsHeld'
    BY DEF Reserve, Typing, IdsAllocated, CountExact, SlotsHeld
  <1>5. TailFits'
    BY <1>1 DEF Reserve, Typing, TypeOK, TailFits
  <1> QED
    BY <1>3, <1>4, <1>5 DEF Typing

LEMMA TypingWriteTokens ==
    ASSUME Typing, NEW s \in seqs, NEW start \in Positions,
           NEW toks \in TokenLists(tail_len[s]), WriteTokens(s, start, toks)
    PROVE  Typing'
  <1>1. PICK k \in 1 .. tail_len[s] : toks \in [1 .. k -> Tokens]
    BY DEF TokenLists
  <1>2. s \in SeqIds /\ k \in Nat /\ Len(toks) = k /\ start \in Nat
    BY <1>1, SizesAreNumbers DEF Typing, TypeOK
  <1>3. \A p \in Positions : p \in start .. start + Len(toks) - 1 =>
            toks[p - start + 1] \in Tokens
    BY <1>1, <1>2, SizesAreNumbers
  <1>4. mirror' \in [SeqIds -> [PagedGroups -> [Positions -> Tokens \cup {NoToken}]]]
    BY <1>2, <1>3 DEF WriteTokens, Typing, TypeOK
  <1>5. TypeOK'
    BY <1>4 DEF WriteTokens, Typing, TypeOK, poolVars
  <1> QED
    BY <1>5 DEF WriteTokens, Typing, IdsAllocated, CountExact, TailFits, SlotsHeld

LEMMA TypingCompact ==
    ASSUME Typing, NEW s \in seqs, NEW path \in Paths(tail_len[s]), Compact(s, path)
    PROVE  Typing'
  <1>1. PICK k \in 0 .. tail_len[s] : path \in [1 .. k -> 0 .. tail_len[s] - 1]
    BY DEF Paths
  <1>2. /\ s \in SeqIds /\ k \in Nat /\ Len(path) = k
        /\ tail_len[s] \in 0 .. MaxCtx /\ ctx_len[s] \in 0 .. MaxCtx
        /\ ctx_len[s] + tail_len[s] <= MaxCtx /\ MaxCtx \in Nat
    BY <1>1, SizesAreNumbers DEF Typing, TypeOK, TailFits
  <1>3. \A p \in Positions : p \in ctx_len[s] .. ctx_len[s] + Len(path) - 1 =>
            ctx_len[s] + path[p - ctx_len[s] + 1] \in Positions
    <2> TAKE p \in Positions
    <2> HAVE p \in ctx_len[s] .. ctx_len[s] + Len(path) - 1
    <2>1. p - ctx_len[s] + 1 \in 1 .. k
      BY <1>2
    <2>2. path[p - ctx_len[s] + 1] \in 0 .. tail_len[s] - 1
      BY <1>1, <2>1
    <2>3. \A c, n, j, m \in Int : (c >= 0 /\ c + n <= m /\ j \in 0 .. n - 1) => c + j \in 0 .. m - 1
      OBVIOUS
    <2>4. /\ path[p - ctx_len[s] + 1] \in Int /\ ctx_len[s] \in Int /\ tail_len[s] \in Int
          /\ MaxCtx \in Int /\ ctx_len[s] >= 0
      BY <1>2, <2>2
    <2> QED
      BY <1>2, <2>2, <2>3, <2>4 DEF Positions
  <1>4. mirror' \in [SeqIds -> [PagedGroups -> [Positions -> Tokens \cup {NoToken}]]]
    BY <1>2, <1>3 DEF Compact, CompactSource, Typing, TypeOK
  <1>5. compacted' \in [SeqIds -> (0 .. MaxCtx) \cup {NoCompact}]
    BY <1>2 DEF Compact, CompactSource, Typing, TypeOK
  <1>6. TypeOK'
    BY <1>4, <1>5 DEF Compact, CompactSource, Typing, TypeOK, poolVars
  <1> QED
    BY <1>6 DEF Compact, CompactSource, Typing, IdsAllocated, CountExact, TailFits, SlotsHeld

LEMMA TypingCommit ==
    ASSUME Typing, NEW s \in seqs, NEW accepted \in 0 .. MaxCtx, Commit(s, accepted)
    PROVE  Typing'
  <1>1. /\ s \in SeqIds
        /\ ctx_len[s] + accepted \in 0 .. MaxCtx
        /\ MaxCtx \in Nat
    BY SizesAreNumbers DEF Commit, CommitResult, CommittedLen, Typing, TypeOK, TailFits
  <1>2. /\ ctx_len' \in [SeqIds -> 0 .. MaxCtx]
        /\ tail_len' \in [SeqIds -> 0 .. MaxCtx]
        /\ compacted' \in [SeqIds -> (0 .. MaxCtx) \cup {NoCompact}]
    BY <1>1 DEF Commit, CommittedLen, Typing, TypeOK
  <1>3. /\ tables' \in [SeqIds -> [PagedGroups -> [Indices -> Blocks \cup {NoBlock}]]]
        /\ mirror' \in [SeqIds -> [PagedGroups -> [Positions -> Tokens \cup {NoToken}]]]
    BY <1>1 DEF Commit, CommittedLen, Typing, TypeOK
  <1>4. free' \in [PagedGroups -> SUBSET Blocks]
    BY <1>1 DEF Commit, CommittedLen, Evicted, Typing, TypeOK
  <1>5. parity' \in [SeqIds -> [FixedGroups -> {0, 1}]]
    <2>1. \A g \in FixedGroups : parity[s][g] = 0 \/ parity[s][g] = 1
      BY <1>1 DEF Typing, TypeOK
    <2>2. \A g \in FixedGroups : 1 - parity[s][g] \in {0, 1}
      BY <2>1
    <2> QED
      BY <1>1, <2>2 DEF Commit, Flipped, Typing, TypeOK
  <1>6. TypeOK'
    BY <1>2, <1>3, <1>4, <1>5 DEF Commit, CommittedLen, Typing, TypeOK
  <1>7. TailFits'
    BY <1>1 DEF Commit, CommittedLen, Typing, TypeOK, TailFits
  <1> QED
    BY <1>6, <1>7 DEF Commit, Typing, IdsAllocated, CountExact, SlotsHeld

LEMMA TypingFreeSeq ==
    ASSUME Typing, NEW s \in seqs, FreeSeq(s) PROVE Typing'
  <1>1. s \in SeqIds
    BY DEF Typing, TypeOK
  <1>2. CountExact' /\ live_count' \in 0 .. MaxSeqs
    <2>1. /\ IsFiniteSet(seqs \ {s})
          /\ Cardinality(seqs \ {s}) = Cardinality(seqs) - 1
          /\ Cardinality(seqs \ {s}) \in Nat
      BY FS_RemoveElement, FS_CardinalityType DEF Typing, CountExact
    <2> QED
      BY <2>1, SizesAssumption DEF FreeSeq, Typing, TypeOK, CountExact
  <1>3. /\ ctx_len' \in [SeqIds -> 0 .. MaxCtx]
        /\ tail_len' \in [SeqIds -> 0 .. MaxCtx]
        /\ compacted' \in [SeqIds -> (0 .. MaxCtx) \cup {NoCompact}]
        /\ parity' \in [SeqIds -> [FixedGroups -> {0, 1}]]
    BY <1>1, SizesAreNumbers DEF FreeSeq, Typing, TypeOK, ParityA
  <1>4. /\ tables' \in [SeqIds -> [PagedGroups -> [Indices -> Blocks \cup {NoBlock}]]]
        /\ mirror' \in [SeqIds -> [PagedGroups -> [Positions -> Tokens \cup {NoToken}]]]
        /\ fixed_slots' \in [SeqIds -> [FixedGroups -> Slots \cup {NoSlot}]]
    BY <1>1 DEF FreeSeq, Typing, TypeOK, EmptyTable, EmptyMirror, EmptySlots
  <1>5. free' \in [PagedGroups -> SUBSET Blocks]
    BY <1>1 DEF FreeSeq, Held, Typing, TypeOK
  <1>6. free_slots' \in [FixedGroups -> SUBSET Slots]
    BY DEF FreeSeq, Typing, TypeOK, SlotsHeld
  <1>7. TypeOK'
    BY <1>2, <1>3, <1>4, <1>5, <1>6 DEF FreeSeq, Typing, TypeOK
  <1>8. IdsAllocated' /\ TailFits' /\ SlotsHeld'
    BY <1>1, SizesAreNumbers
    DEF FreeSeq, Typing, TypeOK, IdsAllocated, TailFits, SlotsHeld
  <1> QED
    BY <1>2, <1>7, <1>8 DEF Typing

LEMMA TypingStep == Typing /\ [Next]_vars => Typing'
  <1> SUFFICES ASSUME Typing, [Next]_vars PROVE Typing'
    OBVIOUS
  <1>1. CASE \E len \in {0, MaxCtx, MaxCtx + 1} : NewSeq(len)
    BY <1>1, TypingNewSeq
  <1>2. CASE \E s \in seqs : \E n \in 1 .. MaxCtx : Reserve(s, n)
    BY <1>2, TypingReserve
  <1>3. CASE \E s \in seqs : \E start \in Positions : \E toks \in TokenLists(tail_len[s]) :
                WriteTokens(s, start, toks)
    BY <1>3, TypingWriteTokens
  <1>4. CASE \E s \in seqs : \E path \in Paths(tail_len[s]) : Compact(s, path)
    BY <1>4, TypingCompact
  <1>5. CASE \E s \in seqs : \E accepted \in 0 .. MaxCtx : Commit(s, accepted)
    BY <1>5, TypingCommit
  <1>6. CASE \E s \in seqs : FreeSeq(s)
    BY <1>6, TypingFreeSeq
  <1>7. CASE UNCHANGED vars
    BY <1>7 DEF vars, poolVars, seqVars, Typing, TypeOK, IdsAllocated, CountExact,
                TailFits, SlotsHeld
  <1> QED
    BY <1>1, <1>2, <1>3, <1>4, <1>5, <1>6, <1>7 DEF Next

\* The manager's state keeps its types under every sequence of calls: block and
\* slot ids stay inside their pools, a reservation ends inside max_ctx, and the
\* live counter never underflows in free_seq.
THEOREM TypeCorrect == Spec => []TypeOK
  <1>1. Typing => TypeOK
    BY DEF Typing
  <1> QED
    BY <1>1, TypingInit, TypingStep, PTL DEF Spec

-----------------------------------------------------------------------------
(* Block ownership                                                         *)

Owned == Typing /\ DeadHoldNothing /\ BlockOwnership

LEMMA OwnedInit == Init => Owned
  <1> SUFFICES ASSUME Init PROVE Owned
    OBVIOUS
  <1>1. DeadHoldNothing
    BY DEF Init, DeadHoldNothing
  <1>2. NoAliasing
    BY DEF Init, NoAliasing, EmptyTable
  <1>3. HeldNotFree
    BY SizesAreNumbers DEF Init, HeldNotFree, EmptyTable
  <1>4. NoLeak
    BY DEF Init, NoLeak
  <1> QED
    BY <1>1, <1>2, <1>3, <1>4, TypingInit DEF Owned, BlockOwnership

\* new_seq inserts an empty table at an id that held nothing.
LEMMA OwnedNewSeq ==
    ASSUME Owned, NEW len, NewSeq(len) PROVE DeadHoldNothing' /\ BlockOwnership'
  <1>1. next_seq \in SeqIds /\ next_seq \notin seqs
    BY SizesAssumption DEF Owned, Typing, TypeOK, IdsAllocated, NewSeq, NewSeqResult, SeqIds
  <1>2. tables' = tables /\ free' = free /\ seqs' = seqs \cup {next_seq}
    BY <1>1 DEF NewSeq, Owned, Typing, TypeOK, DeadHoldNothing
  <1> QED
    BY <1>2 DEF Owned, DeadHoldNothing, BlockOwnership, NoAliasing, HeldNotFree, NoLeak

\* reserve maps each missing index to a block of its own, taken from the free
\* list, and takes exactly those blocks off it.
LEMMA OwnedReserve ==
    ASSUME Owned, NEW s \in seqs, NEW n \in 1 .. MaxCtx, Reserve(s, n)
    PROVE  DeadHoldNothing' /\ BlockOwnership'
  <1>1. s \in SeqIds /\ n \in Nat /\ seqs' = seqs /\ TypeOK
    BY SizesAreNumbers DEF Owned, Typing, TypeOK, Reserve
  <1>2. PICK placed \in Placements(s, n) :
            /\ tables' = [tables EXCEPT ![s] = placed]
            /\ free' = [g \in PagedGroups |->
                            free[g] \ {placed[g][i] : i \in Missing(s, g, n)}]
    BY DEF Reserve
  <1>3. /\ \A t \in SeqIds : t # s => tables'[t] = tables[t]
        /\ tables'[s] = placed
    BY <1>1, <1>2 DEF TypeOK
  <1>4. \A g \in PagedGroups :
            \E f \in [Missing(s, g, n) -> free[g]] :
               /\ \A i, j \in Missing(s, g, n) : f[i] = f[j] => i = j
               /\ placed[g] = [i \in Indices |-> IF i \in Missing(s, g, n)
                                                 THEN f[i] ELSE tables[s][g][i]]
    <2>1. TypeOK /\ s \in SeqIds /\ n \in Nat /\ placed \in Placements(s, n)
      BY <1>1
    <2> QED
      BY <2>1, PlacementTyped, Zenon
  <1>5. ASSUME NEW g \in PagedGroups
        PROVE  \E f \in [Missing(s, g, n) -> free[g]] :
                  /\ \A i, j \in Missing(s, g, n) : f[i] = f[j] => i = j
                  /\ \A i \in Indices : tables'[s][g][i] =
                        IF i \in Missing(s, g, n) THEN f[i] ELSE tables[s][g][i]
                  /\ free'[g] = free[g] \ {f[i] : i \in Missing(s, g, n)}
    <2>1. PICK f \in [Missing(s, g, n) -> free[g]] :
                  /\ \A i, j \in Missing(s, g, n) : f[i] = f[j] => i = j
                  /\ placed[g] = [i \in Indices |-> IF i \in Missing(s, g, n)
                                                    THEN f[i] ELSE tables[s][g][i]]
      BY <1>4
    <2>2. Missing(s, g, n) \subseteq Indices
      BY DEF Missing
    <2>3. \A i \in Indices : tables'[s][g][i] =
                        IF i \in Missing(s, g, n) THEN f[i] ELSE tables[s][g][i]
      BY <1>3, <2>1
    <2>4. \A i \in Missing(s, g, n) : placed[g][i] = f[i]
      BY <2>1, <2>2
    <2>5. free'[g] = free[g] \ {f[i] : i \in Missing(s, g, n)}
      BY <1>2, <2>4
    <2> QED
      BY <2>1, <2>3, <2>5
  <1>6. DeadHoldNothing'
    BY <1>1, <1>3 DEF Owned, DeadHoldNothing
  <1>7. NoAliasing'
    <2> SUFFICES ASSUME NEW g \in PagedGroups, NEW s1 \in SeqIds, NEW s2 \in SeqIds,
                        NEW i1 \in Indices, NEW i2 \in Indices,
                        tables'[s1][g][i1] = tables'[s2][g][i2],
                        tables'[s1][g][i1] # NoBlock
                 PROVE  s1 = s2 /\ i1 = i2
      BY DEF NoAliasing
    <2>1. PICK f \in [Missing(s, g, n) -> free[g]] :
                  /\ \A i, j \in Missing(s, g, n) : f[i] = f[j] => i = j
                  /\ \A i \in Indices : tables'[s][g][i] =
                        IF i \in Missing(s, g, n) THEN f[i] ELSE tables[s][g][i]
      BY <1>5
    <2>2. \A t \in SeqIds : \A i \in Indices :
              /\ tables[t][g][i] \notin free[g]
              /\ \/ tables'[t][g][i] = tables[t][g][i]
                 \/ /\ t = s /\ i \in Missing(s, g, n)
                    /\ tables'[t][g][i] = f[i]
                    /\ f[i] \in free[g]
      BY <1>1, <1>3, <2>1 DEF Owned, BlockOwnership, HeldNotFree
    <2>3. \/ tables'[s1][g][i1] = tables[s1][g][i1] /\ tables'[s2][g][i2] = tables[s2][g][i2]
          \/ s1 = s /\ s2 = s /\ i1 \in Missing(s, g, n) /\ i2 \in Missing(s, g, n)
             /\ f[i1] = f[i2]
      BY <2>2
    <2> QED
      BY <2>1, <2>3 DEF Owned, BlockOwnership, NoAliasing
  <1>8. HeldNotFree'
    <2> SUFFICES ASSUME NEW g \in PagedGroups, NEW t \in SeqIds, NEW i \in Indices
                 PROVE  tables'[t][g][i] \notin free'[g]
      BY DEF HeldNotFree
    <2>1. PICK f \in [Missing(s, g, n) -> free[g]] :
                  /\ \A j \in Indices : tables'[s][g][j] =
                        IF j \in Missing(s, g, n) THEN f[j] ELSE tables[s][g][j]
                  /\ free'[g] = free[g] \ {f[j] : j \in Missing(s, g, n)}
      BY <1>5
    <2>2. tables[t][g][i] \notin free[g]
      BY DEF Owned, BlockOwnership, HeldNotFree
    <2>3. \/ tables'[t][g][i] = tables[t][g][i]
          \/ i \in Missing(s, g, n) /\ tables'[t][g][i] = f[i]
      BY <1>3, <2>1
    <2> QED
      BY <2>1, <2>2, <2>3
  <1>9. NoLeak'
    <2> SUFFICES ASSUME NEW g \in PagedGroups, NEW b \in Blocks, b \notin free'[g]
                 PROVE  \E t \in seqs' : \E i \in Indices : tables'[t][g][i] = b
      BY DEF NoLeak
    <2>1. PICK f \in [Missing(s, g, n) -> free[g]] :
                  /\ \A j \in Indices : tables'[s][g][j] =
                        IF j \in Missing(s, g, n) THEN f[j] ELSE tables[s][g][j]
                  /\ free'[g] = free[g] \ {f[j] : j \in Missing(s, g, n)}
      BY <1>5
    <2>2. CASE b \in free[g]
      <3>1. PICK j \in Missing(s, g, n) : f[j] = b
        BY <2>1, <2>2
      <3>2. j \in Indices
        BY DEF Missing
      <3> QED
        BY <1>1, <2>1, <3>1, <3>2
    <2>3. CASE b \notin free[g]
      <3>1. PICK t \in seqs, i \in Indices : tables[t][g][i] = b
        BY <2>3 DEF Owned, BlockOwnership, NoLeak
      <3>2. b # NoBlock
        BY SizesAreNumbers
      <3>3. tables'[t][g][i] = b
        BY <1>1, <1>3, <2>1, <3>1, <3>2 DEF Missing, TypeOK
      <3> QED
        BY <1>1, <3>3
    <2> QED
      BY <2>2, <2>3
  <1> QED
    BY <1>6, <1>7, <1>8, <1>9 DEF BlockOwnership

\* commit empties the evicted cells and frees exactly the blocks they held.
LEMMA OwnedCommit ==
    ASSUME Owned, NEW s \in seqs, NEW accepted \in 0 .. MaxCtx, Commit(s, accepted)
    PROVE  DeadHoldNothing' /\ BlockOwnership'
  <1> DEFINE gone(g) == EvictRange(g, ctx_len[s] + accepted)
  <1>1. s \in SeqIds /\ seqs' = seqs /\ TypeOK
    BY DEF Owned, Typing, TypeOK, Commit
  <1>2. /\ \A t \in SeqIds : t # s => tables'[t] = tables[t]
        /\ \A g \in PagedGroups : \A i \in Indices :
              tables'[s][g][i] = IF i \in gone(g) THEN NoBlock ELSE tables[s][g][i]
    BY <1>1 DEF Commit, CommittedLen, TypeOK
  <1>3. \A g \in PagedGroups : free'[g] = free[g] \cup
            {tables[s][g][i] : i \in {j \in gone(g) \cap Indices : tables[s][g][j] # NoBlock}}
    BY DEF Commit, CommittedLen, Evicted
  <1> HIDE DEF gone
  <1>4. DeadHoldNothing'
    BY <1>1, <1>2 DEF Owned, DeadHoldNothing
  <1>5. NoAliasing'
    BY <1>1, <1>2 DEF Owned, BlockOwnership, NoAliasing
  <1>6. HeldNotFree'
    <2> SUFFICES ASSUME NEW g \in PagedGroups, NEW t \in SeqIds, NEW i \in Indices,
                        tables'[t][g][i] \in free'[g]
                 PROVE  FALSE
      BY DEF HeldNotFree
    <2>1. tables'[t][g][i] = NoBlock \/ tables'[t][g][i] = tables[t][g][i]
      BY <1>1, <1>2
    <2>2. NoBlock \notin free'[g]
      BY <1>1, <1>3, SizesAreNumbers DEF TypeOK
    <2>3. tables'[t][g][i] = tables[t][g][i] /\ tables[t][g][i] \notin free[g]
      BY <2>1, <2>2 DEF Owned, BlockOwnership, HeldNotFree
    <2>4. PICK j \in gone(g) \cap Indices :
              tables[s][g][j] # NoBlock /\ tables[t][g][i] = tables[s][g][j]
      BY <1>3, <2>3
    <2>5. t = s /\ i = j
      BY <1>1, <2>4 DEF Owned, BlockOwnership, NoAliasing
    <2> QED
      BY <1>2, <2>2, <2>4, <2>5
  <1>7. NoLeak'
    <2> SUFFICES ASSUME NEW g \in PagedGroups, NEW b \in Blocks, b \notin free'[g]
                 PROVE  \E t \in seqs' : \E i \in Indices : tables'[t][g][i] = b
      BY DEF NoLeak
    <2>1. b \notin free[g]
      BY <1>3
    <2>2. PICK t \in seqs, i \in Indices : tables[t][g][i] = b
      BY <2>1 DEF Owned, BlockOwnership, NoLeak
    <2>3. b # NoBlock
      BY SizesAreNumbers
    <2>4. tables'[t][g][i] = b
      <3>1. CASE t = s
        <4>1. i \notin gone(g)
          BY <1>3, <2>2, <2>3, <3>1
        <4> QED
          BY <1>2, <2>2, <3>1, <4>1
      <3>2. CASE t # s
        BY <1>1, <1>2, <2>2, <3>2 DEF TypeOK
      <3> QED
        BY <3>1, <3>2
    <2> QED
      BY <1>1, <2>4
  <1> QED
    BY <1>4, <1>5, <1>6, <1>7 DEF BlockOwnership

\* free_seq empties the sequence's table and frees exactly the blocks it held.
LEMMA OwnedFreeSeq ==
    ASSUME Owned, NEW s \in seqs, FreeSeq(s)
    PROVE  DeadHoldNothing' /\ BlockOwnership'
  <1>1. s \in SeqIds /\ seqs' = seqs \ {s} /\ TypeOK
    BY DEF Owned, Typing, TypeOK, FreeSeq
  <1>2. /\ \A t \in SeqIds : t # s => tables'[t] = tables[t]
        /\ tables'[s] = EmptyTable
        /\ \A g \in PagedGroups : \A i \in Indices : tables'[s][g][i] = NoBlock
    BY <1>1 DEF FreeSeq, TypeOK, EmptyTable
  <1>3. \A g \in PagedGroups : free'[g] = free[g] \cup
            {tables[s][g][i] : i \in {j \in Indices : tables[s][g][j] # NoBlock}}
    BY DEF FreeSeq, Held
  <1>4. DeadHoldNothing'
    BY <1>1, <1>2 DEF Owned, DeadHoldNothing
  <1>5. NoAliasing'
    BY <1>1, <1>2 DEF Owned, BlockOwnership, NoAliasing
  <1>6. HeldNotFree'
    <2> SUFFICES ASSUME NEW g \in PagedGroups, NEW t \in SeqIds, NEW i \in Indices,
                        tables'[t][g][i] \in free'[g]
                 PROVE  FALSE
      BY DEF HeldNotFree
    <2>1. NoBlock \notin free'[g]
      BY <1>1, <1>3, SizesAreNumbers DEF TypeOK
    <2>2. t # s /\ tables'[t][g][i] = tables[t][g][i] /\ tables[t][g][i] \notin free[g]
      BY <1>2, <2>1 DEF Owned, BlockOwnership, HeldNotFree
    <2>3. PICK j \in Indices : tables[s][g][j] # NoBlock /\ tables[t][g][i] = tables[s][g][j]
      BY <1>3, <2>2
    <2> QED
      BY <1>1, <2>2, <2>3 DEF Owned, BlockOwnership, NoAliasing
  <1>7. NoLeak'
    <2> SUFFICES ASSUME NEW g \in PagedGroups, NEW b \in Blocks, b \notin free'[g]
                 PROVE  \E t \in seqs' : \E i \in Indices : tables'[t][g][i] = b
      BY DEF NoLeak
    <2>1. b \notin free[g] /\ b # NoBlock
      BY <1>3, SizesAreNumbers
    <2>2. PICK t \in seqs, i \in Indices : tables[t][g][i] = b
      BY <2>1 DEF Owned, BlockOwnership, NoLeak
    <2>3. t # s
      BY <1>3, <2>1, <2>2
    <2> QED
      BY <1>1, <1>2, <2>2, <2>3 DEF TypeOK
  <1> QED
    BY <1>4, <1>5, <1>6, <1>7 DEF BlockOwnership

LEMMA OwnedStep == Owned /\ [Next]_vars => Owned'
  <1> SUFFICES ASSUME Owned, [Next]_vars PROVE Owned'
    OBVIOUS
  <1>1. Typing'
    BY TypingStep DEF Owned
  <1>2. CASE \E len \in {0, MaxCtx, MaxCtx + 1} : NewSeq(len)
    BY <1>1, <1>2, OwnedNewSeq DEF Owned
  <1>3. CASE \E s \in seqs : \E n \in 1 .. MaxCtx : Reserve(s, n)
    BY <1>1, <1>3, OwnedReserve DEF Owned
  <1>4. CASE \E s \in seqs :
                \/ \E start \in Positions : \E toks \in TokenLists(tail_len[s]) :
                      WriteTokens(s, start, toks)
                \/ \E path \in Paths(tail_len[s]) : Compact(s, path)
    <2>1. UNCHANGED <<tables, free, seqs>>
      BY <1>4 DEF WriteTokens, Compact, poolVars
    <2> QED
      BY <1>1, <2>1
      DEF Owned, DeadHoldNothing, BlockOwnership, NoAliasing, HeldNotFree, NoLeak
  <1>5. CASE \E s \in seqs : \E accepted \in 0 .. MaxCtx : Commit(s, accepted)
    BY <1>1, <1>5, OwnedCommit DEF Owned
  <1>6. CASE \E s \in seqs : FreeSeq(s)
    BY <1>1, <1>6, OwnedFreeSeq DEF Owned
  <1>7. CASE UNCHANGED vars
    BY <1>1, <1>7 DEF vars, poolVars, seqVars, Owned, DeadHoldNothing, BlockOwnership,
                      NoAliasing, HeldNotFree, NoLeak
  <1> QED
    BY <1>2, <1>3, <1>4, <1>5, <1>6, <1>7 DEF Next

\* For every pool size, group set, retention rule and number of sequences: no
\* two positions ever share a block, a block in use is never handed out again,
\* and no block is lost (BlockPool, reserve, commit, free_seq).
THEOREM BlockOwnershipHolds == Spec => []BlockOwnership
  <1>1. Owned => BlockOwnership
    BY DEF Owned
  <1> QED
    BY <1>1, OwnedInit, OwnedStep, PTL DEF Spec


-----------------------------------------------------------------------------
(* Fixed slots                                                             *)

SlotCount == \A g \in FixedGroups : Cardinality(free_slots[g]) = MaxSeqs - live_count

SlotsOwned == Typing /\ SlotOwnership /\ SlotCount

LEMMA SlotsFinite ==
    ASSUME TypeOK, NEW g \in FixedGroups
    PROVE  IsFiniteSet(free_slots[g])
  <1>1. IsFiniteSet(Slots)
    BY SizesAssumption, FS_Interval DEF Slots
  <1>2. free_slots[g] \in SUBSET Slots
    BY DEF TypeOK
  <1> QED
    BY <1>1, <1>2, FS_Subset

LEMMA SlotsOwnedInit == Init => SlotsOwned
  <1> SUFFICES ASSUME Init PROVE SlotsOwned
    OBVIOUS
  <1>1. SlotOwnership
    BY DEF Init, SlotOwnership, SlotsDisjoint, SlotsAccounted
  <1>2. SlotCount
    <2>1. Cardinality(Slots) = MaxSeqs
      BY SizesAssumption, FS_Interval DEF Slots
    <2> QED
      BY <2>1, SizesAssumption DEF Init, SlotCount
  <1> QED
    BY <1>1, <1>2, TypingInit DEF SlotsOwned

\* new_seq takes one free slot per group for an id that is not live.
LEMMA SlotsOwnedNewSeq ==
    ASSUME SlotsOwned, NEW len, NewSeq(len) PROVE SlotOwnership' /\ SlotCount'
  <1>1. /\ next_seq \in SeqIds /\ next_seq \notin seqs /\ seqs \subseteq SeqIds
        /\ seqs' = seqs \cup {next_seq} /\ live_count' = live_count + 1
    BY SizesAssumption
    DEF SlotsOwned, Typing, TypeOK, IdsAllocated, NewSeq, NewSeqResult, SeqIds
  <1>2. PICK slots \in SmallestSlots :
            /\ fixed_slots' = [fixed_slots EXCEPT ![next_seq] = slots]
            /\ free_slots' = [g \in FixedGroups |-> free_slots[g] \ {slots[g]}]
    BY DEF NewSeq
  <1>3. \A g \in FixedGroups : slots[g] \in free_slots[g] /\ slots[g] \in Slots
    BY <1>2 DEF SmallestSlots
  <1>4. /\ \A t \in seqs : fixed_slots'[t] = fixed_slots[t]
        /\ fixed_slots'[next_seq] = slots
        /\ \A g \in FixedGroups : free_slots'[g] = free_slots[g] \ {slots[g]}
    BY <1>1, <1>2 DEF SlotsOwned, Typing, TypeOK
  <1>5. SlotsDisjoint'
    BY <1>1, <1>3, <1>4 DEF SlotsOwned, SlotOwnership, SlotsDisjoint, SlotsAccounted
  <1>6. SlotsAccounted'
    BY <1>1, <1>3, <1>4 DEF SlotsOwned, SlotOwnership, SlotsAccounted
  <1>7. SlotCount'
    <2> SUFFICES ASSUME NEW g \in FixedGroups
                 PROVE  Cardinality(free_slots'[g]) = MaxSeqs - live_count'
      BY DEF SlotCount
    <2>1. IsFiniteSet(free_slots[g])
      BY SlotsFinite DEF SlotsOwned, Typing
    <2>2. Cardinality(free_slots'[g]) = Cardinality(free_slots[g]) - 1
      BY <1>3, <1>4, <2>1, FS_RemoveElement
    <2> QED
      BY <1>1, <2>2, SizesAssumption DEF SlotsOwned, SlotCount, Typing, TypeOK
  <1> QED
    BY <1>5, <1>6, <1>7 DEF SlotOwnership

\* free_seq gives back exactly the slots of the sequence it removes.
LEMMA SlotsOwnedFreeSeq ==
    ASSUME SlotsOwned, NEW s \in seqs, FreeSeq(s) PROVE SlotOwnership' /\ SlotCount'
  <1>1. /\ s \in SeqIds /\ seqs \subseteq SeqIds
        /\ seqs' = seqs \ {s} /\ live_count' = live_count - 1
    BY DEF SlotsOwned, Typing, TypeOK, FreeSeq
  <1>2. /\ \A t \in seqs' : fixed_slots'[t] = fixed_slots[t]
        /\ \A g \in FixedGroups : free_slots'[g] = free_slots[g] \cup {fixed_slots[s][g]}
    BY <1>1 DEF FreeSeq, SlotsOwned, Typing, TypeOK
  <1>3. \A g \in FixedGroups : fixed_slots[s][g] \in Slots \ free_slots[g]
    BY DEF SlotsOwned, SlotOwnership, SlotsAccounted
  <1>4. SlotsDisjoint'
    BY <1>1, <1>2 DEF SlotsOwned, SlotOwnership, SlotsDisjoint
  <1>5. SlotsAccounted'
    BY <1>1, <1>2, <1>3 DEF SlotsOwned, SlotOwnership, SlotsDisjoint, SlotsAccounted
  <1>6. SlotCount'
    <2> SUFFICES ASSUME NEW g \in FixedGroups
                 PROVE  Cardinality(free_slots'[g]) = MaxSeqs - live_count'
      BY DEF SlotCount
    <2>1. IsFiniteSet(free_slots[g])
      BY SlotsFinite DEF SlotsOwned, Typing
    <2>2. Cardinality(free_slots'[g]) = Cardinality(free_slots[g]) + 1
      BY <1>2, <1>3, <2>1, FS_AddElement
    <2> QED
      BY <1>1, <2>2, SizesAssumption DEF SlotsOwned, SlotCount, Typing, TypeOK
  <1> QED
    BY <1>4, <1>5, <1>6 DEF SlotOwnership

LEMMA SlotsOwnedStep == SlotsOwned /\ [Next]_vars => SlotsOwned'
  <1> SUFFICES ASSUME SlotsOwned, [Next]_vars PROVE SlotsOwned'
    OBVIOUS
  <1>1. Typing'
    BY TypingStep DEF SlotsOwned
  <1>2. CASE \E len \in {0, MaxCtx, MaxCtx + 1} : NewSeq(len)
    BY <1>1, <1>2, SlotsOwnedNewSeq DEF SlotsOwned
  <1>3. CASE \E s \in seqs : FreeSeq(s)
    BY <1>1, <1>3, SlotsOwnedFreeSeq DEF SlotsOwned
  <1>4. CASE UNCHANGED <<seqs, live_count, fixed_slots, free_slots>>
    BY <1>1, <1>4 DEF SlotsOwned, SlotOwnership, SlotsDisjoint, SlotsAccounted, SlotCount
  <1>5. CASE \E s \in seqs :
                \/ \E n \in 1 .. MaxCtx : Reserve(s, n)
                \/ \E start \in Positions : \E toks \in TokenLists(tail_len[s]) :
                      WriteTokens(s, start, toks)
                \/ \E path \in Paths(tail_len[s]) : Compact(s, path)
                \/ \E accepted \in 0 .. MaxCtx : Commit(s, accepted)
    BY <1>4, <1>5 DEF Reserve, WriteTokens, Compact, Commit, poolVars
  <1>6. CASE UNCHANGED vars
    BY <1>4, <1>6 DEF vars, poolVars, seqVars
  <1> QED
    BY <1>2, <1>3, <1>5, <1>6 DEF Next

\* For every number of sequences and fixed groups: a recurrent slot is free or
\* owned by exactly one live sequence, a live sequence owns one in every group,
\* and new_seq finds a pool empty exactly when the live counter is at max_seqs.
THEOREM SlotsExactHolds == Spec => []SlotsExact
  <1>1. SlotsOwned => SlotsExact
    BY DEF SlotsOwned, SlotsExact, SlotCount, SeqLimitExact, Typing, CountExact
  <1> QED
    BY <1>1, SlotsOwnedInit, SlotsOwnedStep, PTL DEF Spec

-----------------------------------------------------------------------------
(* Blocks, windows and sinks                                               *)

LEMMA DivBounds ==
    ASSUME NEW a \in Nat, NEW d \in Nat \ {0}
    PROVE  a \div d \in Nat /\ (a \div d) * d <= a /\ a < (a \div d) * d + d
  OBVIOUS

LEMMA DivMonotone ==
    ASSUME NEW a \in Nat, NEW b \in Nat, NEW d \in Nat \ {0}, a <= b
    PROVE  a \div d <= b \div d
  BY DivBounds

\* The block of a position is inside the table, and a span that ends after the
\* position reaches its block.
LEMMA BlockInTable ==
    ASSUME NEW p \in Nat, p < MaxCtx
    PROVE  BlockOf(p) \in Indices
  BY SizesAssumption, DivBounds DEF BlockOf, Indices, MaxCtx

LEMMA SpanCovers ==
    ASSUME NEW ctx \in Nat, NEW n \in Nat, NEW p \in Nat, ctx <= p, p < ctx + n
    PROVE  BlockOf(p) \in ReserveSpan(ctx, n)
  <1>1. ctx \div BlockTokens <= p \div BlockTokens
    BY DivMonotone, SizesAssumption
  <1>2. \A b, d \in Nat : d # 0 /\ p < b => p \div d <= (b + d - 1) \div d - 1
    BY DivBounds
  <1>3. p \div BlockTokens <= (ctx + n + BlockTokens - 1) \div BlockTokens - 1
    BY <1>2, SizesAssumption
  <1> QED
    BY <1>1, <1>3, SizesAssumption DEF BlockOf, ReserveSpan, CeilDiv

\* The window start never passes the context and never moves back.
LEMMA WindowBounds ==
    ASSUME NEW w \in Nat, NEW c \in Nat, NEW d \in Nat, c <= d
    PROVE  /\ WindowStartOf(c, w) \in Nat /\ WindowStartOf(c, w) <= c
           /\ WindowStartOf(c, w) <= WindowStartOf(d, w)
  BY DEF WindowStartOf

LEMMA SinksAreNumbers ==
    ASSUME NEW g \in PagedGroups
    PROVE  /\ SinkBlocks(g) \in Nat
           /\ Retain[g].w \in Nat /\ Retain[g].windowed \in BOOLEAN
  BY GroupsAssumption, SizesAssumption, DivBounds DEF SinkBlocks, CeilDiv

\* What the window of a longer context evicts, and what it still reads.
LEMMA EvictRangeBelow ==
    ASSUME NEW g \in PagedGroups, NEW ctx \in Nat, NEW i \in EvictRange(g, ctx)
    PROVE  /\ Retain[g].windowed /\ i \in Int /\ SinkBlocks(g) <= i
           /\ i < WindowStartOf(ctx, Retain[g].w) \div BlockTokens
           /\ i < ctx \div BlockTokens
  <1>1. /\ Retain[g].windowed
        /\ i \in SinkBlocks(g) .. (WindowStartOf(ctx, Retain[g].w) \div BlockTokens) - 1
    BY DEF EvictRange
  <1>2. /\ WindowStartOf(ctx, Retain[g].w) \in Nat /\ WindowStartOf(ctx, Retain[g].w) <= ctx
        /\ SinkBlocks(g) \in Nat
    BY WindowBounds, SinksAreNumbers
  <1>3. /\ WindowStartOf(ctx, Retain[g].w) \div BlockTokens \in Nat
        /\ ctx \div BlockTokens \in Nat
        /\ WindowStartOf(ctx, Retain[g].w) \div BlockTokens <= ctx \div BlockTokens
    BY <1>2, DivMonotone, DivBounds, SizesAssumption
  <1> QED
    BY <1>1, <1>2, <1>3

\* Retention of one group, as a predicate of the table and the two lengths.
AttendedAt(g, ctx, n) ==
    {p \in 0 .. ctx + n - 1 :
        \/ ~Retain[g].windowed
        \/ BlockOf(p) < SinkBlocks(g)
        \/ p >= WindowStartOf(ctx, Retain[g].w)}

KeptAt(g, ctx, n, table) ==
    /\ \A p \in AttendedAt(g, ctx, n) : table[g][BlockOf(p)] # NoBlock
    /\ \A i \in EvictRange(g, ctx) \cap Indices : table[g][i] = NoBlock

AllKept == \A s \in seqs : \A g \in PagedGroups :
              KeptAt(g, ctx_len[s], tail_len[s], tables[s])

Kept == Typing /\ AllKept

LEMMA RetentionIsKept ==
    ASSUME Typing PROVE AllKept <=> RetentionExact
  <1>1. \A s \in seqs, g \in PagedGroups :
            Attended(s, g) = AttendedAt(g, ctx_len[s], tail_len[s])
    <2> SUFFICES ASSUME NEW s \in seqs, NEW g \in PagedGroups
                 PROVE  Attended(s, g) = AttendedAt(g, ctx_len[s], tail_len[s])
      OBVIOUS
    <2> QED
      BY DEF Attended, AttendedAt, WindowStart
  <1> QED
    BY <1>1 DEF AllKept, KeptAt, RetentionExact, AttendedMapped, EvictedUnmapped

LEMMA KeptInit == Init => Kept
  BY TypingInit DEF Init, Kept, AllKept

LEMMA KeptEmpty ==
    ASSUME NEW g \in PagedGroups PROVE KeptAt(g, 0, 0, EmptyTable)
  BY DEF KeptAt, AttendedAt, EmptyTable

LEMMA KeptNewSeq ==
    ASSUME Kept, NEW len, NewSeq(len) PROVE AllKept'
  <1>1. /\ next_seq \in SeqIds /\ next_seq \notin seqs /\ seqs \subseteq SeqIds
        /\ seqs' = seqs \cup {next_seq}
    BY SizesAssumption
    DEF Kept, Typing, TypeOK, IdsAllocated, NewSeq, NewSeqResult, SeqIds
  <1>2. \A t \in seqs : /\ ctx_len'[t] = ctx_len[t] /\ tail_len'[t] = tail_len[t]
                        /\ tables'[t] = tables[t]
    BY <1>1 DEF NewSeq, Kept, Typing, TypeOK
  <1>3. ctx_len'[next_seq] = 0 /\ tail_len'[next_seq] = 0 /\ tables'[next_seq] = EmptyTable
    BY <1>1 DEF NewSeq, Kept, Typing, TypeOK
  <1> QED
    BY <1>1, <1>2, <1>3, KeptEmpty DEF Kept, AllKept

\* The effect of a reserve on the lengths and the tables: an index outside the
\* span, or mapped before, keeps its entry; the whole span is mapped.
LEMMA ReserveFacts ==
    ASSUME Typing, NEW s \in seqs, NEW n \in 1 .. MaxCtx, Reserve(s, n)
    PROVE  /\ s \in SeqIds /\ seqs \subseteq SeqIds /\ seqs' = seqs
           /\ n \in Nat /\ ctx_len[s] \in Nat /\ tail_len[s] = 0
           /\ ctx_len[s] + n <= MaxCtx /\ ctx_len' = ctx_len /\ tail_len'[s] = n
           /\ \A t \in SeqIds : t # s => /\ tail_len'[t] = tail_len[t]
                                         /\ tables'[t] = tables[t]
           /\ \A g \in PagedGroups : \A i \in Indices :
                 /\ i \in ReserveSpan(ctx_len[s], n) => tables'[s][g][i] # NoBlock
                 /\ \/ i \notin ReserveSpan(ctx_len[s], n)
                    \/ tables[s][g][i] # NoBlock
                    => tables'[s][g][i] = tables[s][g][i]
  <1>1. /\ s \in SeqIds /\ seqs \subseteq SeqIds /\ seqs' = seqs
        /\ n \in Nat /\ ctx_len[s] \in Nat /\ tail_len[s] = 0 /\ ctx_len[s] + n <= MaxCtx
        /\ ctx_len' = ctx_len /\ tail_len'[s] = n
        /\ \A t \in SeqIds : t # s => tail_len'[t] = tail_len[t] /\ tables'[t] = tables[t]
    BY SizesAreNumbers DEF Typing, TypeOK, Reserve, ReserveResult
  <1>2. PICK placed \in Placements(s, n) : tables' = [tables EXCEPT ![s] = placed]
    BY DEF Reserve
  <1>3. tables'[s] = placed
    BY <1>1, <1>2 DEF Typing, TypeOK
  <1>4. \A g \in PagedGroups :
            \E f \in [Missing(s, g, n) -> free[g]] :
               /\ \A i, j \in Missing(s, g, n) : f[i] = f[j] => i = j
               /\ placed[g] = [i \in Indices |-> IF i \in Missing(s, g, n)
                                                 THEN f[i] ELSE tables[s][g][i]]
    <2>1. TypeOK /\ s \in SeqIds /\ n \in Nat /\ placed \in Placements(s, n)
      BY <1>1 DEF Typing
    <2> QED
      BY <2>1, PlacementTyped, Zenon
  <1>5. ASSUME NEW g \in PagedGroups, NEW i \in Indices
        PROVE  /\ i \in ReserveSpan(ctx_len[s], n) => placed[g][i] # NoBlock
               /\ \/ i \notin ReserveSpan(ctx_len[s], n)
                  \/ tables[s][g][i] # NoBlock
                  => placed[g][i] = tables[s][g][i]
    <2>1. PICK f \in [Missing(s, g, n) -> free[g]] :
              /\ \A k, j \in Missing(s, g, n) : f[k] = f[j] => k = j
              /\ placed[g] = [k \in Indices |-> IF k \in Missing(s, g, n)
                                                THEN f[k] ELSE tables[s][g][k]]
      BY <1>4
    <2>2. NoBlock \notin free[g]
      BY SizesAreNumbers DEF Typing, TypeOK
    <2> QED
      BY <2>1, <2>2 DEF Missing
  <1> QED
    BY <1>1, <1>3, <1>5

\* reserve maps the whole span and nothing the window has passed.
LEMMA KeptReserve ==
    ASSUME Kept, NEW s \in seqs, NEW n \in 1 .. MaxCtx, Reserve(s, n) PROVE AllKept'
  <1>1. Typing
    BY DEF Kept
  <1>2. /\ s \in SeqIds /\ seqs \subseteq SeqIds /\ seqs' = seqs
        /\ n \in Nat /\ ctx_len[s] \in Nat /\ tail_len[s] = 0
        /\ ctx_len[s] + n <= MaxCtx /\ ctx_len' = ctx_len /\ tail_len'[s] = n
        /\ \A t \in SeqIds : t # s => /\ tail_len'[t] = tail_len[t]
                                      /\ tables'[t] = tables[t]
        /\ \A g \in PagedGroups : \A i \in Indices :
              /\ i \in ReserveSpan(ctx_len[s], n) => tables'[s][g][i] # NoBlock
              /\ \/ i \notin ReserveSpan(ctx_len[s], n)
                 \/ tables[s][g][i] # NoBlock
                 => tables'[s][g][i] = tables[s][g][i]
    BY <1>1, ReserveFacts
  <1>3. ASSUME NEW g \in PagedGroups, NEW p \in AttendedAt(g, ctx_len[s], n)
        PROVE  tables'[s][g][BlockOf(p)] # NoBlock
    <2>1. p \in Nat /\ p < ctx_len[s] + n /\ p < MaxCtx
      BY <1>2, SizesAreNumbers DEF AttendedAt
    <2>2. BlockOf(p) \in Indices
      BY <2>1, BlockInTable
    <2>3. CASE p >= ctx_len[s]
      BY <1>2, <2>1, <2>2, <2>3, SpanCovers
    <2>4. CASE p < ctx_len[s]
      <3>1. p \in AttendedAt(g, ctx_len[s], tail_len[s])
        BY <1>2, <2>1, <2>4 DEF AttendedAt
      <3>2. tables[s][g][BlockOf(p)] # NoBlock
        BY <3>1 DEF Kept, AllKept, KeptAt
      <3> QED
        BY <1>2, <2>2, <3>2
    <2> QED
      BY <1>2, <2>1, <2>3, <2>4
  <1>4. ASSUME NEW g \in PagedGroups, NEW i \in EvictRange(g, ctx_len[s]) \cap Indices
        PROVE  tables'[s][g][i] = NoBlock
    <2>1. i \notin ReserveSpan(ctx_len[s], n)
      BY <1>2, EvictRangeBelow, DivBounds, SizesAssumption DEF ReserveSpan, CeilDiv
    <2>2. tables[s][g][i] = NoBlock
      BY DEF Kept, AllKept, KeptAt
    <2> QED
      BY <1>2, <2>1, <2>2
  <1> QED
    BY <1>2, <1>3, <1>4 DEF Kept, AllKept, KeptAt

\* What the window reads after a commit of a of n reserved positions, it could
\* read before, and the eviction of that commit does not take it.
LEMMA CommitNarrows ==
    ASSUME NEW g \in PagedGroups, NEW c \in Nat, NEW n \in Nat, NEW a \in Nat,
           a <= n, c + n <= MaxCtx, NEW p \in AttendedAt(g, c + a, 0)
    PROVE  /\ p \in AttendedAt(g, c, n) /\ p \in Positions
           /\ BlockOf(p) \in Indices /\ BlockOf(p) \notin EvictRange(g, c + a)
  <1>1. p \in Nat /\ p < c + a /\ p < MaxCtx
    BY SizesAreNumbers DEF AttendedAt
  <1>2. BlockOf(p) \in Indices
    BY <1>1, BlockInTable
  <1>3. /\ WindowStartOf(c, Retain[g].w) \in Nat
        /\ WindowStartOf(c + a, Retain[g].w) \in Nat
        /\ WindowStartOf(c, Retain[g].w) <= WindowStartOf(c + a, Retain[g].w)
    BY SinksAreNumbers DEF WindowStartOf
  <1>4. p \in AttendedAt(g, c, n)
    BY <1>1, <1>3 DEF AttendedAt
  <1>5. BlockOf(p) \notin EvictRange(g, c + a)
    <2> SUFFICES ASSUME BlockOf(p) \in EvictRange(g, c + a) PROVE FALSE
      OBVIOUS
    <2>1. /\ Retain[g].windowed /\ SinkBlocks(g) <= BlockOf(p)
          /\ BlockOf(p) < WindowStartOf(c + a, Retain[g].w) \div BlockTokens
      BY EvictRangeBelow
    <2>2. p < WindowStartOf(c + a, Retain[g].w)
      BY <1>1, <1>3, <2>1, DivMonotone, DivBounds, SizesAssumption DEF BlockOf
    <2> QED
      BY <1>1, <1>2, <1>3, <2>1, <2>2, SinksAreNumbers, SizesAssumption
      DEF AttendedAt, Indices
  <1> QED
    BY <1>1, <1>2, <1>4, <1>5, SizesAreNumbers DEF Positions

\* The effect of a commit on the lengths and the tables.
LEMMA CommitFacts ==
    ASSUME Typing, NEW s \in seqs, NEW accepted \in 0 .. MaxCtx, Commit(s, accepted)
    PROVE  /\ s \in SeqIds /\ seqs \subseteq SeqIds /\ seqs' = seqs
           /\ ctx_len[s] \in Nat /\ tail_len[s] \in Nat /\ accepted \in Nat
           /\ accepted <= tail_len[s] /\ ctx_len[s] + tail_len[s] <= MaxCtx
           /\ ctx_len'[s] = ctx_len[s] + accepted /\ tail_len'[s] = 0
           /\ \A t \in SeqIds : t # s => /\ ctx_len'[t] = ctx_len[t]
                                         /\ tail_len'[t] = tail_len[t]
                                         /\ tables'[t] = tables[t]
           /\ \A g \in PagedGroups : \A i \in Indices :
                 tables'[s][g][i] = IF i \in EvictRange(g, ctx_len[s] + accepted)
                                    THEN NoBlock ELSE tables[s][g][i]
  BY SizesAreNumbers
  DEF Typing, TypeOK, TailFits, Commit, CommitResult, CommittedLen

\* commit shrinks what is attended to the new window and evicts what left it.
LEMMA KeptCommit ==
    ASSUME Kept, NEW s \in seqs, NEW accepted \in 0 .. MaxCtx, Commit(s, accepted)
    PROVE  AllKept'
  <1> DEFINE ctx == ctx_len[s] + accepted
  <1>1. Typing /\ s \in seqs
    BY DEF Kept
  <1>2. /\ s \in SeqIds /\ seqs \subseteq SeqIds /\ seqs' = seqs
        /\ ctx_len[s] \in Nat /\ tail_len[s] \in Nat /\ accepted \in Nat
        /\ accepted <= tail_len[s] /\ ctx_len[s] + tail_len[s] <= MaxCtx
        /\ ctx_len'[s] = ctx /\ tail_len'[s] = 0
        /\ \A t \in SeqIds : t # s => /\ ctx_len'[t] = ctx_len[t]
                                      /\ tail_len'[t] = tail_len[t]
                                      /\ tables'[t] = tables[t]
        /\ \A g \in PagedGroups : \A i \in Indices :
              tables'[s][g][i] = IF i \in EvictRange(g, ctx)
                                 THEN NoBlock ELSE tables[s][g][i]
    BY <1>1, CommitFacts
  <1>3. ASSUME NEW g \in PagedGroups
        PROVE  KeptAt(g, ctx, 0, tables'[s])
    <2>1. ASSUME NEW p \in AttendedAt(g, ctx, 0)
          PROVE  tables'[s][g][BlockOf(p)] # NoBlock
      <3>1. /\ p \in AttendedAt(g, ctx_len[s], tail_len[s])
            /\ BlockOf(p) \in Indices /\ BlockOf(p) \notin EvictRange(g, ctx)
        BY <1>2, CommitNarrows
      <3>2. tables[s][g][BlockOf(p)] # NoBlock
        BY <3>1 DEF Kept, AllKept, KeptAt
      <3> QED
        BY <1>2, <3>1, <3>2
    <2> QED
      BY <1>2, <2>1 DEF KeptAt
  <1> QED
    BY <1>2, <1>3 DEF Kept, AllKept

LEMMA KeptStep == Kept /\ [Next]_vars => Kept'
  <1> SUFFICES ASSUME Kept, [Next]_vars PROVE Kept'
    OBVIOUS
  <1>1. Typing'
    BY TypingStep DEF Kept
  <1>2. CASE \E len \in {0, MaxCtx, MaxCtx + 1} : NewSeq(len)
    BY <1>1, <1>2, KeptNewSeq DEF Kept
  <1>3. CASE \E s \in seqs : \E n \in 1 .. MaxCtx : Reserve(s, n)
    BY <1>1, <1>3, KeptReserve DEF Kept
  <1>4. CASE UNCHANGED <<seqs, ctx_len, tail_len, tables>>
    BY <1>1, <1>4 DEF Kept, AllKept
  <1>5. CASE \E s \in seqs :
                \/ \E start \in Positions : \E toks \in TokenLists(tail_len[s]) :
                      WriteTokens(s, start, toks)
                \/ \E path \in Paths(tail_len[s]) : Compact(s, path)
    BY <1>4, <1>5 DEF WriteTokens, Compact
  <1>6. CASE \E s \in seqs : \E accepted \in 0 .. MaxCtx : Commit(s, accepted)
    BY <1>1, <1>6, KeptCommit DEF Kept
  <1>7. CASE \E s \in seqs : FreeSeq(s)
    <2>1. PICK s \in seqs : FreeSeq(s)
      BY <1>7
    <2>2. seqs' = seqs \ {s} /\ s \in SeqIds /\ seqs \subseteq SeqIds
      BY <2>1 DEF FreeSeq, Kept, Typing, TypeOK
    <2>3. \A t \in seqs' : /\ ctx_len'[t] = ctx_len[t] /\ tail_len'[t] = tail_len[t]
                           /\ tables'[t] = tables[t]
      BY <2>1, <2>2 DEF FreeSeq, Kept, Typing, TypeOK
    <2> QED
      BY <1>1, <2>2, <2>3 DEF Kept, AllKept
  <1>8. CASE UNCHANGED vars
    BY <1>4, <1>8 DEF vars, seqVars
  <1> QED
    BY <1>2, <1>3, <1>5, <1>6, <1>7, <1>8 DEF Next

\* For every retention rule and block size, at any offset of a window inside a
\* block: what attention may read is mapped, the open reservation included, and
\* what the window has passed is not (reserve, commit's eviction).
THEOREM RetentionExactHolds == Spec => []RetentionExact
  <1>1. Kept => RetentionExact
    BY RetentionIsKept DEF Kept
  <1> QED
    BY <1>1, KeptInit, KeptStep, PTL DEF Spec

-----------------------------------------------------------------------------
(* The minimum pool guarantee                                              *)

\* A sequence that alone holds blocks of a group has, with the free list, the
\* whole pool.
LEMMA SoleHolderPool ==
    ASSUME Owned, NEW s \in seqs, NEW g \in PagedGroups,
           \A t \in seqs \ {s} : Held(t, g) = {}
    PROVE  Blocks \subseteq free[g] \cup Held(s, g)
  <1> SUFFICES ASSUME NEW b \in Blocks, b \notin free[g] PROVE b \in Held(s, g)
    OBVIOUS
  <1>1. PICK t \in seqs, i \in Indices : tables[t][g][i] = b
    BY DEF Owned, BlockOwnership, NoLeak
  <1>2. b # NoBlock
    BY SizesAreNumbers
  <1>3. b \in Held(t, g)
    BY <1>1, <1>2 DEF Held
  <1> QED
    BY <1>3

\* The pool has a block for every index of a table, so the free list covers
\* what the table of the sole holder does not map.
LEMMA SoleHolderServed ==
    ASSUME Owned, NEW s \in seqs, NEW g \in PagedGroups, NEW n \in Nat,
           \A t \in seqs \ {s} : Held(t, g) = {}
    PROVE  Cardinality(Missing(s, g, n)) <= Cardinality(free[g])
  <1> DEFINE H == {j \in Indices : tables[s][g][j] # NoBlock}
             M == Missing(s, g, n)
             F == [j \in H |-> tables[s][g][j]]
  <1>1. /\ IsFiniteSet(Indices) /\ Cardinality(Indices) = MaxBlocks
        /\ IsFiniteSet(Blocks) /\ Cardinality(Blocks) = NumBlocks
    <2>1. MaxBlocks - 1 \in Int /\ NumBlocks - 1 \in Int /\ 0 \in Int
      BY SizesAssumption
    <2>2. /\ IsFiniteSet(0 .. MaxBlocks - 1) /\ IsFiniteSet(0 .. NumBlocks - 1)
          /\ Cardinality(0 .. MaxBlocks - 1)
                = IF 0 > MaxBlocks - 1 THEN 0 ELSE (MaxBlocks - 1) - 0 + 1
          /\ Cardinality(0 .. NumBlocks - 1)
                = IF 0 > NumBlocks - 1 THEN 0 ELSE (NumBlocks - 1) - 0 + 1
      BY <2>1, FS_Interval
    <2> QED
      BY <2>2, SizesAssumption DEF Indices, Blocks
  <1>2. /\ M \subseteq Indices /\ H \subseteq Indices /\ M \cap H = {}
        /\ free[g] \subseteq Blocks
    BY DEF Missing, Owned, Typing, TypeOK
  <1>3. /\ IsFiniteSet(M) /\ IsFiniteSet(H) /\ IsFiniteSet(free[g])
        /\ IsFiniteSet(M \cup H) /\ Cardinality(M \cup H) <= MaxBlocks
    <2>1. M \cup H \in SUBSET Indices /\ M \in SUBSET Indices /\ H \in SUBSET Indices
      BY <1>2
    <2> HIDE DEF M, H
    <2> QED
      BY <1>1, <1>2, <2>1, FS_Subset
  <1>4. Cardinality(M) + Cardinality(H) <= MaxBlocks
    <2>1. Cardinality(M \cap H) = 0
      BY <1>2, FS_EmptySet
    <2>2. Cardinality(M \cup H) = Cardinality(M) + Cardinality(H) - Cardinality(M \cap H)
      <3> HIDE DEF M, H
      <3> QED
        BY <1>3, FS_Union
    <2>3. Cardinality(M) \in Nat /\ Cardinality(H) \in Nat
      BY <1>3, FS_CardinalityType
    <2> HIDE DEF M, H
    <2> QED
      BY <1>3, <2>1, <2>2, <2>3
  <1>5. IsFiniteSet(Held(s, g)) /\ Cardinality(Held(s, g)) <= Cardinality(H)
    <2>1. F \in Surjection(H, Held(s, g))
      BY DEF Surjection, Held
    <2> HIDE DEF F, H
    <2> QED
      BY <1>3, <2>1, FS_Surjection
  <1>6. NumBlocks <= Cardinality(free[g]) + Cardinality(Held(s, g))
    <2>1. Blocks \in SUBSET (free[g] \cup Held(s, g))
      BY SoleHolderPool
    <2>2. /\ IsFiniteSet(free[g] \cup Held(s, g))
          /\ IsFiniteSet(free[g] \cap Held(s, g))
          /\ Cardinality(free[g] \cup Held(s, g))
                = Cardinality(free[g]) + Cardinality(Held(s, g))
                      - Cardinality(free[g] \cap Held(s, g))
      BY <1>3, <1>5, FS_Union, FS_Intersection
    <2>3. NumBlocks <= Cardinality(free[g] \cup Held(s, g))
      BY <1>1, <2>1, <2>2, FS_Subset
    <2>4. /\ Cardinality(free[g]) \in Nat /\ Cardinality(Held(s, g)) \in Nat
          /\ Cardinality(free[g] \cap Held(s, g)) \in Nat
      BY <1>3, <1>5, <2>2, FS_CardinalityType
    <2> QED
      BY <2>2, <2>3, <2>4, SizesAssumption
  <1>7. /\ Cardinality(M) \in Nat /\ Cardinality(H) \in Nat
        /\ Cardinality(free[g]) \in Nat /\ Cardinality(Held(s, g)) \in Nat
    BY <1>3, <1>5, FS_CardinalityType
  <1> HIDE DEF M, H, F
  <1>8. Cardinality(M) <= Cardinality(free[g])
    BY <1>4, <1>5, <1>6, <1>7, SizesAssumption
  <1> QED
    BY <1>8 DEF M

\* The minimum pool guarantee of new_from_validated_groups, for every pool at
\* least as large as one table: a sequence alone in the pools is never refused
\* a block below max_ctx, whatever was evicted or rejected before.
THEOREM SoleHolderHolds == Spec => []SoleHolderNeverExhausts
  <1>1. Owned => SoleHolderNeverExhausts
    <2> SUFFICES ASSUME Owned, NEW s \in seqs, NEW n \in 1 .. MaxCtx,
                        \A t \in seqs \ {s} : \A g \in PagedGroups : Held(t, g) = {}
                 PROVE  ReserveResult(s, n) # "PoolExhausted"
      BY DEF SoleHolderNeverExhausts
    <2>1. n \in Nat
      BY SizesAreNumbers
    <2>2. \A g \in PagedGroups : /\ Cardinality(Missing(s, g, n)) <= Cardinality(free[g])
                                 /\ Cardinality(Missing(s, g, n)) \in Nat
                                 /\ Cardinality(free[g]) \in Nat
      <3> TAKE g \in PagedGroups
      <3>1. Cardinality(Missing(s, g, n)) <= Cardinality(free[g])
        BY <2>1, SoleHolderServed
      <3>2. IsFiniteSet(Indices) /\ IsFiniteSet(Blocks)
        BY FS_Interval, SizesAssumption DEF Indices, Blocks
      <3>3. Missing(s, g, n) \in SUBSET Indices /\ free[g] \in SUBSET Blocks
        BY DEF Missing, Owned, Typing, TypeOK
      <3>4. IsFiniteSet(Missing(s, g, n)) /\ IsFiniteSet(free[g])
        BY <3>2, <3>3, FS_Subset
      <3> QED
        BY <3>1, <3>4, FS_CardinalityType
    <2>3. ~ \E g \in PagedGroups :
                Cardinality(Missing(s, g, n)) > Cardinality(free[g])
      BY <2>2
    <2> QED
      BY <2>3 DEF ReserveResult
  <1> QED
    BY <1>1, OwnedInit, OwnedStep, PTL DEF Spec

-----------------------------------------------------------------------------
(* What a user of the manager relies on: its whole invariant, and where a  *)
(* position lies on the device.                                            *)

ManagerInv == Owned /\ SlotsOwned /\ Kept

LEMMA ManagerInvInit == Init => ManagerInv
  BY OwnedInit, SlotsOwnedInit, KeptInit DEF ManagerInv

LEMMA ManagerInvStep == ManagerInv /\ [Next]_vars => ManagerInv'
  BY OwnedStep, SlotsOwnedStep, KeptStep DEF ManagerInv

LEMMA PositionSplit ==
    ASSUME NEW p \in Positions
    PROVE  /\ p \in Nat /\ p < MaxCtx
           /\ BlockOf(p) \in Indices /\ LaneOf(p) \in 0 .. BlockTokens - 1
           /\ p = BlockTokens * BlockOf(p) + LaneOf(p)
  <1>1. p \in Nat /\ p < MaxCtx
    BY SizesAreNumbers
  <1>2. BlockOf(p) \in Indices
    BY <1>1, BlockInTable
  <1>3. LaneOf(p) \in 0 .. BlockTokens - 1 /\ p = BlockTokens * BlockOf(p) + LaneOf(p)
    BY <1>1, SizesAssumption DEF LaneOf, BlockOf
  <1> QED
    BY <1>1, <1>2, <1>3

\* Two mapped positions share a slot of the device only if they are the same
\* position of the same sequence.
LEMMA SlotInjective ==
    ASSUME Owned, NEW g \in PagedGroups, NEW s \in SeqIds, NEW t \in SeqIds,
           NEW p \in Positions, NEW q \in Positions,
           tables[t][g][BlockOf(q)] # NoBlock,
           FlattenSlot(s, g, p) = [block |-> tables[t][g][BlockOf(q)], lane |-> LaneOf(q)]
    PROVE  s = t /\ p = q
  <1>1. tables[s][g][BlockOf(p)] = tables[t][g][BlockOf(q)] /\ LaneOf(p) = LaneOf(q)
    BY DEF FlattenSlot
  <1>2. s = t /\ BlockOf(p) = BlockOf(q)
    BY <1>1, PositionSplit DEF Owned, BlockOwnership, NoAliasing
  <1> QED
    BY <1>1, <1>2, PositionSplit

\* A position of the open reservation is one attention may read.
LEMMA TailAttended ==
    ASSUME NEW g \in PagedGroups, NEW c \in Nat, NEW n \in Nat, NEW p \in c .. c + n - 1
    PROVE  p \in AttendedAt(g, c, n)
  <1>1. WindowStartOf(c, Retain[g].w) \in Nat /\ WindowStartOf(c, Retain[g].w) <= c
    BY SinksAreNumbers DEF WindowStartOf
  <1> QED
    BY <1>1 DEF AttendedAt

=============================================================================
