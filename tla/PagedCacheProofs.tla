--------------------------- MODULE PagedCacheProofs ---------------------------
(***************************************************************************)
(* Proofs about PagedCache: following the manager's tables, slots and      *)
(* parities on the device gives every sequence a private, intact history,  *)
(* for every number of groups, blocks, slots and sequences.                *)
(***************************************************************************)
EXTENDS StateManagerProofs, PagedCache

RecStates == Int \X Int

CacheTyped ==
    /\ kv \in [PagedGroups -> [Blocks -> [Lanes -> Tokens \cup {NoToken}]]]
    /\ rec \in [FixedGroups -> [Buffers -> RecStates]]
    /\ ran \in [SeqIds -> Nat]
    /\ log \in [SeqIds -> [Positions -> Tokens \cup {NoToken}]]

\* A caller has put tokens below the end of the open reservation only, and an
\* id that is not live has neither tokens nor a run.
LogInside ==
    \A s \in SeqIds : \A p \in Positions :
        log[s][p] # NoToken => s \in seqs /\ p < ctx_len[s] + tail_len[s]
DeadIdle == \A s \in SeqIds \ seqs : ran[s] = 0

\* The device as one sequence sees it: every position attention may read holds
\* the caller's token, the mirror agrees with the device wherever it has an
\* entry, the active buffers hold the state of the verified tokens, and the
\* working buffers what the last run computed.
HistoryOf(s) ==
    \A g \in PagedGroups : \A p \in AttendedAt(g, ctx_len[s], tail_len[s]) :
        log[s][p] # NoToken => kv[g][tables[s][g][BlockOf(p)]][LaneOf(p)] = log[s][p]

MirrorOf(s) ==
    \A g \in PagedGroups : \A p \in Positions : mirror[s][g][p] # NoToken =>
        /\ tables[s][g][BlockOf(p)] # NoBlock
        /\ kv[g][tables[s][g][BlockOf(p)]][LaneOf(p)] = mirror[s][g][p]

RecurrentOf(s) ==
    \A g \in FixedGroups :
        /\ ctx_len[s] > 0 => rec[g][ActiveBuffer(s, g)] = StateAfter(s, ctx_len[s])
        /\ ran[s] > 0 => rec[g][WorkingBuffer(s, g)] = StateAfter(s, ctx_len[s] + ran[s])

SeqSound(s) == HistoryOf(s) /\ MirrorOf(s) /\ RecurrentOf(s)

DeviceInv == CacheTyped /\ LogInside /\ DeadIdle /\ \A s \in seqs : SeqSound(s)

CacheInv == ManagerInv /\ DeviceInv

-----------------------------------------------------------------------------
(* Every step of the cache is a step of the manager or leaves it alone.    *)

LEMMA DraftTyped ==
    ASSUME Typing, NEW s \in seqs, NEW v \in Versions, tail_len[s] > 0
    PROVE  /\ s \in SeqIds /\ ctx_len[s] \in Nat /\ tail_len[s] \in Nat
           /\ ctx_len[s] + tail_len[s] <= MaxCtx /\ ctx_len[s] \in Positions
           /\ Len(Draft(s, tail_len[s], v)) = tail_len[s]
           /\ Draft(s, tail_len[s], v) \in [1 .. tail_len[s] -> Tokens]
           /\ \A p \in ctx_len[s] .. ctx_len[s] + tail_len[s] - 1 :
                 /\ p \in Positions /\ DraftToken(s, p, v) \in Tokens
                 /\ Draft(s, tail_len[s], v)[p - ctx_len[s] + 1] = DraftToken(s, p, v)
  <1>1. /\ s \in SeqIds /\ ctx_len[s] \in Nat /\ tail_len[s] \in Nat
        /\ ctx_len[s] + tail_len[s] <= MaxCtx /\ ctx_len[s] \in Positions
    BY SizesAreNumbers DEF Typing, TypeOK, TailFits, Positions
  <1>2. \A p \in ctx_len[s] .. ctx_len[s] + tail_len[s] - 1 :
            p \in Positions /\ DraftToken(s, p, v) \in Tokens
    BY <1>1, SizesAreNumbers, VersionsAssumption DEF Positions, DraftTokens
  <1>3. \A k \in 1 .. tail_len[s] : DraftToken(s, ctx_len[s] + k - 1, v) \in Tokens
    BY <1>1, <1>2
  <1>4. Draft(s, tail_len[s], v) \in [1 .. tail_len[s] -> Tokens]
    BY <1>3 DEF Draft
  <1>5. Len(Draft(s, tail_len[s], v)) = tail_len[s]
    BY <1>1, <1>4
  <1>6. \A p \in ctx_len[s] .. ctx_len[s] + tail_len[s] - 1 :
            Draft(s, tail_len[s], v)[p - ctx_len[s] + 1] = DraftToken(s, p, v)
    <2> TAKE p \in ctx_len[s] .. ctx_len[s] + tail_len[s] - 1
    <2>1. /\ p - ctx_len[s] + 1 \in 1 .. tail_len[s]
          /\ ctx_len[s] + (p - ctx_len[s] + 1) - 1 = p
      BY <1>1
    <2> QED
      BY <2>1 DEF Draft
  <1> QED
    BY <1>1, <1>2, <1>4, <1>5, <1>6

LEMMA ManagerStep ==
    ASSUME Typing, CacheNext PROVE [Next]_vars
  <1>1. CASE CacheNewSeq(0)
    BY <1>1 DEF CacheNewSeq, Next
  <1>2. CASE \E s \in seqs : \E n \in 1 .. MaxCtx : CacheReserve(s, n)
    BY <1>2 DEF CacheReserve, Next
  <1>3. CASE \E s \in seqs : \E v \in Versions :
                tail_len[s] > 0 /\ Forward(s, Draft(s, tail_len[s], v))
    <2>1. PICK s \in seqs, v \in Versions :
              tail_len[s] > 0 /\ Forward(s, Draft(s, tail_len[s], v))
      BY <1>3
    <2>2. /\ ctx_len[s] \in Positions /\ tail_len[s] \in Nat
          /\ Draft(s, tail_len[s], v) \in [1 .. tail_len[s] -> Tokens]
      BY <2>1, DraftTyped
    <2>3. Draft(s, tail_len[s], v) \in TokenLists(tail_len[s])
      BY <2>1, <2>2 DEF TokenLists
    <2>4. WriteTokens(s, ctx_len[s], Draft(s, tail_len[s], v))
      BY <2>1 DEF Forward
    <2> QED
      BY <2>2, <2>3, <2>4 DEF Next
  <1>4. CASE \E s \in seqs : \E path \in Paths(tail_len[s]) : CacheCompact(s, path)
    BY <1>4 DEF CacheCompact, Next
  <1>5. CASE \E s \in seqs : \E n \in 1 .. MaxCtx : Rerun(s, n)
    BY <1>5 DEF Rerun
  <1>6. CASE \E s \in seqs : \E accepted \in 0 .. MaxCtx : CacheCommit(s, accepted)
    BY <1>6 DEF CacheCommit, Next
  <1>7. CASE \E s \in seqs : CacheFree(s)
    BY <1>7 DEF CacheFree, Next
  <1> QED
    BY <1>1, <1>2, <1>3, <1>4, <1>5, <1>6, <1>7 DEF CacheNext

-----------------------------------------------------------------------------
(* Where a position lies on the device                                     *)

\* The memory new differs from kv in the given positions of s only, as far as
\* any sequence can see.
WritesOnly(new, s, g, range, value) ==
    \A t \in SeqIds : \A q \in Positions : tables[t][g][BlockOf(q)] # NoBlock =>
        new[g][tables[t][g][BlockOf(q)]][LaneOf(q)]
            = IF t = s /\ q \in range THEN value[g][q]
              ELSE kv[g][tables[t][g][BlockOf(q)]][LaneOf(q)]

\* A write through the slot map changes the written positions and no other
\* mapped position of any sequence.
LEMMA StoredAt ==
    ASSUME Owned, CacheTyped, NEW g \in PagedGroups, NEW s \in SeqIds,
           NEW range \in SUBSET Positions, NEW value
    PROVE  WritesOnly(Stored(s, range, value), s, g, range, value)
  <1> SUFFICES ASSUME NEW t \in SeqIds, NEW q \in Positions,
                      tables[t][g][BlockOf(q)] # NoBlock
               PROVE  Stored(s, range, value)[g][tables[t][g][BlockOf(q)]][LaneOf(q)]
                         = IF t = s /\ q \in range THEN value[g][q]
                           ELSE kv[g][tables[t][g][BlockOf(q)]][LaneOf(q)]
    BY DEF WritesOnly
  <1> DEFINE b == tables[t][g][BlockOf(q)]
             l == LaneOf(q)
             at(p) == FlattenSlot(s, g, p) = [block |-> b, lane |-> l]
  <1>1. b \in Blocks /\ l \in Lanes
    BY PositionSplit DEF Lanes, Owned, Typing, TypeOK
  <1>2. Stored(s, range, value)[g][b][l]
            = IF \E p \in range : at(p) THEN value[g][CHOOSE p \in range : at(p)]
              ELSE kv[g][b][l]
    BY <1>1 DEF Stored
  <1>3. \A p \in range : at(p) => s = t /\ p = q
    BY SlotInjective
  <1>4. CASE t = s /\ q \in range
    <2>1. at(q)
      BY <1>4 DEF FlattenSlot
    <2>2. \E p \in range : at(p)
      BY <1>4, <2>1
    <2>3. (CHOOSE p \in range : at(p)) = q
      <3>1. (CHOOSE p \in range : at(p)) \in range /\ at(CHOOSE p \in range : at(p))
        BY <2>2, Zenon
      <3> QED
        BY <1>3, <3>1
    <2> QED
      BY <1>2, <1>4, <2>2, <2>3
  <1>5. CASE ~(t = s /\ q \in range)
    <2>1. ~ \E p \in range : at(p)
      BY <1>3, <1>5
    <2> QED
      BY <1>2, <1>5, <2>1
  <1> QED
    BY <1>4, <1>5

LEMMA StoredTyped ==
    ASSUME CacheTyped, NEW s \in SeqIds, NEW range \in SUBSET Positions, NEW value,
           \A g \in PagedGroups : \A p \in range : value[g][p] \in Tokens \cup {NoToken}
    PROVE  Stored(s, range, value)
              \in [PagedGroups -> [Blocks -> [Lanes -> Tokens \cup {NoToken}]]]
  <1>1. ASSUME NEW g \in PagedGroups, NEW b \in Blocks, NEW l \in Lanes
        PROVE  (IF \E p \in range : FlattenSlot(s, g, p) = [block |-> b, lane |-> l]
                THEN value[g][CHOOSE p \in range :
                                 FlattenSlot(s, g, p) = [block |-> b, lane |-> l]]
                ELSE kv[g][b][l]) \in Tokens \cup {NoToken}
    <2> DEFINE at(p) == FlattenSlot(s, g, p) = [block |-> b, lane |-> l]
    <2>1. kv[g][b][l] \in Tokens \cup {NoToken}
      BY DEF CacheTyped
    <2>2. (\E p \in range : at(p)) => (CHOOSE p \in range : at(p)) \in range
      BY Zenon
    <2> QED
      BY <2>1, <2>2
  <1> QED
    BY <1>1 DEF Stored

\* No two live sequences, and no two sides of one, share a recurrent buffer.
LEMMA BuffersDistinct ==
    ASSUME SlotsOwned, NEW g \in FixedGroups, NEW s \in seqs
    PROVE  /\ ActiveBuffer(s, g) \in Buffers /\ WorkingBuffer(s, g) \in Buffers
           /\ ActiveBuffer(s, g) # WorkingBuffer(s, g)
           /\ \A t \in seqs : t # s => /\ ActiveBuffer(t, g) # WorkingBuffer(s, g)
                                       /\ WorkingBuffer(t, g) # WorkingBuffer(s, g)
  <1>1. \A t \in seqs : /\ fixed_slots[t][g] \in 0 .. MaxSeqs - 1
                        /\ parity[t][g] \in {0, 1}
    BY DEF SlotsOwned, Typing, TypeOK, SlotsHeld, Slots
  <1>2. \A t \in seqs : t # s => fixed_slots[t][g] # fixed_slots[s][g]
    BY DEF SlotsOwned, SlotOwnership, SlotsDisjoint
  <1>3. \A t \in seqs : /\ fixed_slots[t][g] \in Int /\ parity[t][g] \in Int
                        /\ 0 <= fixed_slots[t][g] /\ fixed_slots[t][g] <= MaxSeqs - 1
                        /\ 0 <= parity[t][g] /\ parity[t][g] <= 1
    BY <1>1, SizesAssumption
  <1> QED
    BY <1>2, <1>3, SizesAssumption DEF ActiveBuffer, WorkingBuffer, Buffers

\* A run of s over n tokens leaves the state of ctx_len + n tokens in the
\* working buffers of s and every other buffer of a live sequence as it was.
LEMMA WorkedOverAt ==
    ASSUME SlotsOwned, CacheTyped, NEW s \in seqs, RecurrentOf(s), NEW n \in Nat
    PROVE  /\ WorkedOver(s, n) \in [FixedGroups -> [Buffers -> RecStates]]
           /\ \A g \in FixedGroups :
                 /\ WorkedOver(s, n)[g][WorkingBuffer(s, g)] = StateAfter(s, ctx_len[s] + n)
                 /\ WorkedOver(s, n)[g][ActiveBuffer(s, g)] = rec[g][ActiveBuffer(s, g)]
                 /\ \A t \in seqs : t # s =>
                       /\ WorkedOver(s, n)[g][ActiveBuffer(t, g)] = rec[g][ActiveBuffer(t, g)]
                       /\ WorkedOver(s, n)[g][WorkingBuffer(t, g)] = rec[g][WorkingBuffer(t, g)]
  <1>1. s \in SeqIds /\ s \in Int /\ ctx_len[s] \in Nat
    BY SizesAssumption, SizesAreNumbers DEF SlotsOwned, Typing, TypeOK, SeqIds
  <1>2. ASSUME NEW g \in FixedGroups
        PROVE  WorkedOver(s, n)[g]
                  = [rec[g] EXCEPT ![WorkingBuffer(s, g)] = StateAfter(s, ctx_len[s] + n)]
    BY <1>1 DEF WorkedOver, RecurrentOf
  <1>3. StateAfter(s, ctx_len[s] + n) \in RecStates
    BY <1>1 DEF StateAfter, RecStates
  <1>4. ASSUME NEW g \in FixedGroups
        PROVE  rec[g] \in [Buffers -> RecStates] /\ WorkedOver(s, n)[g] \in [Buffers -> RecStates]
    BY <1>2, <1>3 DEF CacheTyped
  <1>5. WorkedOver(s, n) \in [FixedGroups -> [Buffers -> RecStates]]
    <2>1. WorkedOver(s, n) = [g \in FixedGroups |-> WorkedOver(s, n)[g]]
      BY DEF WorkedOver
    <2> QED
      BY <1>4, <2>1
  <1>6. ASSUME NEW g \in FixedGroups, NEW t \in seqs
        PROVE  ActiveBuffer(t, g) \in Buffers /\ WorkingBuffer(t, g) \in Buffers
    BY BuffersDistinct
  <1>7. ASSUME NEW g \in FixedGroups
        PROVE  /\ ActiveBuffer(s, g) # WorkingBuffer(s, g)
               /\ \A t \in seqs : t # s => /\ ActiveBuffer(t, g) # WorkingBuffer(s, g)
                                           /\ WorkingBuffer(t, g) # WorkingBuffer(s, g)
    BY BuffersDistinct
  <1> QED
    BY <1>2, <1>4, <1>5, <1>6, <1>7

-----------------------------------------------------------------------------
(* A step that leaves a sequence's own state and memory alone              *)

\* The manager's and the caller's record of a sequence is unchanged.
SameRecord(t) ==
    /\ ctx_len'[t] = ctx_len[t] /\ tail_len'[t] = tail_len[t] /\ tables'[t] = tables[t]
    /\ mirror'[t] = mirror[t] /\ fixed_slots'[t] = fixed_slots[t] /\ parity'[t] = parity[t]
    /\ ran'[t] = ran[t] /\ log'[t] = log[t]

\* So is the device memory it reaches through that record.
SameMemory(t) ==
    /\ \A g \in PagedGroups : \A q \in Positions : tables[t][g][BlockOf(q)] # NoBlock =>
          kv'[g][tables[t][g][BlockOf(q)]][LaneOf(q)]
             = kv[g][tables[t][g][BlockOf(q)]][LaneOf(q)]
    /\ \A g \in FixedGroups :
          /\ rec'[g][ActiveBuffer(t, g)] = rec[g][ActiveBuffer(t, g)]
          /\ rec'[g][WorkingBuffer(t, g)] = rec[g][WorkingBuffer(t, g)]

\* Attention reads positions below the end of the open reservation, and each
\* has a block.
LEMMA AttendedInside ==
    ASSUME Kept, NEW s \in seqs, NEW g \in PagedGroups,
           NEW p \in AttendedAt(g, ctx_len[s], tail_len[s])
    PROVE  /\ p \in Positions /\ p < ctx_len[s] + tail_len[s]
           /\ tables[s][g][BlockOf(p)] # NoBlock
  <1>1. /\ s \in SeqIds /\ ctx_len[s] \in Nat /\ tail_len[s] \in Nat
        /\ ctx_len[s] + tail_len[s] <= MaxCtx
    BY SizesAreNumbers DEF Kept, Typing, TypeOK, TailFits
  <1>2. p \in Positions /\ p < ctx_len[s] + tail_len[s]
    BY <1>1, SizesAreNumbers DEF AttendedAt, Positions
  <1> QED
    BY <1>2 DEF Kept, AllKept, KeptAt

LEMMA SeqFrame ==
    ASSUME Kept, NEW t \in seqs, SeqSound(t), SameRecord(t), SameMemory(t)
    PROVE  SeqSound(t)'
  <1>1. HistoryOf(t)'
    BY AttendedInside DEF SeqSound, HistoryOf, SameRecord, SameMemory
  <1>2. MirrorOf(t)'
    BY DEF SeqSound, MirrorOf, SameRecord, SameMemory
  <1>3. RecurrentOf(t)'
    BY DEF SeqSound, RecurrentOf, SameRecord, SameMemory, ActiveBuffer, WorkingBuffer
  <1> QED
    BY <1>1, <1>2, <1>3 DEF SeqSound

-----------------------------------------------------------------------------
(* One lemma per operation                                                 *)

LEMMA CacheInvInit == CacheInit => CacheInv
  <1> SUFFICES ASSUME CacheInit PROVE CacheInv
    OBVIOUS
  <1>1. ManagerInv /\ seqs = {}
    BY ManagerInvInit DEF CacheInit, Init
  <1>2. Garbage \in RecStates
    BY DEF Garbage, RecStates
  <1>3. CacheTyped
    BY <1>2 DEF CacheInit, CacheTyped
  <1>4. LogInside /\ DeadIdle
    BY DEF CacheInit, LogInside, DeadIdle
  <1> QED
    BY <1>1, <1>3, <1>4 DEF CacheInv, DeviceInv

\* A new id has no tokens and no run; what its slots and blocks held before
\* does not matter, since it attends to nothing.
LEMMA DeviceNewSeq ==
    ASSUME CacheInv, NEW len, CacheNewSeq(len) PROVE DeviceInv'
  <1>1. /\ next_seq \in SeqIds /\ next_seq \notin seqs /\ seqs \subseteq SeqIds
        /\ seqs' = seqs \cup {next_seq}
    BY SizesAssumption
    DEF CacheInv, ManagerInv, Kept, Typing, TypeOK, IdsAllocated, CacheNewSeq, NewSeq,
        NewSeqResult, SeqIds
  <1>2. NewSeq(len) /\ kv' = kv /\ rec' = rec /\ ran' = ran /\ log' = log
    BY DEF CacheNewSeq, deviceVars
  <1>3. \A t \in SeqIds : t # next_seq => SameRecord(t) /\ SameMemory(t)
    BY <1>1, <1>2
    DEF NewSeq, SameRecord, SameMemory, CacheInv, ManagerInv, Kept, Typing, TypeOK
  <1>4. /\ ctx_len'[next_seq] = 0 /\ tail_len'[next_seq] = 0
        /\ mirror'[next_seq] = EmptyMirror
    BY <1>1, <1>2 DEF NewSeq, CacheInv, ManagerInv, Kept, Typing, TypeOK
  <1>5. CacheTyped' /\ DeadIdle'
    BY <1>1, <1>2 DEF CacheInv, DeviceInv, CacheTyped, DeadIdle
  <1>6. LogInside'
    BY <1>1, <1>2, <1>3 DEF CacheInv, DeviceInv, LogInside, SameRecord
  <1>7. ASSUME NEW t \in seqs PROVE SeqSound(t)'
    BY <1>1, <1>3, SeqFrame DEF CacheInv, ManagerInv, DeviceInv
  <1>8. ASSUME NEW t, t = next_seq PROVE SeqSound(t)'
    <2>1. ctx_len'[t] = 0 /\ tail_len'[t] = 0 /\ mirror'[t] = EmptyMirror /\ ran'[t] = 0
      BY <1>1, <1>2, <1>4, <1>8 DEF CacheInv, DeviceInv, DeadIdle
    <2>2. HistoryOf(t)'
      BY <2>1 DEF HistoryOf, AttendedAt
    <2>3. MirrorOf(t)'
      BY <2>1 DEF MirrorOf, EmptyMirror
    <2>4. RecurrentOf(t)'
      BY <2>1 DEF RecurrentOf
    <2> QED
      BY <2>2, <2>3, <2>4 DEF SeqSound
  <1> QED
    BY <1>1, <1>5, <1>6, <1>7, <1>8 DEF DeviceInv

\* A reservation adds positions at which the caller has no token yet.
LEMMA DeviceReserve ==
    ASSUME CacheInv, NEW s \in seqs, NEW n \in 1 .. MaxCtx, CacheReserve(s, n)
    PROVE  DeviceInv'
  <1>1. Typing /\ Reserve(s, n) /\ kv' = kv /\ rec' = rec /\ ran' = ran /\ log' = log
    BY DEF CacheReserve, deviceVars, CacheInv, ManagerInv, Kept
  <1>2. /\ s \in SeqIds /\ seqs \subseteq SeqIds /\ seqs' = seqs
        /\ n \in Nat /\ ctx_len[s] \in Nat /\ tail_len[s] = 0
        /\ ctx_len[s] + n <= MaxCtx /\ ctx_len' = ctx_len /\ tail_len'[s] = n
        /\ \A t \in SeqIds : t # s => /\ tail_len'[t] = tail_len[t]
                                      /\ tables'[t] = tables[t]
        /\ \A g \in PagedGroups : \A i \in Indices :
              /\ i \in ReserveSpan(ctx_len[s], n) => tables'[s][g][i] # NoBlock
              /\ \/ i \notin ReserveSpan(ctx_len[s], n)
                 \/ tables[s][g][i] # NoBlock
                 => tables'[s][g][i] = tables[s][g][i]
    BY <1>1, ReserveFacts
  <1>3. mirror' = mirror /\ fixed_slots' = fixed_slots /\ parity' = parity
    BY <1>1 DEF Reserve
  <1>4. \A t \in SeqIds : t # s => SameRecord(t) /\ SameMemory(t)
    BY <1>1, <1>2, <1>3 DEF SameRecord, SameMemory
  <1>5. CacheTyped' /\ DeadIdle'
    BY <1>1, <1>2 DEF CacheInv, DeviceInv, CacheTyped, DeadIdle
  <1>6. LogInside'
    <2> SUFFICES ASSUME NEW t \in SeqIds, NEW p \in Positions, log[t][p] # NoToken
                 PROVE  t \in seqs' /\ p < ctx_len'[t] + tail_len'[t]
      BY <1>1 DEF LogInside
    <2>1. t \in seqs /\ p < ctx_len[t] + tail_len[t]
      BY DEF CacheInv, DeviceInv, LogInside
    <2> QED
      BY <1>2, <2>1, SizesAreNumbers
  <1>7. ASSUME NEW t \in seqs, t # s PROVE SeqSound(t)'
    BY <1>2, <1>4, <1>7, SeqFrame DEF CacheInv, ManagerInv, DeviceInv
  <1>8. SeqSound(s)'
    <2>1. SeqSound(s) /\ Kept /\ LogInside
      BY DEF CacheInv, ManagerInv, DeviceInv
    <2>2. HistoryOf(s)'
      <3> SUFFICES ASSUME NEW g \in PagedGroups, NEW p \in AttendedAt(g, ctx_len[s], n),
                          log[s][p] # NoToken
                   PROVE  kv[g][tables'[s][g][BlockOf(p)]][LaneOf(p)] = log[s][p]
        BY <1>1, <1>2 DEF HistoryOf
      <3>1. p \in Positions
        BY <1>2, SizesAreNumbers DEF AttendedAt, Positions
      <3>2. p < ctx_len[s]
        BY <1>2, <2>1, <3>1, SizesAreNumbers DEF LogInside
      <3>3. p \in AttendedAt(g, ctx_len[s], tail_len[s])
        BY <1>2, <3>1, <3>2 DEF AttendedAt
      <3>4. tables[s][g][BlockOf(p)] # NoBlock
        BY <2>1, <3>3, AttendedInside
      <3>5. tables'[s][g][BlockOf(p)] = tables[s][g][BlockOf(p)]
        BY <1>2, <3>1, <3>4, PositionSplit
      <3> QED
        BY <2>1, <3>3, <3>5 DEF SeqSound, HistoryOf
    <2>3. MirrorOf(s)'
      <3> SUFFICES ASSUME NEW g \in PagedGroups, NEW p \in Positions,
                          mirror[s][g][p] # NoToken
                   PROVE  /\ tables'[s][g][BlockOf(p)] # NoBlock
                          /\ kv[g][tables'[s][g][BlockOf(p)]][LaneOf(p)] = mirror[s][g][p]
        BY <1>1, <1>3 DEF MirrorOf
      <3>1. /\ tables[s][g][BlockOf(p)] # NoBlock
            /\ kv[g][tables[s][g][BlockOf(p)]][LaneOf(p)] = mirror[s][g][p]
        BY <2>1 DEF SeqSound, MirrorOf
      <3> QED
        BY <1>2, <3>1, PositionSplit
    <2>4. RecurrentOf(s)'
      BY <1>1, <1>2, <1>3, <2>1 DEF SeqSound, RecurrentOf, ActiveBuffer, WorkingBuffer
    <2> QED
      BY <2>2, <2>3, <2>4 DEF SeqSound
  <1> QED
    BY <1>2, <1>5, <1>6, <1>7, <1>8 DEF DeviceInv

\* A write of value to positions of the open tail of s that the log and the
\* mirror of s record as well.
TailStep(s, range, value) ==
    /\ range \subseteq ctx_len[s] .. ctx_len[s] + tail_len[s] - 1
    /\ UNCHANGED <<seqs, ctx_len, tail_len, tables>>
    /\ kv' = Stored(s, range, value)
    /\ \A g \in PagedGroups : \A p \in Positions \ range :
          log'[s][p] = log[s][p] /\ mirror'[s][g][p] = mirror[s][g][p]
    /\ \A g \in PagedGroups : \A p \in range :
          /\ log'[s][p] # NoToken => value[g][p] = log'[s][p]
          /\ mirror'[s][g][p] # NoToken => value[g][p] = mirror'[s][g][p]

\* Such a write keeps the history and the mirror of s and what every other
\* sequence reads.
LEMMA TailWrite ==
    ASSUME CacheInv, NEW s \in seqs, NEW value, NEW range, TailStep(s, range, value)
    PROVE  /\ HistoryOf(s)' /\ MirrorOf(s)'
           /\ \A t \in seqs : t # s => \A g \in PagedGroups : \A q \in Positions :
                 tables[t][g][BlockOf(q)] # NoBlock =>
                    kv'[g][tables[t][g][BlockOf(q)]][LaneOf(q)]
                       = kv[g][tables[t][g][BlockOf(q)]][LaneOf(q)]
  <1> USE DEF TailStep
  <1>1. Owned /\ CacheTyped /\ Kept /\ SeqSound(s) /\ seqs \subseteq SeqIds
    BY DEF CacheInv, ManagerInv, DeviceInv, Kept, Typing, TypeOK
  <1>2. /\ s \in SeqIds /\ ctx_len[s] \in Nat /\ tail_len[s] \in Nat
        /\ ctx_len[s] + tail_len[s] <= MaxCtx
    BY <1>1, SizesAreNumbers DEF Kept, Typing, TypeOK, TailFits
  <1>3. range \in SUBSET Positions
    BY <1>2, SizesAreNumbers DEF Positions
  <1>4. \A g \in PagedGroups : \A p \in range : tables[s][g][BlockOf(p)] # NoBlock
    BY <1>1, <1>2, TailAttended, AttendedInside
  <1>5. ASSUME NEW t \in seqs, NEW g \in PagedGroups, NEW q \in Positions,
               tables[t][g][BlockOf(q)] # NoBlock
        PROVE  kv'[g][tables[t][g][BlockOf(q)]][LaneOf(q)]
                  = IF t = s /\ q \in range THEN value[g][q]
                    ELSE kv[g][tables[t][g][BlockOf(q)]][LaneOf(q)]
    <2>1. t \in SeqIds
      BY <1>1
    <2>2. WritesOnly(Stored(s, range, value), s, g, range, value)
      BY <1>1, <1>2, <1>3, StoredAt
    <2> QED
      BY <1>5, <2>1, <2>2 DEF WritesOnly
  <1>6. HistoryOf(s)'
    <2> SUFFICES ASSUME NEW g \in PagedGroups,
                        NEW p \in AttendedAt(g, ctx_len[s], tail_len[s]),
                        log'[s][p] # NoToken
                 PROVE  kv'[g][tables[s][g][BlockOf(p)]][LaneOf(p)] = log'[s][p]
      BY DEF HistoryOf
    <2>1. p \in Positions /\ tables[s][g][BlockOf(p)] # NoBlock
      BY <1>1, AttendedInside
    <2>2. CASE p \in range
      BY <1>5, <2>1, <2>2
    <2>3. CASE p \notin range
      BY <1>1, <1>5, <2>1, <2>3 DEF SeqSound, HistoryOf
    <2> QED
      BY <2>2, <2>3
  <1>7. MirrorOf(s)'
    <2> SUFFICES ASSUME NEW g \in PagedGroups, NEW p \in Positions,
                        mirror'[s][g][p] # NoToken
                 PROVE  /\ tables[s][g][BlockOf(p)] # NoBlock
                        /\ kv'[g][tables[s][g][BlockOf(p)]][LaneOf(p)] = mirror'[s][g][p]
      BY DEF MirrorOf
    <2>1. CASE p \in range
      BY <1>4, <1>5, <2>1
    <2>2. CASE p \notin range
      BY <1>1, <1>5, <2>2 DEF SeqSound, MirrorOf
    <2> QED
      BY <2>1, <2>2
  <1> QED
    BY <1>5, <1>6, <1>7

LEMMA DeviceForward ==
    ASSUME CacheInv, NEW s \in seqs, NEW v \in Versions, tail_len[s] > 0,
           Forward(s, Draft(s, tail_len[s], v))
    PROVE  DeviceInv'
  <1> DEFINE range == ctx_len[s] .. ctx_len[s] + tail_len[s] - 1
             toks == Draft(s, tail_len[s], v)
             token == [p \in range |-> toks[p - ctx_len[s] + 1]]
             value == [g \in PagedGroups |-> token]
  <1>1. /\ Typing /\ SlotsOwned /\ Kept /\ CacheTyped /\ SeqSound(s)
        /\ LogInside /\ DeadIdle /\ RecurrentOf(s)
    BY DEF CacheInv, ManagerInv, DeviceInv, Kept, SeqSound
  <1>2. /\ s \in SeqIds /\ ctx_len[s] \in Nat /\ tail_len[s] \in Nat
        /\ ctx_len[s] + tail_len[s] <= MaxCtx
        /\ Len(toks) = tail_len[s]
        /\ \A p \in range : /\ p \in Positions /\ DraftToken(s, p, v) \in Tokens
                            /\ toks[p - ctx_len[s] + 1] = DraftToken(s, p, v)
    BY <1>1, DraftTyped
  <1>3. /\ WriteTokens(s, ctx_len[s], toks)
        /\ kv' = Stored(s, range, value)
        /\ rec' = WorkedOver(s, tail_len[s])
        /\ ran' = [ran EXCEPT ![s] = tail_len[s]]
        /\ log' = [log EXCEPT ![s] = [p \in Positions |->
                      IF p \in range THEN token[p] ELSE log[s][p]]]
    BY <1>2 DEF Forward
  <1>4. /\ UNCHANGED <<seqs, ctx_len, tail_len, tables, fixed_slots, parity>>
        /\ mirror' = [mirror EXCEPT ![s] =
              [g \in PagedGroups |-> [p \in Positions |->
                  IF p \in range THEN toks[p - ctx_len[s] + 1] ELSE mirror[s][g][p]]]]
    BY <1>2, <1>3 DEF WriteTokens
  <1>5. \A p \in range : token[p] \in Tokens /\ token[p] = toks[p - ctx_len[s] + 1]
    BY <1>2
  <1>6. \A p \in Positions :
           log'[s][p] = IF p \in range THEN token[p] ELSE log[s][p]
    BY <1>1, <1>2, <1>3 DEF CacheTyped
  <1>7. \A g \in PagedGroups : \A p \in Positions :
           mirror'[s][g][p] = IF p \in range THEN value[g][p] ELSE mirror[s][g][p]
    BY <1>1, <1>2, <1>4, <1>5 DEF Typing, TypeOK
  <1>8. \A t \in SeqIds : t # s => SameRecord(t)
    BY <1>1, <1>2, <1>3, <1>4 DEF SameRecord, CacheTyped, Typing, TypeOK
  <1>9. \A g \in PagedGroups : \A p \in range : value[g][p] = token[p]
    OBVIOUS
  <1>10. range \in SUBSET Positions /\ range \in SUBSET range
    BY <1>2
  <1>11. CacheTyped'
    <2>1. \A g \in PagedGroups : \A p \in range : value[g][p] \in Tokens \cup {NoToken}
      BY <1>5, <1>9
    <2>2. kv' \in [PagedGroups -> [Blocks -> [Lanes -> Tokens \cup {NoToken}]]]
      <3> HIDE DEF range, value
      <3> QED
        BY <1>1, <1>2, <1>3, <1>10, <2>1, StoredTyped
    <2>3. rec' \in [FixedGroups -> [Buffers -> RecStates]]
      BY <1>1, <1>2, <1>3, WorkedOverAt
    <2>4. ran' \in [SeqIds -> Nat]
      BY <1>1, <1>2, <1>3 DEF CacheTyped
    <2>5. log' \in [SeqIds -> [Positions -> Tokens \cup {NoToken}]]
      BY <1>1, <1>2, <1>3, <1>5 DEF CacheTyped
    <2> QED
      BY <2>2, <2>3, <2>4, <2>5 DEF CacheTyped
  <1>12. LogInside' /\ DeadIdle'
    <2>1. DeadIdle'
      BY <1>1, <1>2, <1>3, <1>4 DEF DeadIdle, CacheTyped
    <2>2. ASSUME NEW t \in SeqIds, NEW p \in Positions, log'[t][p] # NoToken
          PROVE  t \in seqs /\ p < ctx_len[t] + tail_len[t]
      <3>1. CASE t = s /\ p \in range
        BY <1>2, <3>1
      <3>2. CASE ~(t = s /\ p \in range)
        BY <1>1, <1>6, <1>8, <2>2, <3>2 DEF LogInside, SameRecord
      <3> QED
        BY <3>1, <3>2
    <2> QED
      BY <1>4, <2>1, <2>2 DEF LogInside
  <1>13. /\ HistoryOf(s)' /\ MirrorOf(s)'
         /\ \A t \in seqs : t # s => \A g \in PagedGroups : \A q \in Positions :
               tables[t][g][BlockOf(q)] # NoBlock =>
                  kv'[g][tables[t][g][BlockOf(q)]][LaneOf(q)]
                     = kv[g][tables[t][g][BlockOf(q)]][LaneOf(q)]
    <2>1. range \subseteq ctx_len[s] .. ctx_len[s] + tail_len[s] - 1
      OBVIOUS
    <2>2. UNCHANGED <<seqs, ctx_len, tail_len, tables>> /\ kv' = Stored(s, range, value)
      BY <1>3, <1>4
    <2>3. /\ \A g \in PagedGroups : \A p \in Positions \ range :
                 log'[s][p] = log[s][p] /\ mirror'[s][g][p] = mirror[s][g][p]
          /\ \A g \in PagedGroups : \A p \in range :
                 /\ log'[s][p] # NoToken => value[g][p] = log'[s][p]
                 /\ mirror'[s][g][p] # NoToken => value[g][p] = mirror'[s][g][p]
      BY <1>6, <1>7, <1>9, <1>10
    <2> HIDE DEF range, value, token
    <2>4. TailStep(s, range, value)
      BY <2>1, <2>2, <2>3 DEF TailStep
    <2> QED
      BY <2>4, TailWrite, Zenon
  <1>14. \A t \in seqs : t # s => SameMemory(t)
    BY <1>1, <1>2, <1>3, <1>13, WorkedOverAt DEF SameMemory
  <1>15. ASSUME NEW t \in seqs, t # s PROVE SeqSound(t)'
    <2>1. t \in SeqIds /\ SeqSound(t)
      BY DEF CacheInv, DeviceInv, ManagerInv, Kept, Typing, TypeOK
    <2> QED
      BY <1>1, <1>8, <1>14, <1>15, <2>1, SeqFrame
  <1>16. RecurrentOf(s)'
    <2>1. ran'[s] = tail_len[s]
      BY <1>1, <1>2, <1>3 DEF CacheTyped
    <2>2. \A g \in FixedGroups :
              /\ rec'[g][WorkingBuffer(s, g)] = StateAfter(s, ctx_len[s] + tail_len[s])
              /\ rec'[g][ActiveBuffer(s, g)] = rec[g][ActiveBuffer(s, g)]
      BY <1>1, <1>2, <1>3, WorkedOverAt
    <2> QED
      BY <1>1, <1>4, <2>1, <2>2 DEF RecurrentOf, ActiveBuffer, WorkingBuffer
  <1> HIDE DEF range, value, token, toks
  <1> QED
    BY <1>4, <1>11, <1>12, <1>13, <1>15, <1>16 DEF DeviceInv, SeqSound

\* compact's sources and destinations lie in the open tail.
LEMMA CompactInTail ==
    ASSUME Typing, NEW s \in seqs, NEW path \in Paths(tail_len[s])
    PROVE  /\ s \in SeqIds /\ ctx_len[s] \in Nat /\ tail_len[s] \in Nat
           /\ ctx_len[s] + tail_len[s] <= MaxCtx /\ Len(path) \in Nat
           /\ \A p \in ctx_len[s] .. ctx_len[s] + Len(path) - 1 :
                 /\ p \in ctx_len[s] .. ctx_len[s] + tail_len[s] - 1
                 /\ p \in Positions
                 /\ CompactSource(s, path, p) \in ctx_len[s] .. ctx_len[s] + tail_len[s] - 1
                 /\ CompactSource(s, path, p) \in Positions
  <1>1. PICK k \in 0 .. tail_len[s] : path \in [1 .. k -> 0 .. tail_len[s] - 1]
    BY DEF Paths
  <1>2. /\ s \in SeqIds /\ ctx_len[s] \in Nat /\ tail_len[s] \in Nat
        /\ ctx_len[s] + tail_len[s] <= MaxCtx
    BY SizesAreNumbers DEF Typing, TypeOK, TailFits
  <1>3. k \in Nat /\ k <= tail_len[s] /\ Len(path) = k
    BY <1>1, <1>2
  <1>4. ASSUME NEW p \in ctx_len[s] .. ctx_len[s] + k - 1
        PROVE  /\ p \in ctx_len[s] .. ctx_len[s] + tail_len[s] - 1
               /\ CompactSource(s, path, p) \in ctx_len[s] .. ctx_len[s] + tail_len[s] - 1
    <2>1. p - ctx_len[s] + 1 \in 1 .. k
      BY <1>2, <1>3
    <2>2. path[p - ctx_len[s] + 1] \in 0 .. tail_len[s] - 1
      BY <1>1, <2>1
    <2>3. \A c, n, j \in Int : j \in 0 .. n - 1 => c + j \in c .. c + n - 1
      OBVIOUS
    <2>4. path[p - ctx_len[s] + 1] \in Int /\ ctx_len[s] \in Int /\ tail_len[s] \in Int
      BY <1>2, <2>2
    <2> QED
      BY <1>2, <1>3, <2>2, <2>3, <2>4 DEF CompactSource
  <1>5. \A p \in ctx_len[s] .. ctx_len[s] + tail_len[s] - 1 : p \in Positions
    BY <1>2, SizesAreNumbers DEF Positions
  <1> QED
    BY <1>2, <1>3, <1>4, <1>5

LEMMA DeviceCompact ==
    ASSUME CacheInv, NEW s \in seqs, NEW path \in Paths(tail_len[s]), CacheCompact(s, path)
    PROVE  DeviceInv'
  <1> DEFINE range == ctx_len[s] .. ctx_len[s] + Len(path) - 1
             src(p) == CompactSource(s, path, p)
             value == [g \in PagedGroups |-> [p \in range |->
                          kv[g][tables[s][g][BlockOf(src(p))]][LaneOf(src(p))]]]
  <1>1. /\ Typing /\ Kept /\ CacheTyped /\ SeqSound(s) /\ LogInside /\ DeadIdle
    BY DEF CacheInv, ManagerInv, DeviceInv, Kept
  <1>2. /\ s \in SeqIds /\ ctx_len[s] \in Nat /\ tail_len[s] \in Nat
        /\ ctx_len[s] + tail_len[s] <= MaxCtx
        /\ \A p \in range : /\ p \in ctx_len[s] .. ctx_len[s] + tail_len[s] - 1
                            /\ p \in Positions /\ src(p) \in Positions
                            /\ src(p) \in ctx_len[s] .. ctx_len[s] + tail_len[s] - 1
    BY <1>1, CompactInTail
  <1>3. /\ Compact(s, path)
        /\ kv' = Stored(s, range, value)
        /\ log' = [log EXCEPT ![s] = [p \in Positions |->
                      IF p \in range THEN log[s][src(p)] ELSE log[s][p]]]
        /\ rec' = rec /\ ran' = ran
    BY DEF CacheCompact, CompactSource, FlattenSlot
  <1>4. /\ UNCHANGED <<seqs, ctx_len, tail_len, tables, fixed_slots, parity>>
        /\ mirror' = [mirror EXCEPT ![s] =
              [g \in PagedGroups |-> [p \in Positions |->
                  IF p \in range THEN mirror[s][g][src(p)] ELSE mirror[s][g][p]]]]
    BY <1>3 DEF Compact
  <1>5. \A g \in PagedGroups : \A p \in range :
            /\ src(p) \in AttendedAt(g, ctx_len[s], tail_len[s])
            /\ tables[s][g][BlockOf(src(p))] # NoBlock
    <2> TAKE g \in PagedGroups
    <2> TAKE p \in range
    <2>1. src(p) \in AttendedAt(g, ctx_len[s], tail_len[s])
      BY <1>2, TailAttended
    <2> HIDE DEF src
    <2> QED
      BY <1>1, <2>1, AttendedInside
  <1>6. \A p \in Positions :
           log'[s][p] = IF p \in range THEN log[s][src(p)] ELSE log[s][p]
    BY <1>1, <1>2, <1>3 DEF CacheTyped
  <1>7. \A g \in PagedGroups : \A p \in Positions :
           mirror'[s][g][p] = IF p \in range THEN mirror[s][g][src(p)] ELSE mirror[s][g][p]
    BY <1>1, <1>2, <1>4 DEF Typing, TypeOK
  <1>8. \A t \in SeqIds : t # s => SameRecord(t)
    BY <1>1, <1>2, <1>3, <1>4 DEF SameRecord, CacheTyped, Typing, TypeOK
  <1>9. \A g \in PagedGroups : \A p \in range :
            value[g][p] = kv[g][tables[s][g][BlockOf(src(p))]][LaneOf(src(p))]
    OBVIOUS
  <1>10. CacheTyped'
    <2>1. \A g \in PagedGroups : \A p \in range :
              kv[g][tables[s][g][BlockOf(src(p))]][LaneOf(src(p))] \in Tokens \cup {NoToken}
      <3> TAKE g \in PagedGroups
      <3> TAKE p \in range
      <3>1. BlockOf(src(p)) \in Indices /\ LaneOf(src(p)) \in Lanes
        BY <1>2, PositionSplit DEF Lanes
      <3>2. tables[s][g][BlockOf(src(p))] \in Blocks
        BY <1>1, <1>2, <1>5, <3>1 DEF Typing, TypeOK
      <3> QED
        BY <1>1, <3>1, <3>2 DEF CacheTyped
    <2>2. \A g \in PagedGroups : \A p \in range : value[g][p] \in Tokens \cup {NoToken}
      BY <1>9, <2>1
    <2>3. range \in SUBSET Positions
      BY <1>2
    <2>4. kv' \in [PagedGroups -> [Blocks -> [Lanes -> Tokens \cup {NoToken}]]]
      <3> HIDE DEF range, value
      <3> QED
        BY <1>1, <1>2, <1>3, <2>2, <2>3, StoredTyped
    <2>5. log' \in [SeqIds -> [Positions -> Tokens \cup {NoToken}]]
      <3> HIDE DEF src
      <3> QED
        BY <1>1, <1>2, <1>3 DEF CacheTyped
    <2> QED
      BY <1>1, <1>3, <2>4, <2>5 DEF CacheTyped
  <1>11. LogInside' /\ DeadIdle'
    <2>1. DeadIdle'
      BY <1>1, <1>3, <1>4 DEF DeadIdle
    <2>2. ASSUME NEW t \in SeqIds, NEW p \in Positions, log'[t][p] # NoToken
          PROVE  t \in seqs /\ p < ctx_len[t] + tail_len[t]
      <3>1. CASE t = s /\ p \in range
        BY <1>2, <3>1
      <3>2. CASE ~(t = s /\ p \in range)
        BY <1>1, <1>6, <1>8, <2>2, <3>2 DEF LogInside, SameRecord
      <3> QED
        BY <3>1, <3>2
    <2> QED
      BY <1>4, <2>1, <2>2 DEF LogInside
  <1>12. /\ HistoryOf(s)' /\ MirrorOf(s)'
         /\ \A t \in seqs : t # s => \A g \in PagedGroups : \A q \in Positions :
               tables[t][g][BlockOf(q)] # NoBlock =>
                  kv'[g][tables[t][g][BlockOf(q)]][LaneOf(q)]
                     = kv[g][tables[t][g][BlockOf(q)]][LaneOf(q)]
    <2>1. range \subseteq ctx_len[s] .. ctx_len[s] + tail_len[s] - 1
      BY <1>2
    <2>2. UNCHANGED <<seqs, ctx_len, tail_len, tables>> /\ kv' = Stored(s, range, value)
      BY <1>3, <1>4
    <2>3. \A g \in PagedGroups : \A p \in Positions \ range :
             log'[s][p] = log[s][p] /\ mirror'[s][g][p] = mirror[s][g][p]
      BY <1>6, <1>7
    <2>4. ASSUME NEW g \in PagedGroups, NEW p \in range
          PROVE  /\ log'[s][p] # NoToken => value[g][p] = log'[s][p]
                 /\ mirror'[s][g][p] # NoToken => value[g][p] = mirror'[s][g][p]
      <3>1. p \in Positions /\ src(p) \in Positions
        BY <1>2
      <3>2. log'[s][p] = log[s][src(p)] /\ mirror'[s][g][p] = mirror[s][g][src(p)]
        BY <1>6, <1>7, <3>1
      <3>3. value[g][p] = kv[g][tables[s][g][BlockOf(src(p))]][LaneOf(src(p))]
        BY <1>9
      <3> HIDE DEF src, value
      <3> QED
        BY <1>1, <1>5, <3>1, <3>2, <3>3 DEF SeqSound, HistoryOf, MirrorOf
    <2> HIDE DEF range, value, src
    <2>5. TailStep(s, range, value)
      BY <2>1, <2>2, <2>3, <2>4 DEF TailStep
    <2> QED
      BY <2>5, TailWrite, Zenon
  <1>13. \A t \in seqs : t # s => SameMemory(t)
    BY <1>3, <1>12 DEF SameMemory
  <1>14. ASSUME NEW t \in seqs, t # s PROVE SeqSound(t)'
    <2>1. t \in SeqIds /\ SeqSound(t)
      BY DEF CacheInv, DeviceInv, ManagerInv, Kept, Typing, TypeOK
    <2> QED
      BY <1>1, <1>8, <1>13, <1>14, <2>1, SeqFrame
  <1>15. RecurrentOf(s)'
    BY <1>1, <1>3, <1>4 DEF SeqSound, RecurrentOf, ActiveBuffer, WorkingBuffer
  <1> HIDE DEF range, value, src
  <1> QED
    BY <1>4, <1>10, <1>11, <1>12, <1>14, <1>15 DEF DeviceInv, SeqSound

\* A re-run replaces what the working buffers hold and nothing else.
LEMMA DeviceRerun ==
    ASSUME CacheInv, NEW s \in seqs, NEW n \in 1 .. MaxCtx, Rerun(s, n)
    PROVE  DeviceInv'
  <1>1. /\ SlotsOwned /\ Kept /\ CacheTyped /\ LogInside /\ DeadIdle
        /\ SeqSound(s) /\ RecurrentOf(s) /\ s \in SeqIds /\ n \in Nat
    BY SizesAreNumbers
    DEF CacheInv, ManagerInv, DeviceInv, Kept, Typing, TypeOK, SeqSound
  <1>2. /\ UNCHANGED <<seqs, ctx_len, tail_len, tables, mirror, fixed_slots, parity, kv, log>>
        /\ rec' = WorkedOver(s, n) /\ ran' = [ran EXCEPT ![s] = n]
    BY DEF Rerun, vars, seqVars
  <1>3. /\ WorkedOver(s, n) \in [FixedGroups -> [Buffers -> RecStates]]
        /\ \A g \in FixedGroups :
              /\ WorkedOver(s, n)[g][WorkingBuffer(s, g)] = StateAfter(s, ctx_len[s] + n)
              /\ WorkedOver(s, n)[g][ActiveBuffer(s, g)] = rec[g][ActiveBuffer(s, g)]
              /\ \A t \in seqs : t # s =>
                    /\ WorkedOver(s, n)[g][ActiveBuffer(t, g)] = rec[g][ActiveBuffer(t, g)]
                    /\ WorkedOver(s, n)[g][WorkingBuffer(t, g)] = rec[g][WorkingBuffer(t, g)]
    BY <1>1, WorkedOverAt
  <1>4. CacheTyped'
    BY <1>1, <1>2, <1>3 DEF CacheTyped
  <1>5. LogInside' /\ DeadIdle'
    BY <1>1, <1>2 DEF LogInside, DeadIdle, CacheTyped
  <1>6. \A t \in SeqIds : t # s => SameRecord(t)
    BY <1>1, <1>2 DEF SameRecord, CacheTyped
  <1>7. \A t \in seqs : t # s => SameMemory(t)
    BY <1>2, <1>3 DEF SameMemory
  <1>8. ASSUME NEW t \in seqs, t # s PROVE SeqSound(t)'
    <2>1. t \in SeqIds /\ SeqSound(t)
      BY DEF CacheInv, DeviceInv, ManagerInv, Kept, Typing, TypeOK
    <2> QED
      BY <1>1, <1>6, <1>7, <1>8, <2>1, SeqFrame
  <1>9. SeqSound(s)'
    <2>1. HistoryOf(s)' /\ MirrorOf(s)'
      BY <1>1, <1>2 DEF SeqSound, HistoryOf, MirrorOf
    <2>2. ran'[s] = n
      BY <1>1, <1>2 DEF CacheTyped
    <2>3. RecurrentOf(s)'
      BY <1>1, <1>2, <1>3, <2>2 DEF RecurrentOf, ActiveBuffer, WorkingBuffer
    <2> QED
      BY <2>1, <2>3 DEF SeqSound
  <1> QED
    BY <1>2, <1>4, <1>5, <1>8, <1>9 DEF DeviceInv

\* commit drops log and mirror entries with the blocks it evicts, and the
\* buffers it makes active hold the state of exactly the accepted tokens.
LEMMA DeviceCommit ==
    ASSUME CacheInv, NEW s \in seqs, NEW accepted \in 0 .. MaxCtx, CacheCommit(s, accepted)
    PROVE  DeviceInv'
  <1>1. /\ Typing /\ SlotsOwned /\ Kept /\ CacheTyped /\ LogInside /\ DeadIdle
        /\ SeqSound(s) /\ RecurrentOf(s)
    BY DEF CacheInv, ManagerInv, DeviceInv, Kept, SeqSound
  <1>2. /\ accepted > 0 /\ FixedGroups # {} => ran[s] = accepted
        /\ Commit(s, accepted)
        /\ ran' = [ran EXCEPT ![s] = 0]
        /\ log' = [log EXCEPT ![s] = [p \in Positions |->
                      IF p < ctx_len[s] + accepted THEN log[s][p] ELSE NoToken]]
        /\ kv' = kv /\ rec' = rec
    BY DEF CacheCommit
  <1>3. /\ s \in SeqIds /\ seqs \subseteq SeqIds /\ seqs' = seqs
        /\ ctx_len[s] \in Nat /\ tail_len[s] \in Nat /\ accepted \in Nat
        /\ accepted <= tail_len[s] /\ ctx_len[s] + tail_len[s] <= MaxCtx
        /\ ctx_len'[s] = ctx_len[s] + accepted /\ tail_len'[s] = 0
        /\ \A t \in SeqIds : t # s => /\ ctx_len'[t] = ctx_len[t]
                                      /\ tail_len'[t] = tail_len[t]
                                      /\ tables'[t] = tables[t]
        /\ \A g \in PagedGroups : \A i \in Indices :
              tables'[s][g][i] = IF i \in EvictRange(g, ctx_len[s] + accepted)
                                 THEN NoBlock ELSE tables[s][g][i]
    BY <1>1, <1>2, CommitFacts
  <1>4. /\ fixed_slots' = fixed_slots
        /\ \A t \in SeqIds : t # s => mirror'[t] = mirror[t] /\ parity'[t] = parity[t]
        /\ \A g \in PagedGroups : \A p \in Positions :
              mirror'[s][g][p] = IF BlockOf(p) \in EvictRange(g, ctx_len[s] + accepted)
                                 THEN NoToken ELSE mirror[s][g][p]
        /\ parity'[s] = Flipped(s, accepted)
    BY <1>1, <1>2, <1>3 DEF Commit, CommittedLen, Typing, TypeOK
  <1>5. /\ ran'[s] = 0
        /\ \A p \in Positions :
              log'[s][p] = IF p < ctx_len[s] + accepted THEN log[s][p] ELSE NoToken
        /\ \A t \in SeqIds : t # s => ran'[t] = ran[t] /\ log'[t] = log[t]
    BY <1>1, <1>2, <1>3 DEF CacheTyped
  <1>6. CacheTyped'
    BY <1>1, <1>2, <1>3 DEF CacheTyped
  <1>7. LogInside' /\ DeadIdle'
    <2>1. DeadIdle'
      BY <1>1, <1>3, <1>5 DEF DeadIdle
    <2>2. LogInside'
      BY <1>1, <1>3, <1>5 DEF LogInside
    <2> QED
      BY <2>1, <2>2
  <1>8. ASSUME NEW t \in seqs, t # s PROVE SeqSound(t)'
    <2>1. t \in SeqIds /\ SeqSound(t)
      BY <1>3 DEF CacheInv, DeviceInv
    <2>2. SameRecord(t) /\ SameMemory(t)
      BY <1>2, <1>3, <1>4, <1>5, <1>8, <2>1 DEF SameRecord, SameMemory
    <2> QED
      BY <1>1, <2>1, <2>2, SeqFrame
  <1>9. HistoryOf(s)'
    <2> SUFFICES ASSUME NEW g \in PagedGroups,
                        NEW p \in AttendedAt(g, ctx_len[s] + accepted, 0),
                        log'[s][p] # NoToken
                 PROVE  kv[g][tables'[s][g][BlockOf(p)]][LaneOf(p)] = log'[s][p]
      BY <1>2, <1>3 DEF HistoryOf
    <2>1. /\ p \in AttendedAt(g, ctx_len[s], tail_len[s]) /\ p \in Positions
          /\ BlockOf(p) \in Indices
          /\ BlockOf(p) \notin EvictRange(g, ctx_len[s] + accepted)
      BY <1>3, CommitNarrows
    <2>2. log'[s][p] = log[s][p] /\ tables'[s][g][BlockOf(p)] = tables[s][g][BlockOf(p)]
      BY <1>3, <1>5, <2>1
    <2> QED
      BY <1>1, <2>1, <2>2 DEF SeqSound, HistoryOf
  <1>10. MirrorOf(s)'
    <2> SUFFICES ASSUME NEW g \in PagedGroups, NEW p \in Positions,
                        mirror'[s][g][p] # NoToken
                 PROVE  /\ tables'[s][g][BlockOf(p)] # NoBlock
                        /\ kv[g][tables'[s][g][BlockOf(p)]][LaneOf(p)] = mirror'[s][g][p]
      BY <1>2 DEF MirrorOf
    <2>1. /\ BlockOf(p) \notin EvictRange(g, ctx_len[s] + accepted)
          /\ mirror'[s][g][p] = mirror[s][g][p]
      BY <1>4
    <2>2. tables'[s][g][BlockOf(p)] = tables[s][g][BlockOf(p)]
      BY <1>3, <2>1, PositionSplit
    <2> QED
      BY <1>1, <2>1, <2>2 DEF SeqSound, MirrorOf
  <1>11. RecurrentOf(s)'
    <2> SUFFICES ASSUME NEW g \in FixedGroups, ctx_len[s] + accepted > 0
                 PROVE  rec[g][2 * fixed_slots[s][g] + parity'[s][g]]
                           = StateAfter(s, ctx_len[s] + accepted)
      BY <1>2, <1>3, <1>4, <1>5 DEF RecurrentOf, ActiveBuffer
    <2>1. CASE accepted = 0
      BY <1>1, <1>3, <1>4, <2>1 DEF Flipped, RecurrentOf, ActiveBuffer
    <2>2. CASE accepted > 0
      <3>1. ran[s] = accepted /\ parity'[s][g] = 1 - parity[s][g]
        BY <1>2, <1>4, <2>2 DEF Flipped
      <3> QED
        BY <1>1, <2>2, <3>1 DEF RecurrentOf, WorkingBuffer
    <2> QED
      BY <1>3, <2>1, <2>2
  <1> QED
    BY <1>3, <1>6, <1>7, <1>8, <1>9, <1>10, <1>11 DEF DeviceInv, SeqSound

LEMMA DeviceFree ==
    ASSUME CacheInv, NEW s \in seqs, CacheFree(s) PROVE DeviceInv'
  <1>1. /\ Kept /\ CacheTyped /\ LogInside /\ DeadIdle /\ s \in SeqIds /\ seqs \subseteq SeqIds
    BY DEF CacheInv, ManagerInv, DeviceInv, Kept, Typing, TypeOK
  <1>2. /\ FreeSeq(s) /\ kv' = kv /\ rec' = rec /\ seqs' = seqs \ {s}
        /\ ran' = [ran EXCEPT ![s] = 0]
        /\ log' = [log EXCEPT ![s] = [p \in Positions |-> NoToken]]
    BY DEF CacheFree, FreeSeq
  <1>3. \A t \in SeqIds : t # s => SameRecord(t) /\ SameMemory(t)
    BY <1>1, <1>2 DEF FreeSeq, SameRecord, SameMemory, CacheTyped, Kept, Typing, TypeOK
  <1>4. CacheTyped'
    BY <1>1, <1>2 DEF CacheTyped
  <1>5. LogInside' /\ DeadIdle'
    <2>1. /\ ran'[s] = 0 /\ \A p \in Positions : log'[s][p] = NoToken
      BY <1>1, <1>2 DEF CacheTyped
    <2> QED
      BY <1>1, <1>2, <1>3, <2>1 DEF LogInside, DeadIdle, SameRecord
  <1>6. ASSUME NEW t \in seqs' PROVE SeqSound(t)'
    <2>1. t \in seqs /\ t \in SeqIds /\ t # s /\ SeqSound(t)
      BY <1>1, <1>2 DEF CacheInv, DeviceInv
    <2> QED
      BY <1>1, <1>3, <2>1, SeqFrame
  <1> QED
    BY <1>4, <1>5, <1>6 DEF DeviceInv

LEMMA CacheInvStep == CacheInv /\ [CacheNext]_cacheVars => CacheInv'
  <1> SUFFICES ASSUME CacheInv, [CacheNext]_cacheVars PROVE CacheInv'
    OBVIOUS
  <1>1. CASE UNCHANGED cacheVars
    <2>1. UNCHANGED vars
      BY <1>1 DEF cacheVars
    <2>2. ManagerInv'
      BY <2>1, ManagerInvStep DEF CacheInv
    <2>3. DeviceInv'
      BY <1>1 DEF CacheInv, DeviceInv, cacheVars, deviceVars, vars, seqVars, CacheTyped,
                  LogInside, DeadIdle, SeqSound, HistoryOf, MirrorOf, RecurrentOf,
                  ActiveBuffer, WorkingBuffer
    <2> QED
      BY <2>2, <2>3 DEF CacheInv
  <1>2. CASE CacheNext
    <2>1. Typing
      BY DEF CacheInv, ManagerInv, Kept
    <2>2. ManagerInv'
      BY <1>2, <2>1, ManagerStep, ManagerInvStep DEF CacheInv
    <2>3. DeviceInv'
      BY <1>2, DeviceNewSeq, DeviceReserve, DeviceForward, DeviceCompact, DeviceRerun,
         DeviceCommit, DeviceFree DEF CacheNext
    <2> QED
      BY <2>2, <2>3 DEF CacheInv
  <1> QED
    BY <1>1, <1>2

LEMMA CacheInvariant == CacheSpec => []CacheInv
  BY CacheInvInit, CacheInvStep, PTL DEF CacheSpec

\* Block tables give every sequence a private history: whatever the other
\* sequences reserve, write, compact, evict or free, and whatever a block held
\* before, attention reads the token the caller put at each position (reserve,
\* compact, commit, free_seq, flatten_slot).
THEOREM HistoryIntactHolds == CacheSpec => []HistoryIntact
  <1>1. CacheInv => HistoryIntact
    <2> SUFFICES ASSUME CacheInv, NEW s \in seqs, NEW g \in PagedGroups,
                        NEW p \in Attended(s, g), log[s][p] # NoToken
                 PROVE  DeviceToken(s, g, p) = log[s][p]
      BY DEF HistoryIntact
    <2>1. p \in AttendedAt(g, ctx_len[s], tail_len[s])
      BY DEF Attended, AttendedAt, WindowStart
    <2>2. kv[g][tables[s][g][BlockOf(p)]][LaneOf(p)] = log[s][p]
      BY <2>1 DEF CacheInv, DeviceInv, SeqSound, HistoryOf
    <2> QED
      BY <2>2 DEF DeviceToken, FlattenSlot
  <1> QED
    BY <1>1, CacheInvariant, PTL

\* The manager's mirror never disagrees with the device: every entry, the
\* rejected drafts past ctx_len included, names a mapped block and the token
\* that lies there, through overlapping compactions and evictions.
THEOREM MirrorExactHolds == CacheSpec => []MirrorExact
  <1>1. CacheInv => MirrorExact
    <2> SUFFICES ASSUME CacheInv, NEW s \in seqs, NEW g \in PagedGroups,
                        NEW p \in Positions, mirror[s][g][p] # NoToken
                 PROVE  /\ tables[s][g][BlockOf(p)] # NoBlock
                        /\ DeviceToken(s, g, p) = mirror[s][g][p]
      BY DEF MirrorExact, MirrorMapped, MirrorMatchesDevice
    <2>1. /\ tables[s][g][BlockOf(p)] # NoBlock
          /\ kv[g][tables[s][g][BlockOf(p)]][LaneOf(p)] = mirror[s][g][p]
      BY DEF CacheInv, DeviceInv, SeqSound, MirrorOf
    <2> QED
      BY <2>1 DEF DeviceToken, FlattenSlot
  <1> QED
    BY <1>1, CacheInvariant, PTL

\* The A/B protocol is sound for every number of sequences sharing the slots:
\* the active buffer holds the state after its verified tokens, whatever
\* was rejected, re-run or left behind by a former owner of the slot.
THEOREM RecurrentVerifiedHolds == CacheSpec => []RecurrentVerified
  <1>1. CacheInv => RecurrentVerified
    BY DEF CacheInv, DeviceInv, SeqSound, RecurrentOf, RecurrentVerified
  <1> QED
    BY <1>1, CacheInvariant, PTL

=============================================================================
