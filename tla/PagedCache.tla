------------------------------ MODULE PagedCache ------------------------------
(***************************************************************************)
(* The state manager together with the device memory it hands out: KV      *)
(* blocks reached through the slot map and the block table, and the A/B    *)
(* buffers of recurrent groups. The manager never touches that memory; it  *)
(* only says where a sequence's positions live. This module checks that    *)
(* following its answers gives every sequence a private, intact history.   *)
(*                                                                         *)
(* log is a history variable: the tokens the caller believes stand at each *)
(* position of its sequence, with no notion of blocks or groups.           *)
(***************************************************************************)
EXTENDS StateManager

CONSTANTS
    Versions    \* tells two drafts of the same positions apart

\* The tokens of draft v of sequence s: a distinct token for every sequence,
\* position and draft, so that no mix-up of two of them goes unnoticed.
DraftToken(s, p, v) == (s * MaxCtx + p) * Cardinality(Versions) + v
DraftTokens == {DraftToken(s, p, v) : s \in SeqIds, p \in Positions, v \in Versions}

ASSUME VersionsAssumption ==
    /\ Versions = 0 .. Cardinality(Versions) - 1
    /\ DraftTokens \subseteq Tokens

VARIABLES
    kv,     \* kv[g][b][l]: token whose K/V lies in lane l of block b (device)
    rec,    \* rec[g][k]: recurrent state in buffer k of group g (device)
    ran,    \* ran[s]: tail tokens the last device run of s consumed, 0 if none
    log     \* log[s][p]: token the caller put at p, or NoToken

deviceVars == <<kv, rec, ran, log>>
cacheVars  == <<vars, deviceVars>>

Lanes      == 0 .. BlockTokens - 1
Buffers    == 0 .. 2 * MaxSeqs - 1

\* The recurrent state of sequence s after its first len verified tokens, named
\* by their number: which tokens they were is not kept (HistoryIntact is about
\* those). Garbage is the result of continuing from anything else.
StateAfter(s, len) == <<s, len>>
Garbage            == <<-1, 0>>

\* recurrent_buffers: the verified (active) and the working buffer of a slot.
ActiveBuffer(s, g)  == 2 * fixed_slots[s][g] + parity[s][g]
WorkingBuffer(s, g) == 2 * fixed_slots[s][g] + (1 - parity[s][g])

CacheInit ==
    /\ Init
    /\ kv = [g \in PagedGroups |-> [b \in Blocks |-> [l \in Lanes |-> NoToken]]]
    /\ rec = [g \in FixedGroups |-> [k \in Buffers |-> Garbage]]
    /\ ran = [s \in SeqIds |-> 0]
    /\ log = [s \in SeqIds |-> [p \in Positions |-> NoToken]]

\* Neither new_seq nor reserve clears device memory: a slot or a block keeps
\* what its former owner left there.
CacheNewSeq(promptLen) ==
    /\ NewSeq(promptLen)
    /\ UNCHANGED deviceVars

CacheReserve(s, n) ==
    /\ Reserve(s, n)
    /\ UNCHANGED deviceVars

\* The device stores value[g][p] at every position p of a range through the
\* slots fill_slots and the slot map give it.
Stored(s, range, value) ==
    [g \in PagedGroups |-> [b \in Blocks |-> [l \in Lanes |->
        IF \E p \in range : FlattenSlot(s, g, p) = [block |-> b, lane |-> l]
        THEN value[g][CHOOSE p \in range :
                          FlattenSlot(s, g, p) = [block |-> b, lane |-> l]]
        ELSE kv[g][b][l]]]]

\* The working buffers after a run over the first n tokens of the open tail: a
\* run reads the active buffer (the zero state when the context is empty) and
\* writes the working one.
WorkedOver(s, n) ==
    [g \in FixedGroups |-> [rec[g] EXCEPT ![WorkingBuffer(s, g)] =
        IF \/ ctx_len[s] = 0
           \/ rec[g][ActiveBuffer(s, g)] = StateAfter(s, ctx_len[s])
        THEN StateAfter(s, ctx_len[s] + n)
        ELSE Garbage]]

\* The forward pass over a fresh reservation writes the K/V of its tokens and
\* the working buffers; write_tokens records the same tokens in the mirror.
Forward(s, toks) ==
    LET range == ctx_len[s] .. ctx_len[s] + Len(toks) - 1
        token == [p \in range |-> toks[p - ctx_len[s] + 1]]
    IN
    /\ ran[s] = 0
    /\ WriteTokens(s, ctx_len[s], toks)
    /\ kv' = Stored(s, range, [g \in PagedGroups |-> token])
    /\ rec' = WorkedOver(s, Len(toks))
    /\ ran' = [ran EXCEPT ![s] = Len(toks)]
    /\ log' = [log EXCEPT ![s] = [p \in Positions |->
                  IF p \in range THEN token[p] ELSE log[s][p]]]

\* The in-place re-run of an accepted prefix, which leaves K/V as it is.
Rerun(s, n) ==
    /\ ran[s] > 0
    /\ n \in 1 .. tail_len[s]
    /\ rec' = WorkedOver(s, n)
    /\ ran' = [ran EXCEPT ![s] = n]
    /\ UNCHANGED <<vars, kv, log>>

\* The kernel that CompactOp describes: copy K/V of the accepted path to the
\* front of the tail, every source read before a destination is written. A step
\* compacts once, after the pass that verified its drafts.
CacheCompact(s, path) ==
    LET ctx        == ctx_len[s]
        range      == ctx .. ctx + Len(path) - 1
        source(p)  == ctx + path[p - ctx + 1]
        copied     == [g \in PagedGroups |-> [p \in range |->
                         LET at == FlattenSlot(s, g, source(p))
                         IN  kv[g][at.block][at.lane]]]
    IN
    /\ ran[s] > 0 /\ compacted[s] = NoCompact
    /\ Compact(s, path)
    /\ kv' = Stored(s, range, copied)
    /\ log' = [log EXCEPT ![s] = [p \in Positions |->
                  IF p \in range THEN log[s][source(p)] ELSE log[s][p]]]
    /\ UNCHANGED <<rec, ran>>

\* The caller commits tokens only after a run over exactly those tokens; with
\* no recurrent group there is nothing to run.
CacheCommit(s, accepted) ==
    /\ accepted > 0 /\ FixedGroups # {} => ran[s] = accepted
    /\ Commit(s, accepted)
    /\ ran' = [ran EXCEPT ![s] = 0]
    /\ log' = [log EXCEPT ![s] = [p \in Positions |->
                  IF p < ctx_len[s] + accepted THEN log[s][p] ELSE NoToken]]
    /\ UNCHANGED <<kv, rec>>

CacheFree(s) ==
    /\ FreeSeq(s)
    /\ ran' = [ran EXCEPT ![s] = 0]
    /\ log' = [log EXCEPT ![s] = [p \in Positions |-> NoToken]]
    /\ UNCHANGED <<kv, rec>>

Draft(s, n, v) == [k \in 1 .. n |-> DraftToken(s, ctx_len[s] + k - 1, v)]

CacheNext ==
    \/ CacheNewSeq(0)
    \/ \E s \in seqs :
        \/ \E n \in 1 .. MaxCtx : CacheReserve(s, n)
        \/ \E v \in Versions : tail_len[s] > 0 /\ Forward(s, Draft(s, tail_len[s], v))
        \/ \E path \in Paths(tail_len[s]) : CacheCompact(s, path)
        \/ \E n \in 1 .. MaxCtx : Rerun(s, n)
        \/ \E accepted \in 0 .. MaxCtx : CacheCommit(s, accepted)
        \/ CacheFree(s)

CacheSpec == CacheInit /\ [][CacheNext]_cacheVars

-----------------------------------------------------------------------------
(* Properties                                                              *)

\* What a kernel reads at position p of group g through the block table.
DeviceToken(s, g, p) ==
    LET at == FlattenSlot(s, g, p) IN kv[g][at.block][at.lane]

\* Every position attention may read holds the token the caller put there,
\* whatever other sequences reserved, wrote, compacted, evicted or freed in
\* between: block tables give each sequence a private history.
HistoryIntact ==
    \A s \in seqs : \A g \in PagedGroups : \A p \in Attended(s, g) :
        log[s][p] # NoToken => DeviceToken(s, g, p) = log[s][p]

\* The manager's mirror agrees with device memory for every entry it holds,
\* rejected drafts past ctx_len included (compact's "applies the same copy to
\* its in-memory mirror").
MirrorMatchesDevice ==
    \A s \in seqs : \A g \in PagedGroups : \A p \in Positions :
        mirror[s][g][p] # NoToken =>
            /\ tables[s][g][BlockOf(p)] # NoBlock
            /\ DeviceToken(s, g, p) = mirror[s][g][p]

\* The active buffer of a sequence is its own recurrent state after as many
\* tokens as it has verified: rejected runs, other sequences on reused slots and commits
\* of nothing never reach it (commit's parity flip, new_seq's slot take).
RecurrentVerified ==
    \A s \in seqs : \A g \in FixedGroups :
        ctx_len[s] > 0 => rec[g][ActiveBuffer(s, g)] = StateAfter(s, ctx_len[s])

\* The mirror names mapped blocks only and holds what the device holds.
MirrorExact == MirrorMapped /\ MirrorMatchesDevice

=============================================================================
