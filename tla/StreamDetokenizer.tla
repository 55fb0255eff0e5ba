--------------------------- MODULE StreamDetokenizer ---------------------------
(***************************************************************************)
(* The streaming detokenizer of the loader                                 *)
(* (crates/r9v-loader/src/detokenizer.rs): pieces of tokens arrive one at  *)
(* a time; text is emitted once it cannot change any more.  An incomplete  *)
(* UTF-8 sequence and a prefix of a stop string are held back.  The        *)
(* clean_spaces pass of WordPiece vocabularies at flush is left out.       *)
(*                                                                         *)
(* Bytes have their real UTF-8 classes.  Emitted text is a sequence of     *)
(* bytes with Repl for a U+FFFD.                                           *)
(***************************************************************************)
EXTENDS Integers, Sequences, SequencesExt

CONSTANTS
    Pieces,        \* token id -> bytes of its piece (1-based ids)
    EosId, BosId,
    StreamStops,      \* the stop string lists to check
    StopOnEos,     \* the stop_on_eos flags to check
    AddSpacePrefix,\* add_space_prefix of the tokenizer
    MaxPushes

Byte == 0..255
IsContinuation(b) == b \in 128..191

\* A stop string is a Rust string: it does not start inside a character.
ASSUME StreamAssumption ==
    /\ MaxPushes \in Nat
    /\ Pieces \in Seq(Seq(Byte))
    /\ \A list \in StreamStops : list \in Seq(Seq(Byte))
    /\ \A list \in StreamStops : \A n \in DOMAIN list : list[n] # <<>> => ~IsContinuation(list[n][1])
    /\ StopOnEos \subseteq BOOLEAN /\ AddSpacePrefix \in BOOLEAN

VARIABLES
    stop_strings, stop_on_eos, stopped, pending, first_piece,
    emitted,       \* history: all text handed out
    pushed,        \* history: token ids pushed and taken
    flushed

streamVars == <<stop_strings, stop_on_eos, stopped, pending, first_piece, emitted, pushed, flushed>>

Repl == -1
Space == 32

\* decode_one: the length a lead byte announces, and the code point of n bytes.
SeqLen(b) ==
    IF b < 128 THEN 1 ELSE IF b >= 240 THEN 4 ELSE IF b >= 224 THEN 3 ELSE IF b >= 192 THEN 2 ELSE 0

Low(b) == b % 64
Code2(b0, b1) == (b0 % 32) * 64 + Low(b1)
Code3(b0, b1, b2) == ((b0 % 16) * 64 + Low(b1)) * 64 + Low(b2)
Code4(b0, b1, b2, b3) == (((b0 % 8) * 64 + Low(b1)) * 64 + Low(b2)) * 64 + Low(b3)

CodePoint(bytes, p, n) ==
    IF n = 2 THEN Code2(bytes[p], bytes[p+1])
    ELSE IF n = 3 THEN Code3(bytes[p], bytes[p+1], bytes[p+2])
    ELSE Code4(bytes[p], bytes[p+1], bytes[p+2], bytes[p+3])

MinOf == <<0, 128, 2048, 65536>>

Scalar(cp, n) == cp >= MinOf[n] /\ cp <= 1114111 /\ cp \notin 55296..57343

\* decode_one at position p of bytes: length of a scalar it accepts, or 0.
ScalarLen(bytes, p) ==
    LET n == SeqLen(bytes[p])
    IN  IF n = 1 THEN 1
        ELSE IF n = 0 \/ p + n - 1 > Len(bytes) THEN 0
        ELSE IF (\A i \in 1..n-1 : IsContinuation(bytes[p+i])) /\ Scalar(CodePoint(bytes, p, n), n)
        THEN n ELSE 0

\* The loop of sanitize at byte p: every invalid byte becomes one U+FFFD, the
\* bytes of a scalar are copied together.
CleanByte(bytes, p, s) ==
    LET n == ScalarLen(bytes, p)
    IN  IF s.pos > p THEN s
        ELSE IF n = 0 THEN [pos |-> p + 1, clean |-> Append(s.clean, Repl)]
        ELSE [pos |-> p + n, clean |-> s.clean \o SubSeq(bytes, p, p + n - 1)]

CleanedTo(bytes, k) ==
    LET st[p \in 0..Len(bytes)] ==
            IF p = 0 THEN [pos |-> 1, clean |-> <<>>] ELSE CleanByte(bytes, p, st[p-1])
    IN  st[k]

\* decode_one takes these for leads of four bytes; String::from_utf8 does not.
AliasLead == 248..252

\* String::from_utf8(clean).unwrap_or_default() drops the whole text when a
\* sequence with such a lead was copied.
Sanitize(bytes) ==
    LET clean == CleanedTo(bytes, Len(bytes)).clean
    IN  IF \E i \in DOMAIN clean : clean[i] \in AliasLead THEN <<>> ELSE clean

-------------------------------------------------------------------------------
\* find_bytes / find_stop: 0-based start of the earliest stop string.
StopStarts(bytes) ==
    {i \in 0..Len(bytes) : \E n \in DOMAIN stop_strings :
        /\ stop_strings[n] # <<>>
        /\ i + Len(stop_strings[n]) <= Len(bytes)
        /\ SubSeq(bytes, i + 1, i + Len(stop_strings[n])) = stop_strings[n]}

\* Second-byte limits of a lead byte, for a sequence that can still complete.
LeadAllows(lead, b1) ==
    /\ lead = 224 => b1 >= 160
    /\ lead = 237 => b1 < 160
    /\ lead = 240 => b1 >= 144
    /\ lead = 244 => b1 <= 143

\* Length of a trailing sequence that later bytes can still complete.
IncompleteTailLen(bytes) ==
    LET n == Len(bytes)
        trail == {k \in 0..n : \A i \in n-k+1..n : IsContinuation(bytes[i])}
        cont == CHOOSE k \in trail : \A j \in trail : j <= k
        lead == bytes[n - cont]
        valid == lead \in 194..244
    IN  IF cont >= 3 \/ cont = n THEN 0
        ELSE IF cont = 0 THEN (IF valid THEN 1 ELSE 0)
        ELSE IF cont = 1 THEN (IF lead \in 224..244 /\ LeadAllows(lead, bytes[n]) THEN 2 ELSE 0)
        ELSE (IF lead \in 240..244 /\ LeadAllows(lead, bytes[n-1]) THEN 3 ELSE 0)

\* Mutant: a held prefix must start at the front of the buffer.
PartialPrefixLenWhole(bytes, stop) ==
    IF Len(bytes) < Len(stop) /\ IsPrefix(bytes, stop) THEN Len(bytes) ELSE 0

\* Longest suffix of bytes that is a strict prefix of stop.
PartialPrefixLen(bytes, stop) ==
    Max({0} \cup {n \in 1..Len(bytes) : n < Len(stop) /\
                     SubSeq(bytes, Len(bytes) - n + 1, Len(bytes)) = SubSeq(stop, 1, n)})

Hold(bytes) ==
    Max({IncompleteTailLen(bytes)}
        \cup {PartialPrefixLen(bytes, stop_strings[n]) : n \in DOMAIN stop_strings})

\* complete_utf8: one U+FFFD for a truncated sequence at the end.
CompleteUtf8(bytes) ==
    LET hold == IncompleteTailLen(bytes)
        head == Sanitize(SubSeq(bytes, 1, Len(bytes) - hold))
    IN  IF hold > 0 THEN Append(head, Repl) ELSE head

\* piece_bytes, with the space of the first piece removed for SentencePiece.
PieceBytes(t, remove_space) ==
    LET piece == Pieces[t]
    IN  IF remove_space /\ piece # <<>> /\ piece[1] = Space THEN Tail(piece) ELSE piece

-------------------------------------------------------------------------------
StreamInit ==
    /\ stop_strings \in StreamStops
    /\ stop_on_eos \in StopOnEos
    /\ stopped = FALSE /\ pending = <<>> /\ first_piece = TRUE
    /\ emitted = <<>> /\ pushed = <<>> /\ flushed = FALSE

CanPush == ~stopped /\ ~flushed /\ Len(pushed) < MaxPushes

PushEos ==
    /\ CanPush /\ stop_on_eos
    /\ stopped' = TRUE
    /\ emitted' = emitted \o Sanitize(pending)
    /\ pending' = <<>>
    /\ pushed' = Append(pushed, EosId)
    /\ UNCHANGED <<stop_strings, stop_on_eos, first_piece, flushed>>

\* BOS is no display text and does not count as the first piece.
PushBos ==
    /\ CanPush
    /\ stop_on_eos => BosId # EosId
    /\ pushed' = Append(pushed, BosId)
    /\ UNCHANGED <<stop_strings, stop_on_eos, stopped, pending, first_piece, emitted, flushed>>

PushPiece(t) ==
    LET all == pending \o PieceBytes(t, first_piece /\ AddSpacePrefix)
        hits == StopStarts(all)
        split == Len(all) - Hold(all)
    IN  /\ CanPush
        /\ t = EosId => ~stop_on_eos
        /\ first_piece' = FALSE
        /\ pushed' = Append(pushed, t)
        /\ IF hits # {}
           THEN /\ stopped' = TRUE
                /\ emitted' = emitted \o Sanitize(SubSeq(all, 1, Min(hits)))
                /\ pending' = <<>>
           ELSE /\ stopped' = FALSE
                /\ emitted' = emitted \o Sanitize(SubSeq(all, 1, split))
                /\ pending' = SubSeq(all, split + 1, Len(all))
        /\ UNCHANGED <<stop_strings, stop_on_eos, flushed>>

Flush ==
    /\ ~flushed
    /\ flushed' = TRUE
    /\ emitted' = emitted \o CompleteUtf8(pending)
    /\ pending' = <<>>
    /\ UNCHANGED <<stop_strings, stop_on_eos, stopped, first_piece, pushed>>

StreamNext ==
    \/ PushEos \/ PushBos \/ Flush
    \/ \E t \in DOMAIN Pieces \ {BosId} : PushPiece(t)

StreamSpec == StreamInit /\ [][StreamNext]_streamVars

-------------------------------------------------------------------------------
\* The bytes of all pushed tokens, decoded at once.
ShownStep(acc, t, eos) ==
    IF t = BosId \/ (t = EosId /\ eos) THEN acc
    ELSE [first |-> FALSE, text |-> acc.text \o PieceBytes(t, acc.first /\ AddSpacePrefix)]

ShownTo(ids, eos, k) ==
    LET shown[i \in 0..Len(ids)] ==
            IF i = 0 THEN [first |-> TRUE, text |-> <<>>] ELSE ShownStep(shown[i-1], ids[i], eos)
    IN  shown[k]

AllBytes == ShownTo(pushed, stop_on_eos, Len(pushed)).text

StoppedByString == StopStarts(AllBytes) # {}

\* No byte that decode_one and String::from_utf8 disagree about was pushed.
Decodable == \A i \in DOMAIN AllBytes : AllBytes[i] \notin AliasLead

\* The stream shows exactly the text before the earliest stop string of the
\* whole output, however the stop string was split over tokens: no byte of it
\* leaks, and nothing in front of it is lost.
StopTextExact ==
    StoppedByString =>
        /\ stopped
        /\ Decodable => emitted = Sanitize(SubSeq(AllBytes, 1, Min(StopStarts(AllBytes))))

\* Without a stop string the chunks add up to the text decoded at once, also
\* when code points are split over tokens or cut off at the end.
StreamEqualsBatch ==
    Decodable /\ ~StoppedByString /\ flushed /\ ~stopped => emitted = CompleteUtf8(AllBytes)

\* What is held back is bounded by the longest stop string and one code point.
HeldBounded ==
    Len(pending) <= Max({3} \cup {Len(stop_strings[n]) - 1 : n \in DOMAIN stop_strings})

\* What a client has been shown is what decoding all pieces at once and cutting
\* at the first stop string shows, and little is held back.
StreamExact == StopTextExact /\ StreamEqualsBatch /\ HeldBounded

=============================================================================
