------------------------------- MODULE StopTail -------------------------------
(***************************************************************************)
(* Incremental text of a generated sequence (crates/r9v-sched/src/types.rs):*)
(* ByteDetokenizer, which buffers a partial UTF-8 code point, and          *)
(* Sequence::append_generated_token, which keeps a bounded tail of the     *)
(* text and the byte span of each token to find stop strings and cut the   *)
(* output at the token where the match begins.                             *)
(*                                                                         *)
(* Tokens are byte values with their real UTF-8 classes; a token above 255 *)
(* is outside the byte domain.  A rejected token fails the step; the next  *)
(* step may sample any other token, because the step id it is drawn with   *)
(* has changed.                                                            *)
(***************************************************************************)
EXTENDS Integers, Sequences, FiniteSets, SequencesExt

CONSTANTS
    TokenIds,      \* token ids the device may sample
    EosIds,
    StopSets,      \* the stop criteria to check: sequences of stop strings
    MaxTokens,     \* max_tokens of a request
    MinKeep,       \* the 128 of the tail bound
    TailSeqs

ASSUME TailAssumption ==
    /\ TokenIds \cup EosIds \subseteq Nat
    /\ MaxTokens \in Nat \ {0} /\ MinKeep \in Nat
    /\ TailSeqs \subseteq Nat \ {0}

VARIABLES
    stops,         \* stop_strings of the request
    id,            \* seq_id
    seq,           \* [generated, tail, tail_start, spans, pending]
    det,           \* ByteDetokenizer: [active, buf, expected]
    phase,         \* "run", or how the sequence finished, or "panicked"
    sampled,       \* history: tokens accepted, before any cut
    text,          \* history: all text decoded
    text_at        \* history: length of text after each accepted token

tailVars == <<stops, id, seq, det, phase, sampled, text, text_at>>

NoSeq == 0
NoPending == <<>>

IsCont(b) == b \in 128..191

\* Stop strings are Strings, which do not begin inside a character.
ASSUME StopAssumption ==
    \A set \in StopSets : /\ set \in Seq(Seq(Nat))
                          /\ \A n \in DOMAIN set : set[n] # <<>> => ~IsCont(set[n][1])

\* Bytes a lead byte announces, 0 for a byte that starts nothing.
ExpectedLen(b) ==
    IF b \in 0..127 THEN 1
    ELSE IF b \in 194..223 THEN 2
    ELSE IF b \in 224..239 THEN 3
    ELSE IF b \in 240..244 THEN 4
    ELSE 0

\* std::str::from_utf8 on a lead byte followed by continuation bytes.
ValidUtf8(c) ==
    /\ c[1] = 224 => c[2] >= 160
    /\ c[1] = 237 => c[2] <= 159
    /\ c[1] = 240 => c[2] >= 144
    /\ c[1] = 244 => c[2] <= 143

EmptyDet(s) == [active |-> s, buf |-> <<>>, expected |-> 0]

\* The detokenizer belongs to one sequence at a time.
DetFor(s) == IF det.active = s THEN det ELSE EmptyDet(s)

\* append_token: text appended for token t, or a rejection, and the detokenizer
\* after it.  A rejection in the middle of a code point empties the buffer.
AppendToken(s, t) ==
    LET d == DetFor(s)
        char == Append(d.buf, t)
    IN  IF t > 255 THEN [ok |-> FALSE, out |-> <<>>, det |-> det]
        ELSE IF d.buf = <<>>
        THEN IF ExpectedLen(t) = 0 THEN [ok |-> FALSE, out |-> <<>>, det |-> d]
             ELSE IF ExpectedLen(t) = 1 THEN [ok |-> TRUE, out |-> <<t>>, det |-> d]
             ELSE [ok |-> TRUE, out |-> <<>>,
                   det |-> [active |-> s, buf |-> char, expected |-> ExpectedLen(t)]]
        ELSE IF ~IsCont(t) THEN [ok |-> FALSE, out |-> <<>>, det |-> EmptyDet(s)]
        ELSE IF Len(char) < d.expected
        THEN [ok |-> TRUE, out |-> <<>>,
              det |-> [active |-> s, buf |-> char, expected |-> d.expected]]
        ELSE [ok |-> ValidUtf8(char), out |-> char, det |-> EmptyDet(s)]

BufferedLen(d, s) == IF d.active = s THEN Len(d.buf) ELSE 0

-------------------------------------------------------------------------------
\* Byte offsets are 0-based, as in the code.
OccursAt(str, txt, i) == /\ i + Len(str) <= Len(txt)
                         /\ SubSeq(txt, i + 1, i + Len(str)) = str

MatchOffsets(txt) ==
    {i \in 0..Len(txt) : \E n \in DOMAIN stops : stops[n] # <<>> /\ OccursAt(stops[n], txt, i)}

\* check_stop_string: start of the earliest match of any stop string.
EarliestMatch(txt) == CHOOSE i \in MatchOffsets(txt) : \A j \in MatchOffsets(txt) : i <= j

MaxStopLen == Max({0} \cup {Len(stops[n]) : n \in DOMAIN stops})

MaxKeep == Max({2 * MaxStopLen, MinKeep})

\* Mutant: the span of a code point starts at its last token.
SpansLastToken(idx, start, end) == Append(seq.spans, [idx |-> idx, start |-> start, end |-> end])

\* One span per code point, from its first contributing token.
SpansAfter(idx, start, end) ==
    IF end = start THEN seq.spans
    ELSE IF seq.pending # NoPending
    THEN Append(seq.spans, [idx |-> seq.pending[1], start |-> seq.pending[2], end |-> end])
    ELSE Append(seq.spans, [idx |-> idx, start |-> start, end |-> end])

PendingAfter(idx, start, end) ==
    IF end # start THEN NoPending
    ELSE IF seq.pending = NoPending THEN <<idx, start>> ELSE seq.pending

\* The sequence with token t appended, before stop evaluation.
Extended(t, out) ==
    LET idx == Len(seq.generated)
        start == seq.tail_start + Len(seq.tail)
        end == start + Len(out)
    IN  [generated |-> Append(seq.generated, t),
         tail |-> seq.tail \o out,
         tail_start |-> seq.tail_start,
         spans |-> SpansAfter(idx, start, end),
         pending |-> PendingAfter(idx, start, end)]

\* First token whose span ends after the match start.
CutTokenIdx(s, match) ==
    LET hit == {n \in DOMAIN s.spans : s.spans[n].end > match}
    IN  IF hit = {} THEN Len(s.generated) - 1 ELSE s.spans[Min(hit)].idx

TargetKeep == MaxStopLen

\* Bytes drained from the front of the tail: up to the first character that
\* starts at or after the excess, or the excess itself when there is none.
TrimBytes(tail) ==
    LET excess == Len(tail) - TargetKeep
        starts == {i \in 0..Len(tail)-1 : ~IsCont(tail[i+1]) /\ i >= excess}
    IN  IF starts = {} THEN excess ELSE Min(starts)

NeedsTrim(s) == MaxStopLen > 0 /\ Len(s.tail) > MaxKeep

\* String::drain panics when its end is not a character boundary.
TrimPanics(s) ==
    LET n == TrimBytes(s.tail)
    IN  NeedsTrim(s) /\ n < Len(s.tail) /\ IsCont(s.tail[n+1])

\* The spans that end after byte b, in their order.
RetainAfter(spans, b) ==
    LET kept[n \in 0..Len(spans)] ==
            IF n = 0 THEN <<>>
            ELSE IF spans[n].end > b THEN Append(kept[n-1], spans[n]) ELSE kept[n-1]
    IN  kept[Len(spans)]

Trimmed(s) ==
    LET n == TrimBytes(s.tail) IN
    IF ~NeedsTrim(s) THEN s
    ELSE [generated |-> s.generated,
          tail |-> SubSeq(s.tail, n + 1, Len(s.tail)),
          tail_start |-> s.tail_start + n,
          spans |-> RetainAfter(s.spans, s.tail_start + n),
          pending |-> s.pending]

\* Outcome of an accepted token, in the order the code decides.
Outcome(t, s, d) ==
    IF Len(seq.generated) + 1 >= MaxTokens THEN "max_tokens"
    ELSE IF BufferedLen(d, id) > 0 THEN "buffered"
    ELSE IF t \in EosIds THEN "eos"
    ELSE IF MatchOffsets(s.tail) # {} THEN "stop_string"
    ELSE "continue"

-------------------------------------------------------------------------------
ResetTail == [generated |-> <<>>, tail |-> <<>>, tail_start |-> 0, spans |-> <<>>,
             pending |-> NoPending]

TailInit ==
    /\ stops \in StopSets
    /\ id \in TailSeqs /\ \A s \in TailSeqs : id <= s
    /\ seq = ResetTail
    /\ det = EmptyDet(NoSeq)
    /\ phase = "run"
    /\ sampled = <<>> /\ text = <<>> /\ text_at = <<>>

AppendGenerated(t) ==
    LET r == AppendToken(id, t)
        s == Extended(t, r.out)
        o == Outcome(t, s, r.det)
    IN  /\ phase = "run" /\ r.ok
        /\ det' = r.det
        /\ sampled' = Append(sampled, t)
        /\ text' = text \o r.out
        /\ text_at' = Append(text_at, Len(text'))
        /\ seq' = IF o = "stop_string"
                  THEN [s EXCEPT !.generated =
                            SubSeq(@, 1, CutTokenIdx(s, s.tail_start + EarliestMatch(s.tail)))]
                  ELSE IF o = "continue" /\ ~TrimPanics(s) THEN Trimmed(s)
                  ELSE s
        /\ phase' = IF o \in {"max_tokens", "eos", "stop_string"} THEN o
                    ELSE IF o = "continue" /\ TrimPanics(s) THEN "panicked"
                    ELSE "run"
        /\ UNCHANGED <<stops, id>>

\* The detokenizer rejects the sampled token: rollback_append restores the
\* sequence, the detokenizer keeps what the rejection made of it.
RejectToken(t) ==
    LET r == AppendToken(id, t)
    IN  /\ phase = "run" /\ ~r.ok
        /\ det' = r.det
        /\ UNCHANGED <<stops, id, seq, phase, sampled, text, text_at>>

DetReset == IF det.active = id THEN EmptyDet(NoSeq) ELSE det

\* A finished or cancelled sequence resets tail and detokenizer; the next one
\* starts on them.
NextSequence ==
    /\ phase # "panicked" /\ id + 1 \in TailSeqs
    /\ id' = id + 1
    /\ seq' = ResetTail
    /\ det' = DetReset
    /\ phase' = "run"
    /\ sampled' = <<>> /\ text' = <<>> /\ text_at' = <<>>
    /\ UNCHANGED stops

TailNext == (\E t \in TokenIds : AppendGenerated(t) \/ RejectToken(t)) \/ NextSequence

TailSpec == TailInit /\ [][TailNext]_tailVars

-------------------------------------------------------------------------------
\* Although only a bounded tail of the text is kept and searched, a sequence
\* that is still running has no stop string anywhere in its whole text.
NoMissedStop == phase = "run" => MatchOffsets(text) = {}

\* A sequence stopped by a stop string keeps exactly the tokens before the one
\* that starts the match: the shortest prefix whose text reaches the match, so
\* neither the matched text nor a dangling lead byte is left.
CutExact ==
    phase = "stop_string" =>
        LET match == EarliestMatch(text)
            reach == {0} \cup DOMAIN text_at
            at(c) == IF c = 0 THEN 0 ELSE text_at[c]
        IN  /\ Len(seq.generated) = Min({c \in reach : at(c) = match})
            /\ IsPrefix(seq.generated, sampled)

\* The tail is the end of the text from tail_start, bounded, and the spans
\* partition it: every byte belongs to one code point's span.
TailIsSuffix ==
    phase = "run" =>
        /\ seq.tail_start + Len(seq.tail) = Len(text)
        /\ seq.tail = SubSeq(text, seq.tail_start + 1, Len(text))
        /\ MaxStopLen > 0 => Len(seq.tail) <= MaxKeep
        /\ \A i \in seq.tail_start..Len(text)-1 :
              Cardinality({n \in DOMAIN seq.spans : i \in seq.spans[n].start..seq.spans[n].end-1}) = 1

\* Nothing of one sequence is decoded into another, and what is decoded is
\* made of bytes of accepted tokens only, in order.
TextFromOwnTokens ==
    Len(text) + BufferedLen(det, id) <= Len(sampled)
    /\ (BufferedLen(det, id) > 0 =>
            SubSeq(sampled, Len(sampled) - Len(det.buf) + 1, Len(sampled)) = det.buf)

\* No token the device may sample makes append_generated_token panic.
NeverPanics == phase # "panicked"

\* The bounded tail misses no stop string, cuts at the token where the match
\* begins, stays a suffix of the sequence's own text, and that text comes from
\* its own tokens only.
StopsExact == NoMissedStop /\ CutExact /\ TailIsSuffix /\ TextFromOwnTokens

=============================================================================
