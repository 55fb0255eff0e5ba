------------------------------- MODULE TextProofs -----------------------------
(***************************************************************************)
(* The bounded tail of a sequence loses nothing: whatever tokens are       *)
(* sampled and rejected, a stop string is found as if the whole text had   *)
(* been searched, and the output is cut where it begins.  The stream of    *)
(* the loader hands out the text that decoding all pieces at once shows.   *)
(***************************************************************************)
EXTENDS StopTail, StreamDetokenizer, RecursionProofs, FiniteSetTheorems, SequenceTheorems, TLAPS

-------------------------------------------------------------------------------
(* Stop strings and matches, for any stop criteria st *)

StopSet(st) ==
    /\ st \in Seq(Seq(Nat))
    /\ \A n \in DOMAIN st : st[n] # <<>> => ~IsCont(st[n][1])

StopLen(st) == Max({0} \cup {Len(st[n]) : n \in DOMAIN st})

Matches(st, txt) ==
    {i \in 0..Len(txt) : \E n \in DOMAIN st : st[n] # <<>> /\ OccursAt(st[n], txt, i)}

LEMMA OfStops ==
    MaxStopLen = StopLen(stops) /\ \A txt : MatchOffsets(txt) = Matches(stops, txt)
  BY DEF MaxStopLen, StopLen, MatchOffsets, Matches

LEMMA LeastIsMin ==
    ASSUME NEW S \in SUBSET Nat, S # {}
    PROVE  Min(S) \in S /\ \A x \in S : Min(S) <= x
  <1>1. \E x \in S : \A y \in S : x <= y
    BY LeastExists
  <1> QED
    BY <1>1 DEF Min

\* A least element is the one Min picks.
LEMMA MinIs ==
    ASSUME NEW S \in SUBSET Nat, NEW m \in S, \A x \in S : m <= x
    PROVE  Min(S) = m
  <1>1. Min(S) \in S /\ \A x \in S : Min(S) <= x
    BY LeastIsMin
  <1> DEFINE x == Min(S)
  <1>2. x \in Nat /\ m \in Nat /\ x <= m /\ m <= x
    BY <1>1
  <1> HIDE DEF x
  <1>3. x = m
    BY <1>2
  <1> QED
    BY <1>3 DEF x

\* The longest stop string has the length StopLen.
LEMMA StopLenBounds ==
    ASSUME NEW st, StopSet(st)
    PROVE  StopLen(st) \in Nat /\ \A n \in DOMAIN st : Len(st[n]) <= StopLen(st)
  <1> DEFINE k == Len(st)
             L == {0} \cup {Len(st[n]) : n \in DOMAIN st}
             U == {b \in Nat : \A x \in L : x <= b}
  <1>1. k \in Nat /\ DOMAIN st = 1..k /\ \A n \in 1..k : Len(st[n]) \in Nat
    BY DEF StopSet
  <1> DEFINE T == {m \in Nat : m <= k => \E b \in Nat : \A n \in 1..m : Len(st[n]) <= b}
  <1>2. Nat \subseteq T
    <2>1. 0 \in T
      <3>1. \A n \in 1..0 : Len(st[n]) <= 0
        OBVIOUS
      <3> QED
        BY <3>1
    <2>2. ASSUME NEW m \in T PROVE m + 1 \in T
      <3>1. SUFFICES ASSUME m + 1 <= k PROVE \E b \in Nat : \A n \in 1..m+1 : Len(st[n]) <= b
        OBVIOUS
      <3>2. m \in Nat /\ m <= k
        BY <1>1, <3>1
      <3>3. PICK b \in Nat : \A n \in 1..m : Len(st[n]) <= b
        BY <3>2
      <3>4. m + 1 \in 1..k /\ Len(st[m+1]) \in Nat
        BY <1>1, <3>1
      <3> DEFINE c == b + Len(st[m+1])
      <3>5. c \in Nat /\ b <= c /\ Len(st[m+1]) <= c
        BY <3>4
      <3> HIDE DEF c
      <3>6. \A n \in 1..m+1 : n \in 1..k /\ (n \in 1..m \/ n = m + 1)
        BY <1>1, <3>1, <3>2
      <3>7. \A n \in 1..m+1 : Len(st[n]) <= c
        BY <1>1, <3>3, <3>5, <3>6
      <3> QED
        BY <3>5, <3>7
    <2>3. T \subseteq Nat
      OBVIOUS
    <2> HIDE DEF T
    <2> QED
      BY <2>1, <2>2, <2>3, SetInduction
  <1>3. PICK b \in Nat : \A n \in 1..k : Len(st[n]) <= b
    <2>1. k \in T
      BY <1>1, <1>2
    <2>2. k <= k
      BY <1>1
    <2> QED
      BY <2>1, <2>2, Zenon
  <1>4. b \in U
    BY <1>1, <1>3
  <1>5. L \in SUBSET Nat /\ 0 \in L
    BY <1>1
  <1> DEFINE u == Min(U)
  <1> HIDE DEF L, U
  <1>6. u \in U /\ \A x \in U : u <= x
    <2>1. U \in SUBSET Nat /\ U # {}
      BY <1>4 DEF U
    <2> QED
      BY <2>1, LeastIsMin
  <1> HIDE DEF u
  <1>7. u \in Nat /\ \A x \in L : x <= u
    BY <1>6 DEF U
  <1>8. u \in L
    <2>1. SUFFICES ASSUME u \notin L PROVE FALSE
      OBVIOUS
    <2>2. u # 0
      BY <1>5, <2>1
    <2>3. u - 1 \in Nat
      BY <1>7, <2>2
    <2>4. \A x \in L : x <= u - 1
      BY <1>5, <1>7, <2>1
    <2>5. u - 1 \in U
      BY <2>3, <2>4 DEF U
    <2> QED
      BY <1>6, <1>7, <2>5
  <1>9. \E x \in L : \A y \in L : x >= y
    BY <1>5, <1>7, <1>8
  <1>10. Max(L) \in L /\ \A y \in L : Max(L) >= y
    BY <1>9 DEF Max
  <1>11. StopLen(st) = Max(L)
    BY DEF StopLen, L
  <1>12. \A n \in DOMAIN st : Len(st[n]) \in L
    BY DEF L
  <1> QED
    BY <1>5, <1>10, <1>11, <1>12

\* An occurrence, byte by byte.
LEMMA OccursBytes ==
    ASSUME NEW str \in Seq(Nat), NEW txt \in Seq(Nat), NEW i \in Nat
    PROVE  OccursAt(str, txt, i)
           <=> i + Len(str) <= Len(txt) /\ \A k \in 1..Len(str) : txt[i + k] = str[k]
  <1> DEFINE m == Len(str)
             sub == SubSeq(txt, i + 1, i + m)
  <1>1. m \in Nat /\ Len(txt) \in Nat
    OBVIOUS
  <1>2. OccursAt(str, txt, i) <=> i + m <= Len(txt) /\ sub = str
    BY DEF OccursAt
  <1>3. ASSUME i + m <= Len(txt) PROVE sub = str <=> \A k \in 1..m : txt[i + k] = str[k]
    <2>1. \A k \in i+1..i+m : txt[k] \in Nat
      BY <1>1, <1>3
    <2>2. i + 1 \in Int /\ i + m \in Int
      BY <1>1
    <2> HIDE DEF m
    <2>3. sub \in Seq(Nat) /\ Len(sub) = IF i + 1 <= i + m THEN (i + m) - (i + 1) + 1 ELSE 0
      BY <2>1, <2>2, SubSeqProperties
    <2>4. \A k \in 1..(i + m) - (i + 1) + 1 : sub[k] = txt[(i + 1) + k - 1]
      BY <2>1, <2>2, SubSeqProperties
    <2> HIDE DEF sub
    <2>5. Len(sub) = m
      BY <1>1, <2>3
    <2>6. \A k \in 1..m : sub[k] = txt[i + k]
      <3>1. \A k \in 1..m : k \in 1..(i + m) - (i + 1) + 1 /\ (i + 1) + k - 1 = i + k
        BY <1>1
      <3> QED
        BY <2>4, <3>1
    <2>7. (\A k \in 1..m : sub[k] = str[k]) => sub = str
      BY <2>3, <2>5, SeqEqual DEF m
    <2> QED
      BY <2>6, <2>7
  <1> QED
    BY <1>2, <1>3

-------------------------------------------------------------------------------
(* The inductive invariant *)

\* The length of the text after c tokens, ta being text_at.
TextAfter(ta, c) == IF c = 0 THEN 0 ELSE ta[c]

\* The text reaches b bytes with the c-th token and not before.
Reaches(ta, c, b) == TextAfter(ta, c) = b /\ \A d \in 0..c-1 : TextAfter(ta, d) < b

\* sm, tx and ta are the tokens, the text and its lengths.
HistoryOK(sm, tx, ta) ==
    /\ sm \in Seq(Nat) /\ tx \in Seq(Nat) /\ ta \in Seq(Nat)
    /\ Len(ta) = Len(sm)
    /\ TextAfter(ta, Len(sm)) = Len(tx)
    /\ \A c \in 0..Len(sm) : TextAfter(ta, c) \in Nat /\ TextAfter(ta, c) <= Len(tx)

Span == [idx : Nat, start : Nat, end : Nat]

\* A span is a code point: its bytes after the first are continuation bytes,
\* and its token is the one before which the text had reached its start.
SpanOK(p, sm, tx, ta) ==
    /\ p.idx <= Len(sm)
    /\ p.start < p.end /\ p.end <= Len(tx)
    /\ Reaches(ta, p.idx, p.start)
    /\ \A i \in p.start + 1 .. p.end - 1 : IsCont(tx[i + 1])

SpansOK(spans, from, sm, tx, ta) ==
    /\ spans \in Seq(Span)
    /\ \A n \in 1..Len(spans) : SpanOK(spans[n], sm, tx, ta)
    /\ \A n, m \in 1..Len(spans) : n < m => spans[n].end <= spans[m].start
    /\ \A i \in from .. Len(tx) - 1 :
          \E n \in 1..Len(spans) : spans[n].start <= i /\ i < spans[n].end

\* The next code point starts with the pending token, or with the next one.
PendingOK(pd, sm, tx, ta) ==
    \/ pd = <<>> /\ Reaches(ta, Len(sm), Len(tx))
    \/ \E i \in 0..Len(sm) : pd = <<i, Len(tx)>> /\ Reaches(ta, i, Len(tx))

\* The tail is the end of the text, and a stop string that starts at a
\* character before it would lie in the text already.
TailOK(st, tail, from, tx) ==
    /\ tail \in Seq(Nat) /\ from \in Nat /\ from + Len(tail) = Len(tx)
    /\ \A i \in 1..Len(tail) : tail[i] = tx[from + i]
    /\ \A i \in 0..from-1 : ~IsCont(tx[i + 1]) => i + StopLen(st) <= Len(tx)

SeqRecord ==
    [generated : Seq(Nat), tail : Seq(Nat), tail_start : Nat, spans : Seq(Span),
     pending : {<<>>} \cup (Nat \X Nat)]

\* What append_generated_token keeps true of the sequence up to the trimming.
SeqOK(st, sq, sm, tx, ta) ==
    /\ sq \in SeqRecord
    /\ sq.generated = sm
    /\ SpansOK(sq.spans, sq.tail_start, sm, tx, ta)
    /\ PendingOK(sq.pending, sm, tx, ta)
    /\ TailOK(st, sq.tail, sq.tail_start, tx)

KeepOf(st) == Max({2 * StopLen(st), MinKeep})

RunningOK(st, sq, sm, tx, ta) ==
    /\ SeqOK(st, sq, sm, tx, ta)
    /\ Matches(st, tx) = {}
    /\ StopLen(st) > 0 => Len(sq.tail) <= KeepOf(st)

\* The detokenizer holds a part of a code point, made of the last tokens, and
\* only of the current sequence.
DetOK(d, s, sm, tx) ==
    /\ d \in [active : Nat, buf : Seq(Nat), expected : Nat]
    /\ d.active <= s
    /\ d.active = s => /\ Len(tx) + Len(d.buf) <= Len(sm)
                       /\ \A k \in 1..Len(d.buf) : d.buf[k] = sm[Len(sm) - Len(d.buf) + k]
                       /\ \A k \in 2..Len(d.buf) : IsCont(d.buf[k])
    /\ Len(tx) <= Len(sm)

CutOK(st, sq, sm, tx, ta) ==
    LET match == Min(Matches(st, tx))
    IN  /\ sq.generated \in Seq(Nat)
        /\ Len(sq.generated) = Min({c \in 0..Len(sm) : TextAfter(ta, c) = match})
        /\ IsPrefix(sq.generated, sm)

TailInv ==
    /\ stops \in StopSets
    /\ id \in Nat \ {0}
    /\ HistoryOK(sampled, text, text_at)
    /\ DetOK(det, id, sampled, text)
    /\ phase = "run" => RunningOK(stops, seq, sampled, text, text_at)
    /\ phase = "stop_string" => CutOK(stops, seq, sampled, text, text_at)

-------------------------------------------------------------------------------
(* The detokenizer *)

\* What append_token does with a token it accepts: it keeps it as a part of a
\* code point, or completes one.
TokenBuffered(r, t, s, sm) ==
    /\ r.out = <<>>
    /\ BufferedLen(r.det, s) > 0

TokenCompletes(r, t, s, sm) ==
    /\ r.out \in Seq(Nat) /\ Len(r.out) > 0
    /\ \A k \in 2..Len(r.out) : IsCont(r.out[k])
    /\ BufferedLen(r.det, s) = 0

LEMMA DetForOK ==
    ASSUME id \in Nat \ {0}, DetOK(det, id, sampled, text), text \in Seq(Nat), sampled \in Seq(Nat)
    PROVE  /\ DetFor(id) \in [active : Nat, buf : Seq(Nat), expected : Nat]
           /\ DetFor(id).active = id
           /\ DetOK(DetFor(id), id, sampled, text)
  <1>1. CASE det.active = id
    BY <1>1 DEF DetFor, DetOK
  <1>2. CASE det.active # id
    <2> DEFINE d == DetFor(id)
    <2>1. d = [active |-> id, buf |-> <<>>, expected |-> 0]
      BY <1>2 DEF DetFor, EmptyDet
    <2>2. d \in [active : Nat, buf : Seq(Nat), expected : Nat]
          /\ d.active = id /\ d.buf = <<>>
      BY <2>1
    <2> HIDE DEF d
    <2>3. Len(text) <= Len(sampled) /\ Len(text) \in Nat /\ Len(d.buf) = 0
      BY <2>2 DEF DetOK
    <2>4. DetOK(d, id, sampled, text)
      BY <2>2, <2>3 DEF DetOK
    <2> QED
      BY <2>2, <2>4 DEF d
  <1> QED
    BY <1>1, <1>2

\* A detokenizer with nothing buffered is right whatever was sampled.
LEMMA EmptyDetOK ==
    ASSUME NEW s \in Nat, NEW a \in Nat, a <= s, NEW x \in Nat,
           NEW sm \in Seq(Nat), NEW tx \in Seq(Nat), Len(tx) <= Len(sm),
           NEW d, d = [active |-> a, buf |-> <<>>, expected |-> x]
    PROVE  DetOK(d, s, sm, tx)
  <1>1. d \in [active : Nat, buf : Seq(Nat), expected : Nat] /\ d.active = a /\ d.buf = <<>>
    OBVIOUS
  <1>2. Len(d.buf) = 0 /\ Len(tx) + 0 = Len(tx)
    BY <1>1
  <1> QED
    BY <1>1, <1>2 DEF DetOK

\* The last tokens, when one more is sampled.
LEMMA BufferGrows ==
    ASSUME NEW s \in Nat, NEW sm \in Seq(Nat), NEW tx \in Seq(Nat), NEW t \in Nat,
           NEW b \in Seq(Nat), NEW x \in Nat,
           Len(tx) + Len(b) <= Len(sm),
           \A k \in 1..Len(b) : b[k] = sm[Len(sm) - Len(b) + k],
           \A k \in 2..Len(b) : IsCont(b[k]),
           b # <<>> => IsCont(t),
           NEW d, d = [active |-> s, buf |-> Append(b, t), expected |-> x]
    PROVE  DetOK(d, s, Append(sm, t), tx) /\ BufferedLen(d, s) > 0
  <1> DEFINE B == Append(b, t)
             M == Append(sm, t)
             n == Len(b)
             m == Len(sm)
  <1>1. /\ n \in Nat /\ m \in Nat /\ Len(tx) \in Nat
        /\ B \in Seq(Nat) /\ Len(B) = n + 1 /\ B[n + 1] = t /\ \A k \in 1..n : B[k] = b[k]
        /\ M \in Seq(Nat) /\ Len(M) = m + 1 /\ M[m + 1] = t /\ \A k \in 1..m : M[k] = sm[k]
    OBVIOUS
  <1>2. d \in [active : Nat, buf : Seq(Nat), expected : Nat] /\ d.active = s /\ d.buf = B
    BY <1>1
  <1>3. /\ n # 0 => b # <<>>
        /\ Len(tx) + n <= m
        /\ \A k \in 1..n : b[k] = sm[m - n + k]
        /\ \A k \in 2..n : IsCont(b[k])
    OBVIOUS
  <1> HIDE DEF B, M, n, m
  <1>4. Len(tx) + (n + 1) <= m + 1 /\ Len(tx) <= m + 1
    <2> DEFINE l == Len(tx)
    <2>1. l \in Nat /\ n \in Nat /\ m \in Nat
      BY <1>1
    <2>2. l + n <= m
      BY <1>3
    <2> HIDE DEF l
    <2>3. l + (n + 1) <= m + 1 /\ l <= m + 1
      BY <2>1, <2>2
    <2> QED
      BY <2>3 DEF l
  <1>5. \A k \in 1..n+1 : B[k] = M[(m + 1) - (n + 1) + k]
    <2>1. TAKE k \in 1..n+1
    <2>2. CASE k = n + 1
      <3>1. (m + 1) - (n + 1) + k = m + 1
        BY <1>1, <2>2
      <3> QED
        BY <1>1, <2>2, <3>1
    <2>3. CASE k # n + 1
      <3>0. n \in Nat /\ m \in Nat /\ n <= m /\ k \in Nat
        BY <1>1, <1>3
      <3>1. k \in 1..n /\ (m + 1) - (n + 1) + k = m - n + k /\ m - n + k \in 1..m
        BY <3>0, <2>3
      <3>2. b[k] = sm[m - n + k]
        BY <1>3, <3>1
      <3> QED
        BY <1>1, <3>1, <3>2
    <2> QED
      BY <2>2, <2>3
  <1>6. \A k \in 2..n+1 : IsCont(B[k])
    <2>1. TAKE k \in 2..n+1
    <2>2. CASE k = n + 1
      BY <1>1, <1>3, <2>2
    <2>3. CASE k # n + 1
      <3>1. k \in 2..n /\ k \in 1..n
        BY <1>1, <2>3
      <3> QED
        BY <1>1, <1>3, <3>1
    <2> QED
      BY <2>2, <2>3
  <1>7. DetOK(d, s, M, tx)
    <2>1. Len(d.buf) = n + 1 /\ Len(M) = m + 1
      BY <1>1, <1>2
    <2>2. Len(tx) + Len(d.buf) <= Len(M) /\ Len(tx) <= Len(M)
      BY <1>4, <2>1
    <2>3. \A k \in 1..Len(d.buf) : d.buf[k] = M[Len(M) - Len(d.buf) + k]
      BY <1>2, <1>5, <2>1
    <2>4. \A k \in 2..Len(d.buf) : IsCont(d.buf[k])
      BY <1>2, <1>6, <2>1
    <2>5. d.active <= s
      BY <1>2
    <2> QED
      BY <1>2, <2>2, <2>3, <2>4, <2>5 DEF DetOK
  <1>8. BufferedLen(d, s) = n + 1
    BY <1>1, <1>2 DEF BufferedLen
  <1> QED
    BY <1>1, <1>7, <1>8 DEF M

\* append_token, accepting: the text grows by a code point made of the buffer
\* and the token, or the buffer grows.
LEMMA TokenAccepted ==
    ASSUME id \in Nat \ {0}, DetOK(det, id, sampled, text), text \in Seq(Nat), sampled \in Seq(Nat),
           NEW t \in Nat, AppendToken(id, t).ok
    PROVE  LET r == AppendToken(id, t)
           IN  /\ r.out \in Seq(Nat)
               /\ TokenBuffered(r, t, id, sampled) \/ TokenCompletes(r, t, id, sampled)
               /\ DetOK(r.det, id, Append(sampled, t), text \o r.out)
  <1> DEFINE r == AppendToken(id, t)
             d == DetFor(id)
             char == Append(d.buf, t)
  <1>1. d \in [active : Nat, buf : Seq(Nat), expected : Nat] /\ d.active = id
        /\ DetOK(d, id, sampled, text)
    BY DetForOK
  <1>2. /\ d.buf \in Seq(Nat) /\ d.expected \in Nat /\ Len(text) + Len(d.buf) <= Len(sampled)
        /\ \A k \in 1..Len(d.buf) : d.buf[k] = sampled[Len(sampled) - Len(d.buf) + k]
        /\ \A k \in 2..Len(d.buf) : IsCont(d.buf[k])
    BY <1>1 DEF DetOK
  <1>3. r = IF t > 255 THEN [ok |-> FALSE, out |-> <<>>, det |-> det]
            ELSE IF d.buf = <<>>
            THEN IF ExpectedLen(t) = 0 THEN [ok |-> FALSE, out |-> <<>>, det |-> d]
                 ELSE IF ExpectedLen(t) = 1 THEN [ok |-> TRUE, out |-> <<t>>, det |-> d]
                 ELSE [ok |-> TRUE, out |-> <<>>,
                       det |-> [active |-> id, buf |-> char, expected |-> ExpectedLen(t)]]
            ELSE IF ~IsCont(t) THEN [ok |-> FALSE, out |-> <<>>, det |-> EmptyDet(id)]
            ELSE IF Len(char) < d.expected
            THEN [ok |-> TRUE, out |-> <<>>,
                  det |-> [active |-> id, buf |-> char, expected |-> d.expected]]
            ELSE [ok |-> ValidUtf8(char), out |-> char, det |-> EmptyDet(id)]
    BY DEF AppendToken
  <1>4. r.ok
    OBVIOUS
  <1>5. ExpectedLen(t) \in Nat
    BY DEF ExpectedLen
  <1> HIDE DEF r, d
  <1>6. Len(Append(sampled, t)) = Len(sampled) + 1 /\ Append(sampled, t) \in Seq(Nat)
        /\ Len(sampled) \in Nat /\ Len(text) \in Nat /\ Len(d.buf) \in Nat
    BY <1>2
  <1>7. ASSUME NEW x \in Nat, r.out = <<>>, d.buf # <<>> => IsCont(t),
               r.det = [active |-> id, buf |-> char, expected |-> x]
        PROVE  /\ r.out \in Seq(Nat)
               /\ TokenBuffered(r, t, id, sampled)
               /\ DetOK(r.det, id, Append(sampled, t), text \o r.out)
    <2>1. text \o r.out = text
      BY <1>7
    <2>2. DetOK(r.det, id, Append(sampled, t), text) /\ BufferedLen(r.det, id) > 0
      BY <1>2, <1>7, BufferGrows
    <2> QED
      BY <1>7, <2>1, <2>2 DEF TokenBuffered
  <1>8. ASSUME NEW x \in Nat, r.out \in Seq(Nat), Len(r.out) > 0, Len(r.out) = Len(d.buf) + 1,
               \A k \in 2..Len(r.out) : IsCont(r.out[k]),
               r.det = [active |-> id, buf |-> <<>>, expected |-> x]
        PROVE  /\ TokenCompletes(r, t, id, sampled)
               /\ DetOK(r.det, id, Append(sampled, t), text \o r.out)
    <2>1. text \o r.out \in Seq(Nat) /\ Len(text \o r.out) = Len(text) + Len(r.out)
      <3>1. text \in Seq(Nat) /\ r.out \in Seq(Nat)
        BY <1>8
      <3> QED
        BY <3>1, ConcatProperties
    <2>2. Len(text \o r.out) <= Len(Append(sampled, t))
      BY <1>2, <1>6, <1>8, <2>1
    <2>3. DetOK(r.det, id, Append(sampled, t), text \o r.out)
      <3> DEFINE tx == text \o r.out
                 sm == Append(sampled, t)
      <3>1. tx \in Seq(Nat) /\ sm \in Seq(Nat) /\ Len(tx) <= Len(sm) /\ id \in Nat /\ id <= id
        BY <1>6, <2>1, <2>2
      <3> HIDE DEF tx, sm
      <3>2. DetOK(r.det, id, sm, tx)
        BY <1>8, <3>1, EmptyDetOK
      <3> QED
        BY <3>2 DEF tx, sm
    <2>4. BufferedLen(r.det, id) = 0
      BY <1>8 DEF BufferedLen
    <2> QED
      BY <1>8, <2>3, <2>4 DEF TokenCompletes
  <1>9. CASE d.buf = <<>>
    <2>1. CASE ExpectedLen(t) = 1
      <3>1. r.out = <<t>> /\ r.det = d
        BY <1>3, <1>4, <1>9, <2>1
      <3>2. d = [active |-> id, buf |-> <<>>, expected |-> d.expected]
        BY <1>1, <1>9
      <3>3. r.out \in Seq(Nat) /\ Len(r.out) = 1 /\ Len(d.buf) = 0
        BY <1>9, <3>1
      <3>4. \A k \in 2..Len(r.out) : IsCont(r.out[k])
        BY <3>3
      <3> QED
        BY <1>2, <1>8, <3>1, <3>2, <3>3, <3>4 DEF r
    <2>2. CASE ExpectedLen(t) # 1
      <3>1. r.out = <<>> /\ r.det = [active |-> id, buf |-> char, expected |-> ExpectedLen(t)]
        BY <1>3, <1>4, <1>9, <2>2
      <3> QED
        BY <1>5, <1>7, <1>9, <3>1 DEF r
    <2> QED
      BY <2>1, <2>2
  <1>10. CASE d.buf # <<>>
    <2>1. IsCont(t)
      BY <1>3, <1>4, <1>10
    <2>2. CASE Len(char) < d.expected
      <3>1. r.out = <<>> /\ r.det = [active |-> id, buf |-> char, expected |-> d.expected]
        BY <1>3, <1>4, <1>10, <2>1, <2>2
      <3> QED
        BY <1>2, <1>7, <2>1, <3>1 DEF r
    <2>3. CASE ~(Len(char) < d.expected)
      <3>1. r.out = char /\ r.det = EmptyDet(id)
        BY <1>3, <1>4, <1>10, <2>1, <2>3
      <3>2. char \in Seq(Nat) /\ Len(char) = Len(d.buf) + 1 /\ char[Len(d.buf) + 1] = t
            /\ \A k \in 1..Len(d.buf) : char[k] = d.buf[k]
        BY <1>2
      <3> HIDE DEF char
      <3>3. \A k \in 2..Len(char) : IsCont(char[k])
        <4>1. TAKE k \in 2..Len(char)
        <4>2. CASE k = Len(d.buf) + 1
          BY <2>1, <3>2, <4>2
        <4>3. CASE k # Len(d.buf) + 1
          <5>1. k \in 2..Len(d.buf) /\ k \in 1..Len(d.buf)
            BY <1>6, <3>2, <4>3
          <5> QED
            BY <1>2, <3>2, <5>1
        <4> QED
          BY <4>2, <4>3
      <3>4. Len(r.out) > 0 /\ r.det = [active |-> id, buf |-> <<>>, expected |-> 0]
        BY <1>6, <3>1, <3>2 DEF EmptyDet
      <3> QED
        BY <1>8, <3>1, <3>2, <3>3, <3>4 DEF r
    <2> QED
      BY <2>2, <2>3
  <1> QED
    BY <1>9, <1>10

\* append_token, refusing: nothing is kept of the code point.
LEMMA TokenRefused ==
    ASSUME id \in Nat \ {0}, DetOK(det, id, sampled, text), text \in Seq(Nat), sampled \in Seq(Nat),
           NEW t \in Nat, ~AppendToken(id, t).ok
    PROVE  DetOK(AppendToken(id, t).det, id, sampled, text)
  <1> DEFINE r == AppendToken(id, t)
             d == DetFor(id)
             char == Append(d.buf, t)
             e == EmptyDet(id)
  <1>1. DetOK(d, id, sampled, text)
    BY DetForOK
  <1>2. DetOK(e, id, sampled, text)
    <2>1. e = [active |-> id, buf |-> <<>>, expected |-> 0]
      BY DEF EmptyDet
    <2>2. Len(text) <= Len(sampled) /\ id \in Nat /\ id <= id
      BY DEF DetOK
    <2> HIDE DEF e
    <2> QED
      BY <2>1, <2>2, EmptyDetOK
  <1>3. r = IF t > 255 THEN [ok |-> FALSE, out |-> <<>>, det |-> det]
            ELSE IF d.buf = <<>>
            THEN IF ExpectedLen(t) = 0 THEN [ok |-> FALSE, out |-> <<>>, det |-> d]
                 ELSE IF ExpectedLen(t) = 1 THEN [ok |-> TRUE, out |-> <<t>>, det |-> d]
                 ELSE [ok |-> TRUE, out |-> <<>>,
                       det |-> [active |-> id, buf |-> char, expected |-> ExpectedLen(t)]]
            ELSE IF ~IsCont(t) THEN [ok |-> FALSE, out |-> <<>>, det |-> e]
            ELSE IF Len(char) < d.expected
            THEN [ok |-> TRUE, out |-> <<>>,
                  det |-> [active |-> id, buf |-> char, expected |-> d.expected]]
            ELSE [ok |-> ValidUtf8(char), out |-> char, det |-> e]
    BY DEF AppendToken
  <1>4. ~r.ok
    OBVIOUS
  <1> HIDE DEF r, d, e, char
  <1>5. r.det = det \/ r.det = d \/ r.det = e
    BY <1>3, <1>4
  <1>6. DetOK(r.det, id, sampled, text)
    BY <1>1, <1>2, <1>5
  <1> QED
    BY <1>6 DEF r

-------------------------------------------------------------------------------
(* A token joins the sequence *)

\* One more token and maybe more text: what was recorded stays true.
Grown(sm, tx, ta, sm2, tx2, ta2) ==
    /\ HistoryOK(sm, tx, ta) /\ HistoryOK(sm2, tx2, ta2)
    /\ Len(sm2) = Len(sm) + 1 /\ Len(tx) <= Len(tx2)
    /\ \A i \in 1..Len(tx) : tx2[i] = tx[i]
    /\ \A c \in 0..Len(sm) : TextAfter(ta2, c) = TextAfter(ta, c)

GrownBy(sm, tx, ta, sm2, tx2, ta2, out) ==
    /\ Grown(sm, tx, ta, sm2, tx2, ta2)
    /\ Len(tx2) = Len(tx) + Len(out) /\ Len(out) \in Nat /\ Len(tx) \in Nat /\ Len(sm) \in Nat
    /\ \A k \in 1..Len(out) : tx2[Len(tx) + k] = out[k]

LEMMA HistoryGrows ==
    ASSUME NEW sm, NEW tx, NEW ta, HistoryOK(sm, tx, ta), NEW t \in Nat, NEW out \in Seq(Nat),
           NEW sm2, sm2 = Append(sm, t), NEW tx2, tx2 = tx \o out,
           NEW ta2, ta2 = Append(ta, Len(tx2))
    PROVE  GrownBy(sm, tx, ta, sm2, tx2, ta2, out)
  <1> DEFINE n == Len(sm)
             l == Len(tx)
             o == Len(out)
  <1>1. sm \in Seq(Nat) /\ tx \in Seq(Nat) /\ ta \in Seq(Nat) /\ Len(ta) = n
        /\ n \in Nat /\ l \in Nat /\ o \in Nat
    BY DEF HistoryOK
  <1>2. sm2 \in Seq(Nat) /\ Len(sm2) = n + 1
    BY <1>1
  <1>3. /\ tx2 \in Seq(Nat) /\ Len(tx2) = l + o
        /\ \A i \in 1..l+o : tx2[i] = IF i <= l THEN tx[i] ELSE out[i - l]
    BY <1>1, ConcatProperties
  <1>4. ta2 \in Seq(Nat) /\ Len(ta2) = n + 1 /\ ta2[n + 1] = l + o
        /\ \A i \in 1..n : ta2[i] = ta[i]
    BY <1>1, <1>3
  <1>5. TextAfter(ta, n) = l /\ \A c \in 0..n : TextAfter(ta, c) \in Nat /\ TextAfter(ta, c) <= l
    BY DEF HistoryOK
  <1> HIDE DEF n, l, o
  <1>6. \A c \in 0..n : TextAfter(ta2, c) = TextAfter(ta, c)
    <2>1. TAKE c \in 0..n
    <2>2. CASE c = 0
      BY <2>2 DEF TextAfter
    <2>3. CASE c # 0
      <3>1. c \in 1..n
        BY <1>1, <2>3
      <3> QED
        BY <1>4, <2>3, <3>1 DEF TextAfter
    <2> QED
      BY <2>2, <2>3
  <1>7. TextAfter(ta2, n + 1) = l + o
    <2>1. n + 1 # 0
      BY <1>1
    <2> QED
      BY <1>4, <2>1 DEF TextAfter
  <1>8. \A c \in 0..n+1 : c \in 0..n \/ c = n + 1
    BY <1>1
  <1>9. \A c \in 0..n+1 : TextAfter(ta2, c) \in Nat /\ TextAfter(ta2, c) <= l + o
    <2>1. TAKE c \in 0..n+1
    <2>2. CASE c = n + 1
      BY <1>1, <1>7, <2>2
    <2>3. CASE c \in 0..n
      <3> DEFINE v == TextAfter(ta, c)
      <3>1. v \in Nat /\ v <= l /\ TextAfter(ta2, c) = v
        BY <1>5, <1>6, <2>3
      <3> HIDE DEF v
      <3> QED
        BY <1>1, <3>1
    <2> QED
      BY <1>8, <2>2, <2>3
  <1>10. HistoryOK(sm2, tx2, ta2)
    BY <1>2, <1>3, <1>4, <1>7, <1>9 DEF HistoryOK
  <1>11. \A i \in 1..l : i \in 1..l+o /\ i <= l
    BY <1>1
  <1>12. \A k \in 1..o : l + k \in 1..l+o /\ ~(l + k <= l) /\ (l + k) - l = k
    BY <1>1
  <1>13. \A i \in 1..l : tx2[i] = tx[i]
    BY <1>3, <1>11
  <1>14. \A k \in 1..o : tx2[l + k] = out[k]
    BY <1>3, <1>12
  <1>15. l <= l + o
    BY <1>1
  <1> QED
    BY <1>1, <1>2, <1>3, <1>6, <1>10, <1>13, <1>14, <1>15 DEF Grown, GrownBy, n, l, o

LEMMA ReachesKept ==
    ASSUME NEW sm, NEW tx, NEW ta, NEW sm2, NEW tx2, NEW ta2,
           Grown(sm, tx, ta, sm2, tx2, ta2), NEW c \in 0..Len(sm), NEW b, Reaches(ta, c, b)
    PROVE  Reaches(ta2, c, b)
  <1>1. Len(sm) \in Nat
    BY DEF Grown, HistoryOK
  <1>2. \A d \in 0..c-1 : d \in 0..Len(sm)
    BY <1>1
  <1> QED
    BY <1>2 DEF Grown, Reaches

LEMMA SpanKept ==
    ASSUME NEW sm, NEW tx, NEW ta, NEW sm2, NEW tx2, NEW ta2,
           Grown(sm, tx, ta, sm2, tx2, ta2), NEW p \in Span, SpanOK(p, sm, tx, ta)
    PROVE  SpanOK(p, sm2, tx2, ta2)
  <1> DEFINE n == Len(sm)
             l == Len(tx)
             l2 == Len(tx2)
  <1>1. n \in Nat /\ l \in Nat /\ l2 \in Nat /\ l <= l2 /\ Len(sm2) = n + 1
    BY DEF Grown, HistoryOK
  <1>2. p.idx \in Nat /\ p.start \in Nat /\ p.end \in Nat /\ p.idx <= n
        /\ p.start < p.end /\ p.end <= l
    BY DEF Span, SpanOK
  <1>3. Reaches(ta2, p.idx, p.start)
    <2>1. p.idx \in 0..n /\ Reaches(ta, p.idx, p.start)
      BY <1>1, <1>2 DEF SpanOK
    <2> QED
      BY <2>1, ReachesKept
  <1>4. \A i \in p.start + 1 .. p.end - 1 : IsCont(tx2[i + 1])
    <2>1. \A i \in p.start + 1 .. p.end - 1 : i + 1 \in 1..l
      <3> HIDE DEF l
      <3> QED
        BY <1>1, <1>2
    <2> QED
      BY <2>1 DEF Grown, SpanOK
  <1> HIDE DEF n, l, l2
  <1>5. p.idx <= n + 1 /\ p.end <= l2
    BY <1>1, <1>2
  <1> QED
    BY <1>1, <1>2, <1>3, <1>4, <1>5 DEF SpanOK, l2

\* A span at the end of the grown text joins the others.
LEMMA SpansGrow ==
    ASSUME NEW sm, NEW tx, NEW ta, NEW sm2, NEW tx2, NEW ta2,
           Grown(sm, tx, ta, sm2, tx2, ta2), NEW spans, NEW from \in Nat,
           SpansOK(spans, from, sm, tx, ta),
           NEW p \in Span, p.start = Len(tx), p.end = Len(tx2), SpanOK(p, sm2, tx2, ta2)
    PROVE  SpansOK(Append(spans, p), from, sm2, tx2, ta2)
  <1> DEFINE k == Len(spans)
             more == Append(spans, p)
             l == Len(tx)
             l2 == Len(tx2)
  <1>1. /\ spans \in Seq(Span) /\ k \in Nat
        /\ more \in Seq(Span) /\ Len(more) = k + 1 /\ more[k + 1] = p
        /\ \A n \in 1..k : more[n] = spans[n] /\ spans[n] \in Span
    BY DEF SpansOK
  <1>2. l \in Nat /\ l2 \in Nat /\ l <= l2
    BY DEF Grown, HistoryOK
  <1>3. \A n \in 1..k : SpanOK(spans[n], sm, tx, ta)
    BY DEF SpansOK
  <1>4. \A n, m \in 1..k : n < m => spans[n].end <= spans[m].start
    BY DEF SpansOK
  <1>5. \A i \in from .. l - 1 : \E n \in 1..k : spans[n].start <= i /\ i < spans[n].end
    BY DEF SpansOK
  <1> HIDE DEF more, k
  <1>6. \A n \in 1..k+1 : n = k + 1 \/ n \in 1..k
    BY <1>1
  <1>7. \A n \in 1..k : n \in 1..k+1
    BY <1>1
  <1>8. \A n \in 1..k+1 : SpanOK(more[n], sm2, tx2, ta2)
    BY <1>1, <1>3, <1>6, SpanKept
  <1>9. \A n, m \in 1..k+1 : n < m => more[n].end <= more[m].start
    <2>1. SUFFICES ASSUME NEW n \in 1..k+1, NEW m \in 1..k+1, n < m
                   PROVE  more[n].end <= more[m].start
      OBVIOUS
    <2>2. n \in 1..k
      BY <1>1, <2>1
    <2>3. CASE m = k + 1
      <3>1. spans[n].end <= l
        BY <1>3, <2>2 DEF SpanOK
      <3> QED
        BY <1>1, <2>2, <2>3, <3>1
    <2>4. CASE m \in 1..k
      BY <1>1, <1>4, <2>1, <2>2, <2>4
    <2> QED
      BY <1>6, <2>3, <2>4
  <1>10. \A i \in from .. l2 - 1 : \E n \in 1..k+1 : more[n].start <= i /\ i < more[n].end
    <2>1. TAKE i \in from .. l2 - 1
    <2>2. CASE i < l
      <3>1. i \in from .. l - 1
        <4> HIDE DEF l, l2
        <4> QED
          BY <1>2, <2>2
      <3>2. PICK n \in 1..k : spans[n].start <= i /\ i < spans[n].end
        BY <1>5, <3>1
      <3> QED
        BY <1>1, <1>7, <3>2
    <2>3. CASE ~(i < l)
      <3>1. l <= i /\ i < l2
        <4> HIDE DEF l, l2
        <4> QED
          BY <1>2, <2>3
      <3>2. k + 1 \in 1..k+1
        BY <1>1
      <3> QED
        BY <1>1, <3>1, <3>2
    <2> QED
      BY <2>2, <2>3
  <1> QED
    BY <1>1, <1>8, <1>9, <1>10 DEF SpansOK, more, l2

\* Without new text the spans stay as they are.
LEMMA SpansStay ==
    ASSUME NEW sm, NEW tx, NEW ta, NEW sm2, NEW tx2, NEW ta2,
           Grown(sm, tx, ta, sm2, tx2, ta2), NEW spans, NEW from,
           SpansOK(spans, from, sm, tx, ta), Len(tx2) = Len(tx)
    PROVE  SpansOK(spans, from, sm2, tx2, ta2)
  <1>1. spans \in Seq(Span) /\ \A n \in 1..Len(spans) : spans[n] \in Span
    BY DEF SpansOK
  <1>2. \A n \in 1..Len(spans) : SpanOK(spans[n], sm2, tx2, ta2)
    BY <1>1, SpanKept DEF SpansOK
  <1> QED
    BY <1>1, <1>2 DEF SpansOK

LEMMA TailGrows ==
    ASSUME NEW st, StopSet(st), NEW tail, NEW from, NEW tx \in Seq(Nat), TailOK(st, tail, from, tx),
           NEW out \in Seq(Nat)
    PROVE  TailOK(st, tail \o out, from, tx \o out)
  <1> DEFINE l == Len(tx)
             o == Len(out)
             k == Len(tail)
             tx2 == tx \o out
             tail2 == tail \o out
             S == StopLen(st)
  <1>1. tail \in Seq(Nat) /\ from \in Nat /\ from + k = l /\ k \in Nat /\ l \in Nat /\ o \in Nat
    BY DEF TailOK
  <1>2. tx2 \in Seq(Nat) /\ Len(tx2) = l + o
        /\ \A i \in 1..l+o : tx2[i] = IF i <= l THEN tx[i] ELSE out[i - l]
    BY <1>1, ConcatProperties
  <1>3. tail2 \in Seq(Nat) /\ Len(tail2) = k + o
        /\ \A i \in 1..k+o : tail2[i] = IF i <= k THEN tail[i] ELSE out[i - k]
    BY <1>1, ConcatProperties
  <1>4. /\ \A i \in 1..k : tail[i] = tx[from + i]
        /\ \A i \in 0..from-1 : ~IsCont(tx[i + 1]) => i + S <= l
    BY DEF TailOK
  <1>5. S \in Nat
    BY StopLenBounds
  <1> HIDE DEF l, o, k, tx2, tail2, S
  <1>6. \A i \in 1..k+o : tail2[i] = tx2[from + i]
    <2>1. TAKE i \in 1..k+o
    <2>2. from + i \in 1..l+o /\ (i <= k <=> from + i <= l) /\ (from + i) - l = i - k
      BY <1>1
    <2>3. CASE i <= k
      <3>1. i \in 1..k
        BY <1>1, <2>3
      <3> QED
        BY <1>2, <1>3, <1>4, <2>2, <2>3, <3>1
    <2>4. CASE ~(i <= k)
      BY <1>2, <1>3, <2>2, <2>4
    <2> QED
      BY <2>3, <2>4
  <1>7. ASSUME NEW i \in 0..from-1, ~IsCont(tx2[i + 1]) PROVE i + S <= l + o
    <2>1. i + 1 \in 1..l+o /\ i + 1 <= l
      BY <1>1
    <2>2. tx2[i + 1] = tx[i + 1]
      BY <1>2, <2>1
    <2>3. i + S <= l
      BY <1>4, <1>7, <2>2
    <2>4. i \in Nat
      BY <1>1
    <2> QED
      BY <1>1, <1>5, <2>3, <2>4
  <1>8. from + (k + o) = l + o
    BY <1>1
  <1>9. TailOK(st, tail2, from, tx2)
    BY <1>1, <1>2, <1>3, <1>6, <1>7, <1>8 DEF TailOK, S
  <1> QED
    BY <1>9 DEF tail2, tx2

HasFields(s, g, tl, f, sp, pd) ==
    /\ s \in SeqRecord
    /\ s.generated = g /\ s.tail = tl /\ s.tail_start = f /\ s.spans = sp /\ s.pending = pd

LEMMA SeqFields ==
    ASSUME NEW g \in Seq(Nat), NEW tl \in Seq(Nat), NEW f \in Nat, NEW sp \in Seq(Span),
           NEW pd \in {<<>>} \cup (Nat \X Nat),
           NEW s, s = [generated |-> g, tail |-> tl, tail_start |-> f, spans |-> sp, pending |-> pd]
    PROVE  HasFields(s, g, tl, f, sp, pd)
  BY DEF SeqRecord, HasFields

\* Up to the stop evaluation, append_generated_token keeps spans, pending token
\* and tail in step with the text.
LEMMA ExtendedOK ==
    ASSUME stops \in StopSets, HistoryOK(sampled, text, text_at),
           SeqOK(stops, seq, sampled, text, text_at),
           NEW t \in Nat, NEW out \in Seq(Nat), \A k \in 2..Len(out) : IsCont(out[k]),
           NEW sm2, sm2 = Append(sampled, t), NEW tx2, tx2 = text \o out,
           NEW ta2, ta2 = Append(text_at, Len(tx2))
    PROVE  SeqOK(stops, Extended(t, out), sm2, tx2, ta2)
  <1> DEFINE idx == Len(seq.generated)
             from == seq.tail_start
             start == from + Len(seq.tail)
             end == start + Len(out)
             l == Len(text)
             n == Len(sampled)
             s == Extended(t, out)
             spans2 == SpansAfter(idx, start, end)
             pending2 == PendingAfter(idx, start, end)
  <1>1. Grown(sampled, text, text_at, sm2, tx2, ta2) /\ Len(tx2) = l + Len(out)
        /\ l \in Nat /\ n \in Nat /\ Len(out) \in Nat
        /\ \A k \in 1..Len(out) : tx2[l + k] = out[k]
    <2>1. GrownBy(sampled, text, text_at, sm2, tx2, ta2, out)
      BY HistoryGrows
    <2> QED
      BY <2>1 DEF GrownBy
  <1>2. StopSet(stops)
    BY StopAssumption DEF StopSet
  <1>3. seq \in SeqRecord /\ seq.generated = sampled /\ TailOK(stops, seq.tail, from, text)
        /\ SpansOK(seq.spans, from, sampled, text, text_at)
        /\ PendingOK(seq.pending, sampled, text, text_at)
    BY DEF SeqOK
  <1>4. text \in Seq(Nat) /\ sampled \in Seq(Nat) /\ text_at \in Seq(Nat)
    BY DEF HistoryOK
  <1>5. idx = n /\ start = l /\ end = l + Len(out) /\ from \in Nat /\ seq.tail \in Seq(Nat)
    BY <1>3 DEF TailOK
  <1>6. s = [generated |-> Append(sampled, t), tail |-> seq.tail \o out, tail_start |-> from,
             spans |-> spans2, pending |-> pending2]
    BY <1>3 DEF Extended
  <1>7. TailOK(stops, seq.tail \o out, from, tx2)
    BY <1>2, <1>3, <1>4, TailGrows
  <1>8. sm2 \in Seq(Nat) /\ Len(sm2) = n + 1 /\ tx2 \in Seq(Nat)
        /\ HistoryOK(sm2, tx2, ta2)
    BY <1>1 DEF Grown, HistoryOK
  <1>9. seq.tail \o out \in Seq(Nat)
    BY <1>7 DEF TailOK
  <1> HIDE DEF idx, start, end, s, from, l, n
  <1>10. PICK i \in 0..n : /\ Reaches(text_at, i, l)
                           /\ \/ seq.pending = <<>> /\ i = n
                              \/ seq.pending = <<i, l>>
    <2>1. CASE seq.pending = <<>> /\ Reaches(text_at, n, l)
      BY <1>1, <2>1
    <2>2. CASE \E i \in 0..n : seq.pending = <<i, l>> /\ Reaches(text_at, i, l)
      BY <2>2
    <2> QED
      BY <1>3, <2>1, <2>2 DEF PendingOK, n, l
  <1>11. Reaches(ta2, i, l)
    BY <1>1, <1>10, ReachesKept DEF n
  <1>12. i \in Nat /\ i \in 0..n+1 /\ i <= n + 1
    BY <1>1
  <1>13. CASE Len(out) = 0
    <2>1. end = start /\ Len(tx2) = l
      BY <1>1, <1>5, <1>13
    <2>2. spans2 = seq.spans
      BY <2>1 DEF SpansAfter
    <2>3. pending2 = <<i, l>>
      BY <1>5, <1>10, <2>1 DEF PendingAfter, NoPending
    <2>4. SpansOK(spans2, from, sm2, tx2, ta2)
      <3>1. Grown(sampled, text, text_at, sm2, tx2, ta2) /\ Len(tx2) = Len(text)
        BY <1>1, <2>1 DEF l
      <3>2. SpansOK(seq.spans, from, sampled, text, text_at)
        BY <1>3
      <3>3. SpansOK(seq.spans, from, sm2, tx2, ta2)
        BY <3>1, <3>2, SpansStay
      <3> QED
        BY <2>2, <3>3
    <2>5. PendingOK(pending2, sm2, tx2, ta2)
      BY <1>8, <1>11, <1>12, <2>1, <2>3 DEF PendingOK
    <2>6. pending2 \in {<<>>} \cup (Nat \X Nat) /\ spans2 \in Seq(Span)
      BY <1>1, <1>12, <2>3, <2>4 DEF SpansOK
    <2> HIDE DEF spans2, pending2
    <2>7. /\ s \in SeqRecord /\ s.generated = sm2 /\ s.tail = seq.tail \o out
          /\ s.tail_start = from /\ s.spans = spans2 /\ s.pending = pending2
      <3> DEFINE tl == seq.tail \o out
      <3>1. s = [generated |-> sm2, tail |-> tl, tail_start |-> from,
                 spans |-> spans2, pending |-> pending2]
        BY <1>6
      <3>2. sm2 \in Seq(Nat) /\ tl \in Seq(Nat) /\ from \in Nat
        BY <1>5, <1>8, <1>9
      <3> HIDE DEF tl
      <3>3. HasFields(s, sm2, tl, from, spans2, pending2)
        BY <2>6, <3>1, <3>2, SeqFields
      <3> QED
        BY <3>3 DEF HasFields, tl
    <2>8. SeqOK(stops, s, sm2, tx2, ta2)
      BY <1>7, <2>4, <2>5, <2>7 DEF SeqOK
    <2> QED
      BY <2>8 DEF s
  <1>14. CASE Len(out) # 0
    <2>1. end # start /\ end = Len(tx2) /\ l < Len(tx2)
      BY <1>1, <1>5, <1>14
    <2> DEFINE p == [idx |-> i, start |-> l, end |-> Len(tx2)]
    <2>2. spans2 = Append(seq.spans, p)
      <3>1. CASE seq.pending = <<>>
        BY <1>5, <1>10, <2>1, <3>1 DEF SpansAfter, NoPending
      <3>2. CASE seq.pending # <<>>
        <4>1. seq.pending = <<i, l>>
          BY <1>10, <3>2
        <4>2. seq.pending[1] = i /\ seq.pending[2] = l
          BY <4>1
        <4> QED
          BY <2>1, <3>2, <4>2 DEF SpansAfter, NoPending
      <3> QED
        BY <3>1, <3>2
    <2>3. pending2 = <<>>
      BY <2>1 DEF PendingAfter, NoPending
    <2>4. p \in Span /\ p.idx = i /\ p.start = l /\ p.end = Len(tx2)
      BY <1>1, <1>8, <1>12 DEF Span
    <2> HIDE DEF p
    <2>5. SpanOK(p, sm2, tx2, ta2)
      <3>1. \A x \in l + 1 .. Len(tx2) - 1 : IsCont(tx2[x + 1])
        <4>1. TAKE x \in l + 1 .. Len(tx2) - 1
        <4> DEFINE k == (x + 1) - l
        <4>2. k \in 2..Len(out) /\ k \in 1..Len(out) /\ l + k = x + 1
          BY <1>1
        <4> HIDE DEF k
        <4>3. tx2[l + k] = out[k] /\ IsCont(out[k])
          BY <1>1, <4>2
        <4> QED
          BY <4>2, <4>3
      <3>2. Len(tx2) <= Len(tx2)
        BY <1>8
      <3> QED
        BY <1>8, <1>11, <1>12, <2>1, <2>4, <3>1, <3>2 DEF SpanOK
    <2>6. SpansOK(spans2, from, sm2, tx2, ta2)
      <3>1. Grown(sampled, text, text_at, sm2, tx2, ta2) /\ p.start = Len(text)
        BY <1>1, <2>4 DEF l
      <3>2. SpansOK(seq.spans, from, sampled, text, text_at)
        BY <1>3
      <3>3. SpansOK(Append(seq.spans, p), from, sm2, tx2, ta2)
        BY <1>5, <2>4, <2>5, <3>1, <3>2, SpansGrow
      <3> QED
        BY <2>2, <3>3
    <2>7. PendingOK(pending2, sm2, tx2, ta2)
      <3>1. TextAfter(ta2, n + 1) = Len(tx2)
        BY <1>8 DEF HistoryOK
      <3>2. \A d \in 0..(n+1)-1 : TextAfter(ta2, d) < Len(tx2)
        <4>1. TAKE d \in 0..(n+1)-1
        <4>2. d \in 0..n
          BY <1>1
        <4>3. TextAfter(text_at, d) \in Nat /\ TextAfter(text_at, d) <= l
              /\ TextAfter(ta2, d) = TextAfter(text_at, d)
          BY <1>1, <4>2 DEF Grown, HistoryOK, l, n
        <4> DEFINE v == TextAfter(text_at, d)
        <4> HIDE DEF v
        <4>4. Len(tx2) \in Nat /\ v \in Nat /\ v <= l
          BY <1>8, <4>3 DEF v
        <4> QED
          BY <1>1, <2>1, <4>3, <4>4 DEF v
      <3>3. Reaches(ta2, n + 1, Len(tx2))
        BY <3>1, <3>2 DEF Reaches
      <3> QED
        BY <1>8, <2>3, <3>3 DEF PendingOK
    <2>8. pending2 \in {<<>>} \cup (Nat \X Nat) /\ spans2 \in Seq(Span)
      BY <2>3, <2>6 DEF SpansOK
    <2> HIDE DEF spans2, pending2
    <2>9. /\ s \in SeqRecord /\ s.generated = sm2 /\ s.tail = seq.tail \o out
          /\ s.tail_start = from /\ s.spans = spans2 /\ s.pending = pending2
      <3> DEFINE tl == seq.tail \o out
      <3>1. s = [generated |-> sm2, tail |-> tl, tail_start |-> from,
                 spans |-> spans2, pending |-> pending2]
        BY <1>6
      <3>2. sm2 \in Seq(Nat) /\ tl \in Seq(Nat) /\ from \in Nat
        BY <1>5, <1>8, <1>9
      <3> HIDE DEF tl
      <3>3. HasFields(s, sm2, tl, from, spans2, pending2)
        BY <2>8, <3>1, <3>2, SeqFields
      <3> QED
        BY <3>3 DEF HasFields, tl
    <2>10. SeqOK(stops, s, sm2, tx2, ta2)
      BY <1>7, <2>6, <2>7, <2>9 DEF SeqOK
    <2> QED
      BY <2>10 DEF s
  <1> QED
    BY <1>13, <1>14

-------------------------------------------------------------------------------
(* The tail is searched in place of the text *)

LEMMA OccursInTail ==
    ASSUME NEW st, NEW tx \in Seq(Nat), NEW tail, NEW from, TailOK(st, tail, from, tx),
           NEW str \in Seq(Nat), NEW j \in Nat
    PROVE  OccursAt(str, tail, j) <=> OccursAt(str, tx, from + j)
  <1> DEFINE m == Len(str)
             k == Len(tail)
             l == Len(tx)
  <1>1. tail \in Seq(Nat) /\ from \in Nat /\ from + k = l /\ k \in Nat /\ l \in Nat /\ m \in Nat
    BY DEF TailOK
  <1>2. \A i \in 1..k : tail[i] = tx[from + i]
    BY DEF TailOK
  <1>3. OccursAt(str, tail, j) <=> j + m <= k /\ \A x \in 1..m : tail[j + x] = str[x]
    BY <1>1, OccursBytes
  <1>4. from + j \in Nat
    BY <1>1
  <1>5. OccursAt(str, tx, from + j)
        <=> (from + j) + m <= l /\ \A x \in 1..m : tx[(from + j) + x] = str[x]
    BY <1>1, <1>4, OccursBytes
  <1> HIDE DEF m, k, l
  <1>6. j + m <= k <=> (from + j) + m <= l
    BY <1>1
  <1>7. ASSUME j + m <= k
        PROVE  \A x \in 1..m : tail[j + x] = tx[(from + j) + x]
    <2>1. TAKE x \in 1..m
    <2>2. j + x \in 1..k /\ from + (j + x) = (from + j) + x
      BY <1>1, <1>7
    <2> QED
      BY <1>2, <2>2
  <1> QED
    BY <1>3, <1>5, <1>6, <1>7

TailMatches(st, tail, from, tx) ==
    /\ \A j \in Matches(st, tail) : j \in Nat /\ from + j \in Matches(st, tx)
    /\ \A i \in Matches(st, tx) : i \in Nat /\ i >= from /\ i - from \in Matches(st, tail)

\* A stop string the grown text contains starts in the tail: one that starts
\* before it is not longer than the text the tail was trimmed in.
LEMMA MatchTransfer ==
    ASSUME NEW st, StopSet(st), NEW tx \in Seq(Nat), NEW out \in Seq(Nat),
           NEW tail, NEW from, TailOK(st, tail, from, tx), Matches(st, tx) = {},
           NEW tx2, tx2 = tx \o out, NEW tail2, tail2 = tail \o out
    PROVE  TailMatches(st, tail2, from, tx2)
  <1> DEFINE l == Len(tx)
             l2 == Len(tx2)
             k2 == Len(tail2)
             S == StopLen(st)
  <1>1. TailOK(st, tail2, from, tx2)
    BY TailGrows
  <1>2. tx2 \in Seq(Nat) /\ l2 = l + Len(out) /\ l \in Nat /\ Len(out) \in Nat
        /\ \A i \in 1..l+Len(out) : tx2[i] = IF i <= l THEN tx[i] ELSE out[i - l]
    BY ConcatProperties
  <1>3. tail2 \in Seq(Nat) /\ from \in Nat /\ from + k2 = l2 /\ k2 \in Nat /\ from <= l
    <2>1. tail \in Seq(Nat) /\ Len(tail) \in Nat /\ from \in Nat /\ from + Len(tail) = l
      BY DEF TailOK
    <2>2. from <= l
      BY <1>2, <2>1
    <2> QED
      BY <1>1, <2>2 DEF TailOK
  <1>4. \A n \in DOMAIN st : st[n] \in Seq(Nat)
    BY DEF StopSet
  <1>5. S \in Nat /\ \A n \in DOMAIN st : Len(st[n]) <= S
    BY StopLenBounds
  <1>6. \A i \in 0..from-1 : ~IsCont(tx[i + 1]) => i + S <= l
    BY DEF TailOK
  <1>7. ASSUME NEW j \in Matches(st, tail2)
        PROVE  j \in Nat /\ from + j \in Matches(st, tx2)
    <2>1. j \in 0..k2 /\ \E n \in DOMAIN st : st[n] # <<>> /\ OccursAt(st[n], tail2, j)
      BY <1>7 DEF Matches
    <2>2. j \in Nat
      BY <1>3, <2>1
    <2>3. PICK n \in DOMAIN st : st[n] # <<>> /\ OccursAt(st[n], tail2, j)
      BY <2>1
    <2>4. OccursAt(st[n], tx2, from + j)
      BY <1>1, <1>2, <1>4, <2>2, <2>3, OccursInTail
    <2> HIDE DEF l2, k2
    <2>5. from + j \in 0..l2
      BY <1>2, <1>3, <2>1
    <2> QED
      BY <2>2, <2>3, <2>4, <2>5 DEF Matches, l2
  <1>8. ASSUME NEW i \in Matches(st, tx2)
        PROVE  i \in Nat /\ i >= from /\ i - from \in Matches(st, tail2)
    <2>1. i \in 0..l2 /\ \E n \in DOMAIN st : st[n] # <<>> /\ OccursAt(st[n], tx2, i)
      BY <1>8 DEF Matches
    <2>2. i \in Nat
      BY <1>2, <2>1
    <2>3. PICK n \in DOMAIN st : st[n] # <<>> /\ OccursAt(st[n], tx2, i)
      BY <2>1
    <2> DEFINE m == Len(st[n])
    <2>4. st[n] \in Seq(Nat) /\ m \in Nat /\ m > 0 /\ m <= S
      BY <1>4, <1>5, <2>3
    <2>5. i + m <= l2 /\ \A x \in 1..m : tx2[i + x] = st[n][x]
      <3> DEFINE str == st[n]
      <3>1. str \in Seq(Nat) /\ tx2 \in Seq(Nat) /\ i \in Nat /\ OccursAt(str, tx2, i)
        BY <1>2, <2>2, <2>3, <2>4
      <3> HIDE DEF str
      <3>2. i + Len(str) <= Len(tx2) /\ \A x \in 1..Len(str) : tx2[i + x] = str[x]
        BY <3>1, OccursBytes
      <3> QED
        BY <3>2 DEF str
    <2>6. i >= from
      <3>1. SUFFICES ASSUME i < from PROVE FALSE
        BY <1>3, <2>2
      <3>2. i \in 0..from-1 /\ i + 1 \in 1..l+Len(out) /\ i + 1 <= l
        BY <1>2, <1>3, <2>2, <3>1
      <3>3. tx2[i + 1] = tx[i + 1]
        BY <1>2, <3>2
      <3>4. 1 \in 1..m
        BY <2>4
      <3>5. tx2[i + 1] = st[n][1]
        BY <2>5, <3>4
      <3>6. ~IsCont(tx[i + 1])
        BY <2>3, <3>3, <3>5 DEF StopSet
      <3>7. i + S <= l
        BY <1>6, <3>2, <3>6
      <3> HIDE DEF m, l
      <3>8. i + m <= l
        BY <1>2, <1>5, <2>2, <2>4, <3>7
      <3>9. \A x \in 1..m : i + x \in 1..l+Len(out) /\ i + x <= l
        BY <1>2, <2>2, <2>4, <3>8
      <3>10. \A x \in 1..m : tx[i + x] = st[n][x]
        BY <1>2, <2>5, <3>9
      <3>11. OccursAt(st[n], tx, i)
        BY <2>2, <2>4, <3>8, <3>10, OccursBytes DEF m, l
      <3>12. i \in 0..l
        BY <1>2, <2>2, <2>4, <3>8
      <3>13. i \in Matches(st, tx)
        BY <2>3, <3>11, <3>12 DEF Matches, l
      <3> QED
        BY <3>13
    <2> DEFINE j == i - from
    <2>7. j \in Nat /\ from + j = i
      BY <1>3, <2>2, <2>6
    <2>8. j \in 0..k2
      <3> HIDE DEF l2, k2
      <3> QED
        BY <1>2, <1>3, <2>1, <2>6
    <2> HIDE DEF j
    <2>9. OccursAt(st[n], tail2, j)
      BY <1>1, <1>2, <2>3, <2>4, <2>7, OccursInTail
    <2>10. j \in Matches(st, tail2)
      BY <2>3, <2>8, <2>9 DEF Matches
    <2> QED
      BY <2>2, <2>6, <2>10 DEF j
  <1> QED
    BY <1>7, <1>8 DEF TailMatches

\* The earliest match in the tail is the earliest in the text.
LEMMA EarliestTransfers ==
    ASSUME NEW st, NEW tx, NEW tail, NEW from \in Nat, TailMatches(st, tail, from, tx),
           Matches(st, tail) # {}
    PROVE  /\ Matches(st, tx) # {} /\ Matches(st, tx) \in SUBSET Nat
           /\ Min(Matches(st, tail)) \in Nat
           /\ Min(Matches(st, tx)) = from + Min(Matches(st, tail))
  <1> DEFINE M == Matches(st, tail)
             N == Matches(st, tx)
             j == Min(M)
  <1>1. /\ \A x \in M : x \in Nat /\ from + x \in N
        /\ \A i \in N : i \in Nat /\ i >= from /\ i - from \in M
    BY DEF TailMatches
  <1> HIDE DEF M, N
  <1>2. M \in SUBSET Nat /\ N \in SUBSET Nat /\ M # {}
    BY <1>1 DEF M
  <1>3. j \in M /\ \A x \in M : j <= x
    BY <1>2, LeastIsMin
  <1> HIDE DEF j
  <1>4. j \in Nat /\ from + j \in N
    BY <1>1, <1>3
  <1>5. \A i \in N : from + j <= i
    <2>1. TAKE i \in N
    <2>2. i \in Nat /\ i >= from /\ i - from \in M
      BY <1>1
    <2>3. j <= i - from
      BY <1>3, <2>2
    <2> QED
      BY <1>4, <2>2, <2>3
  <1>6. Min(N) = from + j
    BY <1>2, <1>4, <1>5, MinIs
  <1> QED
    BY <1>2, <1>4, <1>6 DEF M, N, j

-------------------------------------------------------------------------------
(* Trimming the tail *)

KeepStep(spans, b, i, k) == IF spans[i].end > b THEN Append(k, spans[i]) ELSE k

IsKept(kept, spans, b) ==
    /\ kept \in [0..Len(spans) -> Seq(Span)]
    /\ kept[0] = <<>>
    /\ \A i \in 1..Len(spans) : kept[i] = KeepStep(spans, b, i, kept[i-1])

LEMMA RetainSteps ==
    ASSUME NEW spans \in Seq(Span), NEW b \in Nat
    PROVE  \E kept : IsKept(kept, spans, b) /\ RetainAfter(spans, b) = kept[Len(spans)]
  <1> DEFINE n == Len(spans)
             IsIt(u) == u = [i \in 0..n |-> IF i = 0 THEN <<>>
                                            ELSE IF spans[i].end > b THEN Append(u[i-1], spans[i])
                                            ELSE u[i-1]]
             it == CHOOSE u : IsIt(u)
  <1>1. n \in Nat /\ \A i \in 1..n : spans[i] \in Span
    OBVIOUS
  <1>2. RetainAfter(spans, b) = it[n]
    BY DEF RetainAfter
  <1>3. \A u : IsIt(u) <=> u = [i \in 0..n |-> IF i = 0 THEN <<>>
                                              ELSE KeepStep(spans, b, i, u[i-1])]
    BY DEF KeepStep
  <1>4. \A i \in 1..n : \A k \in Seq(Span) : KeepStep(spans, b, i, k) \in Seq(Span)
    BY <1>1 DEF KeepStep
  <1> DEFINE step == [i \in 1..n |-> [k \in Seq(Span) |-> KeepStep(spans, b, i, k)]]
             no == <<>>
  <1>5. no \in Seq(Span)
    OBVIOUS
  <1> HIDE DEF n, IsIt, no
  <1>6. step \in [1..n -> [Seq(Span) -> Seq(Span)]]
    BY <1>4
  <1>7. \A i \in 1..n : \A k \in Seq(Span) : step[i][k] = KeepStep(spans, b, i, k)
    OBVIOUS
  <1> HIDE DEF step
  <1>8. PICK f \in [0..n -> Seq(Span)] : Recursive(f, no, n, step)
    BY <1>1, <1>5, <1>6, RecursionExists
  <1>9. f[0] = no /\ \A i \in 1..n : f[i] = step[i][f[i-1]]
    BY <1>8 DEF Recursive
  <1>10. \A i \in 1..n : i \in 0..n /\ i - 1 \in 0..n /\ i # 0
    BY <1>1
  <1>11. \A i \in 1..n : f[i] = KeepStep(spans, b, i, f[i-1])
    BY <1>7, <1>8, <1>9, <1>10
  <1> DEFINE F == [i \in 0..n |-> IF i = 0 THEN <<>> ELSE KeepStep(spans, b, i, f[i-1])]
  <1>12. \A i \in 0..n : i = 0 \/ i \in 1..n
    BY <1>1
  <1>13. \A i \in 0..n : f[i] = F[i]
    BY <1>9, <1>11, <1>12 DEF no
  <1>14. f = F
    BY <1>13
  <1>15. IsIt(f)
    BY <1>3, <1>14
  <1>16. IsIt(it)
    BY <1>15
  <1>17. it = [i \in 0..n |-> IF i = 0 THEN <<>> ELSE KeepStep(spans, b, i, it[i-1])]
    BY <1>3, <1>16
  <1> HIDE DEF it
  <1>18. 0 \in 0..n
    BY <1>1
  <1>19. it[0] = <<>> /\ \A i \in 1..n : it[i] = KeepStep(spans, b, i, it[i-1])
    BY <1>10, <1>17, <1>18
  <1>20. \A i \in 0..n : it[i] \in Seq(Span)
    <2> DEFINE Q == Seq(Span)
    <2>1. it[0] \in Q
      BY <1>19
    <2>2. \A i \in 1..n : it[i-1] \in Q => it[i] \in Q
      BY <1>4, <1>19
    <2> HIDE DEF Q
    <2>3. \A i \in 0..n : it[i] \in Q
      BY <1>1, <2>1, <2>2, BoundedInduction
    <2> QED
      BY <2>3 DEF Q
  <1>21. it \in [0..n -> Seq(Span)]
    BY <1>17, <1>20
  <1>22. IsKept(it, spans, b)
    BY <1>19, <1>21 DEF IsKept, n
  <1> QED
    BY <1>2, <1>22 DEF n

Kept(k, spans, b, i) ==
    /\ k \in Seq(Span)
    /\ \A n \in 1..Len(k) : \E x \in 1..i : k[n] = spans[x] /\ spans[x].end > b
    /\ \A x \in 1..i : spans[x].end > b => \E n \in 1..Len(k) : k[n] = spans[x]
    /\ \A n, m \in 1..Len(k) : n < m => k[n].end <= k[m].start

LEMMA KeptStep ==
    ASSUME NEW spans \in Seq(Span), NEW b \in Nat, NEW i \in Nat, i + 1 \in 1..Len(spans),
           \A n, m \in 1..Len(spans) : n < m => spans[n].end <= spans[m].start,
           NEW k, Kept(k, spans, b, i)
    PROVE  Kept(KeepStep(spans, b, i + 1, k), spans, b, i + 1)
  <1>1. k \in Seq(Span) /\ Len(k) \in Nat
    BY DEF Kept
  <1>2. \A x \in 1..i+1 : x = i + 1 \/ x \in 1..i
    OBVIOUS
  <1>3. \A x \in 1..i : x \in 1..i+1 /\ x \in 1..Len(spans) /\ x < i + 1
    OBVIOUS
  <1>4. CASE ~(spans[i+1].end > b)
    <2>1. KeepStep(spans, b, i + 1, k) = k
      BY <1>4 DEF KeepStep
    <2> QED
      BY <1>2, <1>3, <1>4, <2>1 DEF Kept
  <1>5. CASE spans[i+1].end > b
    <2> DEFINE p == spans[i+1]
               q == Append(k, p)
               c == Len(k)
    <2>1. KeepStep(spans, b, i + 1, k) = q
      BY <1>5 DEF KeepStep
    <2>2. p \in Span
      OBVIOUS
    <2>3. q \in Seq(Span) /\ Len(q) = c + 1 /\ q[c + 1] = p /\ \A n \in 1..c : q[n] = k[n]
      BY <1>1, <2>2
    <2>4. c \in Nat
      BY <1>1
    <2>5. \A n \in 1..c : \E x \in 1..i : k[n] = spans[x] /\ spans[x].end > b
      BY DEF Kept
    <2>6. \A x \in 1..i : spans[x].end > b => \E n \in 1..c : k[n] = spans[x]
      BY DEF Kept
    <2>7. \A n, m \in 1..c : n < m => k[n].end <= k[m].start
      BY DEF Kept
    <2> HIDE DEF q, c
    <2>8. \A n \in 1..c+1 : n = c + 1 \/ n \in 1..c
      BY <2>4
    <2>9. \A n \in 1..c : n \in 1..c+1
      BY <2>4
    <2>10. c + 1 \in 1..c+1 /\ i + 1 \in 1..i+1
      BY <2>4
    <2>11. \A n \in 1..c+1 : \E x \in 1..i+1 : q[n] = spans[x] /\ spans[x].end > b
      <3>1. TAKE n \in 1..c+1
      <3>2. CASE n = c + 1
        BY <1>5, <2>3, <2>10, <3>2
      <3>3. CASE n \in 1..c
        <4>1. PICK x \in 1..i : k[n] = spans[x] /\ spans[x].end > b
          BY <2>5, <3>3
        <4>2. x \in 1..i+1 /\ q[n] = spans[x]
          BY <1>3, <2>3, <3>3, <4>1
        <4> QED
          BY <4>1, <4>2
      <3> QED
        BY <2>8, <3>2, <3>3
    <2>12. \A x \in 1..i+1 : spans[x].end > b => \E n \in 1..c+1 : q[n] = spans[x]
      <3>1. SUFFICES ASSUME NEW x \in 1..i+1, spans[x].end > b
                     PROVE  \E n \in 1..c+1 : q[n] = spans[x]
        OBVIOUS
      <3>2. CASE x = i + 1
        BY <2>3, <2>10, <3>2
      <3>3. CASE x \in 1..i
        <4>1. PICK n \in 1..c : k[n] = spans[x]
          BY <2>6, <3>1, <3>3
        <4> QED
          BY <2>3, <2>9, <4>1
      <3> QED
        BY <1>2, <3>2, <3>3
    <2>13. \A n, m \in 1..c+1 : n < m => q[n].end <= q[m].start
      <3>1. SUFFICES ASSUME NEW n \in 1..c+1, NEW m \in 1..c+1, n < m
                     PROVE  q[n].end <= q[m].start
        OBVIOUS
      <3>2. n \in 1..c
        BY <2>4, <3>1
      <3>3. CASE m = c + 1
        <4>1. PICK x \in 1..i : k[n] = spans[x] /\ spans[x].end > b
          BY <2>5, <3>2
        <4>2. spans[x].end <= spans[i+1].start
          BY <1>3, <4>1
        <4> QED
          BY <2>3, <3>2, <3>3, <4>1, <4>2
      <3>4. CASE m \in 1..c
        BY <2>3, <2>7, <3>1, <3>2, <3>4
      <3> QED
        BY <2>8, <3>3, <3>4
    <2>14. Kept(q, spans, b, i + 1)
      BY <2>3, <2>11, <2>12, <2>13 DEF Kept
    <2> QED
      BY <2>1, <2>14
  <1> QED
    BY <1>4, <1>5

\* retain keeps exactly the spans that end after b, in order.
LEMMA RetainKeeps ==
    ASSUME NEW spans \in Seq(Span), NEW b \in Nat,
           \A n, m \in 1..Len(spans) : n < m => spans[n].end <= spans[m].start
    PROVE  Kept(RetainAfter(spans, b), spans, b, Len(spans))
  <1> DEFINE l == Len(spans)
  <1>1. l \in Nat
    OBVIOUS
  <1>2. PICK kept : IsKept(kept, spans, b) /\ RetainAfter(spans, b) = kept[l]
    BY RetainSteps
  <1>3. kept[0] = <<>> /\ \A i \in 1..l : kept[i] = KeepStep(spans, b, i, kept[i-1])
    BY <1>2 DEF IsKept
  <1> DEFINE T == {i \in Nat : i <= l => Kept(kept[i], spans, b, i)}
  <1>4. 0 \in T
    <2>1. <<>> \in Seq(Span) /\ Len(<<>>) = 0
      OBVIOUS
    <2>2. Kept(<<>>, spans, b, 0)
      BY <2>1 DEF Kept
    <2> QED
      BY <1>3, <2>2
  <1>5. ASSUME NEW i \in T PROVE i + 1 \in T
    <2>1. SUFFICES ASSUME i + 1 <= l PROVE Kept(kept[i+1], spans, b, i + 1)
      OBVIOUS
    <2>2. i \in Nat /\ i + 1 \in 1..l /\ i <= l /\ (i + 1) - 1 = i
      BY <1>1, <2>1
    <2>3. Kept(kept[i], spans, b, i)
      BY <2>2
    <2>4. kept[i+1] = KeepStep(spans, b, i + 1, kept[i])
      BY <1>3, <2>2
    <2>5. Kept(KeepStep(spans, b, i + 1, kept[i]), spans, b, i + 1)
      BY <2>2, <2>3, KeptStep
    <2> QED
      BY <2>4, <2>5
  <1>6. T \subseteq Nat
    OBVIOUS
  <1> HIDE DEF T
  <1>7. Nat \subseteq T
    BY <1>4, <1>5, <1>6, SetInduction
  <1>8. l \in T
    BY <1>1, <1>7
  <1>9. l <= l
    BY <1>1
  <1>10. Kept(kept[l], spans, b, l)
    BY <1>8, <1>9, Zenon DEF T
  <1> QED
    BY <1>2, <1>10

LEMMA SpansRetained ==
    ASSUME NEW sm, NEW tx \in Seq(Nat), NEW ta, NEW spans, NEW from \in Nat,
           SpansOK(spans, from, sm, tx, ta), NEW b \in Nat, from <= b
    PROVE  SpansOK(RetainAfter(spans, b), b, sm, tx, ta)
  <1> DEFINE k == RetainAfter(spans, b)
             l == Len(tx)
             c == Len(spans)
  <1>1. /\ spans \in Seq(Span) /\ l \in Nat /\ c \in Nat
        /\ \A n \in 1..c : SpanOK(spans[n], sm, tx, ta) /\ spans[n] \in Span
        /\ \A n, m \in 1..c : n < m => spans[n].end <= spans[m].start
    BY DEF SpansOK
  <1>2. \A i \in from .. l - 1 : \E n \in 1..c : spans[n].start <= i /\ i < spans[n].end
    BY DEF SpansOK
  <1>3. Kept(k, spans, b, c)
    BY <1>1, RetainKeeps
  <1> HIDE DEF k, l, c
  <1>4. k \in Seq(Span) /\ \A n, m \in 1..Len(k) : n < m => k[n].end <= k[m].start
    BY <1>3 DEF Kept
  <1>5. \A n \in 1..Len(k) : SpanOK(k[n], sm, tx, ta)
    <2>1. TAKE n \in 1..Len(k)
    <2>2. PICK x \in 1..c : k[n] = spans[x]
      BY <1>3 DEF Kept
    <2> QED
      BY <1>1, <2>2
  <1>6. \A i \in b .. l - 1 : \E n \in 1..Len(k) : k[n].start <= i /\ i < k[n].end
    <2>1. TAKE i \in b .. l - 1
    <2>2. i \in from .. l - 1 /\ b <= i /\ i \in Int
      BY <1>1
    <2>3. PICK x \in 1..c : spans[x].start <= i /\ i < spans[x].end
      BY <1>2, <2>2
    <2>4. spans[x].end \in Nat
      BY <1>1 DEF Span
    <2>5. spans[x].end > b
      BY <2>2, <2>3, <2>4
    <2>6. PICK n \in 1..Len(k) : k[n] = spans[x]
      BY <1>3, <2>5 DEF Kept
    <2> QED
      BY <2>3, <2>6
  <1> QED
    BY <1>4, <1>5, <1>6 DEF SpansOK, k, l

LEMMA KeepBounds ==
    ASSUME NEW st, StopSet(st)
    PROVE  KeepOf(st) \in Nat /\ 2 * StopLen(st) <= KeepOf(st) /\ MinKeep <= KeepOf(st)
  <1> DEFINE a == 2 * StopLen(st)
  <1>1. a \in Nat /\ MinKeep \in Nat
    BY StopLenBounds, TailAssumption
  <1> HIDE DEF a
  <1> DEFINE K == {a, MinKeep}
  <1>2. \E x \in K : \A y \in K : x >= y
    BY <1>1
  <1>3. Max(K) \in K /\ \A y \in K : Max(K) >= y
    BY <1>2 DEF Max
  <1>4. KeepOf(st) = Max(K)
    BY DEF KeepOf, a
  <1> DEFINE m == Max(K)
  <1>5. m \in Nat /\ m >= a /\ m >= MinKeep
    BY <1>1, <1>3
  <1> HIDE DEF m
  <1>6. a <= m /\ MinKeep <= m
    BY <1>1, <1>5
  <1> QED
    BY <1>4, <1>5, <1>6 DEF m, a

LEMMA ExcessBounds ==
    ASSUME NEW a \in Nat, NEW b \in Nat, NEW c \in Nat, 2 * a <= c, a > 0, b > c
    PROVE  b - a \in Nat /\ b - a < b /\ a < b /\ b - a \in 0..b-1
  OBVIOUS

LEMMA BelowExcess ==
    ASSUME NEW a \in Nat, NEW b \in Nat, NEW c \in Nat, c < b, NEW i \in 0..c-1, ~(i < a)
    PROVE  i \in 0..b-1 /\ i >= a /\ i < c
  OBVIOUS

\* The drain that does not panic removes at least the excess and ends where a
\* character starts.
LEMMA TrimCut ==
    ASSUME stops \in StopSets, NEW s, s.tail \in Seq(Nat), NeedsTrim(s), ~TrimPanics(s),
           NEW S, S = StopLen(stops), NEW l, l = Len(s.tail), NEW n, n = TrimBytes(s.tail)
    PROVE  /\ S \in Nat /\ l \in Nat /\ n \in Nat
           /\ l - S <= n /\ n < l /\ S < l
           /\ \A i \in 0..n-1 : ~IsCont(s.tail[i+1]) => i < l - S
  <1>1. StopSet(stops)
    BY StopAssumption DEF StopSet
  <1>2. S \in Nat /\ l \in Nat /\ KeepOf(stops) \in Nat /\ 2 * S <= KeepOf(stops)
    BY <1>1, StopLenBounds, KeepBounds
  <1>3. MaxStopLen = S /\ MaxKeep = KeepOf(stops) /\ TargetKeep = S
    BY OfStops DEF MaxKeep, KeepOf, TargetKeep
  <1>4. S > 0 /\ l > KeepOf(stops)
    BY <1>3 DEF NeedsTrim
  <1> DEFINE e == l - S
             starts == {i \in 0..l-1 : ~IsCont(s.tail[i+1]) /\ i >= e}
  <1>5. e \in Nat /\ e < l /\ S < l /\ e \in 0..l-1
    <2> DEFINE K == KeepOf(stops)
    <2>1. S \in Nat /\ l \in Nat /\ K \in Nat /\ 2 * S <= K /\ S > 0 /\ l > K
      BY <1>2, <1>4
    <2> HIDE DEF K
    <2> QED
      BY <2>1, ExcessBounds
  <1>6. n = IF starts = {} THEN e ELSE Min(starts)
    BY <1>3 DEF TrimBytes
  <1>7. ~(n < l /\ IsCont(s.tail[n+1]))
    BY DEF TrimPanics
  <1>8. starts \in SUBSET Nat
    BY <1>2
  <1>9. starts # {}
    <2>1. SUFFICES ASSUME starts = {} PROVE FALSE
      OBVIOUS
    <2>2. n = e
      BY <1>6, <2>1
    <2>3. e \notin starts /\ e >= e
      BY <1>5, <2>1
    <2>4. IsCont(s.tail[e+1])
      BY <1>5, <2>3
    <2> QED
      BY <1>5, <1>7, <2>2, <2>4
  <1>10. n \in starts /\ \A i \in starts : n <= i
    <2>1. n = Min(starts)
      BY <1>6, <1>9
    <2> HIDE DEF starts
    <2> QED
      BY <1>8, <1>9, <2>1, LeastIsMin
  <1>11. n \in Nat /\ n >= e /\ n < l
    BY <1>2, <1>10
  <1>12. \A i \in 0..n-1 : ~IsCont(s.tail[i+1]) => i < e
    <2>1. SUFFICES ASSUME NEW i \in 0..n-1, ~IsCont(s.tail[i+1]), ~(i < e) PROVE FALSE
      OBVIOUS
    <2>2. i \in 0..l-1 /\ i >= e /\ i < n
      <3> HIDE DEF e, starts
      <3> QED
        BY <1>2, <1>5, <1>11, <2>1, BelowExcess
    <2>3. i \in starts
      BY <2>1, <2>2
    <2> HIDE DEF starts
    <2>4. n <= i /\ i \in Nat
      BY <1>10, <2>3, <1>8
    <2> QED
      BY <1>11, <2>2, <2>4
  <1> QED
    BY <1>2, <1>5, <1>11, <1>12

TrimPoint(st, tail, n) ==
    /\ n \in Nat /\ n < Len(tail) /\ StopLen(st) < Len(tail) /\ Len(tail) - StopLen(st) <= n
    /\ \A i \in 0..n-1 : ~IsCont(tail[i+1]) => i < Len(tail) - StopLen(st)

LEMMA TailTrimmed ==
    ASSUME NEW st, StopSet(st), NEW tail, NEW from, NEW tx \in Seq(Nat), TailOK(st, tail, from, tx),
           NEW n, TrimPoint(st, tail, n),
           NEW tail2, tail2 = SubSeq(tail, n + 1, Len(tail))
    PROVE  TailOK(st, tail2, from + n, tx) /\ Len(tail2) <= StopLen(st) /\ tail2 \in Seq(Nat)
  <1> DEFINE l == Len(tx)
             k == Len(tail)
             S == StopLen(st)
             k2 == Len(tail2)
  <1>1. tail \in Seq(Nat) /\ from \in Nat /\ from + k = l /\ k \in Nat /\ l \in Nat
    BY DEF TailOK
  <1>2. S \in Nat
    BY StopLenBounds
  <1>3. /\ \A i \in 1..k : tail[i] = tx[from + i]
        /\ \A i \in 0..from-1 : ~IsCont(tx[i + 1]) => i + S <= l
    BY DEF TailOK
  <1>4. n \in Nat /\ n < k /\ S < k /\ k - S <= n
        /\ \A i \in 0..n-1 : ~IsCont(tail[i+1]) => i < k - S
    BY DEF TrimPoint
  <1>5. tail2 = SubSeq(tail, n + 1, k)
    OBVIOUS
  <1>6. \A i \in n+1..k : tail[i] \in Nat
    <2>1. \A i \in 1..k : tail[i] \in Nat
      BY <1>1
    <2> HIDE DEF k
    <2>2. \A i \in n+1..k : i \in 1..k
      BY <1>1, <1>4
    <2> QED
      BY <2>1, <2>2
  <1> HIDE DEF l, k, S
  <1> DEFINE m == n + 1
  <1> HIDE DEF m
  <1>7. /\ tail2 \in Seq(Nat) /\ Len(tail2) = IF m <= k THEN k - m + 1 ELSE 0
        /\ \A i \in 1..k-m+1 : tail2[i] = tail[m + i - 1]
    <2>1. m \in Int /\ k \in Int
      BY <1>1, <1>4 DEF m
    <2>2. \A i \in m..k : tail[i] \in Nat
      BY <1>6 DEF m
    <2>3. /\ SubSeq(tail, m, k) \in Seq(Nat)
          /\ Len(SubSeq(tail, m, k)) = IF m <= k THEN k - m + 1 ELSE 0
          /\ \A i \in 1..k-m+1 : SubSeq(tail, m, k)[i] = tail[m + i - 1]
      BY <2>1, <2>2, SubSeqProperties
    <2>4. tail2 = SubSeq(tail, m, k)
      BY <1>5 DEF m
    <2> QED
      BY <2>3, <2>4
  <1>8. \A i \in 1..k - (n + 1) + 1 : tail2[i] = tail[(n + 1) + i - 1]
    BY <1>7 DEF m
  <1>9. k2 = k - n /\ k2 \in Nat
    BY <1>1, <1>4, <1>7 DEF m
  <1> HIDE DEF k2
  <1>10. (from + n) + k2 = l /\ from + n \in Nat /\ k2 <= S
    BY <1>1, <1>2, <1>4, <1>9
  <1>11. \A i \in 1..k2 : tail2[i] = tx[(from + n) + i]
    <2>1. TAKE i \in 1..k2
    <2>2. i \in 1..k - (n + 1) + 1 /\ (n + 1) + i - 1 = n + i /\ n + i \in 1..k
          /\ from + (n + i) = (from + n) + i
      BY <1>1, <1>4, <1>9
    <2>3. tail2[i] = tail[n + i]
      BY <1>8, <2>2
    <2> QED
      BY <1>3, <2>2, <2>3
  <1>12. ASSUME NEW i \in 0..(from + n)-1, ~IsCont(tx[i + 1]) PROVE i + S <= l
    <2>1. CASE i < from
      <3>1. i \in 0..from-1
        BY <1>1, <1>4, <2>1
      <3> QED
        BY <1>3, <1>12, <3>1
    <2>2. CASE ~(i < from)
      <3> DEFINE j == i - from
      <3>1. j \in 0..n-1 /\ j + 1 \in 1..k /\ from + (j + 1) = i + 1
        BY <1>1, <1>4, <2>2
      <3>2. tail[j + 1] = tx[i + 1]
        BY <1>3, <3>1
      <3>3. j < k - S
        BY <1>4, <1>12, <3>1, <3>2
      <3> QED
        BY <1>1, <1>2, <1>4, <3>3
    <2> QED
      BY <2>1, <2>2
  <1> QED
    BY <1>7, <1>10, <1>11, <1>12 DEF TailOK, k2, l, S

\* Trimming keeps the sequence right, and its tail bounded.
LEMMA TrimmedOK ==
    ASSUME stops \in StopSets, NEW s, NEW sm, NEW tx \in Seq(Nat), NEW ta,
           SeqOK(stops, s, sm, tx, ta), ~TrimPanics(s)
    PROVE  /\ SeqOK(stops, Trimmed(s), sm, tx, ta)
           /\ StopLen(stops) > 0 => Len(Trimmed(s).tail) <= KeepOf(stops)
  <1> DEFINE S == StopLen(stops)
             K == KeepOf(stops)
             l == Len(s.tail)
             n == TrimBytes(s.tail)
  <1>1. StopSet(stops)
    BY StopAssumption DEF StopSet
  <1>2. /\ s \in SeqRecord /\ s.generated = sm /\ s.tail \in Seq(Nat) /\ s.tail_start \in Nat
        /\ sm \in Seq(Nat) /\ s.pending \in {<<>>} \cup (Nat \X Nat)
        /\ SpansOK(s.spans, s.tail_start, sm, tx, ta)
        /\ PendingOK(s.pending, sm, tx, ta)
        /\ TailOK(stops, s.tail, s.tail_start, tx)
    BY DEF SeqOK, SeqRecord
  <1>3. S \in Nat /\ l \in Nat /\ K \in Nat /\ 2 * S <= K
    BY <1>1, <1>2, StopLenBounds, KeepBounds
  <1>4. MaxStopLen = S /\ MaxKeep = K
    BY OfStops DEF MaxKeep, KeepOf
  <1>5. CASE ~NeedsTrim(s)
    <2>1. Trimmed(s) = s
      BY <1>5 DEF Trimmed
    <2>2. S > 0 => ~(l > K)
      BY <1>4, <1>5 DEF NeedsTrim
    <2> HIDE DEF S, l, K
    <2>3. S > 0 => l <= K
      BY <1>3, <2>2
    <2> QED
      BY <2>1, <2>3 DEF S, l, K
  <1>6. CASE NeedsTrim(s)
    <2> DEFINE tail2 == SubSeq(s.tail, n + 1, l)
               from2 == s.tail_start + n
               spans2 == RetainAfter(s.spans, from2)
               s2 == Trimmed(s)
    <2>1. n \in Nat /\ l - S <= n /\ n < l /\ S < l
          /\ \A i \in 0..n-1 : ~IsCont(s.tail[i+1]) => i < l - S
      BY <1>2, <1>6, TrimCut
    <2>2. TailOK(stops, tail2, from2, tx) /\ Len(tail2) <= S /\ tail2 \in Seq(Nat)
      <3> DEFINE tl == s.tail
                 f == s.tail_start
      <3>1. TrimPoint(stops, tl, n)
        BY <2>1 DEF TrimPoint
      <3>2. tail2 = SubSeq(tl, n + 1, Len(tl))
        OBVIOUS
      <3>3. TailOK(stops, tl, f, tx)
        BY <1>2
      <3> HIDE DEF n, tl, f, tail2
      <3>4. TailOK(stops, tail2, f + n, tx) /\ Len(tail2) <= StopLen(stops) /\ tail2 \in Seq(Nat)
        BY <1>1, <3>1, <3>2, <3>3, TailTrimmed
      <3> QED
        BY <3>4 DEF f
    <2>3. from2 \in Nat /\ s.tail_start <= from2
      <3> HIDE DEF n
      <3> QED
        BY <1>2, <2>1
    <2>4. s2 = [generated |-> s.generated, tail |-> tail2, tail_start |-> from2,
                spans |-> spans2, pending |-> s.pending]
      BY <1>6 DEF Trimmed
    <2> HIDE DEF n, tail2, from2, s2
    <2>5. SpansOK(spans2, from2, sm, tx, ta)
      BY <1>2, <2>3, SpansRetained
    <2>6. spans2 \in Seq(Span)
      BY <2>5 DEF SpansOK
    <2> HIDE DEF spans2
    <2>7. HasFields(s2, sm, tail2, from2, spans2, s.pending)
      BY <1>2, <2>2, <2>3, <2>4, <2>6, SeqFields
    <2>8. SeqOK(stops, s2, sm, tx, ta)
      BY <1>2, <2>2, <2>5, <2>7 DEF SeqOK, HasFields
    <2>9. Len(s2.tail) <= K
      <3> DEFINE l2 == Len(tail2)
      <3>1. l2 \in Nat /\ l2 <= S
        BY <2>2
      <3> HIDE DEF l2, S, K
      <3>2. l2 <= K
        BY <1>3, <3>1
      <3> QED
        BY <2>7, <3>2 DEF HasFields, l2
    <2> QED
      BY <2>8, <2>9 DEF s2
  <1> QED
    BY <1>5, <1>6

-------------------------------------------------------------------------------
(* Cutting the output *)

LEMMA PrefixCut ==
    ASSUME NEW sm \in Seq(Nat), NEW c \in 0..Len(sm), NEW g, g = SubSeq(sm, 1, c)
    PROVE  g \in Seq(Nat) /\ Len(g) = c /\ IsPrefix(g, sm)
  <1> DEFINE n == Len(sm)
  <1>1. n \in Nat /\ c \in Nat /\ c <= n /\ \A i \in 1..n : sm[i] \in Nat
    OBVIOUS
  <1> HIDE DEF n
  <1>2. \A i \in 1..c : i \in 1..n
    BY <1>1
  <1>3. \A i \in 1..c : sm[i] \in Nat
    BY <1>1, <1>2
  <1>4. g \in Seq(Nat) /\ Len(g) = IF 1 <= c THEN c - 1 + 1 ELSE 0
    BY <1>1, <1>3, SubSeqProperties
  <1>5. Len(g) = c
    BY <1>1, <1>4
  <1> HIDE DEF n
  <1>6. SubSeq(g, 1, Len(g)) = g
    BY <1>4
  <1>7. SubSeq(sm, 1, Len(g)) = g
    BY <1>5
  <1> QED
    BY <1>1, <1>4, <1>5, <1>6, <1>7 DEF IsPrefix, n

\* A match starts at a character of the text.
LEMMA MatchStarts ==
    ASSUME NEW st, StopSet(st), NEW tx \in Seq(Nat), NEW i \in Matches(st, tx)
    PROVE  i \in Nat /\ i < Len(tx) /\ ~IsCont(tx[i + 1])
  <1> DEFINE l == Len(tx)
  <1>1. i \in 0..l /\ \E n \in DOMAIN st : st[n] # <<>> /\ OccursAt(st[n], tx, i)
    BY DEF Matches
  <1>2. l \in Nat /\ i \in Nat
    BY <1>1
  <1>3. PICK n \in DOMAIN st : st[n] # <<>> /\ OccursAt(st[n], tx, i)
    BY <1>1
  <1> DEFINE str == st[n]
             m == Len(str)
  <1>4. str \in Seq(Nat) /\ str # <<>> /\ ~IsCont(str[1]) /\ OccursAt(str, tx, i)
    BY <1>3 DEF StopSet
  <1> HIDE DEF str
  <1>5. m \in Nat /\ m > 0
    BY <1>4
  <1>6. i + m <= l /\ \A k \in 1..m : tx[i + k] = str[k]
    BY <1>2, <1>4, OccursBytes
  <1> HIDE DEF l, m
  <1>7. i < l /\ 1 \in 1..m
    BY <1>2, <1>5, <1>6
  <1> QED
    BY <1>2, <1>4, <1>6, <1>7 DEF l

\* The token the output is cut at is the one that starts the match.
LEMMA CutIsStart ==
    ASSUME NEW st, StopSet(st), NEW s, NEW sm, NEW tx, NEW ta, HistoryOK(sm, tx, ta),
           SeqOK(st, s, sm, tx, ta), NEW match \in Matches(st, tx), match >= s.tail_start
    PROVE  /\ CutTokenIdx(s, match) \in 0..Len(sm)
           /\ Reaches(ta, CutTokenIdx(s, match), match)
  <1> DEFINE spans == s.spans
             k == Len(spans)
             from == s.tail_start
             l == Len(tx)
             hit == {n \in DOMAIN spans : spans[n].end > match}
             h == Min(hit)
  <1>1. tx \in Seq(Nat) /\ sm \in Seq(Nat) /\ l \in Nat /\ Len(sm) \in Nat
    BY DEF HistoryOK
  <1>2. from \in Nat /\ SpansOK(spans, from, sm, tx, ta)
    BY DEF SeqOK, TailOK
  <1>3. match \in Nat /\ match < l /\ ~IsCont(tx[match + 1])
    BY <1>1, MatchStarts
  <1>4. /\ spans \in Seq(Span) /\ k \in Nat /\ DOMAIN spans = 1..k
        /\ \A n \in 1..k : spans[n] \in Span /\ SpanOK(spans[n], sm, tx, ta)
        /\ \A n, m \in 1..k : n < m => spans[n].end <= spans[m].start
    BY <1>2 DEF SpansOK
  <1>5. match >= from
    OBVIOUS
  <1>6. CutTokenIdx(s, match) = IF hit = {} THEN Len(s.generated) - 1 ELSE spans[h].idx
    BY DEF CutTokenIdx
  <1>7. \A i \in from .. l - 1 : \E n \in 1..k : spans[n].start <= i /\ i < spans[n].end
    BY <1>2 DEF SpansOK
  <1> HIDE DEF spans, k, from, l
  <1>8. match \in from .. l - 1
    BY <1>1, <1>2, <1>3, <1>5
  <1>9. PICK c \in 1..k : spans[c].start <= match /\ match < spans[c].end
    BY <1>7, <1>8
  <1>10. \A n \in 1..k : spans[n].start \in Nat /\ spans[n].end \in Nat /\ spans[n].idx \in Nat
    BY <1>4 DEF Span
  <1>11. c \in hit /\ hit \in SUBSET Nat
    BY <1>3, <1>4, <1>9, <1>10
  <1>12. h \in hit /\ h <= c
    <2> HIDE DEF hit
    <2> QED
      BY <1>11, LeastIsMin
  <1>13. h \in 1..k /\ spans[h].end > match
    BY <1>4, <1>12
  <1> HIDE DEF h
  <1>14. h = c
    <2>1. SUFFICES ASSUME h # c PROVE FALSE
      OBVIOUS
    <2>2. h < c
      BY <1>4, <1>12, <1>13, <2>1
    <2>3. spans[h].end <= spans[c].start
      BY <1>4, <1>13, <2>2
    <2> QED
      BY <1>3, <1>9, <1>10, <1>13, <2>3
  <1>15. CutTokenIdx(s, match) = spans[c].idx
    BY <1>6, <1>11, <1>14
  <1> DEFINE p == spans[c]
  <1>16. p.start \in Nat /\ p.end \in Nat /\ p.idx \in Nat /\ SpanOK(p, sm, tx, ta)
         /\ p.start <= match /\ match < p.end
    BY <1>4, <1>9, <1>10
  <1> HIDE DEF p
  <1>17. p.start = match
    <2>1. SUFFICES ASSUME p.start # match PROVE FALSE
      OBVIOUS
    <2>2. match \in p.start + 1 .. p.end - 1
      BY <1>3, <1>16, <2>1
    <2>3. IsCont(tx[match + 1])
      BY <1>16, <2>2 DEF SpanOK
    <2> QED
      BY <1>3, <2>3
  <1>18. p.idx <= Len(sm) /\ Reaches(ta, p.idx, match)
    BY <1>16, <1>17 DEF SpanOK
  <1>19. p.idx \in 0..Len(sm)
    BY <1>1, <1>16, <1>18
  <1> QED
    BY <1>15, <1>18, <1>19 DEF p

LEMMA CutHolds ==
    ASSUME NEW st, NEW sm, NEW tx, NEW ta, HistoryOK(sm, tx, ta),
           NEW match, match = Min(Matches(st, tx)),
           NEW c \in 0..Len(sm), Reaches(ta, c, match), NEW sq, sq.generated = SubSeq(sm, 1, c)
    PROVE  CutOK(st, sq, sm, tx, ta)
  <1> DEFINE C == {d \in 0..Len(sm) : TextAfter(ta, d) = match}
             g == sq.generated
  <1>1. sm \in Seq(Nat) /\ Len(sm) \in Nat /\ \A d \in 0..Len(sm) : TextAfter(ta, d) \in Nat
    BY DEF HistoryOK
  <1>2. g \in Seq(Nat) /\ Len(g) = c /\ IsPrefix(g, sm)
    BY <1>1, PrefixCut
  <1>3. c \in C /\ C \in SUBSET Nat
    BY DEF Reaches
  <1>4. \A d \in C : c <= d
    <2>1. SUFFICES ASSUME NEW d \in 0..Len(sm), TextAfter(ta, d) = match, ~(c <= d) PROVE FALSE
      OBVIOUS
    <2>2. d \in 0..c-1
      BY <1>1, <2>1
    <2>3. TextAfter(ta, d) < match /\ TextAfter(ta, d) \in Nat
      BY <1>1, <2>1, <2>2 DEF Reaches
    <2> QED
      BY <2>1, <2>3
  <1> HIDE DEF C
  <1>5. Min(C) = c
    BY <1>3, <1>4, MinIs
  <1> QED
    BY <1>2, <1>5 DEF CutOK, C

-------------------------------------------------------------------------------
(* The invariant is inductive *)

\* Where every sequence starts: no text, no tokens.
LEMMA FreshOK ==
    ASSUME NEW st, StopSet(st), NEW e, e = <<>>, NEW sq, sq = ResetTail
    PROVE  HistoryOK(e, e, e) /\ RunningOK(st, sq, e, e, e)
  <1>1. e \in Seq(Nat) /\ Len(e) = 0 /\ e \in Seq(Span)
    OBVIOUS
  <1>2. sq = [generated |-> e, tail |-> e, tail_start |-> 0, spans |-> e, pending |-> <<>>]
    BY DEF ResetTail, NoPending
  <1>3. HistoryOK(e, e, e)
    BY <1>1 DEF HistoryOK, TextAfter
  <1>4. HasFields(sq, e, e, 0, e, <<>>)
    BY <1>1, <1>2, SeqFields
  <1>5. SpansOK(e, 0, e, e, e)
    BY <1>1 DEF SpansOK
  <1>6. PendingOK(<<>>, e, e, e)
    BY <1>1 DEF PendingOK, Reaches, TextAfter
  <1>7. TailOK(st, e, 0, e)
    BY <1>1 DEF TailOK
  <1>8. SeqOK(st, sq, e, e, e)
    BY <1>4, <1>5, <1>6, <1>7 DEF SeqOK, HasFields
  <1>9. Matches(st, e) = {}
    <2>1. SUFFICES ASSUME NEW i \in Matches(st, e) PROVE FALSE
      OBVIOUS
    <2>2. i \in Nat /\ i < Len(e)
      BY <1>1, MatchStarts
    <2> QED
      BY <1>1, <2>2
  <1>10. StopLen(st) > 0 => Len(sq.tail) <= KeepOf(st)
    <2>1. KeepOf(st) \in Nat
      BY KeepBounds
    <2>2. Len(sq.tail) = 0
      BY <1>1, <1>4 DEF HasFields
    <2> QED
      BY <2>1, <2>2
  <1> QED
    BY <1>3, <1>8, <1>9, <1>10 DEF RunningOK

LEMMA TailInitOK ==
    ASSUME TailInit
    PROVE  TailInv
  <1>1. stops \in StopSets /\ StopSet(stops)
    BY StopAssumption DEF TailInit, StopSet
  <1>2. id \in Nat \ {0}
    BY TailAssumption DEF TailInit
  <1>3. sampled = <<>> /\ text = <<>> /\ text_at = <<>> /\ phase = "run" /\ seq = ResetTail
    BY DEF TailInit
  <1>4. HistoryOK(sampled, text, text_at) /\ RunningOK(stops, seq, sampled, text, text_at)
    BY <1>1, <1>3, FreshOK
  <1>5. DetOK(det, id, sampled, text)
    <2>1. det = [active |-> 0, buf |-> <<>>, expected |-> 0]
      BY DEF TailInit, EmptyDet, NoSeq
    <2>2. 0 <= id /\ id \in Nat /\ sampled \in Seq(Nat) /\ text \in Seq(Nat)
          /\ Len(text) <= Len(sampled)
      BY <1>2, <1>3
    <2> QED
      BY <2>1, <2>2, EmptyDetOK
  <1> QED
    BY <1>1, <1>2, <1>3, <1>4, <1>5 DEF TailInv

LEMMA AppendKeepsInv ==
    ASSUME TailInv, NEW t \in TokenIds, AppendGenerated(t)
    PROVE  TailInv'
  <1> DEFINE r == AppendToken(id, t)
             out == r.out
             s == Extended(t, out)
             o == Outcome(t, s, r.det)
             M == Matches(stops, s.tail)
  <1>1. /\ phase = "run" /\ r.ok /\ det' = r.det
        /\ sampled' = Append(sampled, t) /\ text' = text \o out
        /\ text_at' = Append(text_at, Len(text')) /\ stops' = stops /\ id' = id
    BY DEF AppendGenerated
  <1>2. seq' = IF o = "stop_string"
               THEN [s EXCEPT !.generated =
                        SubSeq(@, 1, CutTokenIdx(s, s.tail_start + EarliestMatch(s.tail)))]
               ELSE IF o = "continue" /\ ~TrimPanics(s) THEN Trimmed(s)
               ELSE s
    BY DEF AppendGenerated
  <1>3. phase' = IF o \in {"max_tokens", "eos", "stop_string"} THEN o
                 ELSE IF o = "continue" /\ TrimPanics(s) THEN "panicked"
                 ELSE "run"
    BY DEF AppendGenerated
  <1>4. t \in Nat
    BY TailAssumption
  <1>5. /\ stops \in StopSets /\ id \in Nat \ {0}
        /\ HistoryOK(sampled, text, text_at) /\ DetOK(det, id, sampled, text)
        /\ RunningOK(stops, seq, sampled, text, text_at)
    BY <1>1 DEF TailInv
  <1>6. /\ SeqOK(stops, seq, sampled, text, text_at) /\ Matches(stops, text) = {}
        /\ text \in Seq(Nat) /\ sampled \in Seq(Nat) /\ StopSet(stops)
        /\ TailOK(stops, seq.tail, seq.tail_start, text)
        /\ StopLen(stops) > 0 => Len(seq.tail) <= KeepOf(stops)
    BY <1>5, StopAssumption DEF RunningOK, SeqOK, HistoryOK, StopSet
  <1>7. /\ out \in Seq(Nat)
        /\ TokenBuffered(r, t, id, sampled) \/ TokenCompletes(r, t, id, sampled)
        /\ DetOK(r.det, id, Append(sampled, t), text \o out)
    BY <1>1, <1>4, <1>5, <1>6, TokenAccepted
  <1>8. o = IF Len(seq.generated) + 1 >= MaxTokens THEN "max_tokens"
            ELSE IF BufferedLen(r.det, id) > 0 THEN "buffered"
            ELSE IF t \in EosIds THEN "eos"
            ELSE IF MatchOffsets(s.tail) # {} THEN "stop_string"
            ELSE "continue"
    BY DEF Outcome
  <1>9. s.tail = seq.tail \o out /\ s.tail_start = seq.tail_start
    BY DEF Extended
  <1>10. MatchOffsets(s.tail) = M
    BY OfStops
  <1>11. \A k \in 2..Len(out) : IsCont(out[k])
    <2>1. CASE TokenBuffered(r, t, id, sampled)
      <3>1. Len(out) = 0
        BY <2>1 DEF TokenBuffered
      <3> QED
        BY <3>1
    <2>2. CASE TokenCompletes(r, t, id, sampled)
      BY <2>2 DEF TokenCompletes
    <2> QED
      BY <1>7, <2>1, <2>2
  <1> HIDE DEF r, out, s, o, M
  <1>12. GrownBy(sampled, text, text_at, sampled', text', text_at', out)
    BY <1>1, <1>4, <1>5, <1>7, HistoryGrows
  <1>13. HistoryOK(sampled', text', text_at') /\ text' \in Seq(Nat) /\ sampled' \in Seq(Nat)
    BY <1>12 DEF GrownBy, Grown, HistoryOK
  <1>14. SeqOK(stops, s, sampled', text', text_at')
    BY <1>1, <1>4, <1>5, <1>6, <1>7, <1>11, ExtendedOK DEF s
  <1>15. TailMatches(stops, s.tail, seq.tail_start, text')
    BY <1>1, <1>6, <1>7, <1>9, MatchTransfer
  <1>16. s \in SeqRecord /\ s.generated = sampled' /\ seq.tail_start \in Nat
    BY <1>6, <1>14 DEF SeqOK, TailOK
  <1>17. DetOK(det', id, sampled', text')
    BY <1>1, <1>7
  <1>18. phase' = "run" => RunningOK(stops, seq', sampled', text', text_at')
    <2>1. SUFFICES ASSUME phase' = "run" PROVE RunningOK(stops, seq', sampled', text', text_at')
      OBVIOUS
    <2>2. CASE o = "buffered"
      <3>1. BufferedLen(r.det, id) > 0 /\ seq' = s
        BY <1>2, <1>8, <2>2
      <3>2. TokenBuffered(r, t, id, sampled)
        BY <1>7, <3>1 DEF TokenCompletes
      <3>3. out = <<>>
        BY <3>2 DEF TokenBuffered, out
      <3>4. text' = text /\ s.tail = seq.tail
        <4>1. seq.tail \in Seq(Nat)
          BY <1>6 DEF TailOK
        <4> QED
          BY <1>1, <1>6, <1>9, <3>3, <4>1
      <3> QED
        BY <1>6, <1>14, <3>1, <3>4 DEF RunningOK
    <2>3. CASE o = "continue"
      <3>1. ~TrimPanics(s) /\ seq' = Trimmed(s)
        BY <1>2, <1>3, <2>1, <2>3
      <3>2. M = {}
        BY <1>8, <1>10, <2>3
      <3>3. Matches(stops, text') = {}
        BY <1>15, <3>2 DEF TailMatches, M
      <3>4. SeqOK(stops, Trimmed(s), sampled', text', text_at')
            /\ (StopLen(stops) > 0 => Len(Trimmed(s).tail) <= KeepOf(stops))
        BY <1>5, <1>13, <1>14, <3>1, TrimmedOK
      <3> QED
        BY <3>1, <3>3, <3>4 DEF RunningOK
    <2>4. o \notin {"max_tokens", "eos", "stop_string"}
      BY <1>3, <2>1
    <2> QED
      BY <1>8, <2>2, <2>3, <2>4
  <1>19. phase' = "stop_string" => CutOK(stops, seq', sampled', text', text_at')
    <2>1. SUFFICES ASSUME phase' = "stop_string"
                   PROVE  CutOK(stops, seq', sampled', text', text_at')
      OBVIOUS
    <2>2. o = "stop_string"
      BY <1>3, <2>1
    <2>3. M # {}
      BY <1>8, <1>10, <2>2
    <2> DEFINE match == s.tail_start + EarliestMatch(s.tail)
               c == CutTokenIdx(s, match)
               N == Matches(stops, text')
    <2>4. EarliestMatch(s.tail) = Min(M)
      BY <1>10 DEF EarliestMatch, Min
    <2>5. N # {} /\ N \in SUBSET Nat /\ Min(M) \in Nat /\ Min(N) = seq.tail_start + Min(M)
      BY <1>15, <1>16, <2>3, EarliestTransfers DEF M
    <2>6. match = Min(N)
      BY <1>9, <2>4, <2>5
    <2>7. match \in N
      BY <2>5, <2>6, LeastIsMin
    <2>8. match >= s.tail_start
      BY <1>9, <1>16, <2>4, <2>5
    <2>9. seq' = [s EXCEPT !.generated = SubSeq(@, 1, c)]
      BY <1>2, <2>2
    <2>10. seq'.generated = SubSeq(sampled', 1, c)
      BY <1>16, <2>9 DEF SeqRecord
    <2> HIDE DEF match, c, N
    <2>11. c \in 0..Len(sampled') /\ Reaches(text_at', c, match)
      BY <1>6, <1>13, <1>14, <2>7, <2>8, CutIsStart DEF c, N
    <2> QED
      BY <1>13, <2>6, <2>10, <2>11, CutHolds DEF N
  <1> QED
    BY <1>1, <1>5, <1>13, <1>17, <1>18, <1>19 DEF TailInv

LEMMA RejectKeepsInv ==
    ASSUME TailInv, NEW t \in TokenIds, RejectToken(t)
    PROVE  TailInv'
  <1>1. t \in Nat /\ ~AppendToken(id, t).ok
    BY TailAssumption DEF RejectToken
  <1>2. id \in Nat \ {0} /\ DetOK(det, id, sampled, text) /\ text \in Seq(Nat) /\ sampled \in Seq(Nat)
    BY DEF TailInv, HistoryOK
  <1>3. DetOK(AppendToken(id, t).det, id, sampled, text)
    BY <1>1, <1>2, TokenRefused
  <1> QED
    BY <1>3 DEF TailInv, RejectToken

LEMMA NextKeepsInv ==
    ASSUME TailInv, NextSequence
    PROVE  TailInv'
  <1>1. stops \in StopSets /\ StopSet(stops) /\ id \in Nat /\ DetOK(det, id, sampled, text)
    BY StopAssumption DEF TailInv, StopSet
  <1>2. /\ id' = id + 1 /\ seq' = ResetTail /\ det' = DetReset /\ phase' = "run"
        /\ sampled' = <<>> /\ text' = <<>> /\ text_at' = <<>> /\ stops' = stops
    BY DEF NextSequence
  <1>3. HistoryOK(sampled', text', text_at') /\ RunningOK(stops', seq', sampled', text', text_at')
    BY <1>1, <1>2, FreshOK
  <1>4. det' \in [active : Nat, buf : Seq(Nat), expected : Nat] /\ det'.active < id'
    <2>1. CASE det.active = id
      <3>1. det' = [active |-> 0, buf |-> <<>>, expected |-> 0]
        BY <1>2, <2>1 DEF DetReset, EmptyDet, NoSeq
      <3> QED
        BY <1>1, <1>2, <3>1
    <2>2. CASE det.active # id
      <3>1. det' = det /\ det.active <= id
            /\ det \in [active : Nat, buf : Seq(Nat), expected : Nat]
        BY <1>1, <1>2, <2>2 DEF DetReset, DetOK
      <3> QED
        BY <1>1, <1>2, <3>1
    <2> QED
      BY <2>1, <2>2
  <1>5. DetOK(det', id', sampled', text')
    <2>1. det'.active \in Nat /\ id' \in Nat
      BY <1>1, <1>2, <1>4
    <2>2. det'.active <= id' /\ det'.active # id'
      BY <1>4, <2>1
    <2>3. Len(text') <= Len(sampled')
      BY <1>2
    <2> QED
      BY <1>4, <2>2, <2>3 DEF DetOK
  <1>6. id' \in Nat \ {0}
    BY <1>1, <1>2
  <1> QED
    BY <1>1, <1>2, <1>3, <1>5, <1>6 DEF TailInv

-------------------------------------------------------------------------------
(* What the invariant says *)

LEMMA InvTailIsSuffix ==
    ASSUME TailInv
    PROVE  TailIsSuffix
  <1>1. SUFFICES ASSUME phase = "run" PROVE TailIsSuffix
    BY DEF TailIsSuffix
  <1> DEFINE l == Len(text)
             from == seq.tail_start
             k == Len(seq.tail)
             spans == seq.spans
             c == Len(spans)
  <1>2. /\ text \in Seq(Nat) /\ l \in Nat
        /\ TailOK(stops, seq.tail, from, text)
        /\ SpansOK(spans, from, sampled, text, text_at)
        /\ StopLen(stops) > 0 => k <= KeepOf(stops)
    BY <1>1 DEF TailInv, RunningOK, SeqOK, HistoryOK
  <1>3. seq.tail \in Seq(Nat) /\ from \in Nat /\ k \in Nat /\ from + k = l
        /\ \A i \in 1..k : seq.tail[i] = text[from + i]
    BY <1>2 DEF TailOK
  <1>4. MaxStopLen = StopLen(stops) /\ MaxKeep = KeepOf(stops)
    BY OfStops DEF MaxKeep, KeepOf
  <1>5. seq.tail = SubSeq(text, from + 1, l)
    <2> DEFINE tl == seq.tail
    <2>1. tl \in Seq(Nat) /\ from + Len(tl) = l /\ from \in Nat
          /\ \A i \in 1..Len(tl) : text[from + i] = tl[i]
      BY <1>3
    <2>2. from + Len(tl) <= l
      BY <1>2, <2>1
    <2> HIDE DEF tl, from
    <2>3. OccursAt(tl, text, from)
      BY <1>2, <2>1, <2>2, OccursBytes
    <2>4. SubSeq(text, from + 1, from + Len(tl)) = tl
      BY <2>3 DEF OccursAt
    <2> QED
      BY <2>1, <2>4 DEF tl
  <1>6. ASSUME NEW i \in from .. l - 1
        PROVE  Cardinality({n \in DOMAIN spans : i \in spans[n].start..spans[n].end-1}) = 1
    <2> DEFINE On == {n \in DOMAIN spans : i \in spans[n].start..spans[n].end-1}
    <2>1. /\ spans \in Seq(Span) /\ c \in Nat /\ DOMAIN spans = 1..c
          /\ \A n \in 1..c : spans[n] \in Span
          /\ \A n, m \in 1..c : n < m => spans[n].end <= spans[m].start
      BY <1>2 DEF SpansOK
    <2>2. PICK n \in 1..c : spans[n].start <= i /\ i < spans[n].end
      BY <1>2, <1>6 DEF SpansOK
    <2>3. i \in Int
      BY <1>2, <1>3
    <2>4. \A m \in 1..c : spans[m].start \in Nat /\ spans[m].end \in Nat
      BY <2>1 DEF Span
    <2> HIDE DEF spans, c
    <2>5. \A m \in 1..c : m \in On <=> spans[m].start <= i /\ i < spans[m].end
      BY <2>1, <2>3, <2>4
    <2>6. ASSUME NEW m \in 1..c, m # n, spans[m].start <= i, i < spans[m].end PROVE FALSE
      <3>1. m < n \/ n < m
        BY <2>1, <2>6
      <3>2. spans[m].end <= spans[n].start \/ spans[n].end <= spans[m].start
        BY <2>1, <3>1
      <3> QED
        BY <2>2, <2>3, <2>4, <2>6, <3>2
    <2>7. On \subseteq 1..c
      BY <2>1
    <2> HIDE DEF On
    <2>8. On = {n}
      BY <2>2, <2>5, <2>6, <2>7
    <2>9. Cardinality(On) = 1
      BY <2>8, FS_Singleton
    <2> QED
      BY <2>9 DEF On
  <1> QED
    BY <1>2, <1>3, <1>4, <1>5, <1>6 DEF TailIsSuffix

LEMMA InvCutExact ==
    ASSUME TailInv
    PROVE  CutExact
  <1>1. SUFFICES ASSUME phase = "stop_string" PROVE CutExact
    BY DEF CutExact
  <1> DEFINE match == EarliestMatch(text)
             reach == {0} \cup DOMAIN text_at
             at(c) == IF c = 0 THEN 0 ELSE text_at[c]
             n == Len(sampled)
  <1>2. CutOK(stops, seq, sampled, text, text_at) /\ HistoryOK(sampled, text, text_at)
    BY <1>1 DEF TailInv
  <1>3. match = Min(Matches(stops, text))
    BY OfStops DEF EarliestMatch, Min
  <1>4. n \in Nat /\ DOMAIN text_at = 1..n
    BY <1>2 DEF HistoryOK
  <1>5. reach = 0..n
    <2> HIDE DEF n
    <2>1. \A x : x \in 0..n <=> x = 0 \/ x \in 1..n
      BY <1>4
    <2> QED
      BY <1>4, <2>1
  <1>6. \A c : at(c) = TextAfter(text_at, c)
    BY DEF TextAfter
  <1>7. {c \in reach : at(c) = match} = {c \in 0..n : TextAfter(text_at, c) = match}
    <2> HIDE DEF match, reach, at, n
    <2> QED
      BY <1>5, <1>6
  <1>8. Len(seq.generated) = Min({c \in 0..n : TextAfter(text_at, c) = match})
        /\ IsPrefix(seq.generated, sampled)
    <2> HIDE DEF match
    <2> QED
      BY <1>2, <1>3 DEF CutOK
  <1>9. Len(seq.generated) = Min({c \in reach : at(c) = match})
    <2> HIDE DEF match, reach, at, n
    <2> QED
      BY <1>7, <1>8
  <1> QED
    BY <1>8, <1>9 DEF CutExact

LEMMA InvTextFromOwnTokens ==
    ASSUME TailInv
    PROVE  TextFromOwnTokens
  <1>1. DetOK(det, id, sampled, text) /\ sampled \in Seq(Nat) /\ text \in Seq(Nat)
    BY DEF TailInv, HistoryOK
  <1> DEFINE b == det.buf
             n == Len(sampled)
             l == Len(text)
             k == Len(b)
  <1>2. b \in Seq(Nat) /\ k \in Nat /\ n \in Nat /\ l \in Nat /\ l <= n
    BY <1>1 DEF DetOK
  <1>3. CASE det.active # id
    <2>1. BufferedLen(det, id) = 0
      BY <1>3 DEF BufferedLen
    <2>2. l + 0 <= n
      <3> HIDE DEF l, n
      <3> QED
        BY <1>2
    <2> QED
      BY <2>1, <2>2 DEF TextFromOwnTokens
  <1>4. CASE det.active = id
    <2>1. BufferedLen(det, id) = k
      BY <1>4 DEF BufferedLen
    <2>2. l + k <= n /\ \A x \in 1..k : b[x] = sampled[n - k + x]
      BY <1>1, <1>4 DEF DetOK
    <2> HIDE DEF b
    <2>3. n - k \in Nat /\ (n - k) + k = n
      <3> HIDE DEF n, k, l
      <3> QED
        BY <1>2, <2>2
    <2> DEFINE j == n - k
    <2>4. j \in Nat /\ j + Len(b) <= Len(sampled) /\ \A x \in 1..Len(b) : sampled[j + x] = b[x]
      BY <1>2, <2>2, <2>3
    <2>5. j + 1 = n - k + 1 /\ j + k = n
      BY <2>3
    <2> HIDE DEF j
    <2>6. OccursAt(b, sampled, j)
      BY <1>1, <1>2, <2>4, OccursBytes
    <2>7. SubSeq(sampled, j + 1, j + k) = b
      BY <2>6 DEF OccursAt
    <2>8. SubSeq(sampled, n - k + 1, n) = b
      BY <2>5, <2>7
    <2> QED
      BY <2>1, <2>2, <2>8 DEF TextFromOwnTokens, b
  <1> QED
    BY <1>3, <1>4

LEMMA InvStopsExact ==
    ASSUME TailInv
    PROVE  StopsExact
  <1>1. NoMissedStop
    BY OfStops DEF NoMissedStop, TailInv, RunningOK
  <1> QED
    BY <1>1, InvTailIsSuffix, InvCutExact, InvTextFromOwnTokens DEF StopsExact

\* Searching only the bounded tail, append_generated_token stops a sequence
\* exactly when its whole text contains a stop string and cuts the output at
\* the token that starts the match; tail, spans and detokenizer stay in step
\* with the sequence's own text.  For every set of stop strings, every token
\* sequence with rejections, every token limit and every tail bound.
THEOREM StopsExactHolds == TailSpec => []StopsExact
  <1>1. TailInit => TailInv
    BY TailInitOK
  <1>2. TailInv /\ [TailNext]_tailVars => TailInv'
    <2>1. SUFFICES ASSUME TailInv, [TailNext]_tailVars PROVE TailInv'
      OBVIOUS
    <2>2. ASSUME NEW t \in TokenIds, AppendGenerated(t) PROVE TailInv'
      BY <2>1, <2>2, AppendKeepsInv
    <2>3. ASSUME NEW t \in TokenIds, RejectToken(t) PROVE TailInv'
      BY <2>1, <2>3, RejectKeepsInv
    <2>4. CASE NextSequence
      BY <2>1, <2>4, NextKeepsInv
    <2>5. CASE UNCHANGED tailVars
      BY <2>1, <2>5 DEF TailInv, tailVars
    <2> QED
      BY <2>1, <2>2, <2>3, <2>4, <2>5 DEF TailNext
  <1>3. TailInv => StopsExact
    BY InvStopsExact
  <1> QED
    BY <1>1, <1>2, <1>3, PTL DEF TailSpec

-------------------------------------------------------------------------------
(* Code points                                                             *)

LEMMA SeqLenIs ==
    ASSUME NEW b \in Byte
    PROVE  /\ SeqLen(b) \in 0..4
           /\ SeqLen(b) = 1 => b \in 0..127
           /\ SeqLen(b) = 2 => b \in 192..223
           /\ SeqLen(b) = 3 => b \in 224..239
           /\ SeqLen(b) = 4 => b \in 240..255
  BY DEF SeqLen, Byte

LEMMA LowBits == \A b \in 128..191 : Low(b) = b - 128
  BY DEF Low

LEMMA TwoByteLead ==
    ASSUME NEW b0 \in 192..223, NEW b1 \in 128..191, Scalar(Code2(b0, b1), 2)
    PROVE  b0 >= 194
  <1>1. b0 % 32 = b0 - 192 /\ Low(b1) = b1 - 128
    BY LowBits
  <1>2. (b0 - 192) * 64 + (b1 - 128) >= 128
    BY <1>1 DEF Scalar, MinOf, Code2
  <1> QED
    BY <1>2

LEMMA ThreeByteLead ==
    ASSUME NEW b0 \in 224..239, NEW b1 \in 128..191, NEW b2 \in 128..191,
           Scalar(Code3(b0, b1, b2), 3)
    PROVE  LeadAllows(b0, b1)
  <1>1. b0 % 16 = b0 - 224 /\ Low(b1) = b1 - 128 /\ Low(b2) = b2 - 128
    <2>1. b0 % 16 = b0 - 224
      OBVIOUS
    <2> QED
      BY <2>1, LowBits
  <1> DEFINE cp == ((b0 - 224) * 64 + (b1 - 128)) * 64 + (b2 - 128)
  <1>2. cp >= 2048 /\ cp \notin 55296..57343
    BY <1>1, SMT DEF Scalar, MinOf, Code3
  <1>3. (b0 = 224 => b1 >= 160) /\ (b0 = 237 => b1 < 160)
    BY <1>2, SMT
  <1> QED
    BY <1>3 DEF LeadAllows

LEMMA FourByteLead ==
    ASSUME NEW b0 \in 240..255, NEW b1 \in 128..191, NEW b2 \in 128..191, NEW b3 \in 128..191,
           Scalar(Code4(b0, b1, b2, b3), 4),
           b0 \notin AliasLead
    PROVE  b0 <= 244 /\ LeadAllows(b0, b1)
  <1>1. Low(b1) = b1 - 128 /\ Low(b2) = b2 - 128 /\ Low(b3) = b3 - 128
    BY LowBits
  <1>2. b0 \in 240..247 \/ b0 \in 253..255
    BY DEF AliasLead
  <1>3. CASE b0 \in 253..255
    <2>1. b0 % 8 = b0 - 248
      BY <1>3
    <2>2. (((b0 - 248) * 64 + (b1 - 128)) * 64 + (b2 - 128)) * 64 + (b3 - 128) <= 1114111
      BY <1>1, <2>1, SMT DEF Scalar, Code4
    <2> QED
      BY <1>3, <2>2, SMT
  <1>4. CASE b0 \in 240..247
    <2>1. b0 % 8 = b0 - 240
      BY <1>4
    <2> DEFINE cp == (((b0 - 240) * 64 + (b1 - 128)) * 64 + (b2 - 128)) * 64 + (b3 - 128)
    <2>2. cp >= 65536 /\ cp <= 1114111
      BY <1>1, <2>1, SMT DEF Scalar, MinOf, Code4
    <2>3. b0 <= 244 /\ (b0 = 240 => b1 >= 144) /\ (b0 = 244 => b1 <= 143)
      BY <1>4, <2>2, SMT
    <2> QED
      BY <1>4, <2>3 DEF LeadAllows
  <1> QED
    BY <1>2, <1>3, <1>4

-------------------------------------------------------------------------------
(* One scalar                                                              *)

LEMMA ScalarIs ==
    ASSUME NEW bytes \in Seq(Byte), NEW p \in 1..Len(bytes), NEW n, n = SeqLen(bytes[p])
    PROVE  /\ n \in 0..4 /\ bytes[p] \in Byte
           /\ n = 1 => ScalarLen(bytes, p) = 1
           /\ n = 0 \/ (n # 1 /\ p + n - 1 > Len(bytes)) => ScalarLen(bytes, p) = 0
           /\ n \in 2..4 /\ p + n - 1 <= Len(bytes) =>
                ScalarLen(bytes, p) = IF /\ \A i \in 1..n-1 : IsContinuation(bytes[p+i])
                                         /\ Scalar(CodePoint(bytes, p, n), n)
                                      THEN n ELSE 0
  <1>1. bytes[p] \in Byte
    OBVIOUS
  <1>2. n \in 0..4
    BY <1>1, SeqLenIs
  <1>3. ScalarLen(bytes, p) =
            IF n = 1 THEN 1
            ELSE IF n = 0 \/ p + n - 1 > Len(bytes) THEN 0
            ELSE IF (\A i \in 1..n-1 : IsContinuation(bytes[p+i])) /\ Scalar(CodePoint(bytes, p, n), n)
            THEN n ELSE 0
    BY DEF ScalarLen
  <1> HIDE DEF Scalar, CodePoint
  <1> QED
    BY <1>1, <1>2, <1>3

LEMMA ScalarBounds ==
    ASSUME NEW bytes \in Seq(Byte), NEW p \in 1..Len(bytes)
    PROVE  /\ ScalarLen(bytes, p) \in 0..4
           /\ p + ScalarLen(bytes, p) - 1 <= Len(bytes)
  <1> DEFINE n == SeqLen(bytes[p])
  <1>1. n \in 0..4 /\ ScalarLen(bytes, p) \in {0, 1, n}
        /\ (n \in 2..4 /\ ScalarLen(bytes, p) # 0 => p + n - 1 <= Len(bytes))
    <2>1. n \in 0..4
      BY SeqLenIs
    <2> QED
      BY <2>1 DEF ScalarLen
  <1> QED
    BY <1>1

\* decode_one looks at no byte outside the length its lead byte announces.
LEMMA ScalarSame ==
    ASSUME NEW x \in Seq(Byte), NEW y \in Seq(Byte),
           NEW px \in 1..Len(x), NEW py \in 1..Len(y), x[px] = y[py],
           NEW n, n = SeqLen(x[px]),
           (px + n - 1 <= Len(x)) <=> (py + n - 1 <= Len(y)),
           px + n - 1 <= Len(x) => \A i \in 1..n-1 : x[px + i] = y[py + i]
    PROVE  ScalarLen(x, px) = ScalarLen(y, py)
  <1>1. n \in 0..4
    BY ScalarIs
  <1>2. CASE n = 1
    BY <1>2, ScalarIs
  <1>3. CASE n = 0 \/ (n # 1 /\ px + n - 1 > Len(x))
    <2>1. n = 0 \/ (n # 1 /\ py + n - 1 > Len(y))
      BY <1>1, <1>3
    <2>2. ScalarLen(x, px) = 0
      BY <1>3, ScalarIs
    <2>3. ScalarLen(y, py) = 0
      BY <2>1, ScalarIs
    <2> QED
      BY <2>2, <2>3
  <1>4. CASE n \in 2..4 /\ px + n - 1 <= Len(x)
    <2>1. \A i \in 1..n-1 : x[px + i] = y[py + i]
      BY <1>4
    <2>2. CodePoint(x, px, n) = CodePoint(y, py, n)
      <3>1. CASE n = 2
        BY <2>1, <3>1, SMT DEF CodePoint
      <3>2. CASE n = 3
        BY <2>1, <3>2, SMT DEF CodePoint
      <3>3. CASE n = 4
        <4>1. x[px+1] = y[py+1] /\ x[px+2] = y[py+2] /\ x[px+3] = y[py+3]
          BY <2>1, <3>3
        <4> QED
          BY <4>1, <3>3, SMT DEF CodePoint
      <3> QED
        BY <1>4, <3>1, <3>2, <3>3
    <2>3. (\A i \in 1..n-1 : IsContinuation(x[px + i]))
          <=> (\A i \in 1..n-1 : IsContinuation(y[py + i]))
      BY <2>1
    <2>4. py + n - 1 <= Len(y)
      BY <1>4
    <2> DEFINE okx == (\A i \in 1..n-1 : IsContinuation(x[px+i])) /\ Scalar(CodePoint(x, px, n), n)
               oky == (\A i \in 1..n-1 : IsContinuation(y[py+i])) /\ Scalar(CodePoint(y, py, n), n)
    <2>5. okx <=> oky
      BY <2>2, <2>3
    <2>6. ScalarLen(x, px) = IF okx THEN n ELSE 0
      BY <1>4, ScalarIs
    <2>7. ScalarLen(y, py) = IF oky THEN n ELSE 0
      BY <1>4, <2>4, ScalarIs
    <2> HIDE DEF okx, oky
    <2> QED
      BY <2>5, <2>6, <2>7
  <1> QED
    BY <1>1, <1>2, <1>3, <1>4

LEMMA TwoBytes ==
    ASSUME NEW bytes \in Seq(Byte), NEW p \in 1..Len(bytes), SeqLen(bytes[p]) = 2,
           bytes[p + 1] \in 128..191, Scalar(CodePoint(bytes, p, 2), 2)
    PROVE  bytes[p] \in 194..244
  <1> DEFINE b0 == bytes[p]
             b1 == bytes[p + 1]
  <1>1. b0 \in Byte /\ SeqLen(b0) = 2 /\ b1 \in 128..191 /\ Scalar(Code2(b0, b1), 2)
    BY DEF CodePoint
  <1> HIDE DEF b0, b1
  <1>2. b0 \in 192..223
    BY <1>1, SeqLenIs
  <1>3. b0 >= 194
    BY <1>1, <1>2, TwoByteLead
  <1>4. b0 \in 194..244
    BY <1>2, <1>3
  <1> QED
    BY <1>4 DEF b0

LEMMA ThreeBytes ==
    ASSUME NEW bytes \in Seq(Byte), NEW p \in 1..Len(bytes), SeqLen(bytes[p]) = 3,
           bytes[p + 1] \in 128..191, bytes[p + 2] \in 128..191,
           Scalar(CodePoint(bytes, p, 3), 3)
    PROVE  bytes[p] \in 194..244 /\ LeadAllows(bytes[p], bytes[p + 1])
  <1> DEFINE b0 == bytes[p]
             b1 == bytes[p + 1]
             b2 == bytes[p + 2]
  <1>1. /\ b0 \in Byte /\ SeqLen(b0) = 3 /\ b1 \in 128..191 /\ b2 \in 128..191
        /\ Scalar(Code3(b0, b1, b2), 3)
    BY DEF CodePoint
  <1> HIDE DEF b0, b1, b2
  <1>2. b0 \in 224..239
    BY <1>1, SeqLenIs
  <1>3. LeadAllows(b0, b1)
    BY <1>1, <1>2, ThreeByteLead
  <1>4. b0 \in 194..244
    BY <1>2, <1>3
  <1> QED
    BY <1>3, <1>4 DEF b0, b1

LEMMA FourBytes ==
    ASSUME NEW bytes \in Seq(Byte), NEW p \in 1..Len(bytes), SeqLen(bytes[p]) = 4,
           bytes[p + 1] \in 128..191, bytes[p + 2] \in 128..191, bytes[p + 3] \in 128..191,
           Scalar(CodePoint(bytes, p, 4), 4), bytes[p] \notin AliasLead
    PROVE  bytes[p] \in 194..244 /\ LeadAllows(bytes[p], bytes[p + 1])
  <1> DEFINE b0 == bytes[p]
             b1 == bytes[p + 1]
             b2 == bytes[p + 2]
             b3 == bytes[p + 3]
  <1>1. /\ b0 \in Byte /\ SeqLen(b0) = 4 /\ b1 \in 128..191 /\ b2 \in 128..191
        /\ b3 \in 128..191 /\ Scalar(Code4(b0, b1, b2, b3), 4) /\ b0 \notin AliasLead
    BY DEF CodePoint
  <1> HIDE DEF b0, b1, b2, b3
  <1>2. b0 \in 240..255
    BY <1>1, SeqLenIs
  <1>3. b0 <= 244 /\ LeadAllows(b0, b1)
    BY <1>1, <1>2, FourByteLead
  <1>4. b0 \in 194..244
    BY <1>2, <1>3
  <1> QED
    BY <1>3, <1>4 DEF b0, b1

\* What decode_one accepts starts with a lead byte of UTF-8, unless the lead is
\* one of those it takes for another.
LEMMA ScalarLead ==
    ASSUME NEW bytes \in Seq(Byte), NEW p \in 1..Len(bytes), SeqLen(bytes[p]) # 1,
           ScalarLen(bytes, p) # 0, bytes[p] \notin AliasLead
    PROVE  /\ SeqLen(bytes[p]) \in 2..4 /\ p + SeqLen(bytes[p]) - 1 <= Len(bytes)
           /\ bytes[p] \in 194..244
           /\ \A i \in 1..SeqLen(bytes[p])-1 : IsContinuation(bytes[p + i])
           /\ SeqLen(bytes[p]) >= 3 => LeadAllows(bytes[p], bytes[p + 1])
  <1>1. SeqLen(bytes[p]) \in 2..4 /\ p + SeqLen(bytes[p]) - 1 <= Len(bytes)
    BY ScalarIs
  <1>2. /\ \A i \in 1..SeqLen(bytes[p])-1 : IsContinuation(bytes[p + i])
        /\ Scalar(CodePoint(bytes, p, SeqLen(bytes[p])), SeqLen(bytes[p]))
    BY <1>1, ScalarIs
  <1>3. /\ bytes[p + 1] \in 128..191 /\ (SeqLen(bytes[p]) >= 3 => bytes[p + 2] \in 128..191)
        /\ (SeqLen(bytes[p]) = 4 => bytes[p + 3] \in 128..191)
    <2> DEFINE n == SeqLen(bytes[p])
    <2>1. 1 \in 1..n-1 /\ (n >= 3 => 2 \in 1..n-1) /\ (n = 4 => 3 \in 1..n-1)
      BY <1>1
    <2> QED
      BY <1>2, <2>1 DEF IsContinuation
  <1>4. CASE SeqLen(bytes[p]) = 2
    <2>1. Scalar(CodePoint(bytes, p, 2), 2) /\ bytes[p + 1] \in 128..191
      BY <1>2, <1>3, <1>4
    <2>2. bytes[p] \in 194..244
      BY <1>4, <2>1, TwoBytes
    <2> QED
      BY <1>1, <1>2, <1>4, <2>2
  <1>5. CASE SeqLen(bytes[p]) = 3
    <2>1. Scalar(CodePoint(bytes, p, 3), 3) /\ bytes[p + 2] \in 128..191
      BY <1>2, <1>3, <1>5
    <2>2. bytes[p] \in 194..244 /\ LeadAllows(bytes[p], bytes[p + 1])
      BY <1>3, <1>5, <2>1, ThreeBytes
    <2> QED
      BY <1>1, <1>2, <2>2
  <1>6. CASE SeqLen(bytes[p]) = 4
    <2>1. /\ Scalar(CodePoint(bytes, p, 4), 4)
          /\ bytes[p + 2] \in 128..191 /\ bytes[p + 3] \in 128..191
      BY <1>2, <1>3, <1>6
    <2>2. bytes[p] \in 194..244 /\ LeadAllows(bytes[p], bytes[p + 1])
      BY <1>3, <1>6, <2>1, FourBytes
    <2> QED
      BY <1>1, <1>2, <2>2
  <1> QED
    BY <1>1, <1>4, <1>5, <1>6

-------------------------------------------------------------------------------
(* The incomplete tail                                                     *)

\* The last k bytes start a character that later bytes can complete.
TailAt(bytes, k) ==
    LET lead == bytes[Len(bytes) - k + 1]
    IN  /\ k \in 1..3 /\ k <= Len(bytes)
        /\ lead \in 194..244 /\ (k = 2 => lead >= 224) /\ (k = 3 => lead >= 240)
        /\ \A i \in Len(bytes)-k+2 .. Len(bytes) : IsContinuation(bytes[i])
        /\ k # 1 => LeadAllows(lead, bytes[Len(bytes) - k + 2])

Trailing(bytes) == {k \in 0..Len(bytes) : \A i \in Len(bytes)-k+1 .. Len(bytes) : IsContinuation(bytes[i])}
ContOf(bytes) == CHOOSE k \in Trailing(bytes) : \A j \in Trailing(bytes) : j <= k

LEMMA ContIs ==
    ASSUME NEW bytes \in Seq(Byte)
    PROVE  /\ ContOf(bytes) \in Trailing(bytes)
           /\ \A j \in Trailing(bytes) : j <= ContOf(bytes)
           /\ ContOf(bytes) # Len(bytes) => ~IsContinuation(bytes[Len(bytes) - ContOf(bytes)])
  <1> DEFINE n == Len(bytes)
             T == Trailing(bytes)
             R == {n - k : k \in T}
  <1>1. n \in Nat /\ T \subseteq 0..n /\ 0 \in T
    BY DEF Trailing
  <1>2. R \subseteq Nat /\ R # {}
    BY <1>1
  <1>3. PICK m \in R : \A x \in R : m <= x
    BY <1>2, LeastExists
  <1>4. PICK k \in T : m = n - k
    OBVIOUS
  <1>5. \A j \in T : j <= k
    <2> TAKE j \in T
    <2>1. n - j \in R /\ j \in 0..n /\ k \in 0..n
      BY <1>1
    <2>2. n - k <= n - j
      BY <1>3, <1>4, <2>1
    <2> HIDE DEF n
    <2> QED
      BY <1>1, <2>1, <2>2
  <1>6. ContOf(bytes) \in T /\ \A j \in T : j <= ContOf(bytes)
    BY <1>5 DEF ContOf
  <1>7. ASSUME ContOf(bytes) # n, IsContinuation(bytes[n - ContOf(bytes)]) PROVE FALSE
    <2> DEFINE c == ContOf(bytes)
    <2>1. c \in 0..n /\ \A i \in n-c+1 .. n : IsContinuation(bytes[i])
      BY <1>6 DEF Trailing
    <2> HIDE DEF c
    <2>2. c + 1 \in 0..n
      BY <1>1, <1>7, <2>1 DEF c
    <2>3. \A i \in n-(c+1)+1 .. n : IsContinuation(bytes[i])
      <3> TAKE i \in n-(c+1)+1 .. n
      <3>1. i = n - c \/ i \in n-c+1 .. n
        BY <1>1, <2>1
      <3> QED
        BY <1>7, <2>1, <3>1 DEF c
    <2>4. c + 1 \in T
      BY <2>2, <2>3 DEF Trailing
    <2>5. c + 1 <= c
      BY <1>6, <2>4 DEF c
    <2> QED
      BY <2>1, <2>5
  <1> QED
    BY <1>6, <1>7

LEMMA TailCont ==
    ASSUME NEW bytes \in Seq(Byte), NEW k, TailAt(bytes, k)
    PROVE  ContOf(bytes) = k - 1
  <1> DEFINE n == Len(bytes)
             c == ContOf(bytes)
  <1>1. n \in Nat /\ k \in 1..3 /\ k <= n /\ bytes[n - k + 1] \in 194..244
        /\ \A i \in n-k+2 .. n : IsContinuation(bytes[i])
    BY DEF TailAt
  <1>2. k - 1 \in Trailing(bytes)
    <2>1. n - (k - 1) + 1 = n - k + 2 /\ k - 1 \in 0..n
      BY <1>1
    <2> QED
      BY <1>1, <2>1 DEF Trailing
  <1>3. c \in 0..n /\ k - 1 <= c /\ \A i \in n-c+1 .. n : IsContinuation(bytes[i])
    BY <1>2, ContIs DEF Trailing
  <1> HIDE DEF c
  <1>4. ~(k <= c)
    <2>1. SUFFICES ASSUME k <= c PROVE FALSE
      OBVIOUS
    <2>2. n - k + 1 \in n-c+1 .. n
      BY <1>1, <1>3, <2>1
    <2>3. IsContinuation(bytes[n - k + 1])
      BY <1>3, <2>2
    <2>4. \A b \in 194..244 : b \notin 128..191
      OBVIOUS
    <2>5. bytes[n - k + 1] \in 128..191
      BY <2>3 DEF IsContinuation
    <2> QED
      BY <1>1, <2>4, <2>5
  <1> QED
    BY <1>1, <1>3, <1>4 DEF c

LEMMA TailLenIs ==
    ASSUME NEW bytes \in Seq(Byte)
    PROVE  /\ IncompleteTailLen(bytes) \in 0..3 /\ IncompleteTailLen(bytes) <= Len(bytes)
           /\ IncompleteTailLen(bytes) # 0 => TailAt(bytes, IncompleteTailLen(bytes))
           /\ \A k : TailAt(bytes, k) => IncompleteTailLen(bytes) = k
  <1> DEFINE n == Len(bytes)
             c == ContOf(bytes)
             lead == bytes[n - c]
             r == IncompleteTailLen(bytes)
  <1>1. r = IF c >= 3 \/ c = n THEN 0
            ELSE IF c = 0 THEN (IF lead \in 194..244 THEN 1 ELSE 0)
            ELSE IF c = 1 THEN (IF lead \in 224..244 /\ LeadAllows(lead, bytes[n]) THEN 2 ELSE 0)
            ELSE (IF lead \in 240..244 /\ LeadAllows(lead, bytes[n-1]) THEN 3 ELSE 0)
    BY DEF IncompleteTailLen, ContOf, Trailing
  <1>2. n \in Nat /\ c \in 0..n /\ \A i \in n-c+1 .. n : IsContinuation(bytes[i])
    BY ContIs DEF Trailing
  <1>3. c # n => lead \in Byte
    BY <1>2
  <1> HIDE DEF c, r
  <1>4. r \in 0..3 /\ (r # 0 => r = c + 1 /\ c # n)
    BY <1>1, <1>2
  <1>5. ASSUME r # 0 PROVE TailAt(bytes, r)
    <2>1. r = c + 1 /\ c \in 0..2 /\ c < n
      BY <1>1, <1>2, <1>4, <1>5
    <2>2. n - r + 1 = n - c /\ n - r + 2 = n - c + 1
      BY <1>2, <2>1
    <2>3. lead \in 194..244 /\ (c = 1 => lead >= 224) /\ (c = 2 => lead >= 240)
          /\ (c # 0 => LeadAllows(lead, bytes[n - c + 1]))
      <3>1. CASE c = 0
        BY <1>1, <1>5, <3>1
      <3>2. CASE c = 1
        <4>1. lead \in 224..244 /\ LeadAllows(lead, bytes[n]) /\ n - c + 1 = n
          BY <1>1, <1>2, <1>5, <3>2
        <4> QED
          BY <3>2, <4>1
      <3>3. CASE c = 2
        <4>1. lead \in 240..244 /\ LeadAllows(lead, bytes[n-1]) /\ n - c + 1 = n - 1
          BY <1>1, <1>2, <1>5, <3>3
        <4> QED
          BY <3>3, <4>1
      <3> QED
        BY <2>1, <3>1, <3>2, <3>3
    <2>4. bytes[n - r + 1] = lead /\ bytes[n - r + 2] = bytes[n - c + 1]
      BY <2>2
    <2> HIDE DEF lead
    <2>5. /\ bytes[n - r + 1] \in 194..244
          /\ (r = 2 => bytes[n - r + 1] >= 224) /\ (r = 3 => bytes[n - r + 1] >= 240)
          /\ (r # 1 => LeadAllows(bytes[n - r + 1], bytes[n - r + 2]))
      BY <2>1, <2>3, <2>4
    <2>6. \A i \in n-r+2 .. n : IsContinuation(bytes[i])
      BY <1>2, <2>2
    <2>7. r \in 1..3 /\ r <= n
      BY <1>2, <2>1
    <2> QED
      BY <2>5, <2>6, <2>7 DEF TailAt
  <1>6. ASSUME NEW k, TailAt(bytes, k) PROVE r = k
    <2>1. c = k - 1
      BY <1>6, TailCont DEF c
    <2>2. /\ k \in 1..3 /\ k <= n /\ bytes[n - k + 1] \in 194..244
          /\ (k = 2 => bytes[n - k + 1] >= 224) /\ (k = 3 => bytes[n - k + 1] >= 240)
          /\ (k # 1 => LeadAllows(bytes[n - k + 1], bytes[n - k + 2]))
      BY <1>6 DEF TailAt
    <2>3. n - k + 1 = n - c /\ c # n /\ c \in 0..2
      BY <1>2, <2>1, <2>2
    <2> DEFINE b == bytes[n - k + 1]
               d == bytes[n - k + 2]
    <2>4. lead = b /\ b \in 194..244 /\ (k = 2 => b >= 224) /\ (k = 3 => b >= 240)
          /\ (k # 1 => LeadAllows(b, d))
      BY <2>2, <2>3
    <2>5. CASE k = 1
      BY <1>1, <2>1, <2>2, <2>3, <2>5
    <2>6. CASE k = 2
      <3>1. n - k + 2 = n
        BY <1>2, <2>6
      <3>3. d = bytes[n]
        BY <3>1
      <3> HIDE DEF b, d, lead
      <3>2. c = 1 /\ lead \in 224..244 /\ LeadAllows(lead, bytes[n])
        BY <2>1, <2>4, <2>6, <3>3
      <3> QED
        BY <1>1, <2>3, <2>6, <3>2
    <2>7. CASE k = 3
      <3>1. n - k + 2 = n - 1
        BY <1>2, <2>7
      <3>3. d = bytes[n-1]
        BY <3>1
      <3> HIDE DEF b, d, lead
      <3>2. c = 2 /\ lead \in 240..244 /\ LeadAllows(lead, bytes[n-1])
        BY <2>1, <2>4, <2>7, <3>3
      <3> QED
        BY <1>1, <2>3, <2>7, <3>2
    <2> QED
      BY <2>2, <2>5, <2>6, <2>7
  <1>7. r <= n
    BY <1>2, <1>4
  <1> QED
    BY <1>4, <1>5, <1>6, <1>7 DEF r

-------------------------------------------------------------------------------
(* Texts put together                                                      *)

\* No character runs over the end of a into b.
Apart(a, b) == b = <<>> \/ ~IsContinuation(b[1]) \/ IncompleteTailLen(a) = 0

NoAlias(bytes) == \A i \in DOMAIN bytes : bytes[i] \notin AliasLead

LEMMA BytesAreInts ==
    ASSUME NEW bytes \in Seq(Byte)
    PROVE  bytes \in Seq(Int)
  <1>1. Byte \subseteq Int
    BY DEF Byte
  <1> QED
    BY <1>1, SeqMonotonic

LEMMA ConcatIs ==
    ASSUME NEW a \in Seq(Byte), NEW b \in Seq(Byte)
    PROVE  /\ a \o b \in Seq(Byte) /\ Len(a \o b) = Len(a) + Len(b)
           /\ \A i \in 1..Len(a) : (a \o b)[i] = a[i]
           /\ \A i \in 1..Len(b) : (a \o b)[Len(a) + i] = b[i]
  OBVIOUS

\* The parts of a text can be put together in either order.
LEMMA JoinInts ==
    ASSUME NEW x \in Seq(Int), NEW y \in Seq(Int), NEW z \in Seq(Int)
    PROVE  (x \o y) \o z = x \o (y \o z)
  BY ConcatAssociative

LEMMA JoinBytes ==
    ASSUME NEW x \in Seq(Byte), NEW y \in Seq(Byte), NEW z \in Seq(Byte)
    PROVE  (x \o y) \o z = x \o (y \o z)
  BY ConcatAssociative

LEMMA ScalarBehind ==
    ASSUME NEW a \in Seq(Byte), NEW b \in Seq(Byte), NEW q \in 1..Len(b)
    PROVE  ScalarLen(a \o b, Len(a) + q) = ScalarLen(b, q)
  <1> DEFINE ab == a \o b
             la == Len(a)
             lb == Len(b)
             n == SeqLen(b[q])
  <1>1. ab \in Seq(Byte) /\ Len(ab) = la + lb /\ \A i \in 1..lb : ab[la + i] = b[i]
    BY ConcatIs
  <1>2. la \in Nat /\ lb \in Nat /\ q \in 1..lb
    OBVIOUS
  <1>3. b[q] \in Byte /\ n \in 0..4
    BY SeqLenIs
  <1>4. ab[la + q] = b[q] /\ la + q \in 1..Len(ab)
    BY <1>1, <1>2
  <1> HIDE DEF ab, la, lb, n
  <1>5. (q + n - 1 <= lb) <=> (la + q + n - 1 <= Len(ab))
    BY <1>1, <1>2, <1>3
  <1>6. q + n - 1 <= lb => \A i \in 1..n-1 : b[q + i] = ab[la + q + i]
    <2>1. SUFFICES ASSUME q + n - 1 <= lb, NEW i \in 1..n-1 PROVE b[q + i] = ab[la + q + i]
      OBVIOUS
    <2>2. q + i \in 1..lb /\ la + (q + i) = la + q + i
      BY <1>2, <1>3, <2>1
    <2> QED
      BY <1>1, <2>2
  <1>7. ScalarLen(b, q) = ScalarLen(ab, la + q)
    <2> DEFINE m == la + q
    <2>1. m \in 1..Len(ab) /\ b[q] = ab[m] /\ q \in 1..Len(b) /\ n = SeqLen(b[q])
      BY <1>2, <1>4 DEF lb, n
    <2>2. (q + n - 1 <= Len(b)) <=> (m + n - 1 <= Len(ab))
      BY <1>5 DEF lb
    <2>3. q + n - 1 <= Len(b) => \A i \in 1..n-1 : b[q + i] = ab[m + i]
      BY <1>6 DEF lb
    <2> HIDE DEF m
    <2>4. ScalarLen(b, q) = ScalarLen(ab, m)
      BY <1>1, <2>1, <2>2, <2>3, ScalarSame
    <2> QED
      BY <2>4 DEF m
  <1> QED
    BY <1>7 DEF ab, la

LEMMA ScalarBefore ==
    ASSUME NEW a \in Seq(Byte), NEW b \in Seq(Byte), NEW p \in 1..Len(a),
           Apart(a, b), NoAlias(a \o b)
    PROVE  ScalarLen(a \o b, p) = ScalarLen(a, p)
  <1> DEFINE ab == a \o b
             la == Len(a)
             lb == Len(b)
             n == SeqLen(a[p])
  <1>1. ab \in Seq(Byte) /\ Len(ab) = la + lb /\ (\A i \in 1..la : ab[i] = a[i])
        /\ (\A i \in 1..lb : ab[la + i] = b[i])
    BY ConcatIs
  <1>2. la \in Nat /\ lb \in Nat /\ p \in 1..la
    OBVIOUS
  <1>3. a[p] \in Byte /\ n \in 0..4
    BY SeqLenIs
  <1>4. ab[p] = a[p] /\ p \in 1..Len(ab) /\ ab[p] \notin AliasLead
    <2>1. ab[p] = a[p] /\ p \in 1..Len(ab) /\ p \in DOMAIN ab
      BY <1>1, <1>2
    <2> QED
      BY <2>1 DEF NoAlias
  <1> HIDE DEF ab, la, lb, n
  <1>5. CASE p + n - 1 <= la
    <2>1. p + n - 1 <= Len(ab)
      BY <1>1, <1>2, <1>3, <1>5
    <2>2. \A i \in 1..n-1 : a[p + i] = ab[p + i]
      <3> TAKE i \in 1..n-1
      <3>1. p + i \in 1..la
        BY <1>2, <1>3, <1>5
      <3> QED
        BY <1>1, <3>1
    <2>3. ScalarLen(a, p) = ScalarLen(ab, p)
      BY <1>1, <1>2, <1>4, <1>5, <2>1, <2>2, ScalarSame DEF n, la
    <2> QED
      BY <2>3 DEF ab
  <1>6. CASE p + n - 1 > la
    <2>1. n \in 2..4
      BY <1>2, <1>3, <1>6
    <2>2. ScalarLen(a, p) = 0
      BY <1>2, <1>6, <2>1, ScalarIs DEF n, la
    <2>3. ASSUME ScalarLen(ab, p) # 0 PROVE FALSE
      <3> DEFINE k == la - p + 1
      <3>1. /\ SeqLen(ab[p]) = n /\ SeqLen(ab[p]) # 1
        BY <1>4, <2>1 DEF n
      <3>2. /\ p + n - 1 <= Len(ab) /\ a[p] \in 194..244
            /\ \A i \in 1..n-1 : IsContinuation(ab[p + i])
            /\ n >= 3 => LeadAllows(a[p], ab[p + 1])
        <4>1. /\ p + SeqLen(ab[p]) - 1 <= Len(ab) /\ ab[p] \in 194..244
              /\ \A i \in 1..SeqLen(ab[p])-1 : IsContinuation(ab[p + i])
              /\ SeqLen(ab[p]) >= 3 => LeadAllows(ab[p], ab[p + 1])
          BY <1>1, <1>4, <2>3, <3>1, ScalarLead
        <4> QED
          BY <1>4, <3>1, <4>1
      <3>3. k \in 1..n-1 /\ k \in 1..3 /\ k <= la /\ la - k + 1 = p /\ p + k = la + 1
            /\ la - k + 2 = p + 1
        BY <1>2, <1>6, <2>1
      <3> HIDE DEF k
      <3>4. lb >= 1 /\ IsContinuation(b[1])
        <4>1. lb >= 1
          BY <1>1, <1>2, <1>6, <3>2, <2>1
        <4>2. ab[la + 1] = b[1]
          BY <1>1, <1>2, <4>1
        <4> QED
          BY <3>2, <3>3, <4>1, <4>2
      <3>5. b # <<>>
        BY <3>4 DEF lb
      <3>6. IncompleteTailLen(a) = 0
        BY <3>4, <3>5 DEF Apart
      <3>7. \A i \in la-k+2 .. la : IsContinuation(a[i])
        <4> TAKE i \in la-k+2 .. la
        <4>1. i - p \in 1..n-1 /\ p + (i - p) = i /\ i \in 1..la
          BY <1>2, <3>3, <2>1
        <4>2. IsContinuation(ab[i])
          BY <3>2, <4>1
        <4> QED
          BY <1>1, <4>1, <4>2
      <3>8. (k = 2 => a[p] >= 224) /\ (k = 3 => a[p] >= 240)
        <4>1. n = 3 => a[p] >= 224
          BY <1>3, SeqLenIs DEF n
        <4>2. n = 4 => a[p] >= 240
          BY <1>3, SeqLenIs DEF n
        <4>3. a[p] \in Int
          BY <1>2, BytesAreInts DEF la
        <4>4. n >= 3 => a[p] >= 224
          BY <2>1, <4>1, <4>2, <4>3
        <4>5. (k = 2 => n >= 3) /\ (k = 3 => n = 4)
          BY <2>1, <3>3
        <4> QED
          BY <4>2, <4>4, <4>5
      <3>9. k # 1 => LeadAllows(a[p], a[p + 1])
        <4>1. SUFFICES ASSUME k # 1 PROVE LeadAllows(a[p], a[p + 1])
          OBVIOUS
        <4>2. n >= 3 /\ p + 1 \in 1..la
          BY <1>2, <2>1, <3>3, <4>1
        <4> QED
          BY <1>1, <3>2, <4>2
      <3>10. TailAt(a, k)
        BY <3>2, <3>3, <3>7, <3>8, <3>9 DEF TailAt, la
      <3> QED
        BY <3>3, <3>6, <3>10, TailLenIs
    <2> QED
      BY <2>2, <2>3 DEF ab
  <1> QED
    BY <1>2, <1>3, <1>5, <1>6

-------------------------------------------------------------------------------
(* sanitize                                                                *)

CleanState == [pos : Nat, clean : Seq(Int)]

LEMMA CleanByteTyped ==
    ASSUME NEW bytes \in Seq(Byte), NEW p \in 1..Len(bytes), NEW s \in CleanState
    PROVE  CleanByte(bytes, p, s) \in CleanState
  <1> DEFINE n == ScalarLen(bytes, p)
  <1>1. n \in 0..4 /\ p + n - 1 <= Len(bytes)
    BY ScalarBounds
  <1>2. s.pos \in Nat /\ s.clean \in Seq(Int) /\ Repl \in Int
    BY DEF CleanState, Repl
  <1>3. SubSeq(bytes, p, p + n - 1) \in Seq(Int)
    <2>1. bytes \in Seq(Int)
      BY BytesAreInts
    <2>2. \A i \in p..(p + n - 1) : i \in 1..Len(bytes)
      BY <1>1
    <2> HIDE DEF n
    <2> QED
      BY <1>1, <2>1, <2>2, SubSeqProperties
  <1>4. Append(s.clean, Repl) \in Seq(Int) /\ s.clean \o SubSeq(bytes, p, p + n - 1) \in Seq(Int)
    BY <1>2, <1>3, ConcatProperties, AppendProperties
  <1>5. CleanByte(bytes, p, s) =
            IF s.pos > p THEN s
            ELSE IF n = 0 THEN [pos |-> p + 1, clean |-> Append(s.clean, Repl)]
            ELSE [pos |-> p + n, clean |-> s.clean \o SubSeq(bytes, p, p + n - 1)]
    BY DEF CleanByte
  <1>6. p + 1 \in Nat /\ p + n \in Nat
    BY <1>1
  <1> HIDE DEF n
  <1> QED
    BY <1>4, <1>5, <1>6 DEF CleanState

LEMMA CleanedSteps ==
    ASSUME NEW bytes \in Seq(Byte)
    PROVE  /\ CleanedTo(bytes, 0) = [pos |-> 1, clean |-> <<>>]
           /\ \A p \in 1..Len(bytes) :
                CleanedTo(bytes, p) = CleanByte(bytes, p, CleanedTo(bytes, p - 1))
           /\ \A p \in 0..Len(bytes) : CleanedTo(bytes, p) \in CleanState
  <1> DEFINE n == Len(bytes)
             start == [pos |-> 1, clean |-> <<>>]
             step == [p \in 1..n |-> [s \in CleanState |-> CleanByte(bytes, p, s)]]
             IsRun(u) == u = [p \in 0..n |-> IF p = 0 THEN start ELSE CleanByte(bytes, p, u[p-1])]
             run == CHOOSE u : IsRun(u)
  <1>1. n \in Nat /\ start \in CleanState
    BY DEF CleanState
  <1>2. \A k : CleanedTo(bytes, k) = run[k]
    BY DEF CleanedTo
  <1>3. step \in [1..n -> [CleanState -> CleanState]]
    BY CleanByteTyped
  <1> HIDE DEF n, start
  <1>4. PICK f \in [0..n -> CleanState] : Recursive(f, start, n, step)
    <2> HIDE DEF step
    <2> QED
      BY <1>1, <1>3, RecursionExists
  <1>5. f[0] = start /\ \A p \in 1..n : f[p] = step[p][f[p-1]]
    BY <1>4 DEF Recursive
  <1>6. \A p \in 1..n : p - 1 \in 0..n /\ f[p-1] \in CleanState
    BY <1>1, <1>4
  <1>7. \A p \in 1..n : f[p] = CleanByte(bytes, p, f[p-1])
    BY <1>5, <1>6
  <1>8. \A p \in 0..n : p # 0 => p \in 1..n
    BY <1>1
  <1>9. \E u : IsRun(u)
    <2>1. f = [p \in 0..n |-> IF p = 0 THEN start ELSE CleanByte(bytes, p, f[p-1])]
      BY <1>4, <1>5, <1>7, <1>8
    <2> QED
      BY <2>1
  <1>10. IsRun(run)
    <2> HIDE DEF IsRun
    <2> QED
      BY <1>9
  <1> HIDE DEF run, step
  <1>11. run[0] = start /\ \A p \in 1..n : run[p] = CleanByte(bytes, p, run[p-1])
    <2> DEFINE body == [p \in 0..n |-> IF p = 0 THEN start ELSE CleanByte(bytes, p, run[p-1])]
    <2>1. run = body
      BY <1>10
    <2>2. \A p \in 0..n : body[p] = IF p = 0 THEN start ELSE CleanByte(bytes, p, run[p-1])
      OBVIOUS
    <2> HIDE DEF body
    <2>3. 0 \in 0..n /\ \A p \in 1..n : p \in 0..n /\ p # 0
      BY <1>1
    <2> QED
      BY <2>1, <2>2, <2>3
  <1>12. \A p \in 0..n : run[p] \in CleanState
    <2>1. \A p \in 1..n : run[p-1] \in CleanState => run[p] \in CleanState
      BY <1>11, CleanByteTyped DEF n
    <2> QED
      BY <1>1, <1>11, <2>1, BoundedInduction
  <1> QED
    BY <1>2, <1>11, <1>12 DEF n, start

\* The loop is behind byte p after it, and inside the text.
LEMMA CleanedBounds ==
    ASSUME NEW bytes \in Seq(Byte)
    PROVE  \A p \in 0..Len(bytes) :
              /\ CleanedTo(bytes, p).pos \in p+1 .. Len(bytes)+1
              /\ \A i \in DOMAIN CleanedTo(bytes, p).clean :
                    CleanedTo(bytes, p).clean[i] \in {Repl} \cup {bytes[j] : j \in DOMAIN bytes}
  <1> DEFINE n == Len(bytes)
             From == {Repl} \cup {bytes[j] : j \in DOMAIN bytes}
             Good(p) == /\ CleanedTo(bytes, p).pos \in p+1 .. n+1
                        /\ \A i \in DOMAIN CleanedTo(bytes, p).clean : CleanedTo(bytes, p).clean[i] \in From
             T == {p \in Nat : p <= n => Good(p)}
  <1>1. n \in Nat
    OBVIOUS
  <1>2. 0 \in T
    BY CleanedSteps
  <1>3. ASSUME NEW p \in T PROVE p + 1 \in T
    <2>1. SUFFICES ASSUME p + 1 <= n PROVE Good(p + 1)
      OBVIOUS
    <2> DEFINE s == CleanedTo(bytes, p)
               k == ScalarLen(bytes, p + 1)
               cut == SubSeq(bytes, p + 1, p + 1 + k - 1)
    <2>2. p \in Nat /\ p + 1 \in 1..n /\ p \in 0..n /\ (p + 1) - 1 = p
      BY <2>1
    <2>3. s.pos \in p+1 .. n+1 /\ \A i \in DOMAIN s.clean : s.clean[i] \in From
      BY <2>2
    <2>4. s.pos \in Nat /\ s.clean \in Seq(Int)
      BY <2>2, CleanedSteps DEF CleanState
    <2>5. CleanedTo(bytes, p + 1) = CleanByte(bytes, p + 1, s)
      BY <2>2, CleanedSteps
    <2>6. k \in 0..4 /\ p + 1 + k - 1 <= n
      BY <2>2, ScalarBounds
    <2>7. CleanByte(bytes, p + 1, s) =
              IF s.pos > p + 1 THEN s
              ELSE IF k = 0 THEN [pos |-> p + 1 + 1, clean |-> Append(s.clean, Repl)]
              ELSE [pos |-> p + 1 + k, clean |-> s.clean \o cut]
      BY DEF CleanByte
    <2>8. CASE s.pos > p + 1
      BY <2>2, <2>3, <2>5, <2>7, <2>8
    <2>9. CASE ~(s.pos > p + 1) /\ k = 0
      <3>1. CleanedTo(bytes, p + 1) = [pos |-> p + 1 + 1, clean |-> Append(s.clean, Repl)]
        BY <2>5, <2>7, <2>9
      <3> DEFINE c == Append(s.clean, Repl)
      <3>2. \A i \in DOMAIN c : c[i] \in From
        BY <2>3, <2>4
      <3>3. p + 1 + 1 \in p+1+1 .. n+1
        BY <2>2
      <3> HIDE DEF From, c
      <3>4. CleanedTo(bytes, p + 1).clean = c /\ CleanedTo(bytes, p + 1).pos = p + 1 + 1
        BY <3>1 DEF c
      <3> QED
        BY <3>2, <3>3, <3>4
    <2>10. CASE ~(s.pos > p + 1) /\ k # 0
      <3> DEFINE c == s.clean \o cut
      <3>1. CleanedTo(bytes, p + 1) = [pos |-> p + 1 + k, clean |-> c]
        BY <2>5, <2>7, <2>10
      <3>2. \A i \in DOMAIN c : c[i] \in From
        <4>1. bytes \in Seq(Int)
          BY BytesAreInts
        <4>2. \A i \in (p+1)..(p + 1 + k - 1) : i \in 1..n
          BY <2>2, <2>6
        <4>3. cut \in Seq(Int) /\ Len(cut) = k /\ \A i \in 1..k : cut[i] = bytes[p + i] /\ p + i \in 1..n
          <5> HIDE DEF k
          <5> DEFINE e == p + 1 + k - 1
          <5>0. p \in Nat /\ n \in Nat /\ k \in 1..4 /\ p + k <= n
            BY <2>2, <2>6, <2>10
          <5>1. e \in Int /\ p + 1 \in Int /\ e - (p + 1) + 1 = k /\ p + 1 <= e
                /\ \A i \in 1..k : p + 1 + i - 1 = p + i /\ p + i \in 1..n
            <6> HIDE DEF n
            <6> QED
              BY <5>0
          <5>2. \A i \in (p + 1)..e : bytes[i] \in Int
            BY <4>1, <4>2
          <5> HIDE DEF e
          <5>3. LET u == SubSeq(bytes, p + 1, e)
                IN  /\ u \in Seq(Int) /\ Len(u) = e - (p + 1) + 1
                    /\ \A i \in 1..e - (p + 1) + 1 : u[i] = bytes[p + 1 + i - 1]
            BY <5>1, <5>2, SubSeqProperties
          <5> QED
            BY <5>1, <5>3 DEF e
        <4>4. \A i \in DOMAIN cut : cut[i] \in From
          <5>1. DOMAIN bytes = 1..n
            BY <4>1
          <5> HIDE DEF cut, k, n
          <5>2. DOMAIN cut = 1..k
            BY <4>3
          <5>3. \A i \in 1..k : bytes[p + i] \in From
            BY <4>3, <5>1
          <5> QED
            BY <4>3, <5>2, <5>3
        <4>5. Len(c) = Len(s.clean) + Len(cut) /\ DOMAIN c = 1..Len(c)
              /\ (\A i \in 1..Len(s.clean) : c[i] = s.clean[i])
              /\ (\A i \in 1..Len(cut) : c[Len(s.clean) + i] = cut[i])
          <5> DEFINE x == s.clean
          <5>1. x \in Seq(Int) /\ cut \in Seq(Int)
            BY <2>4, <4>3
          <5> HIDE DEF cut, x
          <5>2. Len(x \o cut) = Len(x) + Len(cut) /\ DOMAIN (x \o cut) = 1..Len(x \o cut)
                /\ (\A i \in 1..Len(x) : (x \o cut)[i] = x[i])
                /\ (\A i \in 1..Len(cut) : (x \o cut)[Len(x) + i] = cut[i])
            BY <5>1
          <5> QED
            BY <5>2 DEF x
        <4>6. DOMAIN s.clean = 1..Len(s.clean) /\ DOMAIN cut = 1..Len(cut)
              /\ Len(s.clean) \in Nat /\ Len(cut) \in Nat
          <5> HIDE DEF cut
          <5> QED
            BY <2>4, <4>3
        <4> HIDE DEF cut, From, c, s
        <4> TAKE i \in DOMAIN c
        <4>7. i \in 1..Len(s.clean) \/ \E j \in 1..Len(cut) : i = Len(s.clean) + j
          <5>1. i \in 1..(Len(s.clean) + Len(cut))
            BY <4>5
          <5>2. i \in 1..Len(s.clean) \/ (i - Len(s.clean) \in 1..Len(cut) /\ i = Len(s.clean) + (i - Len(s.clean)))
            BY <4>6, <5>1
          <5> QED
            BY <5>2
        <4> QED
          BY <2>3, <4>4, <4>5, <4>6, <4>7
      <3>3. p + 1 + k \in p+1+1 .. n+1
        BY <2>2, <2>6, <2>10
      <3> HIDE DEF c, From
      <3> QED
        BY <3>1, <3>2, <3>3
    <2> QED
      BY <2>8, <2>9, <2>10
  <1>4. T \subseteq Nat
    OBVIOUS
  <1> HIDE DEF T
  <1>5. Nat \subseteq T
    BY <1>2, <1>3, <1>4, SetInduction
  <1> QED
    BY <1>1, <1>5 DEF T

\* Without the leads that String::from_utf8 refuses, sanitize is its loop.
LEMMA SanitizeIs ==
    ASSUME NEW bytes \in Seq(Byte), NoAlias(bytes)
    PROVE  Sanitize(bytes) = CleanedTo(bytes, Len(bytes)).clean
  <1>1. Len(bytes) \in 0..Len(bytes)
    OBVIOUS
  <1> DEFINE c == CleanedTo(bytes, Len(bytes)).clean
  <1>2. \A i \in DOMAIN c : c[i] \in {Repl} \cup {bytes[j] : j \in DOMAIN bytes}
    BY <1>1, CleanedBounds
  <1>3. Repl \notin AliasLead /\ \A j \in DOMAIN bytes : bytes[j] \notin AliasLead
    BY DEF Repl, AliasLead, NoAlias
  <1> HIDE DEF c
  <1>4. ~(\E i \in DOMAIN c : c[i] \in AliasLead)
    BY <1>2, <1>3
  <1> QED
    BY <1>4 DEF c, Sanitize

\* Cuts with the same bytes are the same.
LEMMA SameCut ==
    ASSUME NEW x, NEW y, NEW m \in Int, NEW n \in Int, NEW d \in Int,
           \A i \in m..n : x[i] \in Int /\ x[i] = y[i + d]
    PROVE  SubSeq(x, m, n) = SubSeq(y, m + d, n + d)
  <1> DEFINE u == SubSeq(x, m, n)
             v == SubSeq(y, m + d, n + d)
  <1>1. u \in Seq(Int) /\ Len(u) = (IF m <= n THEN n - m + 1 ELSE 0)
        /\ \A i \in 1..n-m+1 : u[i] = x[m + i - 1]
    BY SubSeqProperties
  <1>2. \A i \in (m + d)..(n + d) : y[i] \in Int
    <2> TAKE i \in (m + d)..(n + d)
    <2>1. i - d \in m..n /\ (i - d) + d = i
      OBVIOUS
    <2> QED
      BY <2>1
  <1> DEFINE m2 == m + d
             n2 == n + d
  <1>3. m2 \in Int /\ n2 \in Int /\ n2 - m2 + 1 = n - m + 1 /\ (m2 <= n2 <=> m <= n)
    OBVIOUS
  <1>4. v \in Seq(Int) /\ Len(v) = (IF m2 <= n2 THEN n2 - m2 + 1 ELSE 0)
        /\ \A i \in 1..n2-m2+1 : v[i] = y[m2 + i - 1]
    <2>1. \A i \in m2..n2 : y[i] \in Int
      BY <1>2
    <2> DEFINE w == SubSeq(y, m2, n2)
    <2> HIDE DEF m2, n2
    <2>2. w \in Seq(Int) /\ Len(w) = (IF m2 <= n2 THEN n2 - m2 + 1 ELSE 0)
          /\ \A i \in 1..n2-m2+1 : w[i] = y[m2 + i - 1]
      BY <1>3, <2>1, SubSeqProperties
    <2> QED
      BY <2>2 DEF m2, n2
  <1>5. \A i \in 1..n-m+1 : m + i - 1 \in m..n /\ (m + i - 1) + d = m2 + i - 1
    OBVIOUS
  <1>6. Len(u) = Len(v) /\ \A i \in 1..Len(u) : i \in 1..n-m+1
    <2> HIDE DEF u, v
    <2> QED
      BY <1>1, <1>3, <1>4
  <1>7. \A i \in 1..Len(u) : u[i] = v[i]
    <2> HIDE DEF u, v, m2, n2
    <2> QED
      BY <1>1, <1>3, <1>4, <1>5, <1>6
  <1> HIDE DEF u, v
  <1>8. u = v
    BY <1>1, <1>4, <1>6, <1>7, SeqEqual
  <1> QED
    BY <1>8 DEF u, v

LEMMA AppendBehind ==
    ASSUME NEW x \in Seq(Int), NEW y \in Seq(Int), NEW e \in Int
    PROVE  Append(x \o y, e) = x \o Append(y, e)
  <1> DEFINE u == Append(x \o y, e)
             v == x \o Append(y, e)
  <1>1. u \in Seq(Int) /\ v \in Seq(Int) /\ Len(u) = Len(x) + Len(y) + 1 /\ Len(v) = Len(u)
    OBVIOUS
  <1>2. \A i \in 1..Len(u) : u[i] = v[i]
    OBVIOUS
  <1> HIDE DEF u, v
  <1>3. u = v
    BY <1>1, <1>2, SeqEqual
  <1> QED
    BY <1>3 DEF u, v

\* The loop over a text put together of two runs over the first and then, with
\* what it found there, over the second.
LEMMA CleanedConcat ==
    ASSUME NEW a \in Seq(Byte), NEW b \in Seq(Byte), Apart(a, b), NoAlias(a \o b)
    PROVE  CleanedTo(a \o b, Len(a \o b)).clean
             = CleanedTo(a, Len(a)).clean \o CleanedTo(b, Len(b)).clean
  <1> DEFINE ab == a \o b
             la == Len(a)
             lb == Len(b)
             A(p) == CleanedTo(a, p)
             B(p) == CleanedTo(b, p)
             C(p) == CleanedTo(ab, p)
  <1>1. ab \in Seq(Byte) /\ Len(ab) = la + lb /\ la \in Nat /\ lb \in Nat
    BY ConcatIs
  <1>2. \A p \in 0..la : C(p) = A(p)
    <2> DEFINE T == {p \in Nat : p <= la => C(p) = A(p)}
    <2>1. 0 \in T
      BY <1>1, CleanedSteps
    <2>2. ASSUME NEW p \in T PROVE p + 1 \in T
      <3>1. SUFFICES ASSUME p + 1 <= la PROVE C(p + 1) = A(p + 1)
        OBVIOUS
      <3> DEFINE q == p + 1
      <3>2. p \in Nat /\ q \in 1..la /\ q \in 1..Len(ab) /\ q - 1 = p /\ C(p) = A(p)
        BY <1>1, <3>1
      <3>3. ScalarLen(ab, q) = ScalarLen(a, q)
        BY <3>2, ScalarBefore
      <3>4. SubSeq(ab, q, q + ScalarLen(a, q) - 1) = SubSeq(a, q, q + ScalarLen(a, q) - 1)
        <4> DEFINE e == q + ScalarLen(a, q) - 1
        <4>1. e \in Int /\ q \in Int /\ e <= la
          BY <3>2, ScalarBounds
        <4>2. \A i \in q..e : i \in 1..la
          BY <1>1, <3>2, <4>1
        <4> DEFINE z == 0
        <4>3. \A i \in q..e : ab[i] \in Int /\ ab[i] = a[i + z]
          <5> TAKE i \in q..e
          <5>1. i \in 1..la /\ i + z = i
            BY <4>2
          <5> QED
            BY <5>1, ConcatIs, BytesAreInts
        <4>4. z \in Int /\ q + z = q /\ e + z = e
          BY <4>1
        <4> HIDE DEF e, q, z, ab
        <4>5. SubSeq(ab, q, e) = SubSeq(a, q + z, e + z)
          BY <4>1, <4>3, <4>4, SameCut
        <4> QED
          BY <4>4, <4>5 DEF e
      <3>5. CleanByte(ab, q, A(p)) = CleanByte(a, q, A(p))
        BY <3>3, <3>4 DEF CleanByte
      <3>6. C(q) = CleanByte(ab, q, C(p))
        BY <1>1, <3>2, CleanedSteps
      <3>7. A(q) = CleanByte(a, q, A(p))
        BY <3>2, CleanedSteps
      <3> QED
        BY <3>2, <3>5, <3>6, <3>7
    <2>3. T \subseteq Nat
      OBVIOUS
    <2> HIDE DEF T
    <2>4. Nat \subseteq T
      BY <2>1, <2>2, <2>3, SetInduction
    <2> QED
      BY <1>1, <2>4 DEF T
  <1>3. A(la).pos = la + 1 /\ A(la).clean \in Seq(Int)
    <2>1. la \in 0..la
      BY <1>1
    <2>2. A(la).pos \in la+1 .. la+1
      BY <2>1, CleanedBounds
    <2>3. A(la) \in CleanState
      BY <2>1, CleanedSteps
    <2> QED
      BY <1>1, <2>2, <2>3 DEF CleanState
  <1> DEFINE ca == A(la).clean
             Behind(q) == C(la + q) = [pos |-> la + B(q).pos, clean |-> ca \o B(q).clean]
             T == {q \in Nat : q <= lb => Behind(q)}
  <1>4. 0 \in T
    <2>1. C(la) = A(la) /\ A(la) \in CleanState
      <3>1. la \in 0..la
        BY <1>1
      <3> QED
        BY <1>2, <3>1, CleanedSteps
    <2>2. B(0) = [pos |-> 1, clean |-> <<>>]
      BY CleanedSteps
    <2>3. A(la) = [pos |-> la + 1, clean |-> ca]
      BY <1>3, <2>1 DEF CleanState
    <2>4. ca \o <<>> = ca
      BY <1>3
    <2>5. la + 0 = la
      BY <1>1
    <2> QED
      <3>1. B(0).pos = 1 /\ B(0).clean = <<>>
        BY <2>2
      <3>2. C(la + 0) = [pos |-> la + 1, clean |-> ca]
        BY <2>1, <2>3, <2>5
      <3>3. Behind(0)
        BY <2>4, <3>1, <3>2
      <3> QED
        BY <3>3
  <1>5. ASSUME NEW r \in T PROVE r + 1 \in T
    <2>1. SUFFICES ASSUME r + 1 <= lb PROVE Behind(r + 1)
      OBVIOUS
    <2> DEFINE q == r + 1
               s == B(r)
               n == ScalarLen(b, q)
    <2>2. r \in Nat /\ q \in 1..lb /\ q - 1 = r /\ r \in 0..lb /\ Behind(r)
          /\ la + q \in 1..Len(ab) /\ la + q - 1 = la + r
      BY <1>1, <2>1
    <2>3. B(q) = CleanByte(b, q, s) /\ s \in CleanState
      BY <2>2, CleanedSteps
    <2>4. C(la + q) = CleanByte(ab, la + q, C(la + r))
      <3>1. C(la + q) = CleanByte(ab, la + q, C(la + q - 1))
        <4> DEFINE z == la + q
        <4>1. z \in 1..Len(ab)
          BY <2>2
        <4> HIDE DEF z
        <4>2. CleanedTo(ab, z) = CleanByte(ab, z, CleanedTo(ab, z - 1))
          BY <1>1, <4>1, CleanedSteps
        <4> QED
          BY <4>2 DEF z
      <3> QED
        BY <2>2, <3>1
    <2>5. ScalarLen(ab, la + q) = n
      BY <2>2, ScalarBehind
    <2>6. n \in 0..4 /\ q + n - 1 <= lb
      BY <2>2, ScalarBounds
    <2>7. SubSeq(ab, la + q, la + q + n - 1) = SubSeq(b, q, q + n - 1)
      <3> DEFINE e == q + n - 1
      <3>1. e \in Int /\ q \in Int /\ la \in Int /\ e <= lb
        BY <1>1, <2>2, <2>6
      <3>2. \A i \in q..e : i \in 1..lb /\ i + la = la + i
        BY <1>1, <2>2, <3>1
      <3>3. \A i \in q..e : b[i] \in Int /\ b[i] = ab[i + la]
        BY <3>2, ConcatIs, BytesAreInts
      <3>6. n \in Int
        BY <2>6
      <3> HIDE DEF q, n, la, ab
      <3>4. q + la = la + q /\ e + la = la + q + n - 1
        BY <3>1, <3>6
      <3> HIDE DEF e
      <3>5. SubSeq(b, q, e) = SubSeq(ab, q + la, e + la)
        BY <3>1, <3>3, SameCut
      <3> QED
        BY <3>4, <3>5 DEF e
    <2>8. s.pos \in Nat /\ s.clean \in Seq(Int) /\ ca \in Seq(Int)
      BY <1>3, <2>3 DEF CleanState
    <2>9. SubSeq(b, q, q + n - 1) \in Seq(Int)
      <3>1. q \in Int /\ q + n - 1 \in Int
        BY <2>2, <2>6
      <3>2. \A i \in q..(q + n - 1) : i \in 1..lb
        BY <1>1, <2>2, <2>6
      <3>3. \A i \in q..(q + n - 1) : b[i] \in Int
        BY <3>2, BytesAreInts
      <3> HIDE DEF n, q
      <3> QED
        BY <3>1, <3>3, SubSeqProperties
    <2> DEFINE cut == SubSeq(b, q, q + n - 1)
               t == C(la + r)
    <2>10. t = [pos |-> la + s.pos, clean |-> ca \o s.clean]
      BY <2>2
    <2>11. CleanByte(ab, la + q, t) =
              IF t.pos > la + q THEN t
              ELSE IF n = 0 THEN [pos |-> la + q + 1, clean |-> Append(t.clean, Repl)]
              ELSE [pos |-> la + q + n, clean |-> t.clean \o cut]
      BY <2>5, <2>7 DEF CleanByte
    <2>12. CleanByte(b, q, s) =
              IF s.pos > q THEN s
              ELSE IF n = 0 THEN [pos |-> q + 1, clean |-> Append(s.clean, Repl)]
              ELSE [pos |-> q + n, clean |-> s.clean \o cut]
      BY DEF CleanByte
    <2>13. q \in Nat /\ n \in Nat /\ la \in Nat
      BY <1>1, <2>2, <2>6
    <2>14. cut \in Seq(Int)
      BY <2>9
    <2>15. Behind(q) <=> CleanByte(ab, la + q, t)
                          = [pos |-> la + CleanByte(b, q, s).pos, clean |-> ca \o CleanByte(b, q, s).clean]
      BY <2>3, <2>4
    <2> HIDE DEF q, s, n, cut, t, ca, la, Behind
    <2>16. t.pos = la + s.pos /\ t.clean = ca \o s.clean /\ (t.pos > la + q <=> s.pos > q)
      <3>1. t.pos = la + s.pos /\ t.clean = ca \o s.clean
        BY <2>10
      <3>2. s.pos \in Nat /\ la \in Nat /\ q \in Nat
        BY <2>8, <2>13
      <3>3. la + s.pos > la + q <=> s.pos > q
        BY <3>2
      <3> QED
        BY <3>1, <3>3
    <2> DEFINE pb == CleanByte(b, q, s)
    <2> SUFFICES CleanByte(ab, la + q, t) = [pos |-> la + pb.pos, clean |-> ca \o pb.clean]
      BY <2>15 DEF q
    <2>17. CASE s.pos > q
      <3>1. pb = s /\ CleanByte(ab, la + q, t) = t
        BY <2>11, <2>12, <2>16, <2>17
      <3> QED
        BY <2>10, <3>1
    <2>18. CASE ~(s.pos > q) /\ n = 0
      <3>1. pb = [pos |-> q + 1, clean |-> Append(s.clean, Repl)]
        BY <2>12, <2>18
      <3>2. CleanByte(ab, la + q, t) = [pos |-> la + q + 1, clean |-> Append(t.clean, Repl)]
        BY <2>11, <2>16, <2>18
      <3>3. Append(ca \o s.clean, Repl) = ca \o Append(s.clean, Repl)
        <4>1. Repl \in Int
          BY DEF Repl
        <4> QED
          BY <2>8, <4>1, AppendBehind
      <3>4. la + q + 1 = la + (q + 1)
        BY <2>13
      <3>5. pb.pos = q + 1 /\ pb.clean = Append(s.clean, Repl)
        BY <3>1
      <3>6. la + q + 1 = la + pb.pos /\ Append(t.clean, Repl) = ca \o pb.clean
        BY <2>16, <3>3, <3>4, <3>5
      <3> QED
        BY <3>2, <3>6
    <2>19. CASE ~(s.pos > q) /\ n # 0
      <3>1. pb = [pos |-> q + n, clean |-> s.clean \o cut]
        BY <2>12, <2>19
      <3>2. CleanByte(ab, la + q, t) = [pos |-> la + q + n, clean |-> t.clean \o cut]
        BY <2>11, <2>16, <2>19
      <3>3. (ca \o s.clean) \o cut = ca \o (s.clean \o cut)
        <4> DEFINE x == s.clean
        <4>1. x \in Seq(Int) /\ ca \in Seq(Int) /\ cut \in Seq(Int)
          BY <2>8, <2>14
        <4> HIDE DEF x
        <4>2. (ca \o x) \o cut = ca \o (x \o cut)
          BY <4>1, JoinInts
        <4> QED
          BY <4>2 DEF x
      <3>4. la + q + n = la + (q + n)
        BY <2>13
      <3>5. pb.pos = q + n /\ pb.clean = s.clean \o cut
        BY <3>1
      <3>6. la + q + n = la + pb.pos /\ t.clean \o cut = ca \o pb.clean
        BY <2>16, <3>3, <3>4, <3>5
      <3> QED
        BY <3>2, <3>6
    <2> QED
      BY <2>17, <2>18, <2>19
  <1>6. T \subseteq Nat
    OBVIOUS
  <1> HIDE DEF T
  <1>7. Nat \subseteq T
    BY <1>4, <1>5, <1>6, SetInduction
  <1>8. Behind(lb)
    <2>1. lb \in T /\ lb <= lb
      BY <1>1, <1>7
    <2> QED
      BY <2>1 DEF T
  <1>9. C(la + lb).clean = ca \o B(lb).clean
    <2> DEFINE w == C(la + lb)
               x == la + B(lb).pos
               y == ca \o B(lb).clean
    <2>1. w = [pos |-> x, clean |-> y]
      BY <1>8
    <2> HIDE DEF w, x, y
    <2>2. w.clean = y
      BY <2>1
    <2> QED
      BY <2>2 DEF w, y
  <1> QED
    BY <1>1, <1>9

LEMMA NoAliasParts ==
    ASSUME NEW a \in Seq(Byte), NEW b \in Seq(Byte), NoAlias(a \o b)
    PROVE  NoAlias(a) /\ NoAlias(b)
  <1> DEFINE ab == a \o b
  <1>1. /\ Len(ab) = Len(a) + Len(b) /\ ab \in Seq(Byte)
        /\ \A i \in 1..Len(a) : ab[i] = a[i]
        /\ \A i \in 1..Len(b) : ab[Len(a) + i] = b[i]
    BY ConcatIs
  <1>2. \A i \in 1..Len(ab) : ab[i] \notin AliasLead
    BY <1>1 DEF NoAlias
  <1> HIDE DEF ab
  <1>3. \A i \in 1..Len(a) : i \in 1..Len(ab)
    BY <1>1
  <1>4. \A i \in 1..Len(b) : Len(a) + i \in 1..Len(ab)
    BY <1>1
  <1>5. \A i \in 1..Len(a) : a[i] \notin AliasLead
    BY <1>1, <1>2, <1>3
  <1>6. \A i \in 1..Len(b) : b[i] \notin AliasLead
    BY <1>1, <1>2, <1>4
  <1> QED
    BY <1>5, <1>6 DEF NoAlias

\* Chunks cut where no character is torn apart add up to the whole.
LEMMA SanitizeConcat ==
    ASSUME NEW a \in Seq(Byte), NEW b \in Seq(Byte), Apart(a, b), NoAlias(a \o b)
    PROVE  Sanitize(a \o b) = Sanitize(a) \o Sanitize(b)
  <1>1. NoAlias(a) /\ NoAlias(b) /\ a \o b \in Seq(Byte)
    BY NoAliasParts, ConcatIs
  <1> QED
    BY <1>1, SanitizeIs, CleanedConcat

LEMMA SanitizeEmpty == Sanitize(<<>>) = <<>>
  <1> DEFINE e == <<>>
  <1>1. e \in Seq(Byte) /\ Len(e) = 0 /\ NoAlias(e)
    BY DEF NoAlias
  <1> HIDE DEF e
  <1>2. CleanedTo(e, 0) = [pos |-> 1, clean |-> <<>>] /\ Sanitize(e) = CleanedTo(e, 0).clean
    BY <1>1, CleanedSteps, SanitizeIs
  <1>3. Sanitize(e) = <<>>
    BY <1>2
  <1> QED
    BY <1>3 DEF e

-------------------------------------------------------------------------------
(* The incomplete tail of texts put together                               *)

LEMMA TailInside ==
    ASSUME NEW a \in Seq(Byte), NEW b \in Seq(Byte), NEW k \in 1..3, k <= Len(b)
    PROVE  TailAt(a \o b, k) <=> TailAt(b, k)
  <1> DEFINE ab == a \o b
             la == Len(a)
             lb == Len(b)
  <1>1. la \in Nat /\ lb \in Nat /\ Len(ab) = la + lb /\ \A i \in 1..lb : ab[la + i] = b[i]
    BY ConcatIs
  <1>2. k <= lb
    OBVIOUS
  <1> HIDE DEF ab, la, lb
  <1>3. Len(ab) - k + 1 = la + (lb - k + 1) /\ lb - k + 1 \in 1..lb /\ k <= Len(ab)
    BY <1>1, <1>2
  <1>4. ab[Len(ab) - k + 1] = b[lb - k + 1]
    BY <1>1, <1>3
  <1>5. k # 1 => ab[Len(ab) - k + 2] = b[lb - k + 2]
    <2>1. k # 1 => Len(ab) - k + 2 = la + (lb - k + 2) /\ lb - k + 2 \in 1..lb
      BY <1>1, <1>2
    <2> QED
      BY <1>1, <2>1
  <1>6. (\A i \in Len(ab)-k+2 .. Len(ab) : IsContinuation(ab[i]))
        <=> (\A i \in lb-k+2 .. lb : IsContinuation(b[i]))
    <2>1. ASSUME \A i \in Len(ab)-k+2 .. Len(ab) : IsContinuation(ab[i]), NEW i \in lb-k+2 .. lb
          PROVE  IsContinuation(b[i])
      <3>1. i \in 1..lb /\ la + i \in Len(ab)-k+2 .. Len(ab)
        BY <1>1, <1>2
      <3> QED
        BY <1>1, <2>1, <3>1
    <2>2. ASSUME \A i \in lb-k+2 .. lb : IsContinuation(b[i]), NEW i \in Len(ab)-k+2 .. Len(ab)
          PROVE  IsContinuation(ab[i])
      <3>1. i - la \in lb-k+2 .. lb /\ i - la \in 1..lb /\ la + (i - la) = i
        BY <1>1, <1>2
      <3> QED
        BY <1>1, <2>2, <3>1
    <2> QED
      BY <2>1, <2>2
  <1>7. k \in 1..3
    OBVIOUS
  <1> DEFINE l == b[lb - k + 1]
             x == b[lb - k + 2]
             cc == \A i \in lb-k+2 .. lb : IsContinuation(b[i])
             rest(y) == /\ l \in 194..244 /\ (k = 2 => l >= 224) /\ (k = 3 => l >= 240)
                        /\ cc /\ (k # 1 => LeadAllows(l, y))
  <1>8. TailAt(b, k) <=> rest(x)
    BY <1>2, <1>7 DEF TailAt, lb
  <1>9. TailAt(ab, k) <=> rest(ab[Len(ab) - k + 2])
    BY <1>3, <1>4, <1>6, <1>7 DEF TailAt
  <1>10. rest(x) <=> rest(ab[Len(ab) - k + 2])
    <2> HIDE DEF cc, l
    <2> QED
      BY <1>5
  <1> HIDE DEF rest
  <1> QED
    BY <1>8, <1>9, <1>10 DEF ab

LEMMA TailAcross ==
    ASSUME NEW a \in Seq(Byte), NEW b \in Seq(Byte), NEW k, TailAt(a \o b, k), ~(k <= Len(b))
    PROVE  TailAt(a, k - Len(b)) /\ (Len(b) >= 1 => IsContinuation(b[1]))
  <1> DEFINE ab == a \o b
             la == Len(a)
             lb == Len(b)
             j == k - lb
             l == a[la - j + 1]
  <1>1. la \in Nat /\ lb \in Nat /\ Len(ab) = la + lb /\ (\A i \in 1..lb : ab[la + i] = b[i])
        /\ (\A i \in 1..la : ab[i] = a[i])
    BY ConcatIs
  <1>2. ~(k <= lb)
    OBVIOUS
  <1>3. /\ k \in 1..3 /\ k <= Len(ab)
        /\ ab[Len(ab) - k + 1] \in 194..244
        /\ (k = 2 => ab[Len(ab) - k + 1] >= 224) /\ (k = 3 => ab[Len(ab) - k + 1] >= 240)
        /\ \A i \in Len(ab)-k+2 .. Len(ab) : IsContinuation(ab[i])
        /\ k # 1 => LeadAllows(ab[Len(ab) - k + 1], ab[Len(ab) - k + 2])
    BY DEF TailAt
  <1> HIDE DEF ab, la, lb
  <1>4. /\ j \in 1..3 /\ j <= la /\ j <= k
        /\ Len(ab) - k + 1 = la - j + 1 /\ la - j + 1 \in 1..la
        /\ Len(ab) - k + 2 = la - j + 2 /\ (j # 1 => la - j + 2 \in 1..la /\ k # 1)
        /\ (j = 2 => k \in {2, 3}) /\ (j = 3 => k = 3)
    BY <1>1, <1>2, <1>3
  <1>5. ab[Len(ab) - k + 1] = l /\ (j # 1 => ab[Len(ab) - k + 2] = a[la - j + 2])
    BY <1>1, <1>4
  <1>6. \A i \in la-j+2 .. la : IsContinuation(a[i])
    <2> TAKE i \in la-j+2 .. la
    <2>1. i \in Len(ab)-k+2 .. Len(ab) /\ i \in 1..la
      BY <1>1, <1>4
    <2> QED
      BY <1>1, <1>3, <2>1
  <1> HIDE DEF j, l
  <1>7. l \in 194..244 /\ (j = 2 => l >= 224) /\ (j = 3 => l >= 240)
        /\ (j # 1 => LeadAllows(l, a[la - j + 2]))
    <2>1. l \in 194..244 /\ (k = 2 => l >= 224) /\ (k = 3 => l >= 240)
      BY <1>3, <1>5
    <2>2. k # 1 => LeadAllows(l, ab[Len(ab) - k + 2])
      BY <1>3, <1>5
    <2>3. j # 1 => LeadAllows(l, a[la - j + 2])
      BY <1>4, <1>5, <2>2
    <2>4. (j = 2 => l >= 224) /\ (j = 3 => l >= 240)
      BY <1>4, <2>1
    <2> QED
      BY <2>1, <2>3, <2>4
  <1>8. TailAt(a, j)
    BY <1>4, <1>6, <1>7 DEF TailAt, la, l
  <1>9. lb >= 1 => IsContinuation(b[1])
    <2>1. SUFFICES ASSUME lb >= 1 PROVE IsContinuation(b[1])
      OBVIOUS
    <2>2. la + 1 \in Len(ab)-k+2 .. Len(ab) /\ 1 \in 1..lb
      BY <1>1, <1>4, <2>1
    <2>3. ab[la + 1] = b[1]
      BY <1>1, <2>2
    <2> QED
      BY <1>3, <2>2, <2>3
  <1> QED
    BY <1>8, <1>9 DEF j, lb

\* A text that starts with a character decides about its own tail.
LEMMA TailOfWhole ==
    ASSUME NEW a \in Seq(Byte), NEW b \in Seq(Byte), b # <<>>, ~IsContinuation(b[1])
    PROVE  IncompleteTailLen(a \o b) = IncompleteTailLen(b)
  <1> DEFINE ab == a \o b
             r == IncompleteTailLen(ab)
             t == IncompleteTailLen(b)
  <1>1. ab \in Seq(Byte) /\ Len(b) >= 1
    BY ConcatIs
  <1>2. r \in 0..3 /\ (r # 0 => TailAt(ab, r)) /\ \A k : TailAt(ab, k) => r = k
    BY <1>1, TailLenIs
  <1>3. t \in 0..3 /\ t <= Len(b) /\ (t # 0 => TailAt(b, t)) /\ \A k : TailAt(b, k) => t = k
    BY TailLenIs
  <1>4. ASSUME r # 0 PROVE r = t
    <2>1. r <= Len(b)
      BY <1>1, <1>2, <1>4, TailAcross
    <2>2. r \in 1..3
      BY <1>2, <1>4
    <2>3. TailAt(b, r)
      BY <1>2, <1>4, <2>1, <2>2, TailInside
    <2> QED
      BY <1>3, <2>3
  <1>5. ASSUME t # 0 PROVE r = t
    <2>1. t \in 1..3
      BY <1>3, <1>5
    <2>2. TailAt(ab, t)
      BY <1>3, <1>5, <2>1, TailInside
    <2> QED
      BY <1>2, <2>2
  <1> QED
    BY <1>4, <1>5

LEMMA TailOfClosed ==
    ASSUME NEW a \in Seq(Byte), NEW b \in Seq(Byte), IncompleteTailLen(a) = 0, IncompleteTailLen(b) = 0
    PROVE  IncompleteTailLen(a \o b) = 0
  <1> DEFINE ab == a \o b
             r == IncompleteTailLen(ab)
  <1>1. ab \in Seq(Byte)
    BY ConcatIs
  <1>2. r \in 0..3 /\ (r # 0 => TailAt(ab, r))
    BY <1>1, TailLenIs
  <1>3. ASSUME r # 0 PROVE FALSE
    <2>1. r \in 1..3 /\ TailAt(ab, r)
      BY <1>2, <1>3
    <2>2. CASE r <= Len(b)
      <3>1. TailAt(b, r)
        BY <2>1, <2>2, TailInside
      <3>2. r = 0
        BY <3>1, TailLenIs
      <3> QED
        BY <1>3, <3>2
    <2>3. CASE ~(r <= Len(b))
      <3>1. TailAt(a, r - Len(b))
        BY <2>1, <2>3, TailAcross
      <3>2. r - Len(b) = 0
        BY <3>1, TailLenIs
      <3>3. Len(b) \in Nat
        OBVIOUS
      <3> QED
        BY <2>1, <2>3, <3>2, <3>3
    <2> QED
      BY <2>2, <2>3
  <1> QED
    BY <1>3

-------------------------------------------------------------------------------
(* Stop strings                                                            *)

StartsAt(st, txt, i) == i + Len(st) <= Len(txt) /\ \A j \in 1..Len(st) : txt[i + j] = st[j]

\* What txt has from i on is the beginning of st and not all of it.
BeginsAt(st, txt, i) == Len(txt) - i < Len(st) /\ \A j \in 1..Len(txt)-i : txt[i + j] = st[j]

StopsOK(list) ==
    /\ list \in Seq(Seq(Byte))
    /\ \A n \in DOMAIN list : list[n] # <<>> => ~IsContinuation(list[n][1])

\* A sequence of bytes in two places, byte by byte.
LEMMA CutIs ==
    ASSUME NEW st \in Seq(Byte), NEW txt \in Seq(Byte), NEW i \in Nat, NEW k \in Nat,
           k <= Len(st), i + k <= Len(txt)
    PROVE  SubSeq(txt, i + 1, i + k) = SubSeq(st, 1, k) <=> \A j \in 1..k : txt[i + j] = st[j]
  <1>1. st \in Seq(Int) /\ txt \in Seq(Int)
    BY BytesAreInts
  <1>2. ASSUME SubSeq(txt, i + 1, i + k) = SubSeq(st, 1, k), NEW j \in 1..k
        PROVE  txt[i + j] = st[j]
    <2>1. \A x \in (i + 1)..(i + k) : txt[x] \in Int
      <3>1. \A x \in (i + 1)..(i + k) : x \in 1..Len(txt)
        OBVIOUS
      <3> QED
        BY <1>1, <3>1
    <2>2. \A x \in 1..k : st[x] \in Int
      BY <1>1
    <2> DEFINE m == i + 1
               n == i + k
    <2>3. m \in Int /\ n \in Int /\ n - m + 1 = k /\ m + j - 1 = i + j
      OBVIOUS
    <2>4. SubSeq(txt, m, n)[j] = txt[m + j - 1]
      <3> HIDE DEF m, n
      <3>1. \A x \in m..n : txt[x] \in Int
        BY <2>1 DEF m, n
      <3> QED
        BY <2>3, <3>1, SubSeqProperties
    <2> DEFINE o == 1
    <2>5. o \in Int /\ k \in Int /\ k - o + 1 = k /\ o + j - 1 = j
      OBVIOUS
    <2>6. SubSeq(st, o, k)[j] = st[o + j - 1]
      <3> HIDE DEF o
      <3>1. \A x \in o..k : st[x] \in Int
        BY <2>2 DEF o
      <3> QED
        BY <2>5, <3>1, SubSeqProperties
    <2> QED
      BY <1>2, <2>3, <2>4, <2>5, <2>6
  <1>3. ASSUME \A j \in 1..k : txt[i + j] = st[j]
        PROVE  SubSeq(txt, i + 1, i + k) = SubSeq(st, 1, k)
    <2> DEFINE o == 1
    <2>1. \A j \in o..k : st[j] \in Int /\ st[j] = txt[j + i]
      <3> TAKE j \in o..k
      <3>1. j \in 1..k /\ j + i = i + j
        OBVIOUS
      <3> QED
        BY <1>1, <1>3, <3>1
    <2>2. o \in Int /\ k \in Int /\ i \in Int /\ o + i = i + 1 /\ k + i = i + k
      OBVIOUS
    <2> HIDE DEF o
    <2>3. SubSeq(st, o, k) = SubSeq(txt, o + i, k + i)
      BY <2>1, <2>2, SameCut
    <2> QED
      BY <2>2, <2>3 DEF o
  <1> QED
    BY <1>2, <1>3

LEMMA StopStartsIs ==
    ASSUME NEW txt \in Seq(Byte), StopsOK(stop_strings)
    PROVE  \A i : i \in StopStarts(txt) <=>
              /\ i \in 0..Len(txt)
              /\ \E n \in DOMAIN stop_strings :
                    stop_strings[n] # <<>> /\ StartsAt(stop_strings[n], txt, i)
  <1>1. \A n \in DOMAIN stop_strings : stop_strings[n] \in Seq(Byte)
    BY DEF StopsOK
  <1>2. ASSUME NEW st \in Seq(Byte), NEW i \in 0..Len(txt), i + Len(st) <= Len(txt)
        PROVE  SubSeq(txt, i + 1, i + Len(st)) = st <=> \A j \in 1..Len(st) : txt[i + j] = st[j]
    <2>1. SubSeq(st, 1, Len(st)) = st /\ Len(st) \in Nat /\ i \in Nat
      OBVIOUS
    <2> QED
      BY <1>2, <2>1, CutIs
  <1> SUFFICES ASSUME NEW i \in 0..Len(txt), NEW n \in DOMAIN stop_strings
               PROVE  (/\ i + Len(stop_strings[n]) <= Len(txt)
                       /\ SubSeq(txt, i + 1, i + Len(stop_strings[n])) = stop_strings[n])
                      <=> StartsAt(stop_strings[n], txt, i)
    BY DEF StopStarts
  <1> QED
    BY <1>1, <1>2 DEF StartsAt

LEMMA MaxIs ==
    ASSUME NEW S \in SUBSET Int, S # {}, NEW b \in Int, \A x \in S : x <= b
    PROVE  Max(S) \in S /\ \A x \in S : x <= Max(S)
  <1> DEFINE R == {b - x : x \in S}
  <1>1. R \in SUBSET Nat /\ R # {}
    OBVIOUS
  <1>2. PICK m \in R : \A x \in R : m <= x
    BY <1>1, LeastExists
  <1>3. PICK k \in S : m = b - k
    OBVIOUS
  <1>4. \A x \in S : k >= x
    <2> TAKE x \in S
    <2>1. b - k <= b - x
      BY <1>2, <1>3
    <2> QED
      BY <2>1
  <1>5. Max(S) \in S /\ \A x \in S : Max(S) >= x
    BY <1>4 DEF Max
  <1> QED
    BY <1>5

\* The held prefix is the longest, and starts with a character.
LEMMA PrefixLenIs ==
    ASSUME NEW bytes \in Seq(Byte), NEW st \in Seq(Byte)
    PROVE  LET r == PartialPrefixLen(bytes, st)
           IN  /\ r \in 0..Len(bytes)
               /\ r # 0 => r < Len(st) /\ bytes[Len(bytes) - r + 1] = st[1]
               /\ \A i \in 0..Len(bytes) : i < Len(bytes) /\ BeginsAt(st, bytes, i) => Len(bytes) - i <= r
  <1> DEFINE l == Len(bytes)
             P == {n \in 1..l : n < Len(st) /\ SubSeq(bytes, l - n + 1, l) = SubSeq(st, 1, n)}
             S == {0} \cup P
             r == Max(S)
  <1>1. PartialPrefixLen(bytes, st) = r
    BY DEF PartialPrefixLen
  <1>2. l \in Nat /\ Len(st) \in Nat /\ S \in SUBSET Int /\ S # {} /\ \A x \in S : x \in 0..l
    OBVIOUS
  <1>3. r \in S /\ \A x \in S : x <= r
    <2> HIDE DEF S
    <2>1. l \in Int /\ \A x \in S : x <= l
      BY <1>2
    <2> HIDE DEF l
    <2> QED
      BY <1>2, <2>1, MaxIs
  <1>4. ASSUME NEW n \in 1..l, n < Len(st)
        PROVE  SubSeq(bytes, l - n + 1, l) = SubSeq(st, 1, n)
               <=> \A j \in 1..n : bytes[(l - n) + j] = st[j]
    <2> DEFINE i == l - n
    <2>1. i \in Nat /\ n \in Nat /\ n <= Len(st) /\ i + n <= l /\ i + n = l
      BY <1>2, <1>4
    <2>2. SubSeq(bytes, i + 1, i + n) = SubSeq(st, 1, n) <=> \A j \in 1..n : bytes[i + j] = st[j]
      <3> HIDE DEF i
      <3> QED
        BY <2>1, CutIs
    <2> QED
      BY <2>1, <2>2
  <1> HIDE DEF r
  <1>5. ASSUME r # 0 PROVE r < Len(st) /\ bytes[l - r + 1] = st[1]
    <2>1. r \in 1..l /\ r < Len(st) /\ SubSeq(bytes, l - r + 1, l) = SubSeq(st, 1, r)
      BY <1>3, <1>5
    <2>2. \A j \in 1..r : bytes[(l - r) + j] = st[j]
      BY <1>4, <2>1
    <2>3. 1 \in 1..r
      BY <2>1
    <2> QED
      BY <2>1, <2>2, <2>3
  <1>6. ASSUME NEW i \in 0..l, i < l, BeginsAt(st, bytes, i) PROVE l - i <= r
    <2> DEFINE n == l - i
    <2>1. n \in 1..l /\ n < Len(st) /\ l - n = i /\ \A j \in 1..n : bytes[i + j] = st[j]
      BY <1>2, <1>6 DEF BeginsAt
    <2> HIDE DEF n
    <2>2. SubSeq(bytes, l - n + 1, l) = SubSeq(st, 1, n)
      BY <1>4, <2>1
    <2>3. n \in S
      BY <2>1, <2>2
    <2> QED
      BY <1>3, <2>3 DEF n
  <1>7. r \in 0..l
    BY <1>2, <1>3
  <1> QED
    BY <1>1, <1>5, <1>6, <1>7

LEMMA HoldIs ==
    ASSUME NEW bytes \in Seq(Byte), StopsOK(stop_strings)
    PROVE  LET h == Hold(bytes)
           IN  /\ h \in 0..Len(bytes)
               /\ h = 0 => IncompleteTailLen(bytes) = 0
               /\ h # 0 => ~IsContinuation(bytes[Len(bytes) - h + 1])
               /\ h <= 3 \/ \E n \in DOMAIN stop_strings : h <= Len(stop_strings[n]) - 1
               /\ \A n \in DOMAIN stop_strings : \A i \in 0..Len(bytes) :
                     i < Len(bytes) /\ BeginsAt(stop_strings[n], bytes, i) => Len(bytes) - i <= h
  <1> DEFINE l == Len(bytes)
             t == IncompleteTailLen(bytes)
             D == DOMAIN stop_strings
             P(n) == PartialPrefixLen(bytes, stop_strings[n])
             S == {t} \cup {P(n) : n \in D}
             h == Max(S)
  <1>1. Hold(bytes) = h
    BY DEF Hold
  <1>2. t \in 0..3 /\ t <= l /\ l \in Nat /\ (t # 0 => TailAt(bytes, t))
    BY TailLenIs
  <1>3. \A n \in D : stop_strings[n] \in Seq(Byte) /\ Len(stop_strings[n]) \in Nat
    BY DEF StopsOK
  <1>4. \A n \in D : /\ P(n) \in 0..l
                     /\ P(n) # 0 => P(n) < Len(stop_strings[n]) /\ bytes[l - P(n) + 1] = stop_strings[n][1]
                     /\ \A i \in 0..l : i < l /\ BeginsAt(stop_strings[n], bytes, i) => l - i <= P(n)
    BY <1>3, PrefixLenIs
  <1> HIDE DEF P
  <1>5. h \in S /\ \A x \in S : x <= h
    <2>1. S \in SUBSET Int /\ S # {} /\ \A x \in S : x <= l
      BY <1>2, <1>4
    <2> HIDE DEF S
    <2>2. l \in Int
      BY <1>2
    <2> HIDE DEF l
    <2> QED
      BY <2>1, <2>2, MaxIs
  <1> HIDE DEF h, t
  <1>6. h \in 0..l
    BY <1>2, <1>4, <1>5
  <1>7. h = 0 => t = 0
    BY <1>2, <1>5
  <1>8. CASE h = t
    <2>1. h # 0 => ~IsContinuation(bytes[l - h + 1])
      <3>1. SUFFICES ASSUME h # 0, IsContinuation(bytes[l - h + 1]) PROVE FALSE
        OBVIOUS
      <3>2. bytes[l - h + 1] \in 194..244
        BY <1>2, <1>8, <3>1 DEF TailAt
      <3>3. \A x \in 194..244 : ~(x \in 128..191)
        OBVIOUS
      <3>4. bytes[l - h + 1] \in 128..191
        BY <3>1 DEF IsContinuation
      <3> QED
        BY <3>2, <3>3, <3>4
    <2> QED
      BY <1>1, <1>2, <1>4, <1>5, <1>6, <1>7, <1>8, <2>1 DEF t
  <1>9. ASSUME NEW n \in D, h = P(n), h # 0
        PROVE  ~IsContinuation(bytes[l - h + 1]) /\ h <= Len(stop_strings[n]) - 1
    <2>1. h < Len(stop_strings[n]) /\ bytes[l - h + 1] = stop_strings[n][1]
      BY <1>4, <1>9
    <2>2. Len(stop_strings[n]) >= 1 /\ stop_strings[n] # <<>>
      BY <1>3, <1>6, <2>1
    <2> QED
      BY <1>3, <1>6, <2>1, <2>2 DEF StopsOK
  <1>10. \A n \in D : \A i \in 0..l :
             i < l /\ BeginsAt(stop_strings[n], bytes, i) => l - i <= h
    <2> TAKE n \in D
    <2> TAKE i \in 0..l
    <2>1. P(n) \in 0..l /\ P(n) <= h
      BY <1>4, <1>5
    <2>2. i < l /\ BeginsAt(stop_strings[n], bytes, i) => l - i <= P(n)
      BY <1>4
    <2> QED
      BY <1>2, <1>6, <2>1, <2>2
  <1>11. CASE h # t /\ h # 0
    <2>1. PICK n \in D : h = P(n)
      BY <1>5, <1>11
    <2> QED
      BY <1>1, <1>6, <1>9, <1>10, <1>11, <2>1
  <1>12. CASE h # t /\ h = 0
    BY <1>7, <1>12
  <1> QED
    BY <1>8, <1>11, <1>12

\* The stop strings of a list in a text, by position.
StopsAt(list, txt) ==
    {i \in 0..Len(txt) : \E n \in DOMAIN list : list[n] # <<>> /\ StartsAt(list[n], txt, i)}

\* No stop string has begun in front of the last m bytes of txt.
PrefixHeld(list, txt, m) ==
    \A n \in DOMAIN list : \A i \in 0..Len(txt) : i < Len(txt) - m => ~BeginsAt(list[n], txt, i)

LEMMA StartsAre ==
    ASSUME NEW txt \in Seq(Byte), StopsOK(stop_strings)
    PROVE  StopStarts(txt) = StopsAt(stop_strings, txt)
  BY StopStartsIs DEF StopsAt

\* Bytes of a text in three parts, seen from the first two and the last two.
LEMMA ThreeParts ==
    ASSUME NEW e \in Seq(Byte), NEW p \in Seq(Byte), NEW b \in Seq(Byte)
    PROVE  /\ e \o (p \o b) \in Seq(Byte)
           /\ Len(e \o (p \o b)) = Len(e) + Len(p \o b)
           /\ Len(e \o p) = Len(e) + Len(p) /\ Len(p \o b) = Len(p) + Len(b)
           /\ \A i \in 1..Len(e \o p) : (e \o (p \o b))[i] = (e \o p)[i]
           /\ \A i \in 1..Len(p \o b) : (e \o (p \o b))[Len(e) + i] = (p \o b)[i]
  <1> DEFINE u == e \o p
             v == p \o b
             w == e \o v
  <1>1. v \in Seq(Byte) /\ Len(v) = Len(p) + Len(b) /\ u \in Seq(Byte) /\ Len(u) = Len(e) + Len(p)
    BY ConcatIs
  <1>2. \A i \in 1..Len(u) : w[i] = u[i]
    <2> TAKE i \in 1..Len(u)
    <2>1. CASE i <= Len(e)
      <3>1. i \in 1..Len(e)
        BY <1>1, <2>1
      <3>2. u[i] = e[i]
        BY <3>1, ConcatIs
      <3> HIDE DEF u, v
      <3> QED
        BY <1>1, <3>1, <3>2, ConcatIs
    <2>2. CASE ~(i <= Len(e))
      <3> DEFINE j == i - Len(e)
      <3>1. j \in 1..Len(p) /\ Len(e) + j = i /\ j \in 1..Len(v)
        BY <1>1, <2>2
      <3> HIDE DEF j
      <3>2. u[Len(e) + j] = p[j] /\ v[j] = p[j]
        BY <3>1, ConcatIs
      <3> HIDE DEF u, v
      <3>3. w[Len(e) + j] = v[j]
        BY <1>1, <3>1, ConcatIs
      <3> QED
        BY <3>1, <3>2, <3>3
    <2> QED
      BY <2>1, <2>2
  <1> HIDE DEF u, v
  <1>3. w \in Seq(Byte) /\ Len(w) = Len(e) + Len(v) /\ \A i \in 1..Len(v) : w[Len(e) + i] = v[i]
    BY <1>1, ConcatIs
  <1> QED
    BY <1>1, <1>2, <1>3 DEF u, v

\* When new bytes come behind a text without a stop string, every stop string
\* found begins in what was held back or behind it.
LEMMA PushStops ==
    ASSUME NEW list, StopsOK(list), NEW e \in Seq(Byte), NEW p \in Seq(Byte), NEW b \in Seq(Byte),
           StopsAt(list, e \o p) = {}, PrefixHeld(list, e \o p, Len(p))
    PROVE  \A i : i \in StopsAt(list, e \o (p \o b))
                  <=> i \in Nat /\ i - Len(e) \in StopsAt(list, p \o b)
  <1> DEFINE old == e \o p
             all == p \o b
             new == e \o all
             le == Len(e)
             lo == Len(old)
             la == Len(all)
  <1>1. /\ new \in Seq(Byte) /\ Len(new) = le + la /\ lo = le + Len(p) /\ la = Len(p) + Len(b)
        /\ \A i \in 1..lo : new[i] = old[i]
        /\ \A i \in 1..la : new[le + i] = all[i]
    BY ThreeParts
  <1>2. le \in Nat /\ Len(p) \in Nat /\ Len(b) \in Nat
    OBVIOUS
  <1>3. \A n \in DOMAIN list : list[n] \in Seq(Byte) /\ Len(list[n]) \in Nat
    BY DEF StopsOK
  <1>4. StopsAt(list, old) = {} /\ PrefixHeld(list, old, Len(p))
    OBVIOUS
  <1> HIDE DEF old, all, new, le, lo, la
  <1>5. ASSUME NEW n \in DOMAIN list, NEW i \in Nat, i < le, list[n] # <<>>
        PROVE  ~StartsAt(list[n], new, i)
    <2>1. SUFFICES ASSUME StartsAt(list[n], new, i) PROVE FALSE
      OBVIOUS
    <2> DEFINE k == Len(list[n])
    <2>2. k \in Nat /\ i + k <= le + la /\ \A j \in 1..k : new[i + j] = list[n][j]
      BY <1>1, <1>3, <2>1 DEF StartsAt
    <2> HIDE DEF k
    <2>3. i \in 0..lo /\ i < lo - Len(p)
      BY <1>1, <1>2, <1>5
    <2>4. CASE i + k <= lo
      <3>1. \A j \in 1..k : i + j \in 1..lo
        BY <1>1, <1>2, <2>2, <2>3, <2>4
      <3>2. \A j \in 1..k : old[i + j] = list[n][j]
        BY <1>1, <2>2, <3>1
      <3>3. StartsAt(list[n], old, i)
        BY <2>4, <3>2 DEF StartsAt, k, lo
      <3> QED
        BY <1>4, <1>5, <2>3, <3>3 DEF StopsAt, lo
    <2>5. CASE ~(i + k <= lo)
      <3>1. lo - i < k
        BY <1>1, <1>2, <2>2, <2>5
      <3>2. \A j \in 1..lo-i : j \in 1..k /\ i + j \in 1..lo
        BY <1>1, <1>2, <2>2, <2>3, <3>1
      <3>3. \A j \in 1..lo-i : old[i + j] = list[n][j]
        BY <1>1, <2>2, <3>2
      <3>4. BeginsAt(list[n], old, i)
        BY <3>1, <3>3 DEF BeginsAt, k, lo
      <3> QED
        BY <1>4, <2>3, <3>4 DEF PrefixHeld, lo
    <2> QED
      BY <2>4, <2>5
  <1>6. ASSUME NEW n \in DOMAIN list, NEW i \in Nat, ~(i < le)
        PROVE  StartsAt(list[n], new, i) <=> StartsAt(list[n], all, i - le)
    <2> DEFINE k == Len(list[n])
               q == i - le
    <2>1. k \in Nat /\ q \in Nat /\ i = le + q /\ (i + k <= le + la <=> q + k <= la)
      <3>1. la \in Nat
        BY <1>1, <1>2
      <3> QED
        BY <1>2, <1>3, <1>6, <3>1
    <2> HIDE DEF k, q
    <2>2. ASSUME q + k <= la, NEW j \in 1..k PROVE new[i + j] = all[q + j]
      <3>1. q + j \in 1..la /\ i + j = le + (q + j)
        BY <1>1, <1>2, <2>1, <2>2
      <3> QED
        BY <1>1, <3>1
    <2>3. StartsAt(list[n], new, i) <=> i + k <= le + la /\ \A j \in 1..k : new[i + j] = list[n][j]
      BY <1>1 DEF StartsAt, k
    <2>4. StartsAt(list[n], all, q) <=> q + k <= la /\ \A j \in 1..k : all[q + j] = list[n][j]
      BY DEF StartsAt, k, la
    <2>5. StartsAt(list[n], new, i) <=> StartsAt(list[n], all, q)
      BY <2>1, <2>2, <2>3, <2>4
    <2> QED
      BY <2>5 DEF q
  <1>7. \A i : i \in StopsAt(list, new) <=> i \in Nat /\ i - le \in StopsAt(list, all)
    <2> TAKE i
    <2>1. la \in Nat
      BY <1>1, <1>2
    <2>2. CASE i \in Nat /\ ~(i < le)
      <3>1. i \in 0..Len(new) <=> i - le \in 0..la
        BY <1>1, <1>2, <2>1, <2>2
      <3> QED
        BY <1>6, <2>2, <3>1 DEF StopsAt, la
    <2>3. CASE i \in Nat /\ i < le
      <3>1. i \notin StopsAt(list, new)
        BY <1>5, <2>3 DEF StopsAt
      <3>2. i - le \notin 0..la
        BY <1>2, <2>1, <2>3
      <3> QED
        BY <3>1, <3>2 DEF StopsAt, la
    <2>4. CASE i \notin Nat
      <3>1. \A x \in 0..Len(new) : x \in Nat
        BY <1>1, <1>2, <2>1
      <3> QED
        BY <2>4, <3>1 DEF StopsAt
    <2> QED
      BY <2>2, <2>3, <2>4
  <1> QED
    BY <1>7 DEF new, all, old, le

\* Without one, what is held back now covers every beginning of a stop string.
LEMMA PushHeld ==
    ASSUME NEW list, StopsOK(list), NEW e \in Seq(Byte), NEW p \in Seq(Byte), NEW b \in Seq(Byte),
           PrefixHeld(list, e \o p, Len(p)), NEW h \in 0..Len(p \o b),
           \A n \in DOMAIN list : \A i \in 0..Len(p \o b) :
              i < Len(p \o b) /\ BeginsAt(list[n], p \o b, i) => Len(p \o b) - i <= h
    PROVE  PrefixHeld(list, e \o (p \o b), h)
  <1> DEFINE old == e \o p
             all == p \o b
             new == e \o all
             le == Len(e)
             lo == Len(old)
             la == Len(all)
  <1>1. /\ new \in Seq(Byte) /\ Len(new) = le + la /\ lo = le + Len(p) /\ la = Len(p) + Len(b)
        /\ \A i \in 1..lo : new[i] = old[i]
        /\ \A i \in 1..la : new[le + i] = all[i]
    BY ThreeParts
  <1>2. le \in Nat /\ Len(p) \in Nat /\ Len(b) \in Nat
    OBVIOUS
  <1>3. PrefixHeld(list, old, Len(p)) /\ h \in 0..la
    OBVIOUS
  <1>4. \A n \in DOMAIN list : \A i \in 0..la : i < la /\ BeginsAt(list[n], all, i) => la - i <= h
    OBVIOUS
  <1>5. \A n \in DOMAIN list : list[n] \in Seq(Byte) /\ Len(list[n]) \in Nat
    BY DEF StopsOK
  <1> HIDE DEF old, all, new, le, lo, la
  <1>6. SUFFICES ASSUME NEW n \in DOMAIN list, NEW i \in 0..Len(new), i < Len(new) - h,
                        BeginsAt(list[n], new, i)
                 PROVE  FALSE
    BY DEF PrefixHeld, new, all, le, lo, la, old
  <1> DEFINE k == Len(list[n])
  <1>7. (le + la) - i < k /\ (\A j \in 1..(le + la) - i : new[i + j] = list[n][j]) /\ k \in Nat
    BY <1>1, <1>5, <1>6 DEF BeginsAt
  <1>8. i \in Nat /\ la \in Nat /\ i < le + la - h /\ h \in Nat
    BY <1>1, <1>2, <1>3, <1>6
  <1> HIDE DEF k
  <1>9. CASE i < le
    <2>1. lo - i < k /\ i \in 0..lo /\ i < lo - Len(p)
      BY <1>1, <1>2, <1>7, <1>8, <1>9
    <2>2. \A j \in 1..lo-i : j \in 1..(le + la) - i /\ i + j \in 1..lo
      BY <1>1, <1>2, <1>8, <2>1
    <2>3. \A j \in 1..lo-i : old[i + j] = list[n][j]
      BY <1>1, <1>7, <2>2
    <2>4. BeginsAt(list[n], old, i)
      BY <2>1, <2>3 DEF BeginsAt, k, lo
    <2> QED
      BY <1>3, <2>1, <2>4 DEF PrefixHeld, lo
  <1>10. CASE ~(i < le)
    <2> DEFINE q == i - le
    <2>1. q \in 0..la /\ q < la /\ i = le + q /\ la - q = (le + la) - i /\ la - q < k /\ ~(la - q <= h)
      BY <1>2, <1>7, <1>8, <1>10
    <2> HIDE DEF q
    <2>2. \A j \in 1..la-q : j \in 1..(le + la) - i /\ q + j \in 1..la /\ i + j = le + (q + j)
      BY <1>2, <1>8, <2>1
    <2>3. \A j \in 1..la-q : all[q + j] = list[n][j]
      BY <1>1, <1>7, <2>2
    <2>4. BeginsAt(list[n], all, q)
      BY <2>1, <2>3 DEF BeginsAt, k, la
    <2> QED
      BY <1>4, <2>1, <2>4
  <1> QED
    BY <1>9, <1>10

-------------------------------------------------------------------------------
(* Chunks                                                                  *)

\* A text cut in two.
LEMMA CutInTwo ==
    ASSUME NEW txt \in Seq(Byte), NEW k \in 0..Len(txt)
    PROVE  LET a == SubSeq(txt, 1, k)
               b == SubSeq(txt, k + 1, Len(txt))
           IN  /\ a \in Seq(Byte) /\ Len(a) = k /\ \A i \in 1..k : a[i] = txt[i]
               /\ b \in Seq(Byte) /\ Len(b) = Len(txt) - k
               /\ \A i \in 1..Len(txt)-k : b[i] = txt[k + i]
               /\ txt = a \o b
  <1> DEFINE l == Len(txt)
             o == 1
             m == k + 1
             a == SubSeq(txt, o, k)
             b == SubSeq(txt, m, l)
  <1>1. l \in Nat /\ o \in Int /\ m \in Int /\ l \in Int /\ k \in Nat /\ o = 1 /\ m = k + 1 /\ k <= l
    OBVIOUS
  <1>2. \A i \in 1..l : txt[i] \in Byte
    OBVIOUS
  <1> HIDE DEF l, o, m
  <1>3. (\A i \in o..k : txt[i] \in Byte) /\ (\A i \in m..l : txt[i] \in Byte)
    <2>1. (\A i \in o..k : i \in 1..l) /\ (\A i \in m..l : i \in 1..l)
      BY <1>1
    <2> QED
      BY <1>2, <2>1
  <1>4. a \in Seq(Byte) /\ Len(a) = (IF o <= k THEN k - o + 1 ELSE 0) /\ \A i \in 1..k-o+1 : a[i] = txt[o + i - 1]
    BY <1>1, <1>3, SubSeqProperties
  <1>5. b \in Seq(Byte) /\ Len(b) = (IF m <= l THEN l - m + 1 ELSE 0) /\ \A i \in 1..l-m+1 : b[i] = txt[m + i - 1]
    BY <1>1, <1>3, SubSeqProperties
  <1> HIDE DEF a, b
  <1>6. Len(a) = k /\ k - o + 1 = k /\ \A i \in 1..k : o + i - 1 = i
    BY <1>1, <1>4
  <1>7. Len(b) = l - k /\ l - m + 1 = l - k /\ \A i \in 1..l-k : m + i - 1 = k + i
    BY <1>1, <1>5
  <1>8. \A i \in 1..k : a[i] = txt[i]
    BY <1>4, <1>6
  <1>9. \A i \in 1..l-k : b[i] = txt[k + i]
    BY <1>5, <1>7
  <1>10. txt = a \o b
    <2> DEFINE c == a \o b
    <2>1. c \in Seq(Byte) /\ Len(c) = Len(a) + Len(b)
          /\ (\A i \in 1..Len(a) : c[i] = a[i]) /\ (\A i \in 1..Len(b) : c[Len(a) + i] = b[i])
      BY <1>4, <1>5, ConcatIs
    <2> HIDE DEF c
    <2>2. Len(c) = l
      BY <1>1, <1>6, <1>7, <2>1
    <2>3. \A i \in 1..l : txt[i] = c[i]
      <3> TAKE i \in 1..l
      <3>1. CASE i <= k
        <4>1. i \in 1..k
          BY <1>1, <3>1
        <4> QED
          BY <1>6, <1>8, <2>1, <4>1
      <3>2. CASE ~(i <= k)
        <4>1. i - k \in 1..l-k /\ k + (i - k) = i
          BY <1>1, <3>2
        <4> QED
          BY <1>6, <1>7, <1>9, <2>1, <4>1
      <3> QED
        BY <3>1, <3>2
    <2>4. txt = c
      BY <2>1, <2>2, <2>3, SeqEqual DEF l
    <2> QED
      BY <2>4 DEF c
  <1> QED
    BY <1>4, <1>5, <1>6, <1>7, <1>8, <1>9, <1>10 DEF a, b, o, m, l

\* Nothing handed out ends inside a character, whatever comes next.
Boundary(e, rest) == IF rest = <<>> THEN IncompleteTailLen(e) = 0 ELSE ~IsContinuation(rest[1])

LEMMA SanitizeTyped ==
    ASSUME NEW bytes \in Seq(Byte)
    PROVE  Sanitize(bytes) \in Seq(Int)
  <1>1. Len(bytes) \in 0..Len(bytes)
    OBVIOUS
  <1>2. CleanedTo(bytes, Len(bytes)) \in CleanState
    BY <1>1, CleanedSteps
  <1>3. CleanedTo(bytes, Len(bytes)).clean \in Seq(Int)
    BY <1>2 DEF CleanState
  <1> QED
    BY <1>3 DEF Sanitize

\* What a chunk adds to the text handed out is what it adds to the whole.
LEMMA ChunkAdds ==
    ASSUME NEW e \in Seq(Byte), NEW p \in Seq(Byte), NEW b \in Seq(Byte), Boundary(e, p),
           NEW k \in 0..Len(p \o b), NoAlias(e \o (p \o b))
    PROVE  LET head == SubSeq(p \o b, 1, k)
           IN  Sanitize(e \o head) = Sanitize(e) \o Sanitize(head)
  <1> DEFINE all == p \o b
             head == SubSeq(all, 1, k)
             rest == SubSeq(all, k + 1, Len(all))
  <1>1. all \in Seq(Byte) /\ Len(all) = Len(p) + Len(b) /\ \A i \in 1..Len(p) : all[i] = p[i]
    BY ConcatIs
  <1> HIDE DEF all
  <1>2. /\ head \in Seq(Byte) /\ Len(head) = k /\ \A i \in 1..k : head[i] = all[i]
        /\ rest \in Seq(Byte) /\ all = head \o rest
    BY <1>1, CutInTwo DEF all
  <1> HIDE DEF head, rest
  <1>3. NoAlias(e \o head)
    <2>1. e \o head \in Seq(Byte) /\ (e \o head) \o rest = e \o (head \o rest)
      <3>1. head \in Seq(Byte) /\ rest \in Seq(Byte)
        BY <1>2
      <3>2. e \o head \in Seq(Byte)
        BY <3>1, ConcatIs
      <3> QED
        BY <3>1, <3>2, JoinBytes
    <2>2. NoAlias((e \o head) \o rest)
      BY <1>2, <2>1 DEF all
    <2> QED
      BY <1>2, <2>1, <2>2, NoAliasParts
  <1>4. Apart(e, head)
    <2>1. CASE p = <<>>
      BY <2>1 DEF Boundary, Apart
    <2>2. CASE p # <<>>
      <3>1. ~IsContinuation(p[1]) /\ Len(p) >= 1
        BY <2>2 DEF Boundary
      <3>2. all[1] = p[1]
        BY <1>1, <3>1
      <3>3. head # <<>> => k >= 1
        BY <1>2
      <3>4. k >= 1 => head[1] = all[1]
        BY <1>2
      <3> QED
        BY <3>1, <3>2, <3>3, <3>4 DEF Apart
    <2> QED
      BY <2>1, <2>2
  <1>5. Sanitize(e \o head) = Sanitize(e) \o Sanitize(head)
    BY <1>2, <1>3, <1>4, SanitizeConcat
  <1> QED
    BY <1>5 DEF head, all

\* The next chunk ends at a character too, when it is cut in front of h bytes
\* that do not begin inside one.
LEMMA NextBoundary ==
    ASSUME NEW e \in Seq(Byte), NEW p \in Seq(Byte), NEW b \in Seq(Byte), Boundary(e, p),
           NEW h \in 0..Len(p \o b),
           h = 0 => IncompleteTailLen(p \o b) = 0,
           h # 0 => ~IsContinuation((p \o b)[Len(p \o b) - h + 1])
    PROVE  Boundary(e \o SubSeq(p \o b, 1, Len(p \o b) - h),
                    SubSeq(p \o b, Len(p \o b) - h + 1, Len(p \o b)))
  <1> DEFINE all == p \o b
             k == Len(all) - h
             head == SubSeq(all, 1, k)
             rest == SubSeq(all, k + 1, Len(all))
  <1>1. all \in Seq(Byte) /\ Len(all) = Len(p) + Len(b) /\ \A i \in 1..Len(p) : all[i] = p[i]
    BY ConcatIs
  <1>2. h = 0 => IncompleteTailLen(all) = 0
    OBVIOUS
  <1>3. h # 0 => ~IsContinuation(all[k + 1])
    OBVIOUS
  <1>4. k \in 0..Len(all) /\ Len(all) - k = h /\ h \in Nat
    BY <1>1
  <1> HIDE DEF all, k
  <1>5. /\ head \in Seq(Byte) /\ rest \in Seq(Byte) /\ Len(rest) = h /\ all = head \o rest
        /\ \A i \in 1..h : rest[i] = all[k + i]
    BY <1>1, <1>4, CutInTwo
  <1> HIDE DEF head, rest
  <1>6. CASE h = 0
    <2>1. rest = <<>> /\ head = all
      BY <1>5, <1>6
    <2>2. IncompleteTailLen(e \o all) = 0
      <3>1. CASE p = <<>>
        BY <1>1, <1>2, <1>6, <3>1, TailOfClosed DEF Boundary
      <3>2. CASE p # <<>>
        <4>1. ~IsContinuation(p[1]) /\ Len(p) >= 1
          BY <3>2 DEF Boundary
        <4>2. all[1] = p[1] /\ Len(all) >= 1
          BY <1>1, <4>1
        <4>3. all # <<>> /\ ~IsContinuation(all[1])
          BY <1>1, <4>1, <4>2
        <4> QED
          BY <1>1, <1>2, <1>6, <4>3, TailOfWhole
      <3> QED
        BY <3>1, <3>2
    <2>3. Boundary(e \o head, rest)
      BY <2>1, <2>2 DEF Boundary
    <2> QED
      BY <2>3 DEF head, rest, k, all
  <1>7. CASE h # 0
    <2>1. rest # <<>> /\ rest[1] = all[k + 1]
      BY <1>4, <1>5, <1>7
    <2>2. Boundary(e \o head, rest)
      BY <1>3, <1>7, <2>1 DEF Boundary
    <2> QED
      BY <2>2 DEF head, rest, k, all
  <1> QED
    BY <1>6, <1>7

LEMMA CompleteEmpty == CompleteUtf8(<<>>) = <<>>
  <1> DEFINE e == <<>>
  <1>1. e \in Seq(Byte) /\ Len(e) = 0 /\ e = <<>>
    OBVIOUS
  <1> HIDE DEF e
  <1> DEFINE t == IncompleteTailLen(e)
  <1>2. t = 0
    <2>1. t \in 0..3 /\ t <= Len(e)
      BY <1>1, TailLenIs
    <2> HIDE DEF t
    <2> QED
      BY <1>1, <2>1
  <1>3. SubSeq(e, 1, Len(e) - t) = e
    <2> HIDE DEF t
    <2> QED
      BY <1>1, <1>2
  <1>4. CompleteUtf8(e) = Sanitize(e)
    <2> DEFINE head == SubSeq(e, 1, Len(e) - t)
    <2>1. CompleteUtf8(e) = IF t > 0 THEN Append(Sanitize(head), Repl) ELSE Sanitize(head)
      BY DEF CompleteUtf8
    <2>2. head = e
      BY <1>3
    <2> HIDE DEF t, head
    <2> QED
      BY <1>2, <2>1, <2>2
  <1> QED
    BY <1>1, <1>4, SanitizeEmpty

LEMMA CompleteTyped ==
    ASSUME NEW bytes \in Seq(Byte)
    PROVE  CompleteUtf8(bytes) \in Seq(Int)
  <1> DEFINE k == Len(bytes) - IncompleteTailLen(bytes)
             head == SubSeq(bytes, 1, k)
  <1>1. k \in 0..Len(bytes)
    BY TailLenIs
  <1> HIDE DEF k
  <1>2. head \in Seq(Byte)
    BY <1>1, CutInTwo
  <1> HIDE DEF head
  <1>3. Sanitize(head) \in Seq(Int) /\ Append(Sanitize(head), Repl) \in Seq(Int)
    BY <1>2, SanitizeTyped, AppendProperties DEF Repl
  <1>4. CompleteUtf8(bytes) \in {Sanitize(head), Append(Sanitize(head), Repl)}
    BY DEF CompleteUtf8, head, k
  <1> QED
    BY <1>3, <1>4

\* The last chunk ends the text as decoding all of it at once does.
LEMMA FlushAdds ==
    ASSUME NEW e \in Seq(Byte), NEW p \in Seq(Byte), Boundary(e, p), NoAlias(e \o p)
    PROVE  CompleteUtf8(e \o p) = Sanitize(e) \o CompleteUtf8(p)
  <1> DEFINE all == e \o p
             t == IncompleteTailLen(p)
             k == Len(p) - t
             head == SubSeq(p, 1, k)
             rest == SubSeq(p, k + 1, Len(p))
  <1>1. all \in Seq(Byte) /\ Len(all) = Len(e) + Len(p)
    BY ConcatIs
  <1>2. t \in 0..3 /\ t <= Len(p) /\ k \in 0..Len(p) /\ Len(p) \in Nat
    BY TailLenIs
  <1>3. IncompleteTailLen(all) = t
    <2>1. CASE p = <<>>
      <3>1. all = e /\ IncompleteTailLen(e) = 0 /\ Len(p) = 0
        BY <2>1 DEF Boundary
      <3>2. t = 0
        BY <1>2, <3>1
      <3> QED
        BY <3>1, <3>2
    <2>2. CASE p # <<>>
      BY <2>2, TailOfWhole DEF Boundary
    <2> QED
      BY <2>1, <2>2
  <1> HIDE DEF t, k
  <1>4. /\ head \in Seq(Byte) /\ Len(head) = k /\ rest \in Seq(Byte) /\ p = head \o rest
        /\ \A i \in 1..k : head[i] = p[i]
    BY <1>2, CutInTwo
  <1> HIDE DEF head, rest
  <1> DEFINE whole == SubSeq(all, 1, Len(all) - t)
  <1>5. whole = e \o head
    <2> DEFINE c == e \o head
               l == Len(all) - t
    <2>1. c \in Seq(Byte) /\ Len(c) = Len(e) + k
      BY <1>4, ConcatIs
    <2>6. c \o rest = all
      <3>1. (e \o head) \o rest = e \o (head \o rest)
        BY <1>4, JoinBytes
      <3> QED
        BY <1>4, <3>1
    <2>2. l = Len(e) + k /\ l \in 0..Len(all)
      BY <1>1, <1>2 DEF k
    <2> HIDE DEF all, c
    <2>3. \A i \in 1..l : all[i] = c[i]
      BY <1>4, <2>1, <2>2, <2>6, ConcatIs
    <2> HIDE DEF l
    <2>4. /\ SubSeq(all, 1, l) \in Seq(Byte) /\ Len(SubSeq(all, 1, l)) = l
          /\ \A i \in 1..l : SubSeq(all, 1, l)[i] = all[i]
      BY <1>1, <2>2, CutInTwo
    <2>5. SubSeq(all, 1, l) = c
      BY <2>1, <2>2, <2>3, <2>4, SeqEqual
    <2> QED
      BY <2>5 DEF c, l
  <1>6. Sanitize(whole) = Sanitize(e) \o Sanitize(head)
    <2> DEFINE none == <<>>
    <2>1. none \in Seq(Byte) /\ p \o none = p
      OBVIOUS
    <2> HIDE DEF none
    <2>2. Sanitize(e \o head) = Sanitize(e) \o Sanitize(head)
      <3>1. k \in 0..Len(p \o none) /\ NoAlias(e \o (p \o none)) /\ head = SubSeq(p \o none, 1, k)
        BY <1>2, <2>1 DEF head
      <3> QED
        BY <2>1, <3>1, ChunkAdds
    <2> QED
      BY <1>5, <2>2
  <1> DEFINE x == Sanitize(e)
             y == Sanitize(head)
  <1>7. x \in Seq(Int) /\ y \in Seq(Int)
    BY <1>4, SanitizeTyped
  <1>8. CompleteUtf8(all) = IF t > 0 THEN Append(Sanitize(whole), Repl) ELSE Sanitize(whole)
    BY <1>3 DEF CompleteUtf8
  <1>9. CompleteUtf8(p) = IF t > 0 THEN Append(y, Repl) ELSE y
    BY DEF CompleteUtf8, t, head, k
  <1> HIDE DEF whole, x, y
  <1>10. Append(x \o y, Repl) = x \o Append(y, Repl)
    <2>1. Repl \in Int
      BY DEF Repl
    <2> QED
      BY <1>7, <2>1, AppendBehind
  <1>11. Sanitize(whole) = x \o y
    BY <1>6 DEF x, y
  <1>12. CompleteUtf8(all) = x \o CompleteUtf8(p)
    BY <1>8, <1>9, <1>10, <1>11
  <1> QED
    BY <1>12 DEF x, all

-------------------------------------------------------------------------------
(* The text of all pieces                                                  *)

Tokens == DOMAIN Pieces \cup {BosId, EosId}

Silent(t, eos) == t = BosId \/ (t = EosId /\ eos)

IdsOK(ids, eos) ==
    /\ ids \in Seq(Tokens)
    /\ \A i \in 1..Len(ids) : Silent(ids[i], eos) \/ ids[i] \in DOMAIN Pieces

ShownState == [first : BOOLEAN, text : Seq(Byte)]

LEMMA PieceTyped ==
    ASSUME NEW t \in DOMAIN Pieces, NEW remove
    PROVE  PieceBytes(t, remove) \in Seq(Byte)
  <1> DEFINE piece == Pieces[t]
  <1>1. piece \in Seq(Byte)
    BY StreamAssumption
  <1> HIDE DEF piece
  <1>2. piece # <<>> => Tail(piece) \in Seq(Byte)
    BY <1>1, HeadTailProperties
  <1>3. PieceBytes(t, remove) \in {piece} \cup (IF piece # <<>> THEN {Tail(piece)} ELSE {})
    BY DEF PieceBytes, piece
  <1> QED
    BY <1>1, <1>2, <1>3

LEMMA ShownStepTyped ==
    ASSUME NEW acc \in ShownState, NEW t, NEW eos, Silent(t, eos) \/ t \in DOMAIN Pieces
    PROVE  ShownStep(acc, t, eos) \in ShownState
  <1> DEFINE piece == PieceBytes(t, acc.first /\ AddSpacePrefix)
  <1>1. acc.text \in Seq(Byte)
    BY DEF ShownState
  <1>2. CASE Silent(t, eos)
    BY <1>2 DEF ShownStep, Silent
  <1>3. CASE ~Silent(t, eos)
    <2>1. piece \in Seq(Byte)
      BY <1>3, PieceTyped
    <2> HIDE DEF piece
    <2>2. acc.text \o piece \in Seq(Byte)
      BY <1>1, <2>1, ConcatIs
    <2>3. ShownStep(acc, t, eos) = [first |-> FALSE, text |-> acc.text \o piece]
      BY <1>3 DEF ShownStep, Silent, piece
    <2> QED
      BY <2>2, <2>3 DEF ShownState
  <1> QED
    BY <1>2, <1>3

LEMMA ShownSteps ==
    ASSUME NEW ids, NEW eos, IdsOK(ids, eos)
    PROVE  /\ ShownTo(ids, eos, 0) = [first |-> TRUE, text |-> <<>>]
           /\ \A i \in 1..Len(ids) :
                ShownTo(ids, eos, i) = ShownStep(ShownTo(ids, eos, i - 1), ids[i], eos)
           /\ \A i \in 0..Len(ids) : ShownTo(ids, eos, i) \in ShownState
  <1> DEFINE n == Len(ids)
             start == [first |-> TRUE, text |-> <<>>]
             step == [i \in 1..n |-> [s \in ShownState |-> ShownStep(s, ids[i], eos)]]
             IsRun(u) == u = [i \in 0..n |-> IF i = 0 THEN start ELSE ShownStep(u[i-1], ids[i], eos)]
             run == CHOOSE u : IsRun(u)
  <1>1. n \in Nat /\ start \in ShownState
    BY DEF ShownState, IdsOK
  <1>2. \A k : ShownTo(ids, eos, k) = run[k]
    BY DEF ShownTo
  <1>3. \A i \in 1..n : \A s \in ShownState : ShownStep(s, ids[i], eos) \in ShownState
    BY ShownStepTyped DEF IdsOK
  <1>4. step \in [1..n -> [ShownState -> ShownState]]
    BY <1>3
  <1> HIDE DEF n, start
  <1>5. PICK f \in [0..n -> ShownState] : Recursive(f, start, n, step)
    <2> HIDE DEF step
    <2> QED
      BY <1>1, <1>4, RecursionExists
  <1>6. f[0] = start /\ \A i \in 1..n : f[i] = step[i][f[i-1]]
    BY <1>5 DEF Recursive
  <1>7. \A i \in 1..n : i - 1 \in 0..n /\ f[i-1] \in ShownState
    BY <1>1, <1>5
  <1>8. \A i \in 1..n : f[i] = ShownStep(f[i-1], ids[i], eos)
    BY <1>6, <1>7
  <1>9. \A i \in 0..n : i # 0 => i \in 1..n
    BY <1>1
  <1>10. \E u : IsRun(u)
    <2>1. f = [i \in 0..n |-> IF i = 0 THEN start ELSE ShownStep(f[i-1], ids[i], eos)]
      BY <1>5, <1>6, <1>8, <1>9
    <2> QED
      BY <2>1
  <1>11. IsRun(run)
    <2> HIDE DEF IsRun
    <2> QED
      BY <1>10
  <1> HIDE DEF run, step
  <1>12. run[0] = start /\ \A i \in 1..n : run[i] = ShownStep(run[i-1], ids[i], eos)
    <2> DEFINE body == [i \in 0..n |-> IF i = 0 THEN start ELSE ShownStep(run[i-1], ids[i], eos)]
    <2>1. run = body
      BY <1>11
    <2>2. \A i \in 0..n : body[i] = IF i = 0 THEN start ELSE ShownStep(run[i-1], ids[i], eos)
      OBVIOUS
    <2> HIDE DEF body
    <2>3. 0 \in 0..n /\ \A i \in 1..n : i \in 0..n /\ i # 0
      BY <1>1
    <2> QED
      BY <2>1, <2>2, <2>3
  <1>13. \A i \in 0..n : run[i] \in ShownState
    <2>1. \A i \in 1..n : run[i-1] \in ShownState => run[i] \in ShownState
      BY <1>3, <1>12
    <2> QED
      BY <1>1, <1>12, <2>1, BoundedInduction
  <1> QED
    BY <1>2, <1>12, <1>13 DEF n, start

\* A token pushed last is shown last.
LEMMA ShownAppend ==
    ASSUME NEW ids, NEW eos, IdsOK(ids, eos), NEW t \in Tokens, Silent(t, eos) \/ t \in DOMAIN Pieces
    PROVE  LET more == Append(ids, t)
           IN  /\ IdsOK(more, eos)
               /\ ShownTo(more, eos, Len(more)) = ShownStep(ShownTo(ids, eos, Len(ids)), t, eos)
               /\ ShownTo(ids, eos, Len(ids)) \in ShownState
  <1> DEFINE more == Append(ids, t)
             n == Len(ids)
  <1>1. ids \in Seq(Tokens) /\ n \in Nat
    BY DEF IdsOK
  <1>2. /\ more \in Seq(Tokens) /\ Len(more) = n + 1 /\ more[n + 1] = t
        /\ \A i \in 1..n : more[i] = ids[i]
    BY <1>1, AppendProperties
  <1> HIDE DEF more, n
  <1>3. IdsOK(more, eos)
    <2>1. \A i \in 1..Len(more) : i \in 1..n \/ i = n + 1
      BY <1>1, <1>2
    <2> QED
      BY <1>2, <2>1 DEF IdsOK, n
  <1> DEFINE A(i) == ShownTo(ids, eos, i)
             B(i) == ShownTo(more, eos, i)
  <1>4. A(0) = B(0) /\ (\A i \in 1..n : A(i) = ShownStep(A(i - 1), ids[i], eos))
        /\ \A i \in 0..n : A(i) \in ShownState
    BY <1>3, ShownSteps DEF n
  <1>5. \A i \in 1..n+1 : B(i) = ShownStep(B(i - 1), more[i], eos)
    BY <1>2, <1>3, ShownSteps
  <1> HIDE DEF A, B
  <1> DEFINE T == {i \in Nat : i <= n => A(i) = B(i)}
  <1>6. Nat \subseteq T
    <2>1. 0 \in T
      BY <1>4
    <2>2. ASSUME NEW i \in T PROVE i + 1 \in T
      <3>1. SUFFICES ASSUME i + 1 <= n PROVE A(i + 1) = B(i + 1)
        OBVIOUS
      <3> DEFINE k == i + 1
      <3>2. k \in 1..n /\ k \in 1..n+1 /\ k - 1 = i /\ i <= n
        BY <1>1, <3>1
      <3>3. A(i) = B(i)
        BY <3>2
      <3> HIDE DEF k
      <3>4. A(k) = ShownStep(A(i), ids[k], eos)
        BY <1>4, <3>2
      <3>5. B(k) = ShownStep(B(i), more[k], eos)
        BY <1>5, <3>2
      <3>6. A(k) = B(k)
        BY <1>2, <3>2, <3>3, <3>4, <3>5
      <3> QED
        BY <3>6 DEF k
    <2>3. T \subseteq Nat
      OBVIOUS
    <2> HIDE DEF T
    <2> QED
      BY <2>1, <2>2, <2>3, SetInduction
  <1>7. A(n) = B(n)
    <2>1. n \in T /\ n <= n
      BY <1>1, <1>6
    <2> QED
      BY <2>1
  <1>8. B(n + 1) = ShownStep(A(n), t, eos)
    <2> DEFINE k == n + 1
    <2>1. k \in 1..n+1 /\ k - 1 = n /\ more[k] = t
      BY <1>1, <1>2
    <2> HIDE DEF k
    <2>2. B(k) = ShownStep(B(n), t, eos)
      BY <1>5, <2>1
    <2> QED
      BY <1>7, <2>2 DEF k
  <1>9. A(n) \in ShownState
    BY <1>1, <1>4
  <1> QED
    BY <1>2, <1>3, <1>8, <1>9 DEF A, B, more, n

-------------------------------------------------------------------------------
(* What the stream has handed out                                          *)

\* Nothing is settled yet: txt is what was handed out, as out, and then rest.
Open(list, txt, rest, out) ==
    \E e \in Seq(Byte) :
        /\ txt = e \o rest /\ Boundary(e, rest)
        /\ NoAlias(txt) => out = Sanitize(e)
        /\ StopsAt(list, txt) = {} /\ PrefixHeld(list, txt, Len(rest))

\* The text in front of the first stop string was handed out.
CutOff(list, txt, out) ==
    StopsAt(list, txt) # {} /\ NoAlias(txt)
        => out = Sanitize(SubSeq(txt, 1, Min(StopsAt(list, txt))))

\* All of it was.
Closed(list, txt, out) ==
    StopsAt(list, txt) = {} /\ (NoAlias(txt) => out = CompleteUtf8(txt))

LEMMA OpenInit ==
    ASSUME NEW list, StopsOK(list)
    PROVE  Open(list, <<>>, <<>>, <<>>)
  <1> DEFINE e == <<>>
  <1>1. e \in Seq(Byte) /\ Len(e) = 0 /\ e = <<>> /\ e = e \o e
    OBVIOUS
  <1> HIDE DEF e
  <1>2. IncompleteTailLen(e) = 0
    <2> DEFINE t == IncompleteTailLen(e)
    <2>1. t \in 0..3 /\ t <= Len(e)
      BY <1>1, TailLenIs
    <2> HIDE DEF t
    <2>2. t = 0
      BY <1>1, <2>1
    <2> QED
      BY <2>2 DEF t
  <1>3. e = Sanitize(e)
    BY <1>1, SanitizeEmpty
  <1>4. StopsAt(list, e) = {}
    <2>1. SUFFICES ASSUME NEW i \in 0..Len(e), NEW n \in DOMAIN list, list[n] # <<>>,
                          i + Len(list[n]) <= Len(e)
                   PROVE  FALSE
      BY DEF StopsAt, StartsAt
    <2>2. list[n] \in Seq(Byte)
      BY DEF StopsOK
    <2>3. Len(list[n]) \in Nat /\ Len(list[n]) # 0
      BY <2>1, <2>2
    <2> QED
      BY <1>1, <2>1, <2>3
  <1>5. PrefixHeld(list, e, Len(e))
    BY <1>1 DEF PrefixHeld
  <1>6. Boundary(e, e)
    BY <1>1, <1>2 DEF Boundary
  <1>7. Open(list, e, e, e)
    BY <1>1, <1>3, <1>4, <1>5, <1>6 DEF Open
  <1> QED
    BY <1>1, <1>7

\* A stop string found in what is held back and the new piece is the first one
\* of the whole text.
LEMMA PushHit ==
    ASSUME NEW list, StopsOK(list), NEW txt \in Seq(Byte), NEW rest \in Seq(Byte), NEW out \in Seq(Int),
           Open(list, txt, rest, out), NEW b \in Seq(Byte), StopsAt(list, rest \o b) # {}
    PROVE  CutOff(list, txt \o b, out \o Sanitize(SubSeq(rest \o b, 1, Min(StopsAt(list, rest \o b)))))
  <1>1. PICK e \in Seq(Byte) : /\ txt = e \o rest /\ Boundary(e, rest)
                               /\ NoAlias(txt) => out = Sanitize(e)
                               /\ StopsAt(list, txt) = {} /\ PrefixHeld(list, txt, Len(rest))
    BY DEF Open
  <1> DEFINE all == rest \o b
             new == e \o all
             H == StopsAt(list, all)
             N == StopsAt(list, new)
             m == Min(H)
             le == Len(e)
             head == SubSeq(all, 1, m)
  <1>2. txt \o b = new
    BY <1>1, JoinBytes
  <1>3. all \in Seq(Byte) /\ new \in Seq(Byte) /\ Len(new) = le + Len(all) /\ le \in Nat /\ Len(all) \in Nat
        /\ \A i \in 1..Len(all) : new[le + i] = all[i]
    BY ConcatIs
  <1>4. \A i : i \in N <=> i \in Nat /\ i - le \in H
    BY <1>1, PushStops
  <1>5. m \in H /\ (\A x \in H : m <= x) /\ H \subseteq 0..Len(all)
    <2>1. H \subseteq 0..Len(all)
      BY DEF StopsAt
    <2>2. H \in SUBSET Nat /\ H # {}
      BY <1>3, <2>1
    <2> HIDE DEF H
    <2> QED
      BY <2>1, <2>2, LeastIsMin
  <1>6. m \in 0..Len(all)
    BY <1>5
  <1> HIDE DEF H, N, m
  <1>7. Min(N) = le + m
    <2>1. le + m \in Nat /\ (le + m) - le = m
      BY <1>3, <1>6
    <2>2. le + m \in N
      BY <1>4, <1>5, <2>1
    <2>3. N \in SUBSET Nat
      BY <1>4
    <2>4. \A x \in N : le + m <= x
      <3> TAKE x \in N
      <3>1. x \in Nat /\ x - le \in H
        BY <1>4
      <3>2. m <= x - le
        BY <1>5, <3>1
      <3> QED
        BY <1>3, <1>6, <3>1, <3>2
    <2> DEFINE k == le + m
    <2> HIDE DEF k
    <2>5. Min(N) = k
      BY <2>2, <2>3, <2>4, MinIs DEF k
    <2> QED
      BY <2>5 DEF k
  <1>8. SubSeq(new, 1, le + m) = e \o head
    <2> DEFINE after == SubSeq(all, m + 1, Len(all))
               c == e \o head
               l == le + m
    <2> HIDE DEF all
    <2>1. head \in Seq(Byte) /\ Len(head) = m /\ after \in Seq(Byte) /\ all = head \o after
      BY <1>3, <1>6, CutInTwo
    <2> HIDE DEF head, after
    <2>2. c \in Seq(Byte) /\ Len(c) = l
      BY <2>1, ConcatIs
    <2>3. c \o after = new
      <3>1. (e \o head) \o after = e \o (head \o after)
        BY <2>1, JoinBytes
      <3> QED
        BY <2>1, <3>1
    <2>4. l \in 0..Len(new)
      BY <1>3, <1>6
    <2> HIDE DEF c, l, new
    <2>5. \A i \in 1..l : new[i] = c[i]
      BY <2>1, <2>2, <2>3, ConcatIs
    <2>6. /\ SubSeq(new, 1, l) \in Seq(Byte) /\ Len(SubSeq(new, 1, l)) = l
          /\ \A i \in 1..l : SubSeq(new, 1, l)[i] = new[i]
      BY <1>3, <2>4, CutInTwo
    <2>7. SubSeq(new, 1, l) = c
      BY <2>2, <2>5, <2>6, SeqEqual
    <2> QED
      BY <2>7 DEF c, l
  <1>9. ASSUME NoAlias(new) PROVE out \o Sanitize(head) = Sanitize(SubSeq(new, 1, le + m))
    <2>1. NoAlias(txt)
      <3>1. NoAlias(txt \o b)
        BY <1>2, <1>9
      <3> QED
        BY <3>1, NoAliasParts
    <2>2. Sanitize(e \o head) = Sanitize(e) \o Sanitize(head)
      <3>1. Boundary(e, rest)
        BY <1>1
      <3>2. NoAlias(e \o (rest \o b)) /\ m \in 0..Len(rest \o b)
        BY <1>6, <1>9
      <3> HIDE DEF m
      <3> QED
        BY <3>1, <3>2, ChunkAdds
    <2> HIDE DEF head
    <2> QED
      BY <1>1, <1>8, <2>1, <2>2
  <1> HIDE DEF head, new
  <1>10. CutOff(list, new, out \o Sanitize(head))
    BY <1>7, <1>9 DEF CutOff, N
  <1> QED
    BY <1>2, <1>10 DEF head, m, H

\* Without one the text stays open, with h bytes held back.
LEMMA PushMore ==
    ASSUME NEW list, StopsOK(list), NEW txt \in Seq(Byte), NEW rest \in Seq(Byte), NEW out \in Seq(Int),
           Open(list, txt, rest, out), NEW b \in Seq(Byte), StopsAt(list, rest \o b) = {},
           NEW h \in 0..Len(rest \o b),
           h = 0 => IncompleteTailLen(rest \o b) = 0,
           h # 0 => ~IsContinuation((rest \o b)[Len(rest \o b) - h + 1]),
           \A n \in DOMAIN list : \A i \in 0..Len(rest \o b) :
              i < Len(rest \o b) /\ BeginsAt(list[n], rest \o b, i) => Len(rest \o b) - i <= h
    PROVE  Open(list, txt \o b, SubSeq(rest \o b, Len(rest \o b) - h + 1, Len(rest \o b)),
                out \o Sanitize(SubSeq(rest \o b, 1, Len(rest \o b) - h)))
  <1>1. PICK e \in Seq(Byte) : /\ txt = e \o rest /\ Boundary(e, rest)
                               /\ NoAlias(txt) => out = Sanitize(e)
                               /\ StopsAt(list, txt) = {} /\ PrefixHeld(list, txt, Len(rest))
    BY DEF Open
  <1> DEFINE all == rest \o b
             new == e \o all
             k == Len(all) - h
             head == SubSeq(all, 1, k)
             keep == SubSeq(all, k + 1, Len(all))
  <1>2. txt \o b = new
    BY <1>1, JoinBytes
  <1>3. all \in Seq(Byte) /\ Len(all) \in Nat
    BY ConcatIs
  <1>4. StopsAt(list, new) = {}
    BY <1>1, PushStops
  <1>5. PrefixHeld(list, new, h)
    BY <1>1, PushHeld
  <1>6. Boundary(e \o head, keep)
    BY <1>1, NextBoundary
  <1>7. k \in 0..Len(all) /\ Len(all) - k = h
    BY <1>3
  <1>8. ASSUME NoAlias(new) PROVE out \o Sanitize(head) = Sanitize(e \o head)
    <2>1. NoAlias(txt)
      <3>1. NoAlias(txt \o b)
        BY <1>2, <1>8
      <3> QED
        BY <3>1, NoAliasParts
    <2>2. Sanitize(e \o head) = Sanitize(e) \o Sanitize(head)
      <3>1. Boundary(e, rest)
        BY <1>1
      <3>2. NoAlias(e \o (rest \o b)) /\ k \in 0..Len(rest \o b)
        BY <1>7, <1>8
      <3> HIDE DEF k
      <3> QED
        BY <3>1, <3>2, ChunkAdds
    <2> HIDE DEF head
    <2> QED
      BY <1>1, <2>1, <2>2
  <1>9. head \in Seq(Byte) /\ keep \in Seq(Byte) /\ Len(keep) = h /\ all = head \o keep
    <2> HIDE DEF all, k
    <2> QED
      BY <1>3, <1>7, CutInTwo
  <1> HIDE DEF k, head, keep
  <1>10. new = (e \o head) \o keep /\ e \o head \in Seq(Byte)
    <2>1. (e \o head) \o keep = e \o (head \o keep)
      BY <1>9, JoinBytes
    <2> QED
      BY <1>9, <2>1, ConcatIs
  <1> HIDE DEF new, all
  <1>11. Open(list, new, keep, out \o Sanitize(head))
    BY <1>4, <1>5, <1>6, <1>8, <1>9, <1>10 DEF Open
  <1> QED
    BY <1>2, <1>11 DEF keep, head, k, all

LEMMA FlushClosed ==
    ASSUME NEW list, NEW txt \in Seq(Byte), NEW rest \in Seq(Byte), NEW out, Open(list, txt, rest, out)
    PROVE  Closed(list, txt, out \o CompleteUtf8(rest))
  <1>1. PICK e \in Seq(Byte) : /\ txt = e \o rest /\ Boundary(e, rest)
                               /\ NoAlias(txt) => out = Sanitize(e)
                               /\ StopsAt(list, txt) = {} /\ PrefixHeld(list, txt, Len(rest))
    BY DEF Open
  <1>2. NoAlias(txt) => CompleteUtf8(txt) = Sanitize(e) \o CompleteUtf8(rest)
    BY <1>1, FlushAdds
  <1> QED
    BY <1>1, <1>2 DEF Closed

-------------------------------------------------------------------------------
(* The invariant of the stream                                             *)

HeldFor(list, r) == r <= Max({3} \cup {Len(list[n]) - 1 : n \in DOMAIN list})

LEMMA HeldIs ==
    ASSUME NEW list, StopsOK(list), NEW r \in Nat,
           r <= 3 \/ \E n \in DOMAIN list : r <= Len(list[n]) - 1
    PROVE  HeldFor(list, r)
  <1> DEFINE S == {3} \cup {Len(list[n]) - 1 : n \in DOMAIN list}
             b == StopLen(list) + 3
  <1>1. StopSet(list)
    <2>1. Byte \subseteq Nat
      BY DEF Byte
    <2>2. Seq(Byte) \subseteq Seq(Nat)
      BY <2>1, SeqMonotonic
    <2>3. list \in Seq(Seq(Byte))
      BY DEF StopsOK
    <2>4. list \in Seq(Seq(Nat))
      BY <2>2, <2>3, SeqMonotonic
    <2> QED
      BY <2>4 DEF StopSet, StopsOK, IsCont, IsContinuation
  <1>2. StopLen(list) \in Nat /\ \A n \in DOMAIN list : Len(list[n]) <= StopLen(list)
    BY <1>1, StopLenBounds
  <1>3. \A n \in DOMAIN list : Len(list[n]) \in Nat
    BY DEF StopsOK
  <1>4. S \in SUBSET Int /\ S # {} /\ b \in Int /\ \A x \in S : x <= b
    BY <1>2, <1>3
  <1>5. \E x \in S : r <= x
    BY <1>3
  <1> DEFINE x == Max(S)
  <1> HIDE DEF S, b
  <1>6. x \in S /\ \A y \in S : y <= x
    BY <1>4, MaxIs
  <1> HIDE DEF x
  <1>7. r <= x
    BY <1>4, <1>5, <1>6
  <1> QED
    BY <1>7 DEF HeldFor, x, S

Shown == ShownTo(pushed, stop_on_eos, Len(pushed))

StreamTypeOK ==
    /\ stop_strings \in StreamStops /\ stop_on_eos \in BOOLEAN
    /\ stopped \in BOOLEAN /\ flushed \in BOOLEAN
    /\ pending \in Seq(Byte) /\ emitted \in Seq(Int)
    /\ IdsOK(pushed, stop_on_eos)

StreamInv ==
    /\ StreamTypeOK
    /\ first_piece = Shown.first
    /\ HeldFor(stop_strings, Len(pending))
    /\ stopped \/ flushed => pending = <<>>
    /\ ~stopped /\ ~flushed => Open(stop_strings, Shown.text, pending, emitted)
    /\ stopped => CutOff(stop_strings, Shown.text, emitted)
    /\ ~stopped /\ flushed => Closed(stop_strings, Shown.text, emitted)

LEMMA StopsAreOK ==
    ASSUME stop_strings \in StreamStops
    PROVE  StopsOK(stop_strings)
  BY StreamAssumption DEF StopsOK

LEMMA ShownTyped ==
    ASSUME IdsOK(pushed, stop_on_eos)
    PROVE  Shown \in ShownState /\ Shown.first \in BOOLEAN /\ Shown.text \in Seq(Byte)
  <1>1. Len(pushed) \in 0..Len(pushed)
    BY DEF IdsOK
  <1>2. Shown \in ShownState
    BY <1>1, ShownSteps DEF Shown
  <1> QED
    BY <1>2 DEF ShownState

\* A token that shows nothing leaves the text as it was.
LEMMA SilentPush ==
    ASSUME IdsOK(pushed, stop_on_eos), NEW t \in Tokens, Silent(t, stop_on_eos),
           pushed' = Append(pushed, t), stop_on_eos' = stop_on_eos
    PROVE  Shown' = Shown /\ IdsOK(pushed, stop_on_eos)'
  <1> DEFINE more == Append(pushed, t)
  <1>1. IdsOK(more, stop_on_eos) /\ ShownTo(more, stop_on_eos, Len(more)) = ShownStep(Shown, t, stop_on_eos)
    BY ShownAppend DEF Shown
  <1>2. ShownStep(Shown, t, stop_on_eos) = Shown
    BY DEF ShownStep, Silent
  <1>3. Shown' = ShownTo(more, stop_on_eos, Len(more))
    BY DEF Shown
  <1>4. IdsOK(pushed, stop_on_eos)' <=> IdsOK(more, stop_on_eos)
    BY DEF IdsOK, Silent, Tokens
  <1> QED
    BY <1>1, <1>2, <1>3, <1>4

LEMMA StreamInitial == StreamInit => StreamInv
  <1> SUFFICES ASSUME StreamInit PROVE StreamInv
    OBVIOUS
  <1>1. /\ stop_strings \in StreamStops /\ stop_on_eos \in BOOLEAN
        /\ stopped = FALSE /\ flushed = FALSE /\ pending = <<>> /\ first_piece = TRUE
        /\ emitted = <<>> /\ pushed = <<>>
    BY StreamAssumption DEF StreamInit
  <1>2. IdsOK(pushed, stop_on_eos) /\ Len(pushed) = 0
    BY <1>1 DEF IdsOK
  <1>3. Shown = [first |-> TRUE, text |-> <<>>]
    BY <1>2, ShownSteps DEF Shown
  <1>4. StopsOK(stop_strings)
    BY <1>1, StopsAreOK
  <1>5. HeldFor(stop_strings, Len(pending))
    <2>1. Len(pending) \in Nat /\ Len(pending) <= 3
      BY <1>1
    <2> QED
      BY <1>4, <2>1, HeldIs
  <1>6. Open(stop_strings, Shown.text, pending, emitted)
    <2>1. Shown.text = <<>>
      BY <1>3
    <2> QED
      BY <1>1, <1>4, <2>1, OpenInit
  <1>7. StreamTypeOK
    <2>1. <<>> \in Seq(Byte) /\ <<>> \in Seq(Int)
      OBVIOUS
    <2>2. pending \in Seq(Byte) /\ emitted \in Seq(Int)
      BY <1>1, <2>1
    <2>3. stopped \in BOOLEAN /\ flushed \in BOOLEAN
      BY <1>1
    <2> QED
      BY <1>1, <1>2, <2>2, <2>3 DEF StreamTypeOK
  <1>8. first_piece = Shown.first
    BY <1>1, <1>3
  <1> QED
    BY <1>1, <1>5, <1>6, <1>7, <1>8 DEF StreamInv

LEMMA PushEosKeeps ==
    ASSUME StreamInv, PushEos
    PROVE  StreamInv'
  <1>1. /\ ~stopped /\ ~flushed /\ stop_on_eos /\ stopped' = TRUE /\ flushed' = flushed
        /\ emitted' = emitted \o Sanitize(pending) /\ pending' = <<>>
        /\ pushed' = Append(pushed, EosId) /\ stop_on_eos' = stop_on_eos
        /\ stop_strings' = stop_strings /\ first_piece' = first_piece
    BY DEF PushEos, CanPush
  <1>2. /\ stop_strings \in StreamStops /\ stop_on_eos \in BOOLEAN /\ flushed \in BOOLEAN
        /\ pending \in Seq(Byte) /\ emitted \in Seq(Int) /\ IdsOK(pushed, stop_on_eos)
    BY DEF StreamInv, StreamTypeOK
  <1>3. Shown' = Shown /\ IdsOK(pushed, stop_on_eos)'
    <2>1. EosId \in Tokens /\ Silent(EosId, stop_on_eos)
      BY <1>1 DEF Tokens, Silent
    <2> QED
      BY <1>1, <1>2, <2>1, SilentPush
  <1>4. emitted' \in Seq(Int)
    BY <1>1, <1>2, SanitizeTyped, ConcatProperties
  <1>5. HeldFor(stop_strings, Len(pending'))
    <2>1. Len(pending') \in Nat /\ Len(pending') <= 3
      BY <1>1
    <2> QED
      BY <1>2, <2>1, HeldIs, StopsAreOK
  <1>6. CutOff(stop_strings, Shown.text, emitted')
    <2>1. StopsAt(stop_strings, Shown.text) = {}
      BY <1>1 DEF StreamInv, Open
    <2> QED
      BY <2>1 DEF CutOff
  <1>7. StreamTypeOK'
    <2>1. pending' \in Seq(Byte)
      BY <1>1
    <2> QED
      BY <1>1, <1>2, <1>3, <1>4, <2>1 DEF StreamTypeOK
  <1>8. first_piece' = Shown'.first
    BY <1>1, <1>3 DEF StreamInv
  <1> HIDE DEF Shown
  <1> QED
    BY <1>1, <1>3, <1>5, <1>6, <1>7, <1>8 DEF StreamInv

LEMMA PushBosKeeps ==
    ASSUME StreamInv, PushBos
    PROVE  StreamInv'
  <1>1. /\ stopped' = stopped /\ flushed' = flushed
        /\ emitted' = emitted /\ pending' = pending
        /\ pushed' = Append(pushed, BosId) /\ stop_on_eos' = stop_on_eos
        /\ stop_strings' = stop_strings /\ first_piece' = first_piece
    BY DEF PushBos
  <1>2. IdsOK(pushed, stop_on_eos)
    BY DEF StreamInv, StreamTypeOK
  <1>3. Shown' = Shown /\ IdsOK(pushed, stop_on_eos)'
    <2>1. BosId \in Tokens /\ Silent(BosId, stop_on_eos)
      BY DEF Tokens, Silent
    <2> QED
      BY <1>1, <1>2, <2>1, SilentPush
  <1>4. StreamTypeOK'
    BY <1>1, <1>3 DEF StreamTypeOK, StreamInv
  <1> HIDE DEF Shown
  <1> QED
    BY <1>1, <1>3, <1>4 DEF StreamInv

LEMMA FlushKeeps ==
    ASSUME StreamInv, Flush
    PROVE  StreamInv'
  <1>1. /\ ~flushed /\ stopped' = stopped /\ flushed' = TRUE
        /\ emitted' = emitted \o CompleteUtf8(pending) /\ pending' = <<>>
        /\ pushed' = pushed /\ stop_on_eos' = stop_on_eos
        /\ stop_strings' = stop_strings /\ first_piece' = first_piece
    BY DEF Flush
  <1>2. /\ stop_strings \in StreamStops /\ stopped \in BOOLEAN
        /\ pending \in Seq(Byte) /\ emitted \in Seq(Int) /\ IdsOK(pushed, stop_on_eos)
    BY DEF StreamInv, StreamTypeOK
  <1>3. Shown' = Shown /\ Shown.text \in Seq(Byte)
    BY <1>1, <1>2, ShownTyped DEF Shown
  <1>4. emitted' \in Seq(Int) /\ pending' \in Seq(Byte)
    BY <1>1, <1>2, CompleteTyped, ConcatProperties
  <1>5. HeldFor(stop_strings, Len(pending'))
    <2>1. Len(pending') \in Nat /\ Len(pending') <= 3
      BY <1>1
    <2> QED
      BY <1>2, <2>1, HeldIs, StopsAreOK
  <1>6. ~stopped => Closed(stop_strings, Shown.text, emitted')
    <2>1. SUFFICES ASSUME ~stopped PROVE Closed(stop_strings, Shown.text, emitted \o CompleteUtf8(pending))
      BY <1>1
    <2>2. Open(stop_strings, Shown.text, pending, emitted)
      BY <1>1, <2>1 DEF StreamInv
    <2> QED
      BY <1>2, <1>3, <2>2, FlushClosed
  <1>7. stopped => CutOff(stop_strings, Shown.text, emitted')
    <2>1. SUFFICES ASSUME stopped PROVE CutOff(stop_strings, Shown.text, emitted')
      OBVIOUS
    <2>2. pending = <<>> /\ CutOff(stop_strings, Shown.text, emitted)
      BY <2>1 DEF StreamInv
    <2>3. emitted' = emitted
      <3>1. CompleteUtf8(pending) = <<>>
        BY <2>2, CompleteEmpty
      <3> QED
        BY <1>1, <1>2, <3>1, ConcatEmptySeq
    <2> QED
      BY <2>2, <2>3
  <1>8. StreamTypeOK'
    BY <1>1, <1>2, <1>4 DEF StreamTypeOK, StreamInv
  <1> HIDE DEF Shown
  <1>9. first_piece' = Shown'.first
    BY <1>1, <1>3 DEF StreamInv
  <1> QED
    BY <1>1, <1>3, <1>5, <1>6, <1>7, <1>8, <1>9 DEF StreamInv

LEMMA PushPieceKeeps ==
    ASSUME StreamInv, NEW t \in DOMAIN Pieces \ {BosId}, PushPiece(t)
    PROVE  StreamInv'
  <1> DEFINE b == PieceBytes(t, first_piece /\ AddSpacePrefix)
             all == pending \o b
             hits == StopStarts(all)
             h == Hold(all)
             head == SubSeq(all, 1, Len(all) - h)
             keep == SubSeq(all, Len(all) - h + 1, Len(all))
             front == SubSeq(all, 1, Min(hits))
             txt == Shown.text
  <1>1. /\ ~stopped /\ ~flushed /\ (t = EosId => ~stop_on_eos)
        /\ first_piece' = FALSE /\ pushed' = Append(pushed, t)
        /\ stop_strings' = stop_strings /\ stop_on_eos' = stop_on_eos /\ flushed' = flushed
        /\ hits # {} => stopped' = TRUE /\ emitted' = emitted \o Sanitize(front) /\ pending' = <<>>
        /\ hits = {} => stopped' = FALSE /\ emitted' = emitted \o Sanitize(head) /\ pending' = keep
    BY DEF PushPiece, CanPush
  <1>2. /\ stop_strings \in StreamStops /\ stop_on_eos \in BOOLEAN /\ flushed \in BOOLEAN
        /\ pending \in Seq(Byte) /\ emitted \in Seq(Int) /\ IdsOK(pushed, stop_on_eos)
        /\ first_piece = Shown.first
    BY DEF StreamInv, StreamTypeOK
  <1>3. StopsOK(stop_strings)
    BY <1>2, StopsAreOK
  <1>4. txt \in Seq(Byte)
    BY <1>2, ShownTyped
  <1>5. b \in Seq(Byte)
    BY PieceTyped
  <1>6. Open(stop_strings, txt, pending, emitted)
    BY <1>1 DEF StreamInv
  <1>7. Shown' = [first |-> FALSE, text |-> txt \o b] /\ IdsOK(pushed, stop_on_eos)'
    <2> DEFINE more == Append(pushed, t)
    <2>1. t \in Tokens /\ t # BosId
      BY DEF Tokens
    <2>2. IdsOK(more, stop_on_eos) /\ ShownTo(more, stop_on_eos, Len(more)) = ShownStep(Shown, t, stop_on_eos)
      BY <1>2, <2>1, ShownAppend DEF Shown
    <2>3. ShownStep(Shown, t, stop_on_eos) = [first |-> FALSE, text |-> txt \o b]
      BY <1>1, <1>2, <2>1 DEF ShownStep
    <2>4. Shown' = ShownTo(more, stop_on_eos, Len(more))
      BY <1>1 DEF Shown
    <2>5. IdsOK(pushed, stop_on_eos)' <=> IdsOK(more, stop_on_eos)
      BY <1>1 DEF IdsOK, Silent, Tokens
    <2> QED
      BY <2>2, <2>3, <2>4, <2>5
  <1> HIDE DEF b, txt
  <1>8. all \in Seq(Byte) /\ Len(all) \in Nat
    BY <1>2, <1>5, ConcatIs
  <1>9. hits = StopsAt(stop_strings, all)
    BY <1>3, <1>8, StartsAre
  <1>10. Shown'.text = txt \o b /\ Shown'.first = FALSE
    BY <1>7
  <1>11. first_piece' = Shown'.first
    BY <1>1, <1>10
  <1>12. CASE hits # {}
    <2>1. CutOff(stop_strings, txt \o b, emitted')
      <3>1. StopsAt(stop_strings, pending \o b) # {}
        BY <1>9, <1>12
      <3>2. CutOff(stop_strings, txt \o b, emitted \o Sanitize(SubSeq(pending \o b, 1, Min(StopsAt(stop_strings, pending \o b)))))
        BY <1>2, <1>3, <1>4, <1>5, <1>6, <3>1, PushHit
      <3> HIDE DEF hits
      <3> QED
        BY <1>1, <1>9, <1>12, <3>2
    <2>2. emitted' \in Seq(Int)
      <3>1. Min(hits) \in 0..Len(all)
        <4>1. hits \subseteq 0..Len(all)
          BY DEF StopStarts
        <4> HIDE DEF hits
        <4>2. hits \in SUBSET Nat
          BY <1>8, <4>1
        <4> QED
          BY <1>12, <4>1, <4>2, LeastIsMin
      <3> DEFINE m == Min(hits)
      <3> HIDE DEF m, all
      <3>2. front \in Seq(Byte)
        BY <1>8, <3>1, CutInTwo DEF m
      <3> HIDE DEF front, hits
      <3> QED
        BY <1>1, <1>2, <1>12, <3>2, SanitizeTyped, ConcatProperties
    <2>3. stopped' = TRUE /\ pending' = <<>>
      BY <1>1, <1>12
    <2>4. pending' \in Seq(Byte) /\ HeldFor(stop_strings, Len(pending'))
      <3>1. Len(pending') \in Nat /\ Len(pending') <= 3 /\ pending' \in Seq(Byte)
        BY <2>3
      <3> QED
        BY <1>3, <3>1, HeldIs
    <2>5. StreamTypeOK'
      BY <1>1, <1>2, <1>7, <2>2, <2>3, <2>4 DEF StreamTypeOK
    <2> HIDE DEF all, hits, h, head, keep, front
    <2> HIDE DEF Shown
    <2> QED
      BY <1>1, <1>10, <1>11, <2>1, <2>3, <2>4, <2>5 DEF StreamInv
  <1>13. CASE hits = {}
    <2>1. /\ h \in 0..Len(all)
          /\ h = 0 => IncompleteTailLen(all) = 0
          /\ h # 0 => ~IsContinuation(all[Len(all) - h + 1])
          /\ h <= 3 \/ \E n \in DOMAIN stop_strings : h <= Len(stop_strings[n]) - 1
          /\ \A n \in DOMAIN stop_strings : \A i \in 0..Len(all) :
                i < Len(all) /\ BeginsAt(stop_strings[n], all, i) => Len(all) - i <= h
      <3> HIDE DEF all
      <3> QED
        BY <1>3, <1>8, HoldIs
    <2> HIDE DEF h
    <2>2. Open(stop_strings, txt \o b, keep, emitted \o Sanitize(head))
      <3>1. StopsAt(stop_strings, pending \o b) = {}
        BY <1>9, <1>13
      <3> QED
        BY <1>2, <1>3, <1>4, <1>5, <1>6, <2>1, <3>1, PushMore
    <2>3. head \in Seq(Byte) /\ keep \in Seq(Byte) /\ Len(keep) = h
      <3> DEFINE k == Len(all) - h
      <3>1. k \in 0..Len(all) /\ Len(all) - k = h
        BY <1>8, <2>1
      <3> HIDE DEF k, all
      <3>2. SubSeq(all, 1, k) \in Seq(Byte) /\ SubSeq(all, k + 1, Len(all)) \in Seq(Byte)
            /\ Len(SubSeq(all, k + 1, Len(all))) = Len(all) - k
        BY <1>8, <3>1, CutInTwo
      <3> QED
        BY <3>1, <3>2 DEF k
    <2> HIDE DEF hits, head, keep, front
    <2>4. stopped' = FALSE /\ pending' = keep /\ emitted' = emitted \o Sanitize(head)
      BY <1>1, <1>13
    <2>5. emitted' \in Seq(Int)
      BY <1>2, <2>3, <2>4, SanitizeTyped, ConcatProperties
    <2>6. HeldFor(stop_strings, Len(pending'))
      <3>1. h \in Nat
        BY <1>8, <2>1
      <3>2. HeldFor(stop_strings, h)
        BY <1>3, <2>1, <3>1, HeldIs
      <3> QED
        BY <2>3, <2>4, <3>2
    <2>7. StreamTypeOK'
      BY <1>1, <1>2, <1>7, <2>3, <2>4, <2>5 DEF StreamTypeOK
    <2> HIDE DEF Shown, all
    <2> QED
      BY <1>1, <1>10, <1>11, <2>2, <2>4, <2>6, <2>7 DEF StreamInv
  <1> QED
    BY <1>12, <1>13

LEMMA StreamInvExact == StreamInv => StreamExact
  <1> SUFFICES ASSUME StreamInv PROVE StreamExact
    OBVIOUS
  <1>1. stop_strings \in StreamStops /\ stopped \in BOOLEAN /\ flushed \in BOOLEAN /\ IdsOK(pushed, stop_on_eos)
    BY DEF StreamInv, StreamTypeOK
  <1>2. Shown.text \in Seq(Byte) /\ StopsOK(stop_strings)
    BY <1>1, ShownTyped, StopsAreOK
  <1>3. AllBytes = Shown.text
    BY DEF AllBytes, Shown
  <1>4. StopStarts(AllBytes) = StopsAt(stop_strings, Shown.text)
    BY <1>2, <1>3, StartsAre
  <1>5. Decodable <=> NoAlias(Shown.text)
    BY <1>3 DEF Decodable, NoAlias
  <1>6. ~stopped => StopsAt(stop_strings, Shown.text) = {}
    BY <1>1 DEF StreamInv, Open, Closed
  <1> HIDE DEF Shown
  <1>7. StopTextExact
    BY <1>3, <1>4, <1>5, <1>6 DEF StopTextExact, StoppedByString, StreamInv, CutOff
  <1>8. StreamEqualsBatch
    BY <1>3, <1>5 DEF StreamEqualsBatch, StreamInv, Closed
  <1>9. HeldBounded
    BY DEF HeldBounded, HeldFor, StreamInv
  <1> QED
    BY <1>7, <1>8, <1>9 DEF StreamExact

\* Whatever pieces a client's stream is fed, and however characters and stop
\* strings are split over them, the first stop string ends it, with the text in
\* front of it shown; a flushed stream that nothing stopped has shown all
\* pieces decoded at once (both for Decodable text); and less than the longest
\* stop string, or three bytes, is held back.
THEOREM StreamExactHolds == StreamSpec => []StreamExact
  <1>1. StreamInit => StreamInv
    BY StreamInitial
  <1>2. StreamInv /\ [StreamNext]_streamVars => StreamInv'
    <2> SUFFICES ASSUME StreamInv, [StreamNext]_streamVars PROVE StreamInv'
      OBVIOUS
    <2>1. CASE PushEos
      BY <2>1, PushEosKeeps
    <2>2. CASE PushBos
      BY <2>2, PushBosKeeps
    <2>3. CASE Flush
      BY <2>3, FlushKeeps
    <2>4. ASSUME NEW t \in DOMAIN Pieces \ {BosId}, PushPiece(t) PROVE StreamInv'
      BY <2>4, PushPieceKeeps
    <2>5. CASE UNCHANGED streamVars
      <3>1. /\ stopped' = stopped /\ flushed' = flushed /\ emitted' = emitted /\ pending' = pending
            /\ pushed' = pushed /\ stop_on_eos' = stop_on_eos
            /\ stop_strings' = stop_strings /\ first_piece' = first_piece
        BY <2>5 DEF streamVars
      <3>2. Shown' = Shown /\ (StreamTypeOK' <=> StreamTypeOK)
        BY <3>1 DEF Shown, StreamTypeOK
      <3> QED
        BY <3>1, <3>2 DEF StreamInv
    <2> QED
      BY <2>1, <2>2, <2>3, <2>4, <2>5 DEF StreamNext
  <1>3. StreamInv => StreamExact
    BY StreamInvExact
  <1> QED
    BY <1>1, <1>2, <1>3, PTL DEF StreamSpec

===============================================================================
