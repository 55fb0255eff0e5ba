------------------------- MODULE BatchWorkspaceProofs -------------------------
(***************************************************************************)
(* Proofs about the batch of a step.  BatchWorkspace: the flat tensors are *)
(* the manager's exact view of the batch, for every set of groups,         *)
(* batches, trees and capacities.  TreeWalk: the tree checks are exact for *)
(* every parent list: what the ancestors of a token are, what a walk of    *)
(* check_tree_cycles finds, and what its marks mean between two walks.     *)
(***************************************************************************)
EXTENDS StateManagerProofs, BatchWorkspace, TreeWalk, RecursionProofs, SequenceTheorems

-----------------------------------------------------------------------------
(* Sums of lengths                                                         *)

LEMMA SumToSteps ==
    ASSUME NEW lens \in Seq(Nat)
    PROVE  /\ SumTo(lens, 0) = 0
           /\ \A k \in 1 .. Len(lens) : SumTo(lens, k) = SumTo(lens, k - 1) + lens[k]
           /\ \A k \in 0 .. Len(lens) : SumTo(lens, k) \in Nat
  <1> DEFINE n == Len(lens)
             step == [i \in 1 .. n |-> [x \in Nat |-> x + lens[i]]]
             IsSum(u) == u = [k \in 0 .. n |-> IF k = 0 THEN 0 ELSE u[k - 1] + lens[k]]
             sum == CHOOSE u : IsSum(u)
  <1>1. n \in Nat /\ \A i \in 1 .. n : lens[i] \in Nat
    OBVIOUS
  <1>2. \A k : SumTo(lens, k) = sum[k]
    BY DEF SumTo
  <1> HIDE DEF n
  <1>3. step \in [1 .. n -> [Nat -> Nat]]
    BY <1>1
  <1>4. \E u : IsSum(u)
    <2>1. \A i \in 1 .. n : \A x \in Nat : step[i][x] = x + lens[i]
      OBVIOUS
    <2> HIDE DEF step
    <2>2. PICK f \in [0 .. n -> Nat] : Recursive(f, 0, n, step)
      BY <1>1, <1>3, RecursionExists
    <2>3. f[0] = 0 /\ \A i \in 1 .. n : f[i] = step[i][f[i-1]]
      BY <2>2 DEF Recursive
    <2>4. \A i \in 0 .. n : i # 0 => i \in 1 .. n /\ i - 1 \in 0 .. n
      BY <1>1
    <2>5. f = [k \in 0 .. n |-> IF k = 0 THEN 0 ELSE f[k - 1] + lens[k]]
      BY <2>1, <2>2, <2>3, <2>4
    <2> QED
      BY <2>5
  <1>5. IsSum(sum)
    <2> HIDE DEF IsSum
    <2> QED
      BY <1>4
  <1> HIDE DEF sum
  <1>6. sum[0] = 0 /\ \A k \in 1 .. n : sum[k] = sum[k - 1] + lens[k]
    <2>1. \A k \in 0 .. n : sum[k] = IF k = 0 THEN 0 ELSE sum[k - 1] + lens[k]
      <3> DEFINE body == [k \in 0 .. n |-> IF k = 0 THEN 0 ELSE sum[k - 1] + lens[k]]
      <3>1. sum = body
        BY <1>5
      <3>2. \A k \in 0 .. n : body[k] = IF k = 0 THEN 0 ELSE sum[k - 1] + lens[k]
        OBVIOUS
      <3> HIDE DEF body
      <3> QED
        BY <3>1, <3>2
    <2> QED
      BY <1>1, <2>1
  <1> DEFINE T == {k \in Nat : k <= n => sum[k] \in Nat}
  <1>7. Nat \subseteq T
    <2>1. 0 \in T
      BY <1>6
    <2>2. ASSUME NEW k \in T PROVE k + 1 \in T
      <3>1. k + 1 <= n => k + 1 \in 1 .. n /\ (k + 1) - 1 = k
        BY <1>1
      <3> QED
        BY <1>1, <1>6, <3>1
    <2>3. T \subseteq Nat
      OBVIOUS
    <2> HIDE DEF T
    <2> QED
      BY <2>1, <2>2, <2>3, SetInduction
  <1>8. \A k \in 0 .. n : sum[k] \in Nat
    BY <1>1, <1>7
  <1> HIDE DEF T
  <1> QED
    BY <1>2, <1>6, <1>8 DEF n

\* The sums of equal lengths are their multiples.
LEMMA SumToEqual ==
    ASSUME NEW lens \in Seq(Nat), NEW c \in Nat, \A k \in 1 .. Len(lens) : lens[k] = c,
           NEW k \in 0 .. Len(lens)
    PROVE  SumTo(lens, k) = k * c
  <1> DEFINE n == Len(lens)
             T == {i \in Nat : i <= n => SumTo(lens, i) = i * c}
  <1>1. n \in Nat
    OBVIOUS
  <1>2. 0 \in T
    BY SumToSteps
  <1>3. ASSUME NEW i \in T PROVE i + 1 \in T
    <2>1. SUFFICES ASSUME i + 1 <= n PROVE SumTo(lens, i + 1) = (i + 1) * c
      OBVIOUS
    <2>2. i \in Nat /\ i + 1 \in 1 .. n /\ (i + 1) - 1 = i /\ SumTo(lens, i) = i * c
      BY <1>1, <2>1
    <2>3. SumTo(lens, i + 1) = SumTo(lens, (i + 1) - 1) + lens[i + 1]
      BY <2>2, SumToSteps
    <2>4. SumTo(lens, i + 1) = i * c + c
      BY <2>2, <2>3
    <2> QED
      BY <2>2, <2>4
  <1>4. T \subseteq Nat
    OBVIOUS
  <1> HIDE DEF T
  <1>5. Nat \subseteq T
    BY <1>2, <1>3, <1>4, SetInduction
  <1> QED
    BY <1>1, <1>5 DEF T

\* Sums grow with the index.
LEMMA SumToMonotone ==
    ASSUME NEW lens \in Seq(Nat), NEW i \in 0 .. Len(lens), NEW j \in i .. Len(lens)
    PROVE  SumTo(lens, i) <= SumTo(lens, j)
  <1> DEFINE n == Len(lens)
             T == {d \in Nat : i + d <= n => SumTo(lens, i) <= SumTo(lens, i + d)}
  <1>1. n \in Nat /\ i \in Nat /\ \A k \in 1 .. n : lens[k] \in Nat
    OBVIOUS
  <1>2. \A k \in 0 .. n : SumTo(lens, k) \in Nat
    BY SumToSteps
  <1>3. 0 \in T
    BY <1>1, <1>2
  <1>4. ASSUME NEW d \in T PROVE d + 1 \in T
    <2>1. SUFFICES ASSUME i + (d + 1) <= n PROVE SumTo(lens, i) <= SumTo(lens, i + (d + 1))
      OBVIOUS
    <2>2. d \in Nat /\ i + d \in 0 .. n /\ i + (d + 1) \in 1 .. n /\ (i + (d + 1)) - 1 = i + d
      BY <1>1, <2>1
    <2>3. SumTo(lens, i + (d + 1)) = SumTo(lens, i + d) + lens[i + (d + 1)]
      BY <2>2, SumToSteps
    <2>4. SumTo(lens, i) <= SumTo(lens, i + d)
      BY <2>2
    <2>5. SumTo(lens, i) \in Nat /\ SumTo(lens, i + d) \in Nat /\ lens[i + (d + 1)] \in Nat
      BY <1>1, <1>2, <2>2
    <2> QED
      BY <2>3, <2>4, <2>5
  <1>5. T \subseteq Nat
    OBVIOUS
  <1> HIDE DEF T
  <1>6. Nat \subseteq T
    BY <1>3, <1>4, <1>5, SetInduction
  <1>7. j - i \in T /\ i + (j - i) = j /\ j <= n
    BY <1>1, <1>6
  <1> QED
    BY <1>7 DEF T

\* Every index below the total lies in a segment.
LEMMA SegmentOf ==
    ASSUME NEW lens \in Seq(Nat), NEW t \in Nat, t < SumTo(lens, Len(lens))
    PROVE  \E k \in 1 .. Len(lens) : \E a \in 0 .. lens[k] - 1 : t = SumTo(lens, k - 1) + a
  <1> DEFINE n == Len(lens)
             T == {m \in Nat : m <= n /\ t < SumTo(lens, m) =>
                     \E k \in 1 .. n : \E a \in 0 .. lens[k] - 1 : t = SumTo(lens, k - 1) + a}
  <1>1. n \in Nat /\ \A k \in 1 .. n : lens[k] \in Nat
    OBVIOUS
  <1>2. \A k \in 0 .. n : SumTo(lens, k) \in Nat
    BY SumToSteps
  <1>3. 0 \in T
    BY SumToSteps
  <1>4. ASSUME NEW m \in T PROVE m + 1 \in T
    <2>1. SUFFICES ASSUME m + 1 <= n, t < SumTo(lens, m + 1)
                   PROVE  \E k \in 1 .. n : \E a \in 0 .. lens[k] - 1 :
                              t = SumTo(lens, k - 1) + a
      OBVIOUS
    <2>2. m \in Nat /\ m \in 0 .. n /\ m + 1 \in 1 .. n /\ (m + 1) - 1 = m
      BY <1>1, <2>1
    <2>3. SumTo(lens, m + 1) = SumTo(lens, m) + lens[m + 1]
      BY <2>2, SumToSteps
    <2>4. SumTo(lens, m) \in Nat /\ lens[m + 1] \in Nat
      BY <1>1, <1>2, <2>2
    <2>5. CASE t < SumTo(lens, m)
      BY <2>2, <2>5, <1>1
    <2>6. CASE ~(t < SumTo(lens, m))
      <3>1. t - SumTo(lens, m) \in 0 .. lens[m + 1] - 1
            /\ t = SumTo(lens, (m + 1) - 1) + (t - SumTo(lens, m))
        BY <2>1, <2>2, <2>3, <2>4, <2>6
      <3> QED
        BY <2>2, <3>1
    <2> QED
      BY <2>5, <2>6
  <1>5. T \subseteq Nat
    OBVIOUS
  <1> HIDE DEF T
  <1>6. Nat \subseteq T
    BY <1>3, <1>4, <1>5, SetInduction
  <1>7. n \in T /\ n <= n
    BY <1>1, <1>6
  <1> QED
    BY <1>7 DEF T

-----------------------------------------------------------------------------
(* Rows laid one after the other                                           *)

LensOf(rows) == [k \in 1 .. Len(rows) |-> Len(rows[k])]

\* What FlattenSeq makes of rows: the j-th element of row k lies j places after
\* the end of the rows before it.
IsFlat(flat, rows) ==
    /\ Len(flat) = SumTo(LensOf(rows), Len(rows))
    /\ \A k \in 1 .. Len(rows) : \A j \in 1 .. Len(rows[k]) :
          flat[SumTo(LensOf(rows), k - 1) + j] = rows[k][j]

LEMMA FunctionIsSeq ==
    ASSUME NEW S, NEW n \in Nat, NEW f \in [1 .. n -> S]
    PROVE  f \in Seq(S) /\ Len(f) = n
  OBVIOUS

LEMMA LensTyped ==
    ASSUME NEW S, NEW rows \in Seq(Seq(S))
    PROVE  /\ LensOf(rows) \in Seq(Nat) /\ Len(LensOf(rows)) = Len(rows)
           /\ \A k \in 1 .. Len(rows) : LensOf(rows)[k] = Len(rows[k]) /\ rows[k] \in Seq(S)
  <1>1. Len(rows) \in Nat /\ \A k \in 1 .. Len(rows) : rows[k] \in Seq(S)
    OBVIOUS
  <1>2. \A k \in 1 .. Len(rows) : Len(rows[k]) \in Nat
    BY <1>1
  <1>3. LensOf(rows) \in [1 .. Len(rows) -> Nat]
    BY <1>2 DEF LensOf
  <1>4. \A k \in 1 .. Len(rows) : LensOf(rows)[k] = Len(rows[k])
    BY DEF LensOf
  <1> HIDE DEF LensOf
  <1>5. LensOf(rows) \in Seq(Nat) /\ Len(LensOf(rows)) = Len(rows)
    BY <1>1, <1>3, FunctionIsSeq
  <1> QED
    BY <1>1, <1>4, <1>5

\* FlattenSeq's recursion, from the empty list of rows.
LEMMA FlattenSteps ==
    ASSUME NEW S, NEW rows \in Seq(Seq(S)), Len(rows) > 0
    PROVE  \E f \in [1 .. Len(rows) -> Seq(S)] :
              /\ FlattenSeq(rows) = f[Len(rows)]
              /\ f[1] = rows[1]
              /\ \A i \in 2 .. Len(rows) : f[i] = f[i - 1] \o rows[i]
  <1> DEFINE n == Len(rows)
             Q == Seq(S)
             step == [i \in 1 .. n |-> [x \in Q |-> x \o rows[i]]]
             IsFlatten(u) == u = [i \in 1 .. n |-> IF i = 1 THEN rows[i] ELSE u[i - 1] \o rows[i]]
             flatten == CHOOSE u : IsFlatten(u)
  <1>1. n \in Nat /\ n > 0 /\ \A i \in 1 .. n : rows[i] \in Q
    OBVIOUS
  <1>2. FlattenSeq(rows) = flatten[n]
    BY DEF FlattenSeq
  <1>3. ASSUME NEW x \in Q, NEW i \in 1 .. n PROVE x \o rows[i] \in Q
    BY <1>1
  <1>4. <<>> \in Q /\ \A x \in Q : <<>> \o x = x
    OBVIOUS
  <1> HIDE DEF n, Q
  <1>5. step \in [1 .. n -> [Q -> Q]]
    BY <1>3
  <1>6. \E u : IsFlatten(u)
    <2>1. \A i \in 1 .. n : \A x \in Q : step[i][x] = x \o rows[i]
      OBVIOUS
    <2> HIDE DEF step
    <2>2. PICK f \in [0 .. n -> Q] : Recursive(f, <<>>, n, step)
      BY <1>1, <1>4, <1>5, RecursionExists
    <2>3. f[0] = <<>> /\ \A i \in 1 .. n : f[i] = step[i][f[i-1]]
      BY <2>2 DEF Recursive
    <2> DEFINE u == [i \in 1 .. n |-> f[i]]
    <2>4. ASSUME NEW i \in 1 .. n
          PROVE  u[i] = IF i = 1 THEN rows[i] ELSE u[i - 1] \o rows[i]
      <3>1. i - 1 \in 0 .. n /\ f[i - 1] \in Q /\ f[i] = f[i - 1] \o rows[i]
        <4>1. i - 1 \in 0 .. n
          BY <1>1
        <4>2. f[i - 1] \in Q
          BY <2>2, <4>1
        <4> QED
          BY <2>1, <2>3, <4>1, <4>2
      <3>2. CASE i = 1
        <4>1. i - 1 = 0 /\ u[i] = f[i] /\ rows[i] \in Q
          BY <1>1, <3>2
        <4>2. <<>> \o rows[i] = rows[i]
          BY <1>4, <4>1
        <4> HIDE DEF u
        <4>3. f[i] = rows[i]
          BY <2>3, <3>1, <4>1, <4>2
        <4> QED
          BY <3>2, <4>1, <4>3
      <3>3. CASE i # 1
        <4>1. i - 1 \in 1 .. n
          BY <1>1, <3>3
        <4> QED
          BY <3>1, <3>3, <4>1
      <3> QED
        BY <3>2, <3>3
    <2>5. u = [i \in 1 .. n |-> u[i]]
      OBVIOUS
    <2> HIDE DEF u
    <2>6. u = [i \in 1 .. n |-> IF i = 1 THEN rows[i] ELSE u[i - 1] \o rows[i]]
      BY <2>4, <2>5
    <2> QED
      BY <2>6
  <1>7. IsFlatten(flatten)
    <2> HIDE DEF IsFlatten
    <2> QED
      BY <1>6
  <1> HIDE DEF flatten
  <1>8. DOMAIN flatten = 1 .. n
        /\ \A i \in 1 .. n : flatten[i] = IF i = 1 THEN rows[i] ELSE flatten[i - 1] \o rows[i]
    <2> DEFINE body == [i \in 1 .. n |-> IF i = 1 THEN rows[i] ELSE flatten[i - 1] \o rows[i]]
    <2>1. flatten = body
      BY <1>7
    <2>2. DOMAIN body = 1 .. n
          /\ \A i \in 1 .. n : body[i] = IF i = 1 THEN rows[i] ELSE flatten[i - 1] \o rows[i]
      OBVIOUS
    <2> HIDE DEF body
    <2> QED
      BY <2>1, <2>2
  <1> DEFINE T == {k \in Nat : k + 1 <= n => flatten[k + 1] \in Q}
  <1>9. Nat \subseteq T
    <2>1. 0 \in T
      <3>1. 1 \in 1 .. n /\ 0 + 1 = 1
        BY <1>1
      <3>2. flatten[1] = rows[1] /\ rows[1] \in Q
        BY <1>1, <1>8, <3>1
      <3> QED
        BY <3>1, <3>2
    <2>2. ASSUME NEW k \in T PROVE k + 1 \in T
      <3>1. SUFFICES ASSUME (k + 1) + 1 <= n PROVE flatten[(k + 1) + 1] \in Q
        OBVIOUS
      <3>2. k + 1 <= n /\ (k + 1) + 1 \in 1 .. n /\ (k + 1) + 1 # 1 /\ ((k + 1) + 1) - 1 = k + 1
        BY <1>1, <3>1
      <3>3. flatten[(k + 1) + 1] = flatten[k + 1] \o rows[(k + 1) + 1]
        BY <1>8, <3>2
      <3> QED
        BY <1>3, <3>2, <3>3
    <2>3. T \subseteq Nat
      OBVIOUS
    <2> HIDE DEF T
    <2> QED
      BY <2>1, <2>2, <2>3, SetInduction
  <1>10. ASSUME NEW i \in 1 .. n PROVE flatten[i] \in Q
    <2>1. i - 1 \in T /\ (i - 1) + 1 = i /\ i <= n
      BY <1>1, <1>9
    <2> QED
      BY <2>1
  <1> HIDE DEF T
  <1>11. flatten = [i \in 1 .. n |-> flatten[i]]
    <2> DEFINE body == [i \in 1 .. n |-> IF i = 1 THEN rows[i] ELSE flatten[i - 1] \o rows[i]]
    <2>1. flatten = body
      BY <1>7
    <2>2. body = [i \in 1 .. n |-> body[i]]
      OBVIOUS
    <2> HIDE DEF body
    <2> QED
      BY <2>1, <2>2
  <1>12. flatten \in [1 .. n -> Q]
    BY <1>10, <1>11
  <1>13. flatten[1] = rows[1] /\ \A i \in 2 .. n : flatten[i] = flatten[i - 1] \o rows[i]
    <2>1. 1 \in 1 .. n /\ \A i \in 2 .. n : i \in 1 .. n /\ i # 1
      BY <1>1
    <2> QED
      BY <1>8, <2>1
  <1> QED
    BY <1>2, <1>12, <1>13 DEF n, Q

LEMMA FlattenIsFlat ==
    ASSUME NEW S, NEW rows \in Seq(Seq(S))
    PROVE  FlattenSeq(rows) \in Seq(S) /\ IsFlat(FlattenSeq(rows), rows)
  <1> DEFINE n == Len(rows)
             L == LensOf(rows)
  <1>1. n \in Nat /\ L \in Seq(Nat) /\ Len(L) = n
        /\ \A k \in 1 .. n : L[k] = Len(rows[k]) /\ rows[k] \in Seq(S) /\ L[k] \in Nat
    BY LensTyped
  <1>0. n \in Nat
    OBVIOUS
  <1>2. /\ SumTo(L, 0) = 0
        /\ \A k \in 1 .. n : SumTo(L, k) = SumTo(L, k - 1) + L[k]
        /\ \A k \in 0 .. n : SumTo(L, k) \in Nat
    <2> HIDE DEF L
    <2> QED
      BY <1>1, SumToSteps
  <1>3. CASE n = 0
    <2>1. FlattenSeq(rows) = rows /\ rows = <<>>
      BY <1>3 DEF FlattenSeq
    <2> QED
      BY <1>2, <1>3, <2>1 DEF IsFlat
  <1>4. CASE n > 0
    <2>1. PICK f \in [1 .. n -> Seq(S)] :
              /\ FlattenSeq(rows) = f[n]
              /\ f[1] = rows[1]
              /\ \A i \in 2 .. n : f[i] = f[i - 1] \o rows[i]
      BY <1>4, FlattenSteps
    <2> HIDE DEF n, L
    <2> DEFINE P(m) == /\ Len(f[m]) = SumTo(L, m)
                       /\ \A k \in 1 .. m : \A j \in 1 .. Len(rows[k]) :
                             f[m][SumTo(L, k - 1) + j] = rows[k][j]
               T == {m \in Nat : m + 1 <= n => P(m + 1)}
    <2>2. P(1)
      <3>1. 1 \in 1 .. n /\ 1 - 1 = 0 /\ \A k \in 1 .. 1 : k = 1
        BY <1>1, <1>4
      <3>2. SumTo(L, 1) = Len(rows[1]) /\ rows[1] \in Seq(S)
        BY <1>1, <1>2, <3>1
      <3>3. ASSUME NEW k \in 1 .. 1, NEW j \in 1 .. Len(rows[k])
            PROVE  f[1][SumTo(L, k - 1) + j] = rows[k][j]
        BY <1>2, <2>1, <3>1, <3>2
      <3> QED
        BY <2>1, <3>2, <3>3
    <2>3. ASSUME NEW m \in Nat, m >= 1, m + 1 <= n, P(m) PROVE P(m + 1)
      <3>1. m \in 1 .. n /\ m + 1 \in 2 .. n /\ m + 1 \in 1 .. n /\ (m + 1) - 1 = m /\ m \in 0 .. n
        <4> HIDE DEF P
        <4> QED
          BY <1>0, <2>3
      <3>2. f[m + 1] = f[m] \o rows[m + 1]
        BY <2>1, <3>1
      <3>3. f[m] \in Seq(S) /\ rows[m + 1] \in Seq(S)
        BY <1>1, <2>1, <3>1
      <3>4. Len(f[m + 1]) = Len(f[m]) + Len(rows[m + 1])
            /\ \A i \in 1 .. Len(f[m]) + Len(rows[m + 1]) :
                  f[m + 1][i] = IF i <= Len(f[m]) THEN f[m][i] ELSE rows[m + 1][i - Len(f[m])]
        <4> DEFINE a == f[m]
                   b == rows[m + 1]
        <4>1. a \in Seq(S) /\ b \in Seq(S)
          BY <3>3
        <4> HIDE DEF a, b
        <4>2. Len(a \o b) = Len(a) + Len(b)
              /\ \A i \in 1 .. Len(a) + Len(b) :
                    (a \o b)[i] = IF i <= Len(a) THEN a[i] ELSE b[i - Len(a)]
          BY <4>1, ConcatProperties
        <4> QED
          BY <3>2, <4>2 DEF a, b
      <3>5. Len(f[m]) = SumTo(L, m) /\ SumTo(L, m) \in Nat /\ Len(rows[m + 1]) = L[m + 1]
            /\ L[m + 1] \in Nat /\ SumTo(L, m + 1) = SumTo(L, m) + L[m + 1]
        BY <1>1, <1>2, <2>3, <3>1
      <3>6. ASSUME NEW k \in 1 .. m + 1, NEW j \in 1 .. Len(rows[k])
            PROVE  f[m + 1][SumTo(L, k - 1) + j] = rows[k][j]
        <4>1. k \in 1 .. n /\ k - 1 \in 0 .. n /\ k \in 0 .. n
          <5> HIDE DEF P
          <5> QED
            BY <1>0, <2>3
        <4>2. SumTo(L, k - 1) \in Nat /\ SumTo(L, k) = SumTo(L, k - 1) + L[k]
              /\ L[k] = Len(rows[k]) /\ L[k] \in Nat
          BY <1>1, <1>2, <4>1
        <4>3. CASE k = m + 1
          <5>1. SumTo(L, k - 1) = Len(f[m])
            BY <3>1, <3>5, <4>3
          <5>2. Len(f[m]) + j \in 1 .. Len(f[m]) + Len(rows[m + 1]) /\ ~(Len(f[m]) + j <= Len(f[m]))
                /\ (Len(f[m]) + j) - Len(f[m]) = j
            BY <3>5, <4>2, <4>3
          <5> QED
            BY <3>4, <4>3, <5>1, <5>2
        <4>4. CASE k # m + 1
          <5>1. k \in 1 .. m /\ m \in k .. n
            BY <3>1, <4>4
          <5>2. SumTo(L, k) <= SumTo(L, m)
            BY <1>1, <4>1, <5>1, SumToMonotone
          <5>3. SumTo(L, k - 1) + j \in 1 .. Len(f[m]) + Len(rows[m + 1])
                /\ SumTo(L, k - 1) + j <= Len(f[m])
            <6> DEFINE a == SumTo(L, k - 1)
                       b == SumTo(L, m)
                       c == L[m + 1]
                       d == L[k]
            <6>1. a \in Nat /\ b \in Nat /\ c \in Nat /\ d \in Nat /\ a + d <= b /\ j \in 1 .. d
                  /\ Len(f[m]) = b /\ Len(rows[m + 1]) = c
              BY <3>5, <4>2, <5>2
            <6> HIDE DEF a, b, c, d
            <6>2. a + j \in 1 .. b + c /\ a + j <= b
              BY <6>1
            <6> QED
              BY <6>1, <6>2 DEF a
          <5>4. f[m + 1][SumTo(L, k - 1) + j] = f[m][SumTo(L, k - 1) + j]
            BY <3>4, <5>3
          <5> QED
            BY <2>3, <5>1, <5>4
        <4> QED
          BY <4>3, <4>4
      <3> QED
        BY <3>4, <3>5, <3>6
    <2> HIDE DEF P
    <2>4. 0 \in T
      BY <2>2
    <2>5. ASSUME NEW m \in T PROVE m + 1 \in T
      BY <1>1, <2>3
    <2>6. Nat \subseteq T
      <3>1. T \subseteq Nat
        OBVIOUS
      <3> HIDE DEF T
      <3> QED
        BY <2>4, <2>5, <3>1, SetInduction
    <2>7. n - 1 \in T /\ (n - 1) + 1 = n /\ n <= n
      <3>1. n - 1 \in Nat /\ (n - 1) + 1 = n /\ n <= n
        BY <1>0, <1>4
      <3> HIDE DEF T
      <3> QED
        BY <2>6, <3>1
    <2>8. P(n)
      BY <2>7
    <2>9. f[n] \in Seq(S)
      BY <1>1, <1>4, <2>1
    <2> QED
      BY <2>1, <2>8, <2>9 DEF P, IsFlat, n, L
  <1> QED
    BY <1>0, <1>3, <1>4

-----------------------------------------------------------------------------
(* Row-major offsets                                                       *)

LEMMA TimesMonotone ==
    ASSUME NEW a \in Nat, NEW b \in Nat, NEW m \in Nat, a <= b
    PROVE  a * m \in Nat /\ b * m \in Nat /\ a * m <= b * m
  <1>1. PICK d \in Nat : b = a + d
    <2>1. b - a \in Nat /\ b = a + (b - a)
      OBVIOUS
    <2> QED
      BY <2>1
  <1>2. a * m \in Nat /\ d * m \in Nat
    OBVIOUS
  <1>3. b * m = a * m + d * m
    BY <1>1
  <1> DEFINE x == a * m
             y == d * m
             z == b * m
  <1> HIDE DEF x, y, z
  <1>4. x \in Nat /\ y \in Nat /\ z = x + y
    BY <1>2, <1>3 DEF x, y, z
  <1>5. z \in Nat /\ x <= z
    BY <1>4
  <1> QED
    BY <1>4, <1>5 DEF x, z

\* Digit b of row a is the only way to write its offset.
LEMMA RadixBelow ==
    ASSUME NEW m \in Nat, NEW a \in Nat, NEW c \in Nat, NEW b \in 0 .. m - 1,
           NEW d \in 0 .. m - 1, a < c
    PROVE  a * m + b < c * m + d
  <1>1. (a + 1) * m <= c * m /\ (a + 1) * m \in Nat /\ c * m \in Nat
    BY TimesMonotone
  <1>2. (a + 1) * m = a * m + m /\ a * m \in Nat
    OBVIOUS
  <1> DEFINE x == a * m
             y == c * m
  <1>3. x \in Nat /\ y \in Nat /\ x + m <= y
    BY <1>1, <1>2
  <1> HIDE DEF x, y
  <1>4. x + b < y + d
    BY <1>3
  <1> QED
    BY <1>4 DEF x, y

LEMMA RadixUnique ==
    ASSUME NEW m \in Nat, NEW a \in Nat, NEW c \in Nat, NEW b \in 0 .. m - 1,
           NEW d \in 0 .. m - 1, a * m + b = c * m + d
    PROVE  a = c /\ b = d
  <1>1. ~(a < c)
    <2> SUFFICES ASSUME a < c PROVE FALSE
      OBVIOUS
    <2>1. a * m + b < c * m + d
      BY RadixBelow
    <2>2. a * m + b \in Int
      OBVIOUS
    <2> QED
      BY <2>1, <2>2
  <1>2. ~(c < a)
    <2> SUFFICES ASSUME c < a PROVE FALSE
      OBVIOUS
    <2>1. c * m + d < a * m + b
      BY RadixBelow
    <2>2. a * m + b \in Int
      OBVIOUS
    <2> QED
      BY <2>1, <2>2
  <1>3. a = c
    BY <1>1, <1>2
  <1> QED
    BY <1>3

LEMMA RadixRange ==
    ASSUME NEW n \in Nat, NEW m \in Nat, NEW a \in 0 .. n - 1, NEW b \in 0 .. m - 1
    PROVE  a * m + b \in 0 .. n * m - 1 /\ a * m + b \in Nat /\ n * m \in Nat
  <1>1. a \in Nat /\ a + 1 \in Nat /\ a + 1 <= n
    OBVIOUS
  <1>2. (a + 1) * m <= n * m /\ (a + 1) * m \in Nat /\ n * m \in Nat
    BY <1>1, TimesMonotone
  <1>3. (a + 1) * m = a * m + m /\ a * m \in Nat
    BY <1>1
  <1> DEFINE x == a * m
             y == n * m
  <1>4. x \in Nat /\ y \in Nat /\ x + m <= y
    BY <1>2, <1>3
  <1> HIDE DEF x, y
  <1>5. x + b \in 0 .. y - 1 /\ x + b \in Nat
    BY <1>4
  <1> QED
    BY <1>4, <1>5 DEF x, y

\* The cells of the block table have offsets of their own, inside the table.
LEMMA OffsetInside ==
    ASSUME NEW S \in Nat, NEW gi \in 1 .. G, NEW si \in 1 .. S, NEW cell \in Indices
    PROVE  BlockOffset(gi, si, cell, S) \in 1 .. G * S * MaxBlocks
  <1>1. G \in Nat /\ MaxBlocks \in Nat
    BY WorkspaceAssumption, SizesAssumption DEF G
  <1>2. gi - 1 \in 0 .. G - 1 /\ si - 1 \in 0 .. S - 1 /\ cell \in 0 .. MaxBlocks - 1
    BY <1>1 DEF Indices
  <1> DEFINE row == (gi - 1) * S + (si - 1)
             rows == G * S
  <1>3. row \in 0 .. rows - 1 /\ rows \in Nat
    BY <1>1, <1>2, RadixRange
  <1>4. (gi - 1) * S + si - 1 = row
    BY <1>1, <1>2
  <1> HIDE DEF row, rows
  <1>5. row * MaxBlocks + cell \in 0 .. rows * MaxBlocks - 1 /\ row * MaxBlocks + cell \in Nat
        /\ rows * MaxBlocks \in Nat
    BY <1>1, <1>2, <1>3, RadixRange
  <1>6. BlockOffset(gi, si, cell, S) = row * MaxBlocks + cell + 1
    BY <1>4 DEF BlockOffset
  <1> DEFINE x == row * MaxBlocks + cell
             y == rows * MaxBlocks
  <1>7. x \in 0 .. y - 1 /\ y \in Nat
    BY <1>5
  <1> HIDE DEF x, y
  <1>8. x + 1 \in 1 .. y
    BY <1>7
  <1> QED
    BY <1>6, <1>8 DEF x, y, rows

LEMMA OffsetUnique ==
    ASSUME NEW S \in Nat, NEW gi \in 1 .. G, NEW si \in 1 .. S, NEW cell \in Indices,
           NEW gj \in 1 .. G, NEW sj \in 1 .. S, NEW celj \in Indices,
           BlockOffset(gi, si, cell, S) = BlockOffset(gj, sj, celj, S)
    PROVE  gi = gj /\ si = sj /\ cell = celj
  <1>1. G \in Nat /\ MaxBlocks \in Nat
    BY WorkspaceAssumption, SizesAssumption DEF G
  <1>2. /\ gi - 1 \in 0 .. G - 1 /\ si - 1 \in 0 .. S - 1 /\ cell \in 0 .. MaxBlocks - 1
        /\ gj - 1 \in 0 .. G - 1 /\ sj - 1 \in 0 .. S - 1 /\ celj \in 0 .. MaxBlocks - 1
        /\ gi - 1 \in Nat /\ gj - 1 \in Nat
    BY <1>1 DEF Indices
  <1> DEFINE rowi == (gi - 1) * S + (si - 1)
             rowj == (gj - 1) * S + (sj - 1)
  <1>3. rowi \in Nat /\ rowj \in Nat
    BY <1>1, <1>2, RadixRange
  <1>4. (gi - 1) * S + si - 1 = rowi /\ (gj - 1) * S + sj - 1 = rowj
    BY <1>1, <1>2
  <1>5. rowi = rowj => gi - 1 = gj - 1 /\ si - 1 = sj - 1
    BY <1>2, RadixUnique
  <1> HIDE DEF rowi, rowj
  <1>6. rowi * MaxBlocks + cell + 1 = rowj * MaxBlocks + celj + 1
    BY <1>4 DEF BlockOffset
  <1>7. rowi * MaxBlocks \in Nat /\ rowj * MaxBlocks \in Nat
    BY <1>1, <1>3
  <1>8. rowi * MaxBlocks + cell = rowj * MaxBlocks + celj
    BY <1>2, <1>6, <1>7
  <1>9. rowi = rowj /\ cell = celj
    BY <1>1, <1>2, <1>3, <1>8, RadixUnique
  <1> QED
    BY <1>2, <1>5, <1>9

\* Every mapped cell reads back through its offset.
LEMMA BlockTableCell ==
    ASSUME NEW batch, batch.ids \in Seq(Nat), NEW gi \in 1 .. G, Paged(gi),
           NEW si \in 1 .. Len(batch.ids), NEW cell \in Indices
    PROVE  BlockTable(batch)[BlockOffset(gi, si, cell, Len(batch.ids))]
              = tables[batch.ids[si]][GroupOrder[gi]][cell]
  <1> DEFINE S == Len(batch.ids)
             cells == {g \in 1 .. G : GroupOrder[g] \in PagedGroups} \X (1 .. S) \X Indices
             Offset(c) == BlockOffset(c[1], c[2], c[3], S)
             Block(c) == tables[batch.ids[c[2]]][GroupOrder[c[1]]][c[3]]
             o == BlockOffset(gi, si, cell, S)
             here == <<gi, si, cell>>
             found == CHOOSE c \in cells : Offset(c) = o
  <1>1. S \in Nat
    OBVIOUS
  <1>2. o \in 1 .. G * S * MaxBlocks
    BY <1>1, OffsetInside
  <1>3. here \in cells /\ Offset(here) = o
    BY DEF Paged
  <1>4. BlockTable(batch) = [x \in 1 .. G * S * MaxBlocks |->
            IF \E c \in cells : Offset(c) = x
            THEN Block(CHOOSE c \in cells : Offset(c) = x) ELSE NoBlock]
    BY DEF BlockTable
  <1>5. \A c \in cells : Offset(c) = o => c = here
    <2> SUFFICES ASSUME NEW c \in cells, Offset(c) = o PROVE c = here
      OBVIOUS
    <2>1. c[1] \in 1 .. G /\ c[2] \in 1 .. S /\ c[3] \in Indices /\ c = <<c[1], c[2], c[3]>>
      OBVIOUS
    <2>2. c[1] = gi /\ c[2] = si /\ c[3] = cell
      <3> HIDE DEF S, cells
      <3>1. BlockOffset(c[1], c[2], c[3], S) = BlockOffset(gi, si, cell, S)
        OBVIOUS
      <3>2. si \in 1 .. S
        BY DEF S
      <3> QED
        BY <1>1, <2>1, <3>1, <3>2, OffsetUnique
    <2> QED
      BY <2>1, <2>2
  <1> HIDE DEF cells, Offset, Block, here, o, S
  <1>6. found \in cells /\ Offset(found) = o
    BY <1>3
  <1>7. found = here
    BY <1>5, <1>6
  <1>8. BlockTable(batch)[o] = Block(found)
    BY <1>2, <1>3, <1>4
  <1>9. BlockTable(batch)[o] = Block(here)
    BY <1>7, <1>8
  <1> QED
    BY <1>9 DEF Block, here, o, S

-----------------------------------------------------------------------------
(* What plan_batch lets through                                            *)

Listed(batch) == batch.ids \in Seq(Nat) /\ batch.q \in Seq(Nat)

\* The checks of plan_batch that do not depend on the options.
Planned(batch) ==
    /\ Len(batch.ids) = Len(batch.q) /\ batch.ids # <<>>
    /\ \A j, k \in DOMAIN batch.ids : batch.ids[j] = batch.ids[k] => j = k
    /\ \A k \in DOMAIN batch.ids : EntryOK(batch.ids[k], batch.q[k])
    /\ Total(batch) <= MaxBatchTokens

LEMMA PlanOKSplit ==
    ASSUME NEW batch, NEW a, NEW b
    PROVE  PlanOK(batch, a, b) <=>
              Planned(batch) /\ a \in {NoSlot, Total(batch)} /\ b \in {NoSlot, Total(batch)}
  BY DEF PlanOK, Planned

LEMMA PlannedFacts ==
    ASSUME NEW batch, Listed(batch), Planned(batch), Typing
    PROVE  /\ Len(batch.ids) \in Nat /\ Len(batch.ids) > 0 /\ Len(batch.q) = Len(batch.ids)
           /\ DOMAIN batch.ids = 1 .. Len(batch.ids) /\ DOMAIN batch.q = 1 .. Len(batch.ids)
           /\ \A k \in 1 .. Len(batch.ids) :
                 /\ batch.ids[k] \in seqs /\ batch.ids[k] \in SeqIds
                 /\ batch.q[k] \in Nat /\ batch.q[k] >= 1
                 /\ batch.q[k] <= tail_len[batch.ids[k]]
                 /\ ctx_len[batch.ids[k]] \in Nat /\ tail_len[batch.ids[k]] \in Nat
                 /\ ctx_len[batch.ids[k]] + tail_len[batch.ids[k]] <= MaxCtx
           /\ Total(batch) = SumTo(batch.q, Len(batch.ids))
           /\ Total(batch) \in Nat /\ Total(batch) >= 1
  <1> DEFINE n == Len(batch.ids)
             ids == batch.ids
             q == batch.q
  <1>1. ids \in Seq(Nat) /\ q \in Seq(Nat) /\ Len(q) = n /\ ids # <<>>
        /\ \A k \in DOMAIN ids : EntryOK(ids[k], q[k])
    BY DEF Listed, Planned
  <1> HIDE DEF ids, q
  <1>2. n \in Nat /\ DOMAIN ids = 1 .. n /\ DOMAIN q = 1 .. n /\ n = Len(ids)
        /\ (\A k \in 1 .. n : q[k] \in Nat) /\ n > 0
    BY <1>1 DEF ids
  <1> HIDE DEF n
  <1>3. ASSUME NEW k \in 1 .. n
        PROVE  /\ ids[k] \in seqs /\ ids[k] \in SeqIds
               /\ q[k] \in Nat /\ q[k] >= 1 /\ q[k] <= tail_len[ids[k]]
               /\ ctx_len[ids[k]] \in Nat /\ tail_len[ids[k]] \in Nat
               /\ ctx_len[ids[k]] + tail_len[ids[k]] <= MaxCtx
    <2>1. ids[k] \in seqs /\ q[k] \in 1 .. tail_len[ids[k]]
      BY <1>1, <1>2 DEF EntryOK
    <2>2. ids[k] \in SeqIds
      BY <2>1 DEF Typing, TypeOK
    <2>3. ctx_len[ids[k]] \in Nat /\ tail_len[ids[k]] \in Nat
          /\ ctx_len[ids[k]] + tail_len[ids[k]] <= MaxCtx
      BY <2>2, SizesAreNumbers DEF Typing, TypeOK, TailFits
    <2> QED
      BY <2>1, <2>2, <2>3
  <1>4. Total(batch) = SumTo(q, n)
    <2> DEFINE lens == [k \in DOMAIN ids |-> IF ids[k] \in seqs THEN q[k] ELSE 0]
    <2>1. Total(batch) = SumTo(lens, n)
      BY DEF Total, ids, q, n
    <2>2. lens = [k \in 1 .. n |-> q[k]]
      BY <1>2, <1>3
    <2>3. q = [k \in 1 .. n |-> q[k]]
      BY <1>1, <1>2
    <2> HIDE DEF lens
    <2> QED
      BY <2>1, <2>2, <2>3
  <1>5. SumTo(q, n) \in Nat /\ SumTo(q, n) >= 1
    <2>1. n - 1 \in 0 .. n /\ n \in 1 .. n /\ n \in 0 .. n
      BY <1>2
    <2>2. SumTo(q, n - 1) \in Nat /\ SumTo(q, n) = SumTo(q, n - 1) + q[n]
      BY <1>1, <2>1, SumToSteps
    <2>3. q[n] \in Nat /\ q[n] >= 1
      BY <1>3, <2>1
    <2> QED
      BY <2>2, <2>3
  <1> QED
    BY <1>1, <1>2, <1>3, <1>4, <1>5 DEF n, ids, q

\* The end of a segment is inside the batch.
LEMMA SegmentInside ==
    ASSUME NEW q \in Seq(Nat), NEW k \in 1 .. Len(q), NEW j \in 1 .. q[k]
    PROVE  /\ SumTo(q, k - 1) \in Nat /\ q[k] \in Nat
           /\ SumTo(q, k - 1) + j \in 1 .. SumTo(q, Len(q))
  <1> DEFINE n == Len(q)
  <1>1. n \in Nat /\ k \in 0 .. n /\ k - 1 \in 0 .. n /\ n \in k .. n /\ n \in 0 .. n /\ q[k] \in Nat
    OBVIOUS
  <1>2. SumTo(q, k) = SumTo(q, k - 1) + q[k] /\ SumTo(q, k - 1) \in Nat /\ SumTo(q, n) \in Nat
    BY <1>1, SumToSteps
  <1>3. SumTo(q, k) <= SumTo(q, n)
    BY <1>1, SumToMonotone
  <1> DEFINE a == SumTo(q, k - 1)
             b == SumTo(q, n)
             c == q[k]
  <1>4. a \in Nat /\ b \in Nat /\ c \in Nat /\ a + c <= b /\ j \in 1 .. c
    BY <1>1, <1>2, <1>3
  <1> HIDE DEF a, b, c
  <1>5. a + j \in 1 .. b
    BY <1>4
  <1> QED
    BY <1>4, <1>5 DEF a, b, c

\* The row of slots of a paged group, token by token.
LEMMA SlotRowAt ==
    ASSUME NEW batch, Listed(batch), Planned(batch), Typing,
           NEW g \in PagedGroups
    PROVE  /\ SlotRow(batch, g) \in Seq(Int) /\ Len(SlotRow(batch, g)) = Total(batch)
           /\ \A k \in 1 .. Len(batch.ids) : \A i \in 1 .. batch.q[k] :
                 SlotRow(batch, g)[SumTo(batch.q, k - 1) + i]
                    = FlatSlot(batch.ids[k], g, ctx_len[batch.ids[k]] + i - 1)
  <1> DEFINE n == Len(batch.ids)
             q == batch.q
             row(k) == [i \in 1 .. q[k] |->
                          FlatSlot(batch.ids[k], g, ctx_len[batch.ids[k]] + i - 1)]
             rows == [k \in DOMAIN batch.ids |-> row(k)]
  <1>1. n \in Nat /\ DOMAIN batch.ids = 1 .. n /\ \A k \in 1 .. n : q[k] \in Nat
    BY PlannedFacts
  <1>2. g \notin FixedGroups
    BY GroupsAssumption
  <1>3. SlotRow(batch, g) = FlattenSeq(rows)
    BY <1>2 DEF SlotRow
  <1>4. ASSUME NEW k \in 1 .. n, NEW i \in 1 .. q[k]
        PROVE  FlatSlot(batch.ids[k], g, ctx_len[batch.ids[k]] + i - 1) \in Int
    <2> DEFINE s == batch.ids[k]
               p == ctx_len[s] + i - 1
    <2>1. s \in SeqIds /\ ctx_len[s] \in Nat /\ q[k] <= tail_len[s] /\ q[k] \in Nat
          /\ tail_len[s] \in Nat /\ ctx_len[s] + tail_len[s] <= MaxCtx
      BY PlannedFacts
    <2>2. p \in Positions
      <3> DEFINE c == ctx_len[s]
                 t == tail_len[s]
                 l == q[k]
      <3>1. c \in Nat /\ t \in Nat /\ l \in Nat /\ i \in 1 .. l /\ l <= t /\ c + t <= MaxCtx
        BY <2>1
      <3> HIDE DEF c, t, l
      <3>2. c + i - 1 \in 0 .. MaxCtx - 1
        BY <3>1, SizesAreNumbers
      <3> QED
        BY <3>2 DEF Positions, c
    <2> HIDE DEF p, s
    <2>3. BlockOf(p) \in Indices /\ LaneOf(p) \in Int
      BY <2>2, PositionSplit, SizesAssumption
    <2>4. tables[s][g][BlockOf(p)] \in Int
      <3>1. tables[s][g][BlockOf(p)] \in Blocks \cup {NoBlock}
        BY <2>1, <2>3 DEF Typing, TypeOK
      <3> QED
        BY <3>1, SizesAssumption DEF Blocks, NoBlock
    <2>5. FlatSlot(s, g, p) = tables[s][g][BlockOf(p)] * BlockTokens + LaneOf(p)
      BY DEF FlatSlot, FlattenSlot
    <2>6. FlatSlot(s, g, p) \in Int
      BY <2>3, <2>4, <2>5, SizesAssumption
    <2> QED
      BY <2>6 DEF s, p
  <1> HIDE DEF n
  <1>5. \A k \in 1 .. n : row(k) \in Seq(Int) /\ Len(row(k)) = q[k]
    <2> TAKE k \in 1 .. n
    <2>1. row(k) \in [1 .. q[k] -> Int]
      BY <1>4
    <2> HIDE DEF row
    <2> QED
      BY <1>1, <2>1, FunctionIsSeq
  <1>6. \A k \in 1 .. n : \A i \in 1 .. q[k] :
            row(k)[i] = FlatSlot(batch.ids[k], g, ctx_len[batch.ids[k]] + i - 1)
    OBVIOUS
  <1> HIDE DEF row
  <1>7. rows \in [1 .. n -> Seq(Int)] /\ \A k \in 1 .. n : rows[k] = row(k)
    BY <1>1, <1>5
  <1> HIDE DEF rows
  <1>8. rows \in Seq(Seq(Int)) /\ Len(rows) = n
    BY <1>1, <1>7, FunctionIsSeq
  <1>9. LensOf(rows) = q
    <2>1. LensOf(rows) = [k \in 1 .. n |-> q[k]]
      BY <1>5, <1>7, <1>8 DEF LensOf
    <2>2. q = [k \in 1 .. n |-> q[k]]
      <3>1. q \in Seq(Nat) /\ Len(q) = n
        BY PlannedFacts DEF Listed, n
      <3> HIDE DEF q
      <3> QED
        BY <3>1
    <2> HIDE DEF q
    <2> QED
      BY <2>1, <2>2
  <1>10. FlattenSeq(rows) \in Seq(Int) /\ IsFlat(FlattenSeq(rows), rows)
    BY <1>8, FlattenIsFlat
  <1>11. Len(FlattenSeq(rows)) = SumTo(q, n)
    BY <1>8, <1>9, <1>10 DEF IsFlat
  <1>12. \A k \in 1 .. n : \A j \in 1 .. Len(rows[k]) :
            FlattenSeq(rows)[SumTo(q, k - 1) + j] = rows[k][j]
    BY <1>8, <1>9, <1>10 DEF IsFlat
  <1>13. \A k \in 1 .. n : Len(rows[k]) = q[k]
    BY <1>5, <1>7
  <1>14. \A k \in 1 .. n : \A i \in 1 .. q[k] :
            FlattenSeq(rows)[SumTo(q, k - 1) + i]
               = FlatSlot(batch.ids[k], g, ctx_len[batch.ids[k]] + i - 1)
    BY <1>6, <1>7, <1>12, <1>13
  <1>15. Total(batch) = SumTo(q, n)
    BY PlannedFacts DEF n
  <1> QED
    BY <1>3, <1>10, <1>11, <1>14, <1>15 DEF n

\* Rows of one length: row gi starts after gi - 1 of them.
LEMMA EqualRows ==
    ASSUME NEW rows \in Seq(Seq(Int)), NEW c \in Nat,
           \A gi \in 1 .. Len(rows) : Len(rows[gi]) = c
    PROVE  /\ FlattenSeq(rows) \in Seq(Int) /\ Len(FlattenSeq(rows)) = Len(rows) * c
           /\ \A gi \in 1 .. Len(rows) : \A j \in 1 .. c :
                 FlattenSeq(rows)[(gi - 1) * c + j] = rows[gi][j]
  <1> DEFINE L == LensOf(rows)
             n == Len(rows)
  <1>1. n \in Nat /\ L \in Seq(Nat) /\ Len(L) = n /\ \A gi \in 1 .. n : L[gi] = Len(rows[gi])
    BY LensTyped
  <1>2. FlattenSeq(rows) \in Seq(Int)
        /\ Len(FlattenSeq(rows)) = SumTo(L, n)
        /\ \A gi \in 1 .. n : \A j \in 1 .. Len(rows[gi]) :
              FlattenSeq(rows)[SumTo(L, gi - 1) + j] = rows[gi][j]
    BY FlattenIsFlat DEF IsFlat
  <1> HIDE DEF L, n
  <1>3. \A gi \in 1 .. n : L[gi] = c
    BY <1>1 DEF n
  <1>4. \A k \in 0 .. n : SumTo(L, k) = k * c
    BY <1>1, <1>3, SumToEqual
  <1>5. n \in 0 .. n /\ \A gi \in 1 .. n : gi - 1 \in 0 .. n
    BY <1>1
  <1> QED
    BY <1>2, <1>4, <1>5 DEF n

LEMMA GroupsTyped ==
    /\ G \in Nat /\ GroupOrder \in Seq(PagedGroups \cup FixedGroups)
    /\ \A gi \in 1 .. G : Paged(gi) \/ (~Paged(gi) /\ GroupOrder[gi] \in FixedGroups)
    /\ \A gi \in 1 .. G : Paged(gi) => GroupOrder[gi] \in PagedGroups
                                       /\ GroupOrder[gi] \notin FixedGroups
  BY WorkspaceAssumption, GroupsAssumption DEF G, Paged

LEMMA SlotRowTyped ==
    ASSUME NEW batch, Listed(batch), Planned(batch), Typing, NEW gi \in 1 .. G
    PROVE  /\ SlotRow(batch, GroupOrder[gi]) \in Seq(Int)
           /\ Len(SlotRow(batch, GroupOrder[gi])) = Total(batch)
           /\ ~Paged(gi) => \A j \in 1 .. Total(batch) :
                                SlotRow(batch, GroupOrder[gi])[j] = SlotNone
  <1>1. CASE Paged(gi)
    BY <1>1, SlotRowAt, GroupsTyped
  <1>2. CASE ~Paged(gi)
    <2> DEFINE row == [k \in 1 .. Total(batch) |-> SlotNone]
    <2>1. SlotRow(batch, GroupOrder[gi]) = row
      BY <1>2, GroupsTyped DEF SlotRow
    <2>2. Total(batch) \in Nat
      BY PlannedFacts
    <2>3. row \in [1 .. Total(batch) -> Int] /\ \A j \in 1 .. Total(batch) : row[j] = SlotNone
      BY DEF SlotNone
    <2> HIDE DEF row
    <2>4. row \in Seq(Int) /\ Len(row) = Total(batch)
      BY <2>2, <2>3, FunctionIsSeq
    <2> QED
      BY <2>1, <2>3, <2>4
  <1> QED
    BY <1>1, <1>2

SlotRows(batch) == [gi \in 1 .. G |-> SlotRow(batch, GroupOrder[gi])]
WindowRow(batch, gi) == [si \in DOMAIN batch.ids |-> GroupWindow(batch.ids[si], GroupOrder[gi])]
WindowRows(batch) == [gi \in 1 .. G |-> WindowRow(batch, gi)]

\* The slot map, group by group and token by token.
LEMMA SlotMapAt ==
    ASSUME NEW batch, Listed(batch), Planned(batch), Typing
    PROVE  /\ FlattenSeq(SlotRows(batch)) \in Seq(Int)
           /\ Len(FlattenSeq(SlotRows(batch))) = G * Total(batch)
           /\ \A gi \in 1 .. G : \A j \in 1 .. Total(batch) :
                 FlattenSeq(SlotRows(batch))[(gi - 1) * Total(batch) + j]
                    = SlotRow(batch, GroupOrder[gi])[j]
  <1> DEFINE rows == SlotRows(batch)
             c == Total(batch)
  <1>1. c \in Nat
    BY PlannedFacts
  <1>2. rows \in [1 .. G -> Seq(Int)]
        /\ \A gi \in 1 .. G : rows[gi] = SlotRow(batch, GroupOrder[gi]) /\ Len(rows[gi]) = c
    BY SlotRowTyped DEF SlotRows
  <1> HIDE DEF rows, c
  <1>3. rows \in Seq(Seq(Int)) /\ Len(rows) = G
    BY <1>2, GroupsTyped, FunctionIsSeq
  <1>4. \A gi \in 1 .. Len(rows) : Len(rows[gi]) = c
    BY <1>2, <1>3
  <1>5. /\ FlattenSeq(rows) \in Seq(Int) /\ Len(FlattenSeq(rows)) = Len(rows) * c
        /\ \A gi \in 1 .. Len(rows) : \A j \in 1 .. c :
              FlattenSeq(rows)[(gi - 1) * c + j] = rows[gi][j]
    BY <1>1, <1>3, <1>4, EqualRows
  <1>6. \A gi \in 1 .. G : \A j \in 1 .. c :
            FlattenSeq(rows)[(gi - 1) * c + j] = SlotRow(batch, GroupOrder[gi])[j]
    BY <1>2, <1>3, <1>5
  <1> QED
    BY <1>3, <1>5, <1>6 DEF rows, c

LEMMA WindowsAt ==
    ASSUME NEW batch, Listed(batch), Planned(batch), Typing
    PROVE  /\ Len(FlattenSeq(WindowRows(batch))) = G * Len(batch.ids)
           /\ \A gi \in 1 .. G : \A si \in 1 .. Len(batch.ids) :
                 FlattenSeq(WindowRows(batch))[(gi - 1) * Len(batch.ids) + si]
                    = GroupWindow(batch.ids[si], GroupOrder[gi])
  <1> DEFINE rows == WindowRows(batch)
             c == Len(batch.ids)
  <1>1. c \in Nat /\ DOMAIN batch.ids = 1 .. c
    BY PlannedFacts
  <1>2. ASSUME NEW gi \in 1 .. G
        PROVE  WindowRow(batch, gi) \in Seq(Int) /\ Len(WindowRow(batch, gi)) = c
               /\ \A si \in 1 .. c :
                     WindowRow(batch, gi)[si] = GroupWindow(batch.ids[si], GroupOrder[gi])
    <2>1. \A si \in 1 .. c : GroupWindow(batch.ids[si], GroupOrder[gi]) \in Int
      <3> TAKE si \in 1 .. c
      <3>1. ctx_len[batch.ids[si]] \in Nat
        BY PlannedFacts
      <3>2. CASE GroupOrder[gi] \in FixedGroups
        BY <3>2 DEF GroupWindow
      <3>3. CASE GroupOrder[gi] \notin FixedGroups
        <4>1. GroupOrder[gi] \in PagedGroups
          BY <3>3, GroupsTyped
        <4>2. WindowStartOf(ctx_len[batch.ids[si]], Retain[GroupOrder[gi]].w) \in Int
          BY <3>1, <4>1, SinksAreNumbers DEF WindowStartOf
        <4> QED
          BY <3>3, <4>2 DEF GroupWindow, WindowStart
      <3> QED
        BY <3>2, <3>3
    <2>2. WindowRow(batch, gi) \in [1 .. c -> Int]
          /\ \A si \in 1 .. c :
                WindowRow(batch, gi)[si] = GroupWindow(batch.ids[si], GroupOrder[gi])
      BY <1>1, <2>1 DEF WindowRow
    <2> HIDE DEF c
    <2> QED
      BY <1>1, <2>2, FunctionIsSeq
  <1>3. rows \in [1 .. G -> Seq(Int)] /\ \A gi \in 1 .. G : rows[gi] = WindowRow(batch, gi)
    BY <1>2 DEF WindowRows
  <1> HIDE DEF rows, c
  <1>4. rows \in Seq(Seq(Int)) /\ Len(rows) = G
    BY <1>3, GroupsTyped, FunctionIsSeq
  <1>5. \A gi \in 1 .. Len(rows) : Len(rows[gi]) = c
    BY <1>2, <1>3, <1>4
  <1>6. /\ Len(FlattenSeq(rows)) = Len(rows) * c
        /\ \A gi \in 1 .. Len(rows) : \A j \in 1 .. c :
              FlattenSeq(rows)[(gi - 1) * c + j] = rows[gi][j]
    BY <1>1, <1>4, <1>5, EqualRows
  <1>7. \A gi \in 1 .. G : \A si \in 1 .. c :
            FlattenSeq(rows)[(gi - 1) * c + si] = GroupWindow(batch.ids[si], GroupOrder[gi])
    <2> TAKE gi \in 1 .. G
    <2> TAKE si \in 1 .. c
    <2>1. FlattenSeq(rows)[(gi - 1) * c + si] = rows[gi][si]
      BY <1>4, <1>6
    <2> QED
      BY <1>2, <1>3, <2>1
  <1> QED
    BY <1>4, <1>6, <1>7 DEF rows, c

-----------------------------------------------------------------------------
(* The emitted tensors are the manager's view                              *)

LEMMA EmitFields ==
    ASSUME NEW batch, NEW pos
    PROVE  /\ Emit(batch, pos).g = G /\ Emit(batch, pos).s = Len(batch.ids)
           /\ Emit(batch, pos).t = Total(batch) /\ Emit(batch, pos).max_blocks = MaxBlocks
           /\ Emit(batch, pos).seq_ids = batch.ids /\ Emit(batch, pos).query_lens = batch.q
           /\ Emit(batch, pos).ctx_lens = [k \in DOMAIN batch.ids |-> ctx_len[batch.ids[k]]]
           /\ Emit(batch, pos).slot_map = FlattenSeq(SlotRows(batch))
           /\ Emit(batch, pos).block_table = BlockTable(batch)
           /\ Emit(batch, pos).window_start = FlattenSeq(WindowRows(batch))
           /\ Emit(batch, pos).positions = IF pos = NoPositions THEN DefaultPositions(batch)
                                           ELSE [k \in 1 .. pos.len |-> MaxCtx + k]
  BY DEF Emit, SlotRows, WindowRows, WindowRow

\* What the accessors of the emitted tensors read.
LEMMA EmittedAccess ==
    ASSUME NEW batch, NEW pos, Listed(batch), Planned(batch), Typing,
           NEW gi \in 1 .. G, NEW si \in 1 .. Len(batch.ids)
    PROVE  /\ WindowAt(Emit(batch, pos), gi, si) = GroupWindow(batch.ids[si], GroupOrder[gi])
           /\ Paged(gi) =>
                /\ \A b \in Indices : BlockAt(Emit(batch, pos), gi, si, b)
                                         = tables[batch.ids[si]][GroupOrder[gi]][b]
                /\ \A k \in 0 .. batch.q[si] - 1 :
                      SlotAt(Emit(batch, pos), gi, SumTo(batch.q, si - 1) + k)
                         = FlatSlot(batch.ids[si], GroupOrder[gi], ctx_len[batch.ids[si]] + k)
  <1> DEFINE m == Emit(batch, pos)
             s == batch.ids[si]
             g == GroupOrder[gi]
             T == Total(batch)
             base == SumTo(batch.q, si - 1)
  <1>1. /\ m.s = Len(batch.ids) /\ m.t = T /\ m.max_blocks = MaxBlocks
        /\ m.slot_map = FlattenSeq(SlotRows(batch)) /\ m.block_table = BlockTable(batch)
        /\ m.window_start = FlattenSeq(WindowRows(batch))
    BY EmitFields
  <1> HIDE DEF m
  <1>2. WindowAt(m, gi, si) = GroupWindow(s, g)
    BY <1>1, WindowsAt DEF WindowAt
  <1>3. ASSUME Paged(gi), NEW b \in Indices PROVE BlockAt(m, gi, si, b) = tables[s][g][b]
    <2>1. BlockTable(batch)[BlockOffset(gi, si, b, Len(batch.ids))] = tables[s][g][b]
      BY <1>3, BlockTableCell DEF Listed
    <2> QED
      BY <1>1, <2>1 DEF BlockAt, BlockOffset
  <1>4. ASSUME Paged(gi), NEW k \in 0 .. batch.q[si] - 1
        PROVE  SlotAt(m, gi, base + k) = FlatSlot(s, g, ctx_len[s] + k)
    <2>1. g \in PagedGroups
      BY <1>4 DEF Paged
    <2>2. batch.q[si] \in Nat /\ batch.q \in Seq(Nat) /\ Len(batch.q) = Len(batch.ids)
          /\ T = SumTo(batch.q, Len(batch.ids)) /\ ctx_len[s] \in Nat /\ T \in Nat
      BY PlannedFacts DEF Listed
    <2>3. k + 1 \in 1 .. batch.q[si] /\ si \in 1 .. Len(batch.q)
      BY <2>2
    <2>4. base \in Nat /\ base + (k + 1) \in 1 .. T
      BY <2>2, <2>3, SegmentInside
    <2>5. FlattenSeq(SlotRows(batch))[(gi - 1) * T + (base + (k + 1))]
             = SlotRow(batch, g)[base + (k + 1)]
      BY <2>4, SlotMapAt
    <2>6. SlotRow(batch, g)[base + (k + 1)] = FlatSlot(s, g, ctx_len[s] + (k + 1) - 1)
      BY <2>1, <2>3, SlotRowAt
    <2>7. (gi - 1) * T + (base + k) + 1 = (gi - 1) * T + (base + (k + 1))
          /\ ctx_len[s] + (k + 1) - 1 = ctx_len[s] + k
      <3> DEFINE x == (gi - 1) * T
      <3>1. x \in Int
        BY <2>2, GroupsTyped
      <3> HIDE DEF x, base
      <3>2. x + (base + k) + 1 = x + (base + (k + 1)) /\ ctx_len[s] + (k + 1) - 1 = ctx_len[s] + k
        BY <2>2, <2>4, <3>1
      <3> QED
        BY <3>2 DEF x
    <2>8. SlotAt(m, gi, base + k) = FlattenSeq(SlotRows(batch))[(gi - 1) * T + (base + k) + 1]
      BY <1>1 DEF SlotAt
    <2> HIDE DEF base
    <2> QED
      BY <2>5, <2>6, <2>7, <2>8
  <1> QED
    BY <1>2, <1>3, <1>4 DEF m

LEMMA EmittedNoSlots ==
    ASSUME NEW batch, NEW pos, Listed(batch), Planned(batch), Typing,
           NEW gi \in 1 .. G, ~Paged(gi), NEW tok \in 0 .. Total(batch) - 1
    PROVE  SlotAt(Emit(batch, pos), gi, tok) = SlotNone
  <1> DEFINE T == Total(batch)
             x == (gi - 1) * T
  <1>1. T \in Nat
    BY PlannedFacts
  <1>2. tok + 1 \in 1 .. T
    BY <1>1
  <1>3. x \in Int
    BY <1>1, GroupsTyped
  <1>4. FlattenSeq(SlotRows(batch))[x + (tok + 1)] = SlotRow(batch, GroupOrder[gi])[tok + 1]
    BY <1>2, SlotMapAt
  <1>5. SlotRow(batch, GroupOrder[gi])[tok + 1] = SlotNone
    BY <1>2, SlotRowTyped
  <1>6. SlotAt(Emit(batch, pos), gi, tok) = FlattenSeq(SlotRows(batch))[x + tok + 1]
    BY EmitFields DEF SlotAt
  <1> HIDE DEF x
  <1>7. x + (tok + 1) = x + tok + 1
    BY <1>3
  <1> QED
    BY <1>4, <1>5, <1>6, <1>7

LEMMA EmitViews ==
    ASSUME NEW batch, NEW pos, Listed(batch), Planned(batch), ManagerInv
    PROVE  KernelViewOf(Emit(batch, pos))
  <1> DEFINE m == Emit(batch, pos)
  <1>1. Typing /\ Owned /\ AllKept
    BY DEF ManagerInv, Owned, Kept
  <1>2. /\ m.s = Len(batch.ids) /\ m.t = Total(batch)
        /\ m.seq_ids = batch.ids /\ m.query_lens = batch.q
        /\ \A k \in 1 .. Len(batch.ids) : m.ctx_lens[k] = ctx_len[batch.ids[k]]
    <2>1. DOMAIN batch.ids = 1 .. Len(batch.ids)
      BY <1>1, PlannedFacts
    <2>2. m.ctx_lens = [k \in DOMAIN batch.ids |-> ctx_len[batch.ids[k]]]
      BY EmitFields
    <2>3. /\ m.s = Len(batch.ids) /\ m.t = Total(batch)
          /\ m.seq_ids = batch.ids /\ m.query_lens = batch.q
      BY EmitFields
    <2> HIDE DEF m
    <2> QED
      BY <2>1, <2>2, <2>3
  <1>3. ASSUME NEW gi \in 1 .. G, NEW si \in 1 .. Len(batch.ids), Paged(gi)
        PROVE  /\ \A p \in AttendedBy(m, gi, si) :
                    /\ BlockAt(m, gi, si, BlockOf(p)) # NoBlock
                    /\ BlockAt(m, gi, si, BlockOf(p)) =
                          tables[m.seq_ids[si]][GroupOrder[gi]][BlockOf(p)]
               /\ \A k \in 0 .. m.query_lens[si] - 1 :
                    SlotAt(m, gi, SegmentStart(m.query_lens, si) + k) =
                      BlockAt(m, gi, si, BlockOf(m.ctx_lens[si] + k)) * BlockTokens
                        + LaneOf(m.ctx_lens[si] + k)
    <2> DEFINE s == batch.ids[si]
               g == GroupOrder[gi]
               c == ctx_len[s]
               q == batch.q[si]
               t == tail_len[s]
    <2>1. s \in seqs /\ s \in SeqIds /\ c \in Nat /\ q \in Nat /\ t \in Nat /\ q <= t /\ c + t <= MaxCtx
      BY <1>1, PlannedFacts
    <2>2. g \in PagedGroups /\ g \notin FixedGroups
      BY <1>3, GroupsTyped
    <2>3. m.ctx_lens[si] = c /\ m.query_lens[si] = q /\ m.seq_ids[si] = s
      BY <1>2
    <2>4. WindowAt(m, gi, si) = GroupWindow(s, g)
      BY <1>1, EmittedAccess
    <2>5. \A b \in Indices : BlockAt(m, gi, si, b) = tables[s][g][b]
      BY <1>1, <1>3, EmittedAccess
    <2>6. \A k \in 0 .. q - 1 : SlotAt(m, gi, SumTo(batch.q, si - 1) + k) = FlatSlot(s, g, c + k)
      BY <1>1, <1>3, EmittedAccess
    <2>7. SegmentStart(m.query_lens, si) = SumTo(batch.q, si - 1)
      BY <1>2 DEF SegmentStart
    <2>8. KeptAt(g, c, t, tables[s])
      BY <1>1, <2>1, <2>2 DEF AllKept
    <2> HIDE DEF m, c, q, t, s, g
    <2>9. ASSUME NEW p \in AttendedBy(m, gi, si)
          PROVE  /\ BlockAt(m, gi, si, BlockOf(p)) # NoBlock
                 /\ BlockAt(m, gi, si, BlockOf(p)) = tables[m.seq_ids[si]][GroupOrder[gi]][BlockOf(p)]
      <3>1. p \in 0 .. c + q - 1
            /\ \/ ~Retain[g].windowed
               \/ BlockOf(p) < SinkBlocks(g)
               \/ p >= GroupWindow(s, g)
        BY <2>3, <2>4 DEF AttendedBy, g
      <3>2. p \in 0 .. c + t - 1 /\ p \in Positions
        BY <2>1, <3>1, SizesAreNumbers DEF Positions
      <3>3. Retain[g].windowed => GroupWindow(s, g) = WindowStartOf(c, Retain[g].w)
        BY <2>2 DEF GroupWindow, WindowStart, c
      <3>4. p \in AttendedAt(g, c, t)
        BY <3>1, <3>2, <3>3 DEF AttendedAt
      <3>5. tables[s][g][BlockOf(p)] # NoBlock
        BY <2>8, <3>4 DEF KeptAt
      <3>6. BlockAt(m, gi, si, BlockOf(p)) = tables[s][g][BlockOf(p)]
        BY <2>5, <3>2, PositionSplit
      <3> QED
        BY <2>3, <3>5, <3>6 DEF g
    <2>10. ASSUME NEW k \in 0 .. q - 1
           PROVE  SlotAt(m, gi, SegmentStart(m.query_lens, si) + k) =
                      BlockAt(m, gi, si, BlockOf(c + k)) * BlockTokens + LaneOf(c + k)
      <3>1. c + k \in Positions
        BY <2>1, SizesAreNumbers DEF Positions
      <3>2. BlockAt(m, gi, si, BlockOf(c + k)) = tables[s][g][BlockOf(c + k)]
        BY <2>5, <3>1, PositionSplit
      <3>3. SlotAt(m, gi, SegmentStart(m.query_lens, si) + k) = FlatSlot(s, g, c + k)
        BY <2>6, <2>7
      <3> QED
        BY <3>2, <3>3 DEF FlatSlot, FlattenSlot
    <2> QED
      BY <2>3, <2>9, <2>10
  <1>4. ASSUME NEW gi \in 1 .. G, ~Paged(gi), NEW tok \in 0 .. m.t - 1
        PROVE  SlotAt(m, gi, tok) = SlotNone
    BY <1>1, <1>2, <1>4, EmittedNoSlots
  <1> HIDE DEF m
  <1>5. KernelViewOf(m)
    BY <1>2, <1>3, <1>4 DEF KernelViewOf
  <1> QED
    BY <1>5 DEF m

-----------------------------------------------------------------------------
(* Slots of one batch                                                      *)

SlotsDistinctIn(m) ==
    \A gi \in 1 .. G : Paged(gi) => \A i, j \in 0 .. m.t - 1 :
        SlotAt(m, gi, i) = SlotAt(m, gi, j) => i = j

\* Token tok is the a-th new token of entry k, and its slot is the lane of its
\* position in a block that its sequence holds.
SlotOfEntry(batch, m, gi, tok, k, a) ==
    LET s == batch.ids[k]
        g == GroupOrder[gi]
        p == ctx_len[s] + a
    IN  /\ tok = SumTo(batch.q, k - 1) + a
        /\ s \in SeqIds /\ p \in Positions /\ ctx_len[s] \in Nat
        /\ tables[s][g][BlockOf(p)] \in Blocks
        /\ SlotAt(m, gi, tok) = tables[s][g][BlockOf(p)] * BlockTokens + LaneOf(p)

LEMMA TokenSlot ==
    ASSUME NEW batch, NEW pos, Listed(batch), Planned(batch), ManagerInv,
           NEW gi \in 1 .. G, Paged(gi), NEW tok \in 0 .. Total(batch) - 1
    PROVE  \E k \in 1 .. Len(batch.ids) : \E a \in Nat :
              SlotOfEntry(batch, Emit(batch, pos), gi, tok, k, a)
  <1> DEFINE m == Emit(batch, pos)
             g == GroupOrder[gi]
             n == Len(batch.ids)
  <1>1. Typing /\ Owned /\ AllKept
    BY DEF ManagerInv, Owned, Kept
  <1>2. batch.q \in Seq(Nat) /\ Len(batch.q) = n /\ Total(batch) = SumTo(batch.q, n)
        /\ Total(batch) \in Nat /\ n \in Nat
    BY <1>1, PlannedFacts DEF Listed
  <1>3. tok \in Nat /\ tok < SumTo(batch.q, Len(batch.q))
    BY <1>2
  <1>4. PICK k \in 1 .. n : \E a \in 0 .. batch.q[k] - 1 : tok = SumTo(batch.q, k - 1) + a
    <2>1. \E k \in 1 .. Len(batch.q) : \E a \in 0 .. batch.q[k] - 1 :
              tok = SumTo(batch.q, k - 1) + a
      BY <1>2, <1>3, SegmentOf
    <2> HIDE DEF n
    <2> QED
      BY <1>2, <2>1
  <1>5. PICK a \in 0 .. batch.q[k] - 1 : tok = SumTo(batch.q, k - 1) + a
    BY <1>4
  <1> DEFINE s == batch.ids[k]
             c == ctx_len[s]
             t == tail_len[s]
             l == batch.q[k]
             p == c + a
  <1>6. s \in seqs /\ s \in SeqIds /\ c \in Nat /\ t \in Nat /\ l \in Nat /\ l <= t /\ c + t <= MaxCtx
    BY <1>1, PlannedFacts
  <1>7. g \in PagedGroups
    BY DEF Paged
  <1>8. SlotAt(m, gi, SumTo(batch.q, k - 1) + a) = FlatSlot(s, g, c + a)
    BY <1>1, EmittedAccess
  <1>9. KeptAt(g, c, t, tables[s])
    BY <1>1, <1>6, <1>7 DEF AllKept
  <1>10. a \in 0 .. l - 1
    OBVIOUS
  <1> HIDE DEF m, g, s, c, t, l
  <1>11. a \in Nat /\ p \in c .. c + t - 1 /\ p \in Positions
    <2>1. a \in Nat /\ a < l
      BY <1>6, <1>10
    <2>2. c + a \in c .. c + t - 1 /\ c + a \in 0 .. MaxCtx - 1
      BY <1>6, <2>1, SizesAreNumbers
    <2> QED
      BY <2>1, <2>2 DEF Positions
  <1>12. p \in AttendedAt(g, c, t)
    BY <1>6, <1>7, <1>11, TailAttended
  <1>13. tables[s][g][BlockOf(p)] \in Blocks
    <2>1. tables[s][g][BlockOf(p)] # NoBlock
      BY <1>9, <1>12 DEF KeptAt
    <2>2. BlockOf(p) \in Indices
      BY <1>11, PositionSplit
    <2> HIDE DEF p
    <2> QED
      BY <1>1, <1>6, <1>7, <2>1, <2>2 DEF Typing, TypeOK
  <1>14. SlotAt(m, gi, tok) = tables[s][g][BlockOf(p)] * BlockTokens + LaneOf(p)
    BY <1>5, <1>8 DEF FlatSlot, FlattenSlot
  <1>15. SlotOfEntry(batch, m, gi, tok, k, a)
    BY <1>5, <1>6, <1>11, <1>13, <1>14 DEF SlotOfEntry, s, g, c
  <1> QED
    BY <1>11, <1>15 DEF m

LEMMA EmitDistinct ==
    ASSUME NEW batch, NEW pos, Listed(batch), Planned(batch), ManagerInv
    PROVE  SlotsDistinctIn(Emit(batch, pos))
  <1> DEFINE m == Emit(batch, pos)
             n == Len(batch.ids)
  <1>1. m.t = Total(batch)
    BY EmitFields
  <1> SUFFICES ASSUME NEW gi \in 1 .. G, Paged(gi), NEW i \in 0 .. Total(batch) - 1,
                      NEW j \in 0 .. Total(batch) - 1, SlotAt(m, gi, i) = SlotAt(m, gi, j)
               PROVE  i = j
    BY <1>1 DEF SlotsDistinctIn
  <1>2. PICK k \in 1 .. n : \E a \in Nat : SlotOfEntry(batch, m, gi, i, k, a)
    BY TokenSlot
  <1>3. PICK a \in Nat : SlotOfEntry(batch, m, gi, i, k, a)
    BY <1>2
  <1>4. PICK l \in 1 .. n : \E b \in Nat : SlotOfEntry(batch, m, gi, j, l, b)
    BY TokenSlot
  <1>5. PICK b \in Nat : SlotOfEntry(batch, m, gi, j, l, b)
    BY <1>4
  <1> DEFINE g == GroupOrder[gi]
             s == batch.ids[k]
             t == batch.ids[l]
             p == ctx_len[s] + a
             r == ctx_len[t] + b
             x == tables[s][g][BlockOf(p)]
             y == tables[t][g][BlockOf(r)]
  <1> HIDE DEF m
  <1>6. /\ i = SumTo(batch.q, k - 1) + a /\ s \in SeqIds /\ p \in Positions
        /\ x \in Blocks /\ ctx_len[s] \in Nat
        /\ SlotAt(m, gi, i) = x * BlockTokens + LaneOf(p)
    BY <1>3 DEF SlotOfEntry
  <1>7. /\ j = SumTo(batch.q, l - 1) + b /\ t \in SeqIds /\ r \in Positions
        /\ y \in Blocks /\ ctx_len[t] \in Nat
        /\ SlotAt(m, gi, j) = y * BlockTokens + LaneOf(r)
    BY <1>5 DEF SlotOfEntry
  <1>8. LaneOf(p) \in 0 .. BlockTokens - 1 /\ LaneOf(r) \in 0 .. BlockTokens - 1
    BY <1>6, <1>7, PositionSplit
  <1>9. x * BlockTokens + LaneOf(p) = y * BlockTokens + LaneOf(r)
    BY <1>6, <1>7
  <1>10. x = y /\ LaneOf(p) = LaneOf(r)
    <2>1. x \in Nat /\ y \in Nat /\ BlockTokens \in Nat
      BY <1>6, <1>7, SizesAssumption DEF Blocks
    <2> DEFINE u == LaneOf(p)
               v == LaneOf(r)
    <2>2. u \in 0 .. BlockTokens - 1 /\ v \in 0 .. BlockTokens - 1
          /\ x * BlockTokens + u = y * BlockTokens + v
      BY <1>8, <1>9
    <2> HIDE DEF x, y, u, v
    <2>3. x = y /\ u = v
      BY <2>1, <2>2, RadixUnique
    <2> QED
      BY <2>3 DEF u, v
  <1>11. FlattenSlot(s, g, p) = [block |-> tables[t][g][BlockOf(r)], lane |-> LaneOf(r)]
    BY <1>10 DEF FlattenSlot
  <1>12. g \in PagedGroups /\ Owned /\ tables[t][g][BlockOf(r)] # NoBlock
    BY <1>7, SizesAreNumbers DEF Paged, ManagerInv
  <1>13. s = t /\ p = r
    <2> HIDE DEF s, t, p, r, g
    <2> QED
      BY <1>6, <1>7, <1>11, <1>12, SlotInjective
  <1>14. k = l
    <2>1. Typing
      BY <1>12 DEF Owned
    <2>2. DOMAIN batch.ids = 1 .. n
      BY <2>1, PlannedFacts
    <2>3. k \in DOMAIN batch.ids /\ l \in DOMAIN batch.ids /\ batch.ids[k] = batch.ids[l]
      BY <1>13, <2>2
    <2> HIDE DEF s, t, p, r, n
    <2> QED
      BY <2>3 DEF Planned
  <1>15. a = b
    BY <1>6, <1>13, <1>14
  <1> QED
    BY <1>6, <1>7, <1>14, <1>15

-----------------------------------------------------------------------------
(* The cold builder                                                        *)

LEMMA DefaultLength ==
    ASSUME NEW batch, Listed(batch), Planned(batch), Typing
    PROVE  Len(DefaultPositions(batch)) = Total(batch)
  <1> DEFINE n == Len(batch.ids)
             q == batch.q
             row(k) == [i \in 1 .. q[k] |-> ctx_len[batch.ids[k]] + i - 1]
             rows == [k \in DOMAIN batch.ids |-> row(k)]
  <1>1. n \in Nat /\ DOMAIN batch.ids = 1 .. n /\ Total(batch) = SumTo(q, n)
        /\ \A k \in 1 .. n : q[k] \in Nat /\ ctx_len[batch.ids[k]] \in Nat
    BY PlannedFacts
  <1>2. DefaultPositions(batch) = FlattenSeq(rows)
    BY DEF DefaultPositions
  <1> HIDE DEF n
  <1>3. \A k \in 1 .. n : row(k) \in Seq(Int) /\ Len(row(k)) = q[k]
    <2> TAKE k \in 1 .. n
    <2>1. row(k) \in [1 .. q[k] -> Int]
      BY <1>1
    <2> HIDE DEF row
    <2> QED
      BY <1>1, <2>1, FunctionIsSeq
  <1> HIDE DEF row
  <1>4. rows \in [1 .. n -> Seq(Int)] /\ \A k \in 1 .. n : rows[k] = row(k)
    BY <1>1, <1>3
  <1> HIDE DEF rows
  <1>5. rows \in Seq(Seq(Int)) /\ Len(rows) = n
    BY <1>1, <1>4, FunctionIsSeq
  <1>6. LensOf(rows) = q
    <2>1. LensOf(rows) = [k \in 1 .. n |-> q[k]]
      BY <1>3, <1>4, <1>5 DEF LensOf
    <2>2. q = [k \in 1 .. n |-> q[k]]
      <3>1. q \in Seq(Nat) /\ Len(q) = n
        BY PlannedFacts DEF Listed, n
      <3> HIDE DEF q
      <3> QED
        BY <3>1
    <2> HIDE DEF q
    <2> QED
      BY <2>1, <2>2
  <1>7. Len(FlattenSeq(rows)) = SumTo(q, n)
    BY <1>5, <1>6, FlattenIsFlat DEF IsFlat
  <1> QED
    BY <1>1, <1>2, <1>7

LEMMA TableLength ==
    ASSUME NEW batch, batch.ids \in Seq(Nat)
    PROVE  Len(BlockTable(batch)) = G * Len(batch.ids) * MaxBlocks
  <1> DEFINE N == G * Len(batch.ids) * MaxBlocks
             values == {BlockTable(batch)[o] : o \in 1 .. N}
  <1>1. N \in Nat
    <2>1. G \in Nat /\ Len(batch.ids) \in Nat /\ MaxBlocks \in Nat
      BY GroupsTyped, SizesAssumption
    <2>2. G * Len(batch.ids) \in Nat
      BY <2>1
    <2> QED
      BY <2>1, <2>2
  <1>2. BlockTable(batch) = [o \in 1 .. N |-> BlockTable(batch)[o]]
    BY DEF BlockTable
  <1> HIDE DEF N
  <1>3. BlockTable(batch) \in [1 .. N -> values]
    BY <1>2
  <1> HIDE DEF values
  <1>4. Len(BlockTable(batch)) = N
    BY <1>1, <1>3, FunctionIsSeq
  <1> QED
    BY <1>4 DEF N

\* The lengths the builder checks are those of a planned batch.
LEMMA BuilderLengths ==
    ASSUME NEW batch, NEW pos, Listed(batch), Planned(batch), Typing, G # 0,
           pos = NoPositions \/ (pos.len \in Nat /\ pos.len = Total(batch))
    PROVE  BuilderOK(Emit(batch, pos), NoTree)
  <1> DEFINE m == Emit(batch, pos)
             n == Len(batch.ids)
             T == Total(batch)
  <1>1. /\ n \in Nat /\ n > 0 /\ Len(batch.q) = n /\ T \in Nat /\ T >= 1 /\ T = SumTo(batch.q, n)
        /\ DOMAIN batch.q = 1 .. n /\ DOMAIN batch.ids = 1 .. n
        /\ \A k \in 1 .. n : batch.q[k] \in Nat /\ batch.q[k] >= 1
    BY PlannedFacts
  <1>2. /\ m.g = G /\ m.s = n /\ m.t = T /\ m.max_blocks = MaxBlocks
        /\ m.seq_ids = batch.ids /\ m.query_lens = batch.q
        /\ m.ctx_lens = [k \in DOMAIN batch.ids |-> ctx_len[batch.ids[k]]]
        /\ m.slot_map = FlattenSeq(SlotRows(batch))
        /\ m.block_table = BlockTable(batch)
        /\ m.window_start = FlattenSeq(WindowRows(batch))
        /\ m.positions = IF pos = NoPositions THEN DefaultPositions(batch)
                         ELSE [k \in 1 .. pos.len |-> MaxCtx + k]
    BY EmitFields
  <1> HIDE DEF m
  <1>3. m.g # 0 /\ m.s # 0 /\ m.t # 0 /\ m.max_blocks # 0
    BY <1>1, <1>2, SizesAssumption
  <1>4. Len(m.ctx_lens) = n
    <2> DEFINE f == [k \in 1 .. n |-> ctx_len[batch.ids[k]]]
    <2>1. m.ctx_lens = f
      BY <1>1, <1>2
    <2>2. f \in [1 .. n -> {ctx_len[batch.ids[k]] : k \in 1 .. n}]
      OBVIOUS
    <2> HIDE DEF f, n
    <2> QED
      BY <1>1, <2>1, <2>2, FunctionIsSeq
  <1>5. Len(m.seq_ids) = m.s /\ Len(m.query_lens) = m.s /\ Len(m.ctx_lens) = m.s
    BY <1>1, <1>2, <1>4
  <1>6. Len(m.slot_map) = m.g * m.t
    BY <1>2, SlotMapAt
  <1>7. Len(m.block_table) = m.g * m.s * m.max_blocks
    BY <1>2, TableLength DEF Listed
  <1>8. Len(m.window_start) = m.g * m.s
    BY <1>2, WindowsAt
  <1>9. Len(m.positions) = m.t
    <2>1. CASE pos = NoPositions
      BY <1>2, <2>1, DefaultLength
    <2>2. CASE pos # NoPositions
      <3> DEFINE f == [k \in 1 .. T |-> MaxCtx + k]
      <3>1. m.positions = f
        BY <1>2, <2>2
      <3>2. f \in [1 .. T -> {MaxCtx + k : k \in 1 .. T}]
        OBVIOUS
      <3> HIDE DEF f, T
      <3>3. Len(f) = T
        BY <1>1, <3>2, FunctionIsSeq
      <3> QED
        BY <1>2, <3>1, <3>3
    <2> QED
      BY <2>1, <2>2
  <1>10. \A k \in DOMAIN m.query_lens : m.query_lens[k] # 0
    BY <1>1, <1>2
  <1>11. SegmentStart(m.query_lens, m.s + 1) = m.t
    <2>1. (n + 1) - 1 = n
      BY <1>1
    <2> HIDE DEF n
    <2> QED
      BY <1>1, <1>2, <2>1 DEF SegmentStart
  <1>12. BuilderOK(m, NoTree)
    BY <1>3, <1>5, <1>6, <1>7, <1>8, <1>9, <1>10, <1>11 DEF BuilderOK
  <1> QED
    BY <1>12 DEF m

LEMMA BuilderSplit ==
    ASSUME NEW m, NEW tree
    PROVE  BuilderOK(m, tree) <=> BuilderOK(m, NoTree) /\ (tree # NoTree => BuilderTreeOK(m, tree))
  BY DEF BuilderOK

\* The two copies of the tree rules agree on a planned batch.
LEMMA TreeRulesAgree ==
    ASSUME NEW batch, NEW pos, NEW tree, Listed(batch), Planned(batch), Typing,
           Len(tree.parents) = Total(batch)
    PROVE  BuilderTreeOK(Emit(batch, pos), tree) <=> TreeBatchRules(tree, batch.q)
  <1> DEFINE m == Emit(batch, pos)
             n == Len(batch.ids)
             q == batch.q
             own(k) == SegmentStart(q, k) .. SegmentStart(q, k + 1) - 1
             Inside == \A k \in 1 .. n : \A j \in own(k) :
                          tree.parents[j + 1] >= 0 => tree.parents[j + 1] \in own(k)
             Covers == \A k \in 1 .. n : tree.t_max >= q[k]
  <1>1. n \in Nat /\ Len(q) = n /\ DOMAIN q = 1 .. n /\ Total(batch) = SumTo(q, n)
    BY PlannedFacts
  <1>2. m.s = n /\ m.t = Total(batch) /\ m.query_lens = q
    BY EmitFields
  <1> HIDE DEF m, n, q
  <1>3. SegmentStart(q, Len(q) + 1) = Total(batch)
    <2>1. (n + 1) - 1 = n
      BY <1>1
    <2> QED
      BY <1>1, <2>1 DEF SegmentStart
  <1>4. BuilderTreeOK(m, tree) <=> Covers /\ Inside
    BY <1>2 DEF BuilderTreeOK
  <1>5. TreeBatchRules(tree, q) <=> Covers /\ Inside
    BY <1>1, <1>3 DEF TreeBatchRules
  <1> QED
    BY <1>4, <1>5 DEF m, q

LEMMA PathsAgree ==
    ASSUME Typing, G # 0, NEW batch \in Batches, NEW pos \in PositionArgs,
           NEW tree \in TreeArgs \cup {NoTree}, CapacityOK(batch, pos)
    PROVE  ColdOK(batch, pos, tree)
              <=> SlicesPlanOK(batch, pos, tree) /\ (tree # NoTree => TreeAccepted(tree))
  <1> DEFINE T == Total(batch)
             posOK == PosLen(pos) \in {NoSlot, T}
  <1>1. Listed(batch)
    BY ArgumentsAssumption DEF Listed
  <1>2. tree # NoTree => Len(tree.parents) # NoSlot
    <2> SUFFICES ASSUME tree # NoTree PROVE Len(tree.parents) # NoSlot
      OBVIOUS
    <2>1. tree.parents \in Seq(Int)
      BY ArgumentsAssumption
    <2>2. Len(tree.parents) \in Nat
      BY <2>1
    <2> QED
      BY <2>2 DEF NoSlot
  <1>3. posOK => pos = NoPositions \/ (pos.len \in Nat /\ pos.len = T)
    <2>1. pos.len \in Nat
      BY ArgumentsAssumption
    <2>2. pos.len # NoSlot
      BY <2>1 DEF NoSlot
    <2> QED
      BY <2>1, <2>2 DEF PosLen
  <1>4. PlanOK(batch, PosLen(pos), IF tree = NoTree THEN NoSlot ELSE Len(tree.parents))
            <=> Planned(batch) /\ posOK /\ (tree # NoTree => Len(tree.parents) = T)
    BY <1>2 DEF PlanOK, Planned
  <1>5. PlanOK(batch, PosLen(pos), NoSlot) <=> Planned(batch) /\ posOK
    BY DEF PlanOK, Planned
  <1>6. ASSUME Planned(batch), posOK, tree # NoTree => Len(tree.parents) = T
        PROVE  BuilderOK(Emit(batch, pos), tree)
                  <=> (tree # NoTree => TreeBatchRules(tree, batch.q))
    <2>1. BuilderOK(Emit(batch, pos), NoTree)
      BY <1>1, <1>3, <1>6, BuilderLengths
    <2>2. tree # NoTree => (BuilderTreeOK(Emit(batch, pos), tree) <=> TreeBatchRules(tree, batch.q))
      BY <1>1, <1>6, TreeRulesAgree
    <2> QED
      BY <2>1, <2>2, BuilderSplit
  <1> HIDE DEF posOK, T
  <1> QED
    BY <1>4, <1>5, <1>6 DEF ColdOK, SlicesPlanOK, T

-----------------------------------------------------------------------------
(* The workspace over time                                                 *)

\* A tree of the batch whose tensors are m.
Fits(tree, m) ==
    /\ Len(tree.parents) = m.t
    /\ TreeAccepted(tree)
    /\ TreeBatchRules(tree, m.query_lens)

\* Both places a tree can be kept hold one of the batch beside them, the one
\* the view hides too: a refused slices fill uncovers the owned mask.
WorkspaceGood(w) ==
    /\ w = [tensors |-> w.tensors, tree |-> w.tree, staged |-> w.staged]
    /\ SlotsDistinctIn(w.tensors)
    /\ w.tree # NoTree => Fits(w.tree, w.tensors)
    /\ w.staged # NoTree => Fits(w.staged, w.tensors)

BatchInv == ManagerInv /\ WorkspaceGood(ws)

LEMMA WorkspaceGoodInit == WorkspaceInit => WorkspaceGood(ws)
  <1> SUFFICES ASSUME WorkspaceInit PROVE WorkspaceGood(ws)
    OBVIOUS
  <1>1. ws = [tensors |-> EmptyTensors, tree |-> NoTree, staged |-> NoTree]
    BY DEF WorkspaceInit
  <1>2. EmptyTensors.t = 0
    BY DEF EmptyTensors
  <1>3. SlotsDistinctIn(EmptyTensors)
    BY <1>2 DEF SlotsDistinctIn
  <1> HIDE DEF EmptyTensors, NoTree
  <1> QED
    BY <1>1, <1>3 DEF WorkspaceGood

\* A fill that is accepted leaves a good workspace.
LEMMA FilledGood ==
    ASSUME ManagerInv, NEW batch \in Batches, NEW pos, NEW a, NEW b, PlanOK(batch, a, b),
           NEW tree, NEW staged,
           tree # NoTree => Len(tree.parents) = Total(batch) /\ TreeAccepted(tree)
                            /\ TreeBatchRules(tree, batch.q),
           staged # NoTree => Len(staged.parents) = Total(batch) /\ TreeAccepted(staged)
                              /\ TreeBatchRules(staged, batch.q)
    PROVE  /\ WorkspaceGood([tensors |-> Emit(batch, pos), tree |-> tree, staged |-> staged])
           /\ KernelViewOf(Emit(batch, pos))
  <1> DEFINE m == Emit(batch, pos)
             w == [tensors |-> m, tree |-> tree, staged |-> staged]
  <1>1. Listed(batch) /\ Planned(batch)
    BY ArgumentsAssumption, PlanOKSplit DEF Listed
  <1>2. SlotsDistinctIn(m) /\ KernelViewOf(m)
    BY <1>1, EmitDistinct, EmitViews
  <1>3. m.t = Total(batch) /\ m.query_lens = batch.q
    BY EmitFields
  <1> HIDE DEF m
  <1>4. /\ w.tensors = m /\ w.tree = tree /\ w.staged = staged
        /\ w = [tensors |-> w.tensors, tree |-> w.tree, staged |-> w.staged]
    OBVIOUS
  <1> HIDE DEF w
  <1>5. WorkspaceGood(w)
    BY <1>2, <1>3, <1>4 DEF WorkspaceGood, Fits
  <1> QED
    BY <1>2, <1>5 DEF m, w

\* What one step may do to the workspace w, which becomes v.
FillEffect(w, v, outcome) ==
    /\ WorkspaceGood(v)
    /\ v # w /\ outcome = "ok" => KernelViewOf(v.tensors)
    /\ outcome = "refused" => v.tensors = w.tensors

LEMMA OwnedEffect ==
    ASSUME BatchInv, NEW batch \in Batches, NEW pos \in PositionArgs,
           NEW tree \in TreeArgs \cup {NoTree}, FillOwned(batch, pos, tree)
    PROVE  FillEffect(ws, ws', last')
  <1>1. CASE OwnedFillOK(batch, pos, tree)
    <2>1. ws' = [tensors |-> Emit(batch, pos), tree |-> tree, staged |-> NoTree] /\ last' = "ok"
      BY <1>1 DEF FillOwned, OwnedFilled
    <2>2. PlanOK(batch, PosLen(pos), IF tree = NoTree THEN NoSlot ELSE Len(tree.parents))
      BY <1>1 DEF OwnedFillOK
    <2>3. tree # NoTree => Len(tree.parents) = Total(batch) /\ TreeAccepted(tree)
                           /\ TreeBatchRules(tree, batch.q)
      <3> SUFFICES ASSUME tree # NoTree
                   PROVE  Len(tree.parents) = Total(batch) /\ TreeAccepted(tree)
                          /\ TreeBatchRules(tree, batch.q)
        OBVIOUS
      <3>1. tree.parents \in Seq(Int)
        BY ArgumentsAssumption
      <3>2. Len(tree.parents) \in Nat
        BY <3>1
      <3>3. Len(tree.parents) # NoSlot
        BY <3>2 DEF NoSlot
      <3>4. Len(tree.parents) = Total(batch)
        BY <2>2, <3>3, PlanOKSplit
      <3> QED
        BY <1>1, <3>4 DEF FillOwned, OwnedFillOK
    <2>4. /\ WorkspaceGood([tensors |-> Emit(batch, pos), tree |-> tree, staged |-> NoTree])
          /\ KernelViewOf(Emit(batch, pos))
      BY <2>2, <2>3, FilledGood DEF BatchInv
    <2>5. WorkspaceGood(ws') /\ KernelViewOf(ws'.tensors)
      <3> DEFINE m == Emit(batch, pos)
      <3> HIDE DEF m
      <3>1. ws' = [tensors |-> m, tree |-> tree, staged |-> NoTree]
        BY <2>1 DEF m
      <3>2. ws'.tensors = m
        BY <3>1
      <3> QED
        BY <2>4, <3>1, <3>2 DEF m
    <2> QED
      BY <2>1, <2>5 DEF FillEffect
  <1>2. CASE ~OwnedFillOK(batch, pos, tree)
    <2>1. ws' = ws /\ last' = "refused"
      BY <1>2 DEF FillOwned
    <2> QED
      BY <2>1 DEF FillEffect, BatchInv
  <1> QED
    BY <1>1, <1>2

LEMMA SlicesEffect ==
    ASSUME BatchInv, NEW batch \in Batches, NEW pos \in PositionArgs,
           NEW tree \in TreeArgs \cup {NoTree}, FillSlices(batch, pos, tree)
    PROVE  FillEffect(ws, ws', last')
  <1>1. CASE UNCHANGED ws /\ last' = "refused"
    BY <1>1 DEF FillEffect, BatchInv
  <1>2. CASE ws' = TreeRefused(ws) /\ last' = "refused"
    <2>1. WorkspaceGood(ws)
      BY DEF BatchInv
    <2> DEFINE m == ws.tensors
               owned == ws.tree
               v == [tensors |-> m, tree |-> owned, staged |-> NoTree]
    <2>2. ws = [tensors |-> m, tree |-> owned, staged |-> ws.staged]
      BY <2>1 DEF WorkspaceGood
    <2>3. TreeRefused(ws) = v
      BY <2>2 DEF TreeRefused
    <2>4. SlotsDistinctIn(m) /\ (owned # NoTree => Fits(owned, m))
      BY <2>1 DEF WorkspaceGood
    <2>5. v.tensors = m /\ v.tree = owned /\ v.staged = NoTree
          /\ v = [tensors |-> v.tensors, tree |-> v.tree, staged |-> v.staged]
      OBVIOUS
    <2> HIDE DEF v, m, owned
    <2>6. WorkspaceGood(v) /\ v.tensors = m
      BY <2>4, <2>5 DEF WorkspaceGood
    <2> QED
      BY <1>2, <2>3, <2>6 DEF FillEffect, m
  <1>3. CASE /\ SlicesPlanOK(batch, pos, tree)
             /\ tree # NoTree => TreeCapacityOK(tree) /\ TreeAccepted(tree)
             /\ ws' = [tensors |-> Emit(batch, pos), tree |-> NoTree, staged |-> tree]
             /\ last' = "ok"
    <2>1. PlanOK(batch, PosLen(pos), NoSlot)
      BY <1>3 DEF SlicesPlanOK
    <2>2. tree # NoTree => Len(tree.parents) = Total(batch) /\ TreeAccepted(tree)
                           /\ TreeBatchRules(tree, batch.q)
      BY <1>3 DEF SlicesPlanOK
    <2>3. /\ WorkspaceGood([tensors |-> Emit(batch, pos), tree |-> NoTree, staged |-> tree])
          /\ KernelViewOf(Emit(batch, pos))
      BY <2>1, <2>2, FilledGood DEF BatchInv
    <2>4. WorkspaceGood(ws') /\ KernelViewOf(ws'.tensors)
      <3> DEFINE m == Emit(batch, pos)
      <3> HIDE DEF m
      <3>1. ws' = [tensors |-> m, tree |-> NoTree, staged |-> tree]
        BY <1>3 DEF m
      <3>2. ws'.tensors = m
        BY <3>1
      <3> QED
        BY <2>3, <3>1, <3>2 DEF m
    <2> QED
      BY <1>3, <2>4 DEF FillEffect
  <1> QED
    BY <1>1, <1>2, <1>3 DEF FillSlices

\* What a step of the whole system does to the workspace.
FillStep ==
    /\ ws' # ws /\ last' = "ok" => KernelViewOf(ws'.tensors)
    /\ last' = "refused" => ws'.tensors = ws.tensors

LEMMA BatchInvStep == BatchInv /\ [BatchNext]_batchVars => BatchInv' /\ [FillStep]_batchVars
  <1> SUFFICES ASSUME BatchInv, [BatchNext]_batchVars PROVE BatchInv' /\ [FillStep]_batchVars
    OBVIOUS
  <1>1. ASSUME [Next]_vars PROVE ManagerInv'
    BY <1>1, ManagerInvStep DEF BatchInv
  <1>2. ASSUME WorkspaceGood(ws') PROVE WorkspaceGood(ws)'
    BY <1>2
  <1>3. WorkspaceGood(ws)
    BY DEF BatchInv
  <1>4. CASE Next /\ UNCHANGED ws /\ last' = "none"
    <2>1. WorkspaceGood(ws') /\ FillStep
      BY <1>3, <1>4 DEF FillStep
    <2> QED
      BY <1>1, <1>2, <1>4, <2>1 DEF BatchInv
  <1>5. ASSUME NEW batch \in Batches, NEW pos \in PositionArgs, NEW tree \in TreeArgs \cup {NoTree},
               FillOwned(batch, pos, tree) \/ FillSlices(batch, pos, tree)
        PROVE  BatchInv' /\ [FillStep]_batchVars
    <2>1. FillEffect(ws, ws', last')
      BY <1>5, OwnedEffect, SlicesEffect
    <2>2. WorkspaceGood(ws') /\ FillStep
      BY <2>1 DEF FillEffect, FillStep
    <2>3. UNCHANGED vars
      BY <1>5 DEF FillOwned, FillSlices
    <2> QED
      BY <1>1, <1>2, <2>2, <2>3 DEF BatchInv
  <1>6. CASE UNCHANGED batchVars
    <2>1. UNCHANGED vars /\ ws' = ws
      BY <1>6 DEF batchVars
    <2>2. WorkspaceGood(ws')
      BY <1>3, <2>1
    <2> QED
      BY <1>1, <1>2, <1>6, <2>1, <2>2 DEF BatchInv
  <1> QED
    BY <1>4, <1>5, <1>6 DEF BatchNext

LEMMA BatchInvHolds == BatchSpec => []BatchInv
  <1>1. BatchInit => BatchInv
    BY ManagerInvInit, WorkspaceGoodInit DEF BatchInit, BatchInv
  <1>2. BatchInv /\ [BatchNext]_batchVars => BatchInv'
    BY BatchInvStep
  <1> QED
    BY <1>1, <1>2, PTL DEF BatchSpec

\* A fill is all or nothing: the slot map and the attended block table
\* cells of an accepted one are the manager's, and a refused one
\* leaves the tensors alone, for every set of groups, windows, batches and
\* capacities (plan_batch, emit_batch_into, the two fill paths).
THEOREM FillsExactHolds == BatchSpec => FillsExact
  <1>1. BatchInv /\ [BatchNext]_batchVars => [FillStep]_batchVars
    BY BatchInvStep
  <1>2. BatchSpec => [][FillStep]_batchVars
    BY <1>1, BatchInvHolds, PTL DEF BatchSpec
  <1> QED
    BY <1>2, PTL DEF FillsExact, FillStep

\* The tokens of a batch have slots of their own, the tree a kernel sees is one
\* of the batch beside it after any mix of accepted and refused fills, and the
\* allocation-free path accepts exactly what the cold builder accepts.
THEOREM BatchWellFormedHolds == BatchSpec => []BatchWellFormed
  <1>1. BatchInv => BatchWellFormed
    <2> SUFFICES ASSUME BatchInv PROVE BatchWellFormed
      OBVIOUS
    <2>1. WorkspaceGood(ws) /\ Typing
      BY DEF BatchInv, ManagerInv, Kept
    <2>2. BatchSlotsDistinct
      BY <2>1 DEF WorkspaceGood, SlotsDistinctIn, BatchSlotsDistinct
    <2>3. TreeFitsBatch
      BY <2>1 DEF WorkspaceGood, TreeFitsBatch, TreeView, Fits
    <2>4. HotAgreesWithCold
      BY <2>1, PathsAgree DEF HotAgreesWithCold
    <2> QED
      BY <2>2, <2>3, <2>4 DEF BatchWellFormed
  <1> QED
    BY <1>1, BatchInvHolds, PTL

-------------------------------------------------------------------------------
(* Ancestors *)

\* The parent of a token, where the walk goes on, is a token.
LEMMA StepsToToken ==
    ASSUME NEW p \in Seq(Int), NEW k \in TokensOf(p), ~StopsAt(p, k)
    PROVE  p[k + 1] \in TokensOf(p) /\ p[k + 1] # k
  <1>1. k + 1 \in 1 .. Len(p)
    BY DEF TokensOf
  <1>2. p[k + 1] \in Int /\ Len(p) \in Nat
    BY <1>1
  <1> QED
    BY <1>2 DEF StopsAt, TokensOf

LEMMA TokensFinite ==
    ASSUME NEW p \in Seq(Int)
    PROVE  IsFiniteSet(TokensOf(p)) /\ Cardinality(TokensOf(p)) = Len(p)
  <1>1. Len(p) \in Nat
    OBVIOUS
  <1>2. IsFiniteSet(0 .. Len(p) - 1) /\ Cardinality(0 .. Len(p) - 1) =
            IF 0 > Len(p) - 1 THEN 0 ELSE (Len(p) - 1) - 0 + 1
    BY <1>1, FS_Interval
  <1> QED
    BY <1>1, <1>2 DEF TokensOf

\* A set of tokens that parents do not lead out of.
Closed(p, C) == \A j \in C : ~StopsAt(p, j) => p[j + 1] \in C

Parents(p, S) == {p[j + 1] : j \in {i \in S : ~StopsAt(p, i)}}

\* The steps of the recursion in Above, and that their values are sets of tokens.
LEMMA AboveSteps ==
    ASSUME NEW p \in Seq(Int), NEW k \in TokensOf(p)
    PROVE  \E up \in [0 .. Len(p) -> SUBSET TokensOf(p)] :
              /\ up[0] = {k}
              /\ \A i \in 1 .. Len(p) : up[i] = up[i-1] \cup Parents(p, up[i-1])
              /\ Above(p, k) = up[Len(p)]
  <1> DEFINE n == Len(p)
             S == SUBSET TokensOf(p)
             step == [i \in 1 .. n |-> [x \in S |-> x \cup Parents(p, x)]]
             IsUp(u) == u = [m \in 0 .. n |-> IF m = 0 THEN {k} ELSE u[m - 1]
                              \cup {p[j + 1] : j \in {i \in u[m - 1] : ~StopsAt(p, i)}}]
             up == CHOOSE u : IsUp(u)
  <1>1. n \in Nat
    OBVIOUS
  <1>2. Above(p, k) = up[n]
    BY DEF Above
  <1>3. ASSUME NEW x \in S PROVE x \cup Parents(p, x) \in S
    BY StepsToToken DEF Parents
  <1>4. {k} \in S
    OBVIOUS
  <1> HIDE DEF n, S
  <1>5. step \in [1 .. n -> [S -> S]]
    BY <1>3
  <1>6. \E u : IsUp(u)
    <2>1. \A i \in 1 .. n : \A x \in S : step[i][x] = x \cup Parents(p, x)
      OBVIOUS
    <2> HIDE DEF step
    <2>2. PICK f \in [0 .. n -> S] : Recursive(f, {k}, n, step)
      BY <1>1, <1>4, <1>5, RecursionExists
    <2>3. f[0] = {k} /\ \A i \in 1 .. n : f[i] = step[i][f[i-1]]
      BY <2>2 DEF Recursive
    <2>4. \A m \in 0 .. n : m # 0 => m \in 1 .. n /\ m - 1 \in 0 .. n
      BY <1>1
    <2>5. \A m \in 0 .. n : m # 0 => f[m] = f[m - 1] \cup Parents(p, f[m - 1])
      BY <2>1, <2>3, <2>4
    <2>6. f = [m \in 0 .. n |-> IF m = 0 THEN {k} ELSE f[m - 1] \cup Parents(p, f[m - 1])]
      BY <2>2, <2>3, <2>5
    <2>7. IsUp(f)
      BY <2>6 DEF Parents
    <2> QED
      BY <2>7
  <1>7. IsUp(up)
    <2> HIDE DEF IsUp
    <2> QED
      BY <1>6
  <1> HIDE DEF up
  <1>8. up = [m \in 0 .. n |-> IF m = 0 THEN {k} ELSE up[m - 1] \cup Parents(p, up[m - 1])]
    BY <1>7 DEF Parents
  <1>9. \A m \in 0 .. n : up[m] = IF m = 0 THEN {k} ELSE up[m - 1] \cup Parents(p, up[m - 1])
    <2> DEFINE body == [m \in 0 .. n |-> IF m = 0 THEN {k} ELSE up[m - 1] \cup Parents(p, up[m - 1])]
    <2>1. up = body
      BY <1>8
    <2>2. \A m \in 0 .. n : body[m] = IF m = 0 THEN {k} ELSE up[m - 1] \cup Parents(p, up[m - 1])
      OBVIOUS
    <2> HIDE DEF body
    <2> QED
      BY <2>1, <2>2
  <1>10. up[0] = {k} /\ \A i \in 1 .. n : up[i] = up[i-1] \cup Parents(p, up[i-1])
    <2>1. 0 \in 0 .. n /\ \A i \in 1 .. n : i \in 0 .. n /\ i # 0
      BY <1>1
    <2> QED
      BY <1>9, <2>1, Zenon
  <1>11. \A i \in 0 .. n : up[i] \in S
    <2>1. up[0] \in S
      BY <1>4, <1>10
    <2>2. \A i \in 1 .. n : up[i-1] \in S => up[i] \in S
      BY <1>3, <1>10
    <2> QED
      BY <1>1, <2>1, <2>2, BoundedInduction
  <1>12. up \in [0 .. n -> S]
    BY <1>8, <1>11
  <1> QED
    BY <1>2, <1>10, <1>12 DEF n, S

\* Above(p, k) is the least closed set that holds k.
LEMMA AboveLeast ==
    ASSUME NEW p \in Seq(Int), NEW k \in TokensOf(p)
    PROVE  /\ k \in Above(p, k)
           /\ Above(p, k) \in SUBSET TokensOf(p)
           /\ Closed(p, Above(p, k))
           /\ \A C : k \in C /\ Closed(p, C) => Above(p, k) \subseteq C
  <1> DEFINE n == Len(p)
             tok == TokensOf(p)
  <1>1. n \in Nat
    OBVIOUS
  <1>2. PICK up \in [0 .. n -> SUBSET tok] :
              /\ up[0] = {k}
              /\ \A i \in 1 .. n : up[i] = up[i-1] \cup Parents(p, up[i-1])
              /\ Above(p, k) = up[n]
    BY AboveSteps
  <1>3. IsFiniteSet(tok) /\ Cardinality(tok) = n
    BY TokensFinite
  <1> HIDE DEF n, tok
  <1>4. \A i \in 1 .. n : i - 1 \in 0 .. n /\ i \in 0 .. n
    BY <1>1
  <1>5. \A i \in 0 .. n : up[i] \in {x \in SUBSET tok : k \in x}
    <2> DEFINE S == {x \in SUBSET tok : k \in x}
    <2>1. up[0] \in S
      BY <1>1, <1>2
    <2>2. \A i \in 1 .. n : up[i-1] \in S => up[i] \in S
      BY <1>2, <1>4
    <2> HIDE DEF S
    <2>3. \A i \in 0 .. n : up[i] \in S
      BY <1>1, <2>1, <2>2, BoundedInduction
    <2> QED
      BY <2>3 DEF S
  <1>6. ASSUME NEW C, k \in C, Closed(p, C) PROVE up[n] \subseteq C
    <2>1. up[0] \in SUBSET C
      BY <1>2, <1>6
    <2>2. \A i \in 1 .. n : up[i-1] \in SUBSET C => up[i] \in SUBSET C
      BY <1>2, <1>6 DEF Closed, Parents
    <2>3. \A i \in 0 .. n : up[i] \in SUBSET C
      BY <1>1, <2>1, <2>2, BoundedInduction
    <2> QED
      BY <1>1, <2>3
  <1>7. Closed(p, up[n])
    <2> DEFINE Grown(i) == Closed(p, up[i]) \/ Cardinality(up[i]) >= i + 1
               T == {i \in Nat : i <= n => Grown(i)}
    <2>1. \A i \in 0 .. n : IsFiniteSet(up[i]) /\ Cardinality(up[i]) \in Nat
                            /\ Cardinality(up[i]) <= n
      <3>1. TAKE i \in 0 .. n
      <3>2. up[i] \in SUBSET tok
        BY <1>2
      <3>3. IsFiniteSet(up[i]) /\ Cardinality(up[i]) <= Cardinality(tok)
        BY <1>3, <3>2, FS_Subset
      <3>4. Cardinality(up[i]) \in Nat
        BY <3>3, FS_CardinalityType
      <3> QED
        BY <1>3, <3>3, <3>4
    <2>2. 0 \in T
      <3>1. Cardinality(up[0]) = 1
        BY <1>2, FS_Singleton
      <3> QED
        BY <3>1
    <2>3. ASSUME NEW i \in T PROVE i + 1 \in T
      <3>1. SUFFICES ASSUME i + 1 <= n PROVE Grown(i + 1)
        OBVIOUS
      <3>2. i \in 0 .. n /\ i + 1 \in 1 .. n /\ i + 1 \in 0 .. n /\ (i + 1) - 1 = i /\ Grown(i)
        BY <1>1, <3>1
      <3>3. up[i + 1] = up[i] \cup Parents(p, up[i])
        BY <1>2, <3>2
      <3>4. CASE Closed(p, up[i])
        <4>1. up[i + 1] = up[i]
          BY <3>3, <3>4 DEF Closed, Parents
        <4> QED
          BY <3>4, <4>1
      <3>5. CASE ~Closed(p, up[i])
        <4>1. up[i + 1] # up[i] /\ up[i] \in SUBSET up[i + 1]
          BY <3>3, <3>5 DEF Closed, Parents
        <4>2. Cardinality(up[i]) <= Cardinality(up[i + 1])
              /\ Cardinality(up[i + 1]) # Cardinality(up[i])
          BY <2>1, <3>2, <4>1, FS_Subset
        <4>3. Cardinality(up[i]) >= i + 1
          BY <3>2, <3>5
        <4>4. Cardinality(up[i]) \in Nat /\ Cardinality(up[i + 1]) \in Nat
          BY <2>1, <3>2
        <4>5. i \in Nat
          BY <3>2
        <4> QED
          BY <4>2, <4>3, <4>4, <4>5
      <3> QED
        BY <3>4, <3>5
    <2>4. T \subseteq Nat
      OBVIOUS
    <2> HIDE DEF T
    <2>5. n \in T
      BY <1>1, <2>2, <2>3, <2>4, SetInduction
    <2>6. Grown(n)
      BY <1>1, <2>5 DEF T
    <2>7. Cardinality(up[n]) \in Nat /\ Cardinality(up[n]) <= n
      BY <1>1, <2>1
    <2> QED
      BY <1>1, <2>6, <2>7
  <1>8. k \in up[n] /\ up[n] \in SUBSET tok
    BY <1>1, <1>5
  <1> QED
    BY <1>2, <1>6, <1>7, <1>8 DEF tok

\* The ancestors of a token are its own and those of its parent.
LEMMA AboveUnfolds ==
    ASSUME NEW p \in Seq(Int), NEW k \in TokensOf(p)
    PROVE  /\ StopsAt(p, k) => Above(p, k) = {k}
           /\ ~StopsAt(p, k) => Above(p, k) \subseteq {k} \cup Above(p, p[k + 1])
           /\ \A j \in Above(p, k) : Above(p, j) \subseteq Above(p, k)
  <1>1. k \in Above(p, k) /\ Above(p, k) \in SUBSET TokensOf(p) /\ Closed(p, Above(p, k))
    BY AboveLeast
  <1>2. \A C : k \in C /\ Closed(p, C) => Above(p, k) \subseteq C
    BY AboveLeast
  <1>3. ASSUME StopsAt(p, k) PROVE Above(p, k) = {k}
    <2>1. Closed(p, {k})
      BY <1>3 DEF Closed
    <2> QED
      BY <1>1, <1>2, <2>1
  <1>4. ASSUME ~StopsAt(p, k) PROVE Above(p, k) \subseteq {k} \cup Above(p, p[k + 1])
    <2> DEFINE q == p[k + 1]
    <2>1. q \in TokensOf(p)
      BY <1>4, StepsToToken
    <2> HIDE DEF q
    <2>2. q \in Above(p, q) /\ Closed(p, Above(p, q))
      BY <2>1, AboveLeast
    <2> DEFINE C == {k} \cup Above(p, q)
    <2>3. Closed(p, C)
      BY <2>2 DEF Closed, q
    <2>4. k \in C
      OBVIOUS
    <2> HIDE DEF C
    <2>5. Above(p, k) \subseteq C
      BY <1>2, <2>3, <2>4
    <2> QED
      BY <2>5 DEF C, q
  <1>5. ASSUME NEW j \in Above(p, k) PROVE Above(p, j) \subseteq Above(p, k)
    <2>1. j \in TokensOf(p)
      BY <1>1
    <2>2. \A C : j \in C /\ Closed(p, C) => Above(p, j) \subseteq C
      BY <2>1, AboveLeast
    <2> QED
      BY <1>1, <2>2
  <1> QED
    BY <1>3, <1>4, <1>5

\* Min picks the least element of a set of naturals.
LEMMA MinIsLeast ==
    ASSUME NEW S \in SUBSET Nat, S # {}
    PROVE  Min(S) \in S /\ \A x \in S : Min(S) <= x
  <1>1. \E x \in S : \A y \in S : x <= y
    BY LeastExists
  <1> QED
    BY <1>1 DEF Min

\* A token on a cycle has an ancestor that leads it.
LEMMA CycleHasLeader ==
    ASSUME NEW p \in Seq(Int), NEW k \in TokensOf(p), OnCycle(p, k)
    PROVE  \E j \in TokensOf(p) : LeadsCycle(p, j)
  <1> DEFINE S == {j \in Above(p, k) : OnCycle(p, j)}
  <1>1. k \in Above(p, k) /\ Above(p, k) \in SUBSET TokensOf(p)
    BY AboveLeast
  <1>2. S \in SUBSET TokensOf(p) /\ S # {}
    BY <1>1
  <1>3. S \in SUBSET Nat
    BY <1>2 DEF TokensOf
  <1> DEFINE m == Min(S)
  <1> HIDE DEF S
  <1>4. m \in S /\ \A x \in S : m <= x
    BY <1>2, <1>3, MinIsLeast
  <1> HIDE DEF m
  <1>5. m \in TokensOf(p) /\ OnCycle(p, m) /\ m \in Above(p, k)
    BY <1>2, <1>4 DEF S
  <1>6. Above(p, m) \subseteq Above(p, k)
    BY <1>5, AboveUnfolds
  <1>7. \A j \in Above(p, m) : OnCycle(p, j) => m <= j
    BY <1>4, <1>6 DEF S
  <1> QED
    BY <1>5, <1>7 DEF LeadsCycle

\* A token whose ancestors reach a stop is on no cycle.
LEMMA StopBelowNoCycle ==
    ASSUME NEW p \in Seq(Int), NEW k \in TokensOf(p), NEW r \in Above(p, k), StopsAt(p, r)
    PROVE  ~OnCycle(p, k)
  <1> DEFINE D == {j \in TokensOf(p) : k \in Above(p, j)}
  <1>1. SUFFICES ASSUME OnCycle(p, k) PROVE FALSE
    OBVIOUS
  <1>2. ~StopsAt(p, k) /\ k \in Above(p, p[k + 1])
    BY <1>1 DEF OnCycle
  <1>3. k \in Above(p, k) /\ Above(p, k) \in SUBSET TokensOf(p)
    BY AboveLeast
  <1>4. Closed(p, D)
    <2>1. SUFFICES ASSUME NEW j \in D, ~StopsAt(p, j) PROVE p[j + 1] \in D
      BY DEF Closed
    <2>2. p[j + 1] \in TokensOf(p)
      BY <2>1, StepsToToken
    <2>3. Above(p, j) \subseteq {j} \cup Above(p, p[j + 1])
      BY <2>1, AboveUnfolds
    <2>4. k \in Above(p, p[j + 1])
      BY <1>2, <2>1, <2>3
    <2> QED
      BY <2>2, <2>4
  <1>5. k \in D
    BY <1>3
  <1> HIDE DEF D
  <1>6. r \in D
    BY <1>4, <1>5, AboveLeast
  <1>7. r \in TokensOf(p) /\ k \in Above(p, r)
    BY <1>6 DEF D
  <1>8. Above(p, r) = {r}
    BY <1>7, AboveUnfolds
  <1> QED
    BY <1>2, <1>7, <1>8

-------------------------------------------------------------------------------
(* A walk of check_tree_cycles *)

\* The path leads from the start s upwards through tokens that are not done, never
\* twice through one.
OnPath(p, done, s, path) ==
    /\ path \in Seq(TokensOf(p))
    /\ \A i \in 1 .. Len(path) : path[i] \notin done
    /\ \A i, j \in 1 .. Len(path) : path[i] = path[j] => i = j
    /\ \A i \in 1 .. Len(path) - 1 : ~StopsAt(p, path[i]) /\ path[i + 1] = p[path[i] + 1]
    /\ Len(path) > 0 => path[1] = s

\* Where an ended walk ends: at a stop, under a token marked done, or under a
\* token of its own path.
EndsAt(p, done, w) ==
    LET top == w.path[Len(w.path)]
    IN  /\ Len(w.path) > 0
        /\ \/ StopsAt(p, top) /\ w.cycle = <<>>
           \/ ~StopsAt(p, top) /\ p[top + 1] \in done /\ w.cycle = <<>>
           \/ /\ ~StopsAt(p, top)
              /\ \E j \in 1 .. Len(w.path) : /\ p[top + 1] = w.path[j]
                                             /\ w.cycle = SubSeq(w.path, j, Len(w.path))

WalkInv(p, done, s, w) ==
    /\ OnPath(p, done, s, w.path)
    /\ ~w.ended => /\ w.token \in TokensOf(p)
                   /\ Len(w.path) = 0 => w.token = s
                   /\ Len(w.path) > 0 => LET top == w.path[Len(w.path)]
                                         IN  ~StopsAt(p, top) /\ w.token = p[top + 1]
    /\ w.ended => EndsAt(p, done, w)

WalkRecord(p) ==
    [token : Int, path : Seq(TokensOf(p)), ended : BOOLEAN, cycle : Seq(TokensOf(p))]

Walking(p, done, s) == {w \in WalkRecord(p) : WalkInv(p, done, s, w)}

\* A turn of the loop keeps the path as it should be, and makes it one longer
\* unless the walk is over.
LEMMA WalkStepKeeps ==
    ASSUME NEW p \in Seq(Int), NEW done, NEW s \in TokensOf(p) \ done,
           NEW w \in Walking(p, done, s)
    PROVE  /\ WalkStep(p, done, w) \in Walking(p, done, s)
           /\ w.ended => WalkStep(p, done, w).ended
           /\ ~WalkStep(p, done, w).ended => Len(WalkStep(p, done, w).path) = Len(w.path) + 1
  <1> DEFINE x == WalkStep(p, done, w)
             at == {i \in DOMAIN w.path : w.path[i] = w.token}
             tok == TokensOf(p)
             L == Len(w.path)
             top == w.path[L]
  <1>1. w \in WalkRecord(p) /\ WalkInv(p, done, s, w)
    BY DEF Walking
  <1>2. /\ w.path \in Seq(tok) /\ w.token \in Int /\ w.ended \in BOOLEAN /\ w.cycle \in Seq(tok)
        /\ L \in Nat /\ DOMAIN w.path = 1 .. L
    BY <1>1 DEF WalkRecord
  <1>3. OnPath(p, done, s, w.path)
    BY <1>1 DEF WalkInv
  <1>4. CASE w.ended
    <2>1. WalkStep(p, done, w) = w
      BY <1>4 DEF WalkStep
    <2> QED
      BY <1>4, <2>1
  <1>5. CASE ~w.ended
    <2>1. w.token \in tok /\ (L = 0 => w.token = s)
          /\ (L > 0 => ~StopsAt(p, top) /\ w.token = p[top + 1])
      BY <1>1, <1>5 DEF WalkInv
    <2>2. CASE w.token \in done
      <3>1. x = [token |-> w.token, path |-> w.path, ended |-> TRUE, cycle |-> <<>>]
        BY <1>5, <2>2 DEF WalkStep
      <3>2. x \in WalkRecord(p)
        BY <1>2, <3>1 DEF WalkRecord
      <3>3. x.path = w.path /\ x.ended /\ x.cycle = <<>>
        BY <3>1
      <3>4. L > 0
        BY <1>2, <2>1, <2>2
      <3>5. EndsAt(p, done, x)
        BY <2>1, <2>2, <3>3, <3>4 DEF EndsAt
      <3> HIDE DEF x
      <3>6. WalkInv(p, done, s, x)
        BY <1>3, <3>3, <3>5 DEF WalkInv
      <3> QED
        BY <1>5, <3>2, <3>3, <3>6 DEF Walking, x
    <2>3. CASE w.token \notin done /\ at # {}
      <3> DEFINE j == Min(at)
                 cycle == SubSeq(w.path, j, L)
      <3>1. at \in SUBSET Nat
        BY <1>2
      <3>2. j \in at
        <4> HIDE DEF at
        <4> QED
          BY <2>3, <3>1, MinIsLeast
      <3>3. x = [token |-> w.token, path |-> w.path, ended |-> TRUE, cycle |-> cycle]
        BY <1>5, <2>3 DEF WalkStep
      <3>4. j \in 1 .. L /\ w.path[j] = w.token /\ L > 0
        <4>1. j \in 1 .. L /\ w.path[j] = w.token
          BY <1>2, <3>2
        <4> HIDE DEF j, L
        <4> QED
          BY <1>2, <4>1
      <3> HIDE DEF j
      <3>5. cycle \in Seq(tok)
        <4>1. \A i \in j .. L : w.path[i] \in tok
          BY <1>2, <3>4
        <4> QED
          BY <1>2, <3>4, <4>1, SubSeqProperties
      <3> HIDE DEF cycle
      <3>6. x \in WalkRecord(p)
        BY <1>2, <3>3, <3>5 DEF WalkRecord
      <3>7. x.path = w.path /\ x.ended /\ x.cycle = cycle
        BY <3>3
      <3> HIDE DEF x
      <3>8. EndsAt(p, done, x)
        BY <2>1, <3>4, <3>7 DEF EndsAt, cycle
      <3>9. WalkInv(p, done, s, x)
        BY <1>3, <3>7, <3>8 DEF WalkInv
      <3> QED
        BY <1>5, <3>6, <3>7, <3>9 DEF Walking, x
    <2>4. CASE w.token \notin done /\ at = {}
      <3> DEFINE path == Append(w.path, w.token)
                 stops == StopsAt(p, w.token)
      <3>1. x = [token |-> p[w.token + 1], path |-> path, ended |-> stops, cycle |-> <<>>]
        BY <1>5, <2>4 DEF WalkStep
      <3>2. path \in Seq(tok) /\ Len(path) = L + 1 /\ path[L + 1] = w.token
            /\ \A i \in 1 .. L : path[i] = w.path[i]
        BY <1>2, <2>1
      <3>3. w.token + 1 \in 1 .. Len(p) /\ p[w.token + 1] \in Int /\ stops \in BOOLEAN
        BY <2>1 DEF TokensOf, StopsAt
      <3>4. \A i \in 1 .. L : w.path[i] # w.token
        BY <1>2, <2>4
      <3> HIDE DEF path, stops, at
      <3>5. x \in WalkRecord(p)
        BY <3>1, <3>2, <3>3 DEF WalkRecord
      <3>6. x.path = path /\ x.ended = stops /\ x.cycle = <<>> /\ x.token = p[w.token + 1]
        BY <3>1
      <3>7. OnPath(p, done, s, path)
        <4>1. \A i \in 1 .. L + 1 : i = L + 1 \/ i \in 1 .. L
          BY <1>2
        <4>2. \A i \in 1 .. L + 1 : path[i] \notin done
          BY <1>3, <2>4, <3>2, <4>1 DEF OnPath
        <4>3. \A i, j \in 1 .. L + 1 : path[i] = path[j] => i = j
          BY <1>3, <3>2, <3>4, <4>1 DEF OnPath
        <4>4. ASSUME NEW i \in 1 .. L
              PROVE  ~StopsAt(p, path[i]) /\ path[i + 1] = p[path[i] + 1]
          <5>1. CASE i = L
            BY <1>2, <2>1, <3>2, <5>1
          <5>2. CASE i # L
            <6>1. i \in 1 .. L - 1 /\ i + 1 \in 1 .. L
              BY <1>2, <5>2
            <6>2. ~StopsAt(p, w.path[i]) /\ w.path[i + 1] = p[w.path[i] + 1]
              BY <1>3, <6>1 DEF OnPath
            <6> QED
              BY <3>2, <6>1, <6>2
          <5> QED
            BY <5>1, <5>2
        <4>5. path[1] = s
          <5>1. CASE L = 0
            BY <2>1, <3>2, <5>1
          <5>2. CASE L # 0
            <6>1. 1 \in 1 .. L /\ L > 0
              BY <1>2, <5>2
            <6> QED
              BY <1>3, <3>2, <6>1 DEF OnPath
          <5> QED
            BY <5>1, <5>2
        <4>6. (L + 1) - 1 = L
          BY <1>2
        <4> QED
          BY <3>2, <4>2, <4>3, <4>4, <4>5, <4>6 DEF OnPath
      <3> HIDE DEF x
      <3>8. x.path[Len(x.path)] = w.token /\ Len(x.path) > 0 /\ Len(x.path) # 0
        BY <1>2, <3>2, <3>6
      <3>9. x.ended => EndsAt(p, done, x)
        BY <3>6, <3>8 DEF EndsAt, stops
      <3>10. ~x.ended => x.token \in TokensOf(p)
        BY <2>1, <3>6, StepsToToken DEF stops
      <3>11. WalkInv(p, done, s, x)
        BY <3>6, <3>7, <3>8, <3>9, <3>10 DEF WalkInv, stops
      <3> QED
        BY <1>5, <3>2, <3>5, <3>6, <3>11 DEF Walking, x
    <2> QED
      BY <2>2, <2>3, <2>4
  <1> QED
    BY <1>2, <1>4, <1>5

\* A sequence of tokens that repeats none is no longer than the list.
LEMMA PathFits ==
    ASSUME NEW p \in Seq(Int), NEW path \in Seq(TokensOf(p)),
           \A i, j \in 1 .. Len(path) : path[i] = path[j] => i = j
    PROVE  Len(path) <= Len(p)
  <1>1. SUFFICES ASSUME Len(path) > Len(p) PROVE FALSE
    OBVIOUS
  <1> DEFINE S == 1 .. Len(path)
  <1>2. IsFiniteSet(S) /\ Cardinality(S) = Len(path)
    <2> DEFINE L == Len(path)
    <2>1. L \in Nat /\ L \in Int /\ 1 \in Int
      OBVIOUS
    <2> HIDE DEF L
    <2>2. IsFiniteSet(1 .. L)
      BY <2>1, FS_Interval
    <2>3. Cardinality(1 .. L) = IF 1 > L THEN 0 ELSE L - 1 + 1
      BY <2>1, FS_Interval
    <2>4. Cardinality(1 .. L) = L
      BY <2>1, <2>3
    <2> QED
      BY <2>2, <2>4 DEF L
  <1>3. IsFiniteSet(TokensOf(p)) /\ Cardinality(TokensOf(p)) = Len(p)
    BY TokensFinite
  <1>4. path \in [S -> TokensOf(p)]
    OBVIOUS
  <1>5. Cardinality(TokensOf(p)) < Cardinality(S)
    BY <1>1, <1>2, <1>3
  <1> HIDE DEF S
  <1>6. \E x, y \in S : x # y /\ path[x] = path[y]
    BY <1>2, <1>3, <1>4, <1>5, FS_PigeonHole
  <1> QED
    BY <1>6 DEF S

\* The loop ends within the turns of Walk, which leaves what WalkInv says.
LEMMA WalkEnds ==
    ASSUME NEW p \in Seq(Int), NEW done, NEW s \in TokensOf(p) \ done
    PROVE  /\ Walk(p, done, s) \in Walking(p, done, s)
           /\ Walk(p, done, s).ended
  <1> DEFINE n == Len(p) + 1
             S == Walking(p, done, s)
             base == [token |-> s, path |-> <<>>, ended |-> FALSE, cycle |-> <<>>]
             step == [i \in 1 .. n |-> [x \in S |-> WalkStep(p, done, x)]]
             IsWalk(u) == u = [m \in 0 .. n |-> IF m = 0 THEN base
                                                ELSE WalkStep(p, done, u[m - 1])]
             walk == CHOOSE u : IsWalk(u)
  <1>1. n \in Nat /\ Len(p) \in Nat
    OBVIOUS
  <1>2. Walk(p, done, s) = walk[n]
    BY DEF Walk
  <1>3. base \in S /\ ~base.ended /\ Len(base.path) = 0
    <2>1. base \in WalkRecord(p)
      BY DEF WalkRecord, TokensOf
    <2>2. base.token = s /\ base.path = <<>> /\ ~base.ended
      OBVIOUS
    <2> HIDE DEF base
    <2>3. Len(<<>>) = 0 /\ <<>> \in Seq(TokensOf(p))
      OBVIOUS
    <2>4. OnPath(p, done, s, <<>>)
      BY <2>3 DEF OnPath
    <2>5. WalkInv(p, done, s, base)
      BY <2>2, <2>3, <2>4 DEF WalkInv
    <2> QED
      BY <2>1, <2>2, <2>3, <2>5 DEF Walking
  <1> HIDE DEF base
  <1>4. ASSUME NEW x \in S PROVE WalkStep(p, done, x) \in S
    BY WalkStepKeeps
  <1>5. ASSUME NEW x \in S, ~WalkStep(p, done, x).ended
        PROVE  ~x.ended /\ Len(WalkStep(p, done, x).path) = Len(x.path) + 1
    BY <1>5, WalkStepKeeps
  <1> HIDE DEF S, n
  <1>6. step \in [1 .. n -> [S -> S]]
    BY <1>4
  <1>7. \E u : IsWalk(u)
    <2>1. \A i \in 1 .. n : \A x \in S : step[i][x] = WalkStep(p, done, x)
      OBVIOUS
    <2> HIDE DEF step
    <2>2. PICK f \in [0 .. n -> S] : Recursive(f, base, n, step)
      BY <1>1, <1>3, <1>6, RecursionExists
    <2>3. f[0] = base /\ \A i \in 1 .. n : f[i] = step[i][f[i-1]]
      BY <2>2 DEF Recursive
    <2>4. \A m \in 0 .. n : m # 0 => m \in 1 .. n /\ m - 1 \in 0 .. n
      BY <1>1
    <2>5. \A m \in 0 .. n : m # 0 => f[m] = WalkStep(p, done, f[m - 1])
      BY <2>1, <2>3, <2>4
    <2>6. IsWalk(f)
      BY <2>2, <2>3, <2>5
    <2> QED
      BY <2>6
  <1>8. IsWalk(walk)
    <2> HIDE DEF IsWalk
    <2> QED
      BY <1>7
  <1> HIDE DEF walk
  <1>9. walk[0] = base /\ \A i \in 1 .. n : walk[i] = WalkStep(p, done, walk[i-1])
    <2> DEFINE body == [m \in 0 .. n |-> IF m = 0 THEN base ELSE WalkStep(p, done, walk[m - 1])]
    <2>1. walk = body
      BY <1>8
    <2>2. \A m \in 0 .. n : body[m] = IF m = 0 THEN base ELSE WalkStep(p, done, walk[m - 1])
      OBVIOUS
    <2> HIDE DEF body
    <2>3. 0 \in 0 .. n /\ \A i \in 1 .. n : i \in 0 .. n /\ i # 0
      BY <1>1
    <2> QED
      BY <2>1, <2>2, <2>3, Zenon
  <1>10. \A i \in 0 .. n : walk[i] \in S
    <2>1. walk[0] \in S
      BY <1>3, <1>9
    <2>2. \A i \in 1 .. n : walk[i-1] \in S => walk[i] \in S
      BY <1>4, <1>9
    <2> QED
      BY <1>1, <2>1, <2>2, BoundedInduction
  <1>11. ~walk[n].ended => Len(walk[n].path) = n
    <2> DEFINE T == {i \in Nat : i <= n => (~walk[i].ended => Len(walk[i].path) = i)}
    <2>1. 0 \in T
      BY <1>3, <1>9
    <2>2. ASSUME NEW i \in T PROVE i + 1 \in T
      <3>1. SUFFICES ASSUME i + 1 <= n, ~walk[i + 1].ended PROVE Len(walk[i + 1].path) = i + 1
        OBVIOUS
      <3>2. i + 1 \in 1 .. n /\ (i + 1) - 1 = i /\ i \in 0 .. n /\ i <= n
        BY <1>1, <3>1
      <3>3. walk[i + 1] = WalkStep(p, done, walk[i]) /\ walk[i] \in S
        BY <1>9, <1>10, <3>2
      <3>4. ~walk[i].ended /\ Len(walk[i + 1].path) = Len(walk[i].path) + 1
        BY <1>5, <3>1, <3>3
      <3> QED
        BY <3>2, <3>4
    <2>3. T \subseteq Nat
      OBVIOUS
    <2> HIDE DEF T
    <2>4. n \in T
      BY <1>1, <2>1, <2>2, <2>3, SetInduction
    <2> QED
      BY <1>1, <2>4 DEF T
  <1>12. walk[n] \in S
    BY <1>1, <1>10
  <1>13. walk[n].ended
    <2>1. SUFFICES ASSUME ~walk[n].ended PROVE FALSE
      OBVIOUS
    <2>2. OnPath(p, done, s, walk[n].path)
      BY <1>12 DEF S, Walking, WalkInv
    <2>3. Len(walk[n].path) <= Len(p)
      BY <2>2, PathFits DEF OnPath
    <2> QED
      BY <1>1, <1>11, <2>1, <2>3 DEF n
  <1> QED
    BY <1>2, <1>12, <1>13 DEF S

-------------------------------------------------------------------------------
(* What a walk finds *)

\* A closed set that holds a token of the path holds the rest of the path.
LEMMA PathStaysIn ==
    ASSUME NEW p \in Seq(Int), NEW done, NEW s, NEW path,
           OnPath(p, done, s, path),
           NEW C, Closed(p, C), NEW i \in 1 .. Len(path), path[i] \in C
    PROVE  \A m \in i .. Len(path) : path[m] \in C
  <1> DEFINE n == Len(path)
             T == {m \in Nat : i + m <= n => path[i + m] \in C}
  <1>1. n \in Nat /\ i \in Nat
    BY DEF OnPath
  <1> HIDE DEF n
  <1>2. 0 \in T
    BY <1>1
  <1>3. ASSUME NEW m \in T PROVE m + 1 \in T
    <2>1. SUFFICES ASSUME i + (m + 1) <= n PROVE path[i + (m + 1)] \in C
      BY <1>1
    <2>2. i + m \in 1 .. n - 1 /\ (i + m) + 1 = i + (m + 1) /\ i + m <= n
      BY <1>1, <2>1 DEF n
    <2>3. path[i + m] \in C
      BY <2>2
    <2>4. ~StopsAt(p, path[i + m]) /\ path[(i + m) + 1] = p[path[i + m] + 1]
      BY <2>2 DEF OnPath, n
    <2> QED
      BY <2>2, <2>3, <2>4 DEF Closed
  <1>4. T \subseteq Nat
    OBVIOUS
  <1> HIDE DEF T
  <1>5. Nat \subseteq T
    BY <1>2, <1>3, <1>4, SetInduction
  <1>6. ASSUME NEW m \in i .. n PROVE path[m] \in C
    <2>1. m - i \in Nat /\ i + (m - i) = m /\ m <= n
      BY <1>1
    <2>2. m - i \in T
      BY <1>5, <2>1
    <2>3. i + (m - i) <= n => path[i + (m - i)] \in C
      BY <2>2 DEF T
    <2> QED
      BY <2>1, <2>3
  <1> QED
    BY <1>6 DEF n

\* A token of the path is on no cycle unless the walk came back to it or to
\* one before it: its parent leads to the rest of the path and to done tokens.
LEMMA PathOffCycle ==
    ASSUME NEW p \in Seq(Int), NEW done \in SUBSET TokensOf(p), Closed(p, done), NEW s, NEW path,
           OnPath(p, done, s, path), NEW i \in 1 .. Len(path),
           LET top == path[Len(path)]
           IN  StopsAt(p, top) \/ p[top + 1] \in done
               \/ \E j \in i + 1 .. Len(path) : p[top + 1] = path[j]
    PROVE  ~OnCycle(p, path[i])
  <1> DEFINE L == Len(path)
             top == path[L]
             rest == {path[m] : m \in i + 1 .. L}
             C == done \cup rest
  <1>1. L \in Nat /\ i \in 1 .. L /\ L \in 1 .. L /\ \A m \in 1 .. L : path[m] \in TokensOf(p)
    BY DEF OnPath
  <1>2. StopsAt(p, top) \/ p[top + 1] \in done \/ \E j \in i + 1 .. L : p[top + 1] = path[j]
    OBVIOUS
  <1>3. \A m \in 1 .. L - 1 : ~StopsAt(p, path[m]) /\ path[m + 1] = p[path[m] + 1]
    BY DEF OnPath
  <1>4. SUFFICES ASSUME OnCycle(p, path[i]) PROVE FALSE
    OBVIOUS
  <1>5. ~StopsAt(p, path[i]) /\ path[i] \in Above(p, p[path[i] + 1])
    BY <1>4 DEF OnCycle
  <1>6. path[i] \notin C
    BY DEF OnPath
  <1> HIDE DEF L
  <1>7. ASSUME NEW m \in i .. L, ~StopsAt(p, path[m]) PROVE p[path[m] + 1] \in C
    <2>1. CASE m = L
      BY <1>2, <1>7, <2>1
    <2>2. CASE m # L
      <3>1. m \in 1 .. L - 1 /\ m + 1 \in i + 1 .. L
        BY <1>1, <2>2
      <3> QED
        BY <1>3, <3>1
    <2> QED
      BY <2>1, <2>2
  <1>8. Closed(p, C)
    <2>1. \A m \in i + 1 .. L : m \in i .. L
      BY <1>1
    <2> QED
      BY <1>7, <2>1 DEF Closed
  <1> DEFINE q == p[path[i] + 1]
  <1>9. q \in C /\ q \in TokensOf(p)
    <2>1. i \in i .. L
      BY <1>1
    <2> QED
      BY <1>1, <1>5, <1>7, <2>1, StepsToToken
  <1> HIDE DEF q, C
  <1>10. Above(p, q) \subseteq C
    BY <1>8, <1>9, AboveLeast
  <1> QED
    BY <1>5, <1>6, <1>10 DEF q

\* The path from its j-th token on is a cycle.
CycleFrom(p, path, j) ==
    \A m \in j .. Len(path) : /\ OnCycle(p, path[m])
                              /\ Above(p, path[m]) = {path[x] : x \in j .. Len(path)}

\* Where a walk came back to, a cycle starts, and it is the rest of the path.
LEMMA PathOnCycle ==
    ASSUME NEW p \in Seq(Int), NEW done, NEW s, NEW path,
           OnPath(p, done, s, path), NEW j \in 1 .. Len(path),
           ~StopsAt(p, path[Len(path)]), p[path[Len(path)] + 1] = path[j]
    PROVE  CycleFrom(p, path, j)
  <1> DEFINE L == Len(path)
             Cy == {path[x] : x \in j .. L}
  <1>1. L \in Nat /\ j \in 1 .. L /\ j \in Nat /\ L \in j .. L
        /\ \A m \in 1 .. L : path[m] \in TokensOf(p)
    BY DEF OnPath
  <1>2. \A m \in 1 .. L - 1 : ~StopsAt(p, path[m]) /\ path[m + 1] = p[path[m] + 1]
    BY DEF OnPath
  <1>3. ~StopsAt(p, path[L]) /\ p[path[L] + 1] = path[j]
    OBVIOUS
  <1> HIDE DEF L
  <1>4. ASSUME NEW m \in j .. L
        PROVE  /\ ~StopsAt(p, path[m])
               /\ \E x \in j .. L : p[path[m] + 1] = path[x]
    <2>1. CASE m = L
      <3>1. j \in j .. L
        BY <1>1
      <3> QED
        BY <1>3, <2>1, <3>1
    <2>2. CASE m # L
      <3>1. m \in 1 .. L - 1 /\ m + 1 \in j .. L
        BY <1>1, <2>2
      <3> QED
        BY <1>2, <3>1
    <2> QED
      BY <2>1, <2>2
  <1>5. Closed(p, Cy)
    BY <1>4 DEF Closed
  <1>6. ASSUME NEW m \in j .. L PROVE Above(p, path[m]) = Cy
    <2> DEFINE A == Above(p, path[m])
    <2>1. path[m] \in TokensOf(p) /\ m \in 1 .. L
      BY <1>1
    <2>2. path[m] \in A /\ Closed(p, A)
      BY <2>1, AboveLeast
    <2>3. path[m] \in Cy
      OBVIOUS
    <2>4. A \subseteq Cy
      <3> HIDE DEF Cy
      <3> QED
        BY <1>5, <2>1, <2>3, AboveLeast
    <2> HIDE DEF A
    <2>5. path[L] \in A
      <3>1. L \in m .. L
        BY <1>1
      <3> QED
        BY <2>1, <2>2, <3>1, PathStaysIn DEF L
    <2>6. path[j] \in A
      BY <1>3, <2>2, <2>5 DEF Closed
    <2>7. \A x \in j .. L : path[x] \in A
      BY <1>1, <2>2, <2>6, PathStaysIn DEF L
    <2>8. Cy \subseteq A
      BY <2>7
    <2> QED
      BY <2>4, <2>8 DEF A
  <1>7. ASSUME NEW m \in j .. L PROVE OnCycle(p, path[m])
    <2>1. PICK x \in j .. L : p[path[m] + 1] = path[x]
      BY <1>4
    <2>2. Above(p, path[x]) = Cy
      BY <1>6
    <2>3. path[m] \in Cy
      OBVIOUS
    <2> HIDE DEF Cy
    <2> QED
      BY <1>4, <2>1, <2>2, <2>3 DEF OnCycle
  <1> QED
    BY <1>6, <1>7 DEF L, CycleFrom

\* The elements of a tail of a sequence.
LEMMA SubSeqSet ==
    ASSUME NEW S, NEW q \in Seq(S), NEW j \in 1 .. Len(q)
    PROVE  ToSet(SubSeq(q, j, Len(q))) = {q[x] : x \in j .. Len(q)}
  <1> DEFINE L == Len(q)
             t == SubSeq(q, j, L)
  <1>1. L \in Nat /\ j \in 1 .. L /\ j \in Int /\ L \in Int /\ \A i \in j .. L : q[i] \in S
    OBVIOUS
  <1>2. t \in Seq(S) /\ Len(t) = L - j + 1 /\ \A i \in 1 .. L - j + 1 : t[i] = q[j + i - 1]
    <2> HIDE DEF L
    <2>1. t \in Seq(S)
      BY <1>1, SubSeqProperties
    <2>2. Len(t) = IF j <= L THEN L - j + 1 ELSE 0
      BY <1>1, SubSeqProperties
    <2>3. \A i \in 1 .. L - j + 1 : t[i] = q[j + i - 1]
      BY <1>1, SubSeqProperties
    <2> QED
      BY <1>1, <2>1, <2>2, <2>3
  <1> HIDE DEF t
  <1>3. ToSet(t) = {t[i] : i \in 1 .. Len(t)}
    BY <1>2 DEF ToSet
  <1> HIDE DEF L
  <1>4. \A i \in 1 .. L - j + 1 : j + i - 1 \in j .. L
    BY <1>1
  <1>5. \A x \in j .. L : x - j + 1 \in 1 .. L - j + 1 /\ j + (x - j + 1) - 1 = x
    BY <1>1
  <1>6. \A x \in j .. L : t[x - j + 1] = q[x]
    BY <1>2, <1>5
  <1>7. ToSet(t) \subseteq {q[x] : x \in j .. L}
    BY <1>2, <1>3, <1>4
  <1>8. {q[x] : x \in j .. L} \subseteq ToSet(t)
    BY <1>2, <1>3, <1>5, <1>6
  <1> QED
    BY <1>7, <1>8 DEF t, L

\* What an ended walk adds to the marks: a closed set again, and among the new
\* tokens exactly the reported one leads a cycle.
LEMMA WalkFinds ==
    ASSUME NEW p \in Seq(Int), NEW done \in SUBSET TokensOf(p), Closed(p, done),
           NEW s \in TokensOf(p) \ done, NEW w \in Walking(p, done, s), w.ended
    PROVE  /\ ToSet(w.path) \in SUBSET (TokensOf(p) \ done)
           /\ s \in ToSet(w.path)
           /\ Closed(p, done \cup ToSet(w.path))
           /\ \/ LowestOf(w.cycle) = <<>> /\ \A t \in ToSet(w.path) : ~OnCycle(p, t)
              \/ \E c \in ToSet(w.path) :
                    /\ LowestOf(w.cycle) = <<c>>
                    /\ \A t \in ToSet(w.path) : LeadsCycle(p, t) <=> t = c
  <1> DEFINE path == w.path
             L == Len(path)
             top == path[L]
             set == ToSet(path)
  <1>1. OnPath(p, done, s, path) /\ EndsAt(p, done, w)
    BY DEF Walking, WalkInv
  <1>2. path \in Seq(TokensOf(p)) /\ L \in Nat /\ L > 0 /\ 1 \in 1 .. L /\ L \in 1 .. L
    BY <1>1 DEF OnPath, EndsAt
  <1>3. set = {path[i] : i \in 1 .. L}
    BY <1>2 DEF ToSet
  <1>4. \A i \in 1 .. L - 1 : ~StopsAt(p, path[i]) /\ path[i + 1] = p[path[i] + 1]
    BY <1>1 DEF OnPath
  <1>5. \/ StopsAt(p, top) /\ w.cycle = <<>>
        \/ ~StopsAt(p, top) /\ p[top + 1] \in done /\ w.cycle = <<>>
        \/ /\ ~StopsAt(p, top)
           /\ \E j \in 1 .. L : p[top + 1] = path[j] /\ w.cycle = SubSeq(path, j, L)
    BY <1>1 DEF EndsAt
  <1>6. set \in SUBSET (TokensOf(p) \ done)
    BY <1>1, <1>2, <1>3 DEF OnPath
  <1>7. s \in set
    BY <1>1, <1>2, <1>3 DEF OnPath
  <1>8. Closed(p, done \cup set)
    <2>1. ASSUME NEW i \in 1 .. L, ~StopsAt(p, path[i]) PROVE p[path[i] + 1] \in done \cup set
      <3>1. CASE i = L
        BY <1>3, <1>5, <2>1, <3>1
      <3>2. CASE i # L
        <4>1. i \in 1 .. L - 1 /\ i + 1 \in 1 .. L
          BY <1>2, <3>2
        <4> QED
          BY <1>3, <1>4, <4>1
      <3> QED
        BY <3>1, <3>2
    <2> HIDE DEF set
    <2> QED
      BY <1>3, <2>1 DEF Closed
  <1> HIDE DEF set, L
  <1>9. CASE (StopsAt(p, top) \/ p[top + 1] \in done) /\ w.cycle = <<>>
    <2>1. LowestOf(w.cycle) = <<>>
      BY <1>9 DEF LowestOf
    <2>2. \A i \in 1 .. L : ~OnCycle(p, path[i])
      BY <1>1, <1>9, PathOffCycle DEF L
    <2> QED
      BY <1>3, <1>6, <1>7, <1>8, <2>1, <2>2 DEF set
  <1>10. ASSUME NEW j \in 1 .. L, ~StopsAt(p, top), p[top + 1] = path[j],
                w.cycle = SubSeq(path, j, L)
         PROVE  \E c \in set : /\ LowestOf(w.cycle) = <<c>>
                               /\ \A t \in set : LeadsCycle(p, t) <=> t = c
    <2> DEFINE Cy == {path[x] : x \in j .. L}
               c == Min(Cy)
    <2>1. ToSet(w.cycle) = Cy
      BY <1>2, <1>10, SubSeqSet DEF L
    <2>2. \A m \in j .. L : OnCycle(p, path[m]) /\ Above(p, path[m]) = Cy
      <3> HIDE DEF path
      <3>1. CycleFrom(p, path, j)
        <4>1. /\ OnPath(p, done, s, path) /\ j \in 1 .. Len(path)
              /\ ~StopsAt(p, path[Len(path)]) /\ p[path[Len(path)] + 1] = path[j]
          BY <1>1, <1>10 DEF L
        <4> QED
          BY <4>1, PathOnCycle
      <3> QED
        BY <3>1 DEF L, CycleFrom
    <2>3. \A i \in 1 .. L : i < j => ~OnCycle(p, path[i])
      <3>1. SUFFICES ASSUME NEW i \in 1 .. L, i < j PROVE ~OnCycle(p, path[i])
        OBVIOUS
      <3>2. j \in i + 1 .. L
        BY <1>2, <3>1
      <3> QED
        BY <1>1, <1>10, <3>2, PathOffCycle DEF L
    <2>4. \A x \in j .. L : x \in 1 .. L
      BY <1>2
    <2>5. Cy \in SUBSET set
      BY <1>3, <2>4
    <2>6. Cy # {}
      <3>1. j \in j .. L
        BY <1>2
      <3> QED
        BY <3>1
    <2>7. set \in SUBSET Nat
      BY <1>6 DEF TokensOf
    <2>8. \A t \in Cy : OnCycle(p, t) /\ Above(p, t) = Cy
      <3>1. TAKE t \in Cy
      <3>2. PICK x \in j .. L : t = path[x]
        OBVIOUS
      <3> QED
        BY <2>2, <3>2
    <2>9. \A t \in set : t \notin Cy => ~OnCycle(p, t)
      <3>1. SUFFICES ASSUME NEW t \in set, t \notin Cy PROVE ~OnCycle(p, t)
        OBVIOUS
      <3>2. PICK i \in 1 .. L : t = path[i]
        BY <1>3
      <3>3. i < j
        BY <1>2, <3>1, <3>2
      <3> QED
        BY <2>3, <3>2, <3>3
    <2> HIDE DEF Cy
    <2>10. c \in Cy /\ \A t \in Cy : c <= t
      BY <2>5, <2>6, <2>7, MinIsLeast
    <2>11. LowestOf(w.cycle) = <<c>>
      <3>1. ToSet(<<>>) = {}
        BY DEF ToSet
      <3>2. w.cycle # <<>>
        BY <2>1, <2>6, <3>1
      <3> QED
        BY <2>1, <3>2 DEF LowestOf
    <2> HIDE DEF c
    <2>12. ASSUME NEW t \in set PROVE LeadsCycle(p, t) <=> t = c
      <3>1. CASE t \notin Cy
        BY <2>9, <2>10, <3>1 DEF LeadsCycle
      <3>2. CASE t \in Cy
        <4>1. LeadsCycle(p, t) <=> \A x \in Cy : t <= x
          BY <2>8, <3>2 DEF LeadsCycle
        <4>2. c \in Nat /\ t \in Nat
          BY <2>5, <2>7, <2>10
        <4> QED
          BY <2>10, <3>2, <4>1, <4>2
      <3> QED
        BY <3>1, <3>2
    <2> QED
      BY <2>5, <2>10, <2>11, <2>12
  <1>11. CASE ~StopsAt(p, top) /\ \E j \in 1 .. L : p[top + 1] = path[j] /\ w.cycle = SubSeq(path, j, L)
    <2>1. PICK j \in 1 .. L : p[top + 1] = path[j] /\ w.cycle = SubSeq(path, j, L)
      BY <1>11
    <2>2. \E c \in set : /\ LowestOf(w.cycle) = <<c>>
                         /\ \A t \in set : LeadsCycle(p, t) <=> t = c
      BY <1>10, <1>11, <2>1
    <2> QED
      BY <1>6, <1>7, <1>8, <2>2 DEF set
  <1> QED
    BY <1>5, <1>9, <1>11

-------------------------------------------------------------------------------
(* What the marks mean between two walks *)

\* With the walks from the tokens below k done: those tokens are marked, the
\* marked ones are closed, and their cycles are reported, each once.
Marks(p) == [done : SUBSET TokensOf(p), cycles : Seq(TokensOf(p))]

MarkInv(p, k, a) ==
    /\ a \in Marks(p)
    /\ \A t \in TokensOf(p) : t < k => t \in a.done
    /\ Closed(p, a.done)
    /\ ToSet(a.cycles) = {t \in a.done : LeadsCycle(p, t)}
    /\ \A i, j \in 1 .. Len(a.cycles) : a.cycles[i] = a.cycles[j] => i = j

\* One iteration of the outer loop.
VisitFrom(p, k, a) == IF k \in a.done THEN a ELSE Visit(p, a, k)

LEMMA VisitKeeps ==
    ASSUME NEW p \in Seq(Int), NEW k \in TokensOf(p), NEW a, MarkInv(p, k, a)
    PROVE  MarkInv(p, k + 1, VisitFrom(p, k, a))
  <1>1. a \in Marks(p) /\ a.done \in SUBSET TokensOf(p) /\ a.cycles \in Seq(TokensOf(p))
    BY DEF MarkInv, Marks
  <1>2. \A t \in TokensOf(p) : t < k + 1 => t = k \/ t < k
    BY DEF TokensOf
  <1>3. CASE k \in a.done
    BY <1>2, <1>3 DEF MarkInv, VisitFrom
  <1>4. CASE k \notin a.done
    <2> DEFINE w == Walk(p, a.done, k)
               b == VisitFrom(p, k, a)
               new == ToSet(w.path)
               low == LowestOf(w.cycle)
    <2>1. b = [done |-> a.done \cup new, cycles |-> a.cycles \o low]
      BY <1>4 DEF VisitFrom, Visit
    <2>2. w \in Walking(p, a.done, k) /\ w.ended
      BY <1>4, WalkEnds
    <2>3. Closed(p, a.done)
      BY DEF MarkInv
    <2> HIDE DEF w
    <2>4. /\ new \in SUBSET (TokensOf(p) \ a.done)
          /\ k \in new
          /\ Closed(p, a.done \cup new)
          /\ \/ low = <<>> /\ \A t \in new : ~OnCycle(p, t)
             \/ \E c \in new : low = <<c>> /\ \A t \in new : LeadsCycle(p, t) <=> t = c
      BY <1>1, <1>4, <2>2, <2>3, WalkFinds
    <2> HIDE DEF new, low, b
    <2>5. ToSet(a.cycles) = {t \in a.done : LeadsCycle(p, t)}
          /\ \A i, j \in 1 .. Len(a.cycles) : a.cycles[i] = a.cycles[j] => i = j
      BY DEF MarkInv
    <2>6. b.done = a.done \cup new /\ b.cycles = a.cycles \o low
      BY <2>1
    <2>7. \A t \in TokensOf(p) : t < k + 1 => t \in b.done
      BY <1>2, <2>4, <2>6 DEF MarkInv
    <2>8. CASE low = <<>> /\ \A t \in new : ~OnCycle(p, t)
      <3>1. a.cycles \o low = a.cycles
        BY <1>1, <2>8
      <3>2. b \in Marks(p)
        BY <1>1, <2>1, <2>4, <3>1 DEF Marks
      <3>3. {t \in b.done : LeadsCycle(p, t)} = {t \in a.done : LeadsCycle(p, t)}
        BY <2>6, <2>8 DEF LeadsCycle
      <3>4. MarkInv(p, k + 1, b)
        BY <2>4, <2>5, <2>6, <2>7, <3>1, <3>2, <3>3 DEF MarkInv
      <3> QED
        BY <3>4 DEF b
    <2>9. ASSUME NEW c \in new, low = <<c>>, \A t \in new : LeadsCycle(p, t) <=> t = c
          PROVE  MarkInv(p, k + 1, b)
      <3> DEFINE L == Len(a.cycles)
                 cycles == Append(a.cycles, c)
      <3>1. c \in TokensOf(p) /\ c \notin a.done
        BY <2>4
      <3>2. a.cycles \o low = cycles
        BY <1>1, <2>9, <3>1
      <3>3. /\ L \in Nat /\ cycles \in Seq(TokensOf(p)) /\ Len(cycles) = L + 1
            /\ cycles[L + 1] = c /\ \A i \in 1 .. L : cycles[i] = a.cycles[i]
        BY <1>1, <3>1
      <3> HIDE DEF cycles
      <3>4. ToSet(a.cycles) = {a.cycles[i] : i \in 1 .. L}
        BY <1>1 DEF ToSet
      <3>5. ToSet(cycles) = {cycles[i] : i \in 1 .. L + 1}
        BY <3>3 DEF ToSet
      <3> HIDE DEF L
      <3>6. \A i \in 1 .. L + 1 : i = L + 1 \/ i \in 1 .. L
        BY <3>3
      <3>7. L + 1 \in 1 .. L + 1 /\ \A i \in 1 .. L : i \in 1 .. L + 1
        BY <3>3
      <3>8. ToSet(cycles) = ToSet(a.cycles) \cup {c}
        BY <3>3, <3>4, <3>5, <3>6, <3>7
      <3>9. \A i \in 1 .. L : a.cycles[i] # c
        BY <2>5, <3>1, <3>4
      <3>10. \A i, j \in 1 .. L + 1 : cycles[i] = cycles[j] => i = j
        BY <2>5, <3>3, <3>6, <3>9 DEF L
      <3>11. {t \in b.done : LeadsCycle(p, t)} = {t \in a.done : LeadsCycle(p, t)} \cup {c}
        BY <2>6, <2>9
      <3>12. b \in Marks(p)
        BY <1>1, <2>1, <2>4, <3>2, <3>3 DEF Marks
      <3>13. b.cycles = cycles
        BY <2>6, <3>2
      <3>14. ToSet(b.cycles) = {t \in b.done : LeadsCycle(p, t)}
        BY <2>5, <3>8, <3>11, <3>13
      <3>15. \A i, j \in 1 .. Len(b.cycles) : b.cycles[i] = b.cycles[j] => i = j
        BY <3>3, <3>10, <3>13
      <3>16. Closed(p, b.done)
        BY <2>4, <2>6
      <3> QED
        BY <2>7, <3>12, <3>14, <3>15, <3>16 DEF MarkInv
    <2> QED
      BY <2>4, <2>8, <2>9 DEF b
  <1> QED
    BY <1>3, <1>4

NoMarks == [done |-> {}, cycles |-> <<>>]

LEMMA NoMarksInv ==
    ASSUME NEW p \in Seq(Int)
    PROVE  MarkInv(p, 0, NoMarks)
  <1>1. NoMarks \in Marks(p) /\ NoMarks.done = {} /\ NoMarks.cycles = <<>>
    BY DEF NoMarks, Marks
  <1> HIDE DEF NoMarks
  <1>2. \A t \in TokensOf(p) : ~(t < 0)
    BY DEF TokensOf
  <1>3. ToSet(<<>>) = {} /\ Len(<<>>) = 0
    BY DEF ToSet
  <1> QED
    BY <1>1, <1>2, <1>3 DEF MarkInv, Closed

\* The recursion of VisitsTo takes one iteration after the other, and MarkInv
\* holds between any two.
LEMMA VisitsSteps ==
    ASSUME NEW p \in Seq(Int)
    PROVE  /\ VisitsTo(p, 0) = NoMarks
           /\ \A i \in 1 .. Len(p) : VisitsTo(p, i) = VisitFrom(p, i - 1, VisitsTo(p, i - 1))
           /\ \A i \in 0 .. Len(p) : MarkInv(p, i, VisitsTo(p, i))
  <1> DEFINE n == Len(p)
             IsFrom(u) == u = [i \in 0 .. n |-> IF i = 0 THEN [done |-> {}, cycles |-> <<>>]
                                                ELSE IF i - 1 \in u[i - 1].done THEN u[i - 1]
                                                ELSE Visit(p, u[i - 1], i - 1)]
             from == CHOOSE u : IsFrom(u)
  <1>1. n \in Nat
    OBVIOUS
  <1>2. \A k : VisitsTo(p, k) = from[k]
    BY DEF VisitsTo
  <1>3. \A u : IsFrom(u) <=> u = [i \in 0 .. n |-> IF i = 0 THEN NoMarks
                                                    ELSE VisitFrom(p, i - 1, u[i - 1])]
    BY DEF NoMarks, VisitFrom
  <1>4. MarkInv(p, 0, NoMarks)
    BY NoMarksInv
  <1>5. ASSUME NEW i \in 1 .. n, NEW a, MarkInv(p, i - 1, a)
        PROVE  MarkInv(p, i, VisitFrom(p, i - 1, a))
    <2>1. i - 1 \in TokensOf(p) /\ (i - 1) + 1 = i
      BY DEF TokensOf
    <2>2. MarkInv(p, (i - 1) + 1, VisitFrom(p, i - 1, a))
      BY <1>5, <2>1, VisitKeeps
    <2> QED
      BY <2>1, <2>2
  <1> HIDE DEF n, IsFrom
  <1>6. \E u : IsFrom(u)
    <2> DEFINE R == {x \in (0 .. n) \X Marks(p) : MarkInv(p, x[1], x[2])}
               Next1(i, x) == <<i, VisitFrom(p, i - 1, x[2])>>
               step == [i \in 1 .. n |-> [x \in R |-> IF x[1] = i - 1 THEN Next1(i, x) ELSE x]]
    <2>1. <<0, NoMarks>> \in R
      BY <1>1, <1>4 DEF MarkInv
    <2>2. ASSUME NEW i \in 1 .. n, NEW x \in R, x[1] = i - 1 PROVE Next1(i, x) \in R
      <3>1. MarkInv(p, i, VisitFrom(p, i - 1, x[2]))
        BY <1>5, <2>2
      <3>2. VisitFrom(p, i - 1, x[2]) \in Marks(p)
        BY <3>1 DEF MarkInv
      <3>3. i \in 0 .. n
        BY <1>1
      <3> QED
        BY <3>1, <3>2, <3>3
    <2> HIDE DEF R, Next1
    <2>3. step \in [1 .. n -> [R -> R]]
      BY <2>2
    <2>4. \A i \in 1 .. n : \A x \in R : x[1] = i - 1 => step[i][x] = Next1(i, x)
      OBVIOUS
    <2> HIDE DEF step
    <2>5. PICK f \in [0 .. n -> R] : Recursive(f, <<0, NoMarks>>, n, step)
      BY <1>1, <2>1, <2>3, RecursionExists
    <2>6. f[0] = <<0, NoMarks>> /\ \A i \in 1 .. n : f[i] = step[i][f[i-1]]
      BY <2>5 DEF Recursive
    <2>7. \A i \in 1 .. n : i \in 0 .. n /\ i - 1 \in 0 .. n
      BY <1>1
    <2>8. \A i \in 0 .. n : f[i][1] = i
      <3> DEFINE T == {i \in Nat : i <= n => f[i][1] = i}
      <3>1. 0 \in T
        BY <2>6
      <3>2. ASSUME NEW i \in T PROVE i + 1 \in T
        <4>1. SUFFICES ASSUME i + 1 <= n PROVE f[i + 1][1] = i + 1
          OBVIOUS
        <4>2. i + 1 \in 1 .. n /\ (i + 1) - 1 = i /\ i \in 0 .. n /\ i <= n
          BY <1>1, <4>1
        <4>3. f[i][1] = i /\ f[i] \in R
          BY <2>5, <4>2
        <4>4. f[i + 1] = step[i + 1][f[i]]
          BY <2>6, <4>2
        <4>5. f[i + 1] = Next1(i + 1, f[i])
          BY <2>4, <4>2, <4>3, <4>4
        <4> QED
          BY <4>5 DEF Next1
      <3>3. T \subseteq Nat
        OBVIOUS
      <3> HIDE DEF T
      <3>4. Nat \subseteq T
        BY <3>1, <3>2, <3>3, SetInduction
      <3> QED
        BY <1>1, <3>4 DEF T
    <2>9. \A i \in 1 .. n : f[i][2] = VisitFrom(p, i - 1, f[i - 1][2])
      <3>1. TAKE i \in 1 .. n
      <3>2. f[i - 1] \in R /\ f[i - 1][1] = i - 1 /\ f[i] = step[i][f[i - 1]]
        BY <2>5, <2>6, <2>7, <2>8
      <3>3. f[i] = Next1(i, f[i - 1])
        BY <2>4, <3>2
      <3> QED
        BY <3>3 DEF Next1
    <2> DEFINE u == [i \in 0 .. n |-> f[i][2]]
    <2>10. \A i \in 0 .. n : i # 0 => i \in 1 .. n
      BY <1>1
    <2>11. \A i \in 0 .. n : u[i] = f[i][2]
      OBVIOUS
    <2>12. u = [i \in 0 .. n |-> u[i]]
      OBVIOUS
    <2> HIDE DEF u
    <2>13. \A i \in 0 .. n : u[i] = IF i = 0 THEN NoMarks ELSE VisitFrom(p, i - 1, u[i - 1])
      <3>1. TAKE i \in 0 .. n
      <3>2. CASE i = 0
        BY <2>6, <2>11, <3>2
      <3>3. CASE i # 0
        <4>1. i \in 1 .. n /\ i - 1 \in 0 .. n
          BY <2>7, <2>10, <3>3
        <4>2. u[i] = VisitFrom(p, i - 1, u[i - 1])
          BY <2>9, <2>11, <4>1
        <4> QED
          BY <3>3, <4>2
      <3> QED
        BY <3>2, <3>3
    <2>14. u = [i \in 0 .. n |-> IF i = 0 THEN NoMarks ELSE VisitFrom(p, i - 1, u[i - 1])]
      BY <2>12, <2>13
    <2> QED
      BY <1>3, <2>14
  <1>7. IsFrom(from)
    BY <1>6
  <1> HIDE DEF from
  <1>8. from[0] = NoMarks /\ \A i \in 1 .. n : from[i] = VisitFrom(p, i - 1, from[i - 1])
    <2> DEFINE body == [i \in 0 .. n |-> IF i = 0 THEN NoMarks
                                         ELSE VisitFrom(p, i - 1, from[i - 1])]
    <2>1. from = body
      BY <1>3, <1>7
    <2>2. \A i \in 0 .. n : body[i] = IF i = 0 THEN NoMarks ELSE VisitFrom(p, i - 1, from[i - 1])
      OBVIOUS
    <2> HIDE DEF body
    <2>3. 0 \in 0 .. n /\ \A i \in 1 .. n : i \in 0 .. n /\ i # 0
      BY <1>1
    <2> QED
      BY <2>1, <2>2, <2>3, Zenon
  <1>9. \A i \in 0 .. n : MarkInv(p, i, from[i])
    <2> DEFINE T == {i \in Nat : i <= n => MarkInv(p, i, from[i])}
    <2>1. 0 \in T
      BY <1>4, <1>8
    <2>2. ASSUME NEW i \in T PROVE i + 1 \in T
      <3>1. SUFFICES ASSUME i + 1 <= n PROVE MarkInv(p, i + 1, from[i + 1])
        OBVIOUS
      <3>2. i + 1 \in 1 .. n /\ (i + 1) - 1 = i /\ i <= n
        BY <1>1, <3>1
      <3>3. MarkInv(p, (i + 1) - 1, from[i])
        BY <3>2
      <3>4. from[i + 1] = VisitFrom(p, (i + 1) - 1, from[i])
        BY <1>8, <3>2
      <3> QED
        BY <1>5, <3>2, <3>3, <3>4
    <2>3. T \subseteq Nat
      OBVIOUS
    <2> HIDE DEF T
    <2>4. Nat \subseteq T
      BY <2>1, <2>2, <2>3, SetInduction
    <2> QED
      BY <1>1, <2>4 DEF T
  <1> QED
    BY <1>2, <1>8, <1>9 DEF n

-------------------------------------------------------------------------------
(* The theorem *)

\* What the checks report, read off the marks once every token was a start.
ReportExact(p, a) ==
    /\ ToSet(a.cycles) = {t \in TokensOf(p) : LeadsCycle(p, t)}
    /\ Cardinality(ToSet(a.cycles)) = Len(a.cycles)

LEMMA ReportIsExact ==
    ASSUME NEW p \in Seq(Int)
    PROVE  ReportExact(p, VisitsTo(p, Len(p))) /\ VisitsTo(p, Len(p)) \in Marks(p)
  <1> DEFINE n == Len(p)
             a == VisitsTo(p, n)
             c == a.cycles
             L == Len(c)
  <1>1. n \in Nat /\ n \in 0 .. n
    OBVIOUS
  <1>2. MarkInv(p, n, a)
    BY <1>1, VisitsSteps
  <1> HIDE DEF a
  <1>3. a \in Marks(p) /\ a.done \in SUBSET TokensOf(p) /\ c \in Seq(TokensOf(p)) /\ L \in Nat
    BY <1>2 DEF MarkInv, Marks
  <1>4. \A t \in TokensOf(p) : t < n
    BY <1>1 DEF TokensOf
  <1>5. a.done = TokensOf(p)
    BY <1>2, <1>3, <1>4 DEF MarkInv
  <1>6. ToSet(c) = {t \in TokensOf(p) : LeadsCycle(p, t)}
    BY <1>2, <1>5 DEF MarkInv
  <1>7. \A i, j \in 1 .. L : c[i] = c[j] => i = j
    BY <1>2 DEF MarkInv
  <1>8. ToSet(c) = {c[i] : i \in 1 .. L} /\ c \in [1 .. L -> TokensOf(p)]
    <2> HIDE DEF c
    <2>1. c \in [1 .. L -> TokensOf(p)]
      BY <1>3
    <2> QED
      BY <2>1 DEF ToSet
  <1> HIDE DEF c, L
  <1>9. Cardinality(ToSet(c)) = L
    <2> DEFINE D == 1 .. L
               T == ToSet(c)
    <2>1. IsFiniteSet(D)
      BY <1>3, FS_Interval
    <2>2. Cardinality(D) = L
      <3>1. Cardinality(1 .. L) = IF 1 > L THEN 0 ELSE L - 1 + 1
        BY <1>3, FS_Interval
      <3> QED
        BY <1>3, <3>1
    <2>3. c \in [D -> T] /\ \A y \in T : \E i \in D : c[i] = y
      BY <1>8
    <2>4. \A i, j \in D : c[i] = c[j] => i = j
      BY <1>7
    <2> HIDE DEF D, T
    <2>5. c \in Surjection(D, T)
      BY <2>3 DEF Surjection
    <2>6. c \in Injection(D, T)
      BY <2>3, <2>4 DEF Injection, IsInjective
    <2>7. Cardinality(T) = Cardinality(D)
      BY <2>1, <2>5, <2>6, FS_Surjection
    <2> QED
      BY <2>2, <2>7 DEF T
  <1> QED
    BY <1>3, <1>6, <1>9 DEF ReportExact, c, L, a

\* The cycle check is silent on exactly the lists without a cycle.
LEMMA SilentIsAcyclic ==
    ASSUME NEW p \in Seq(Int)
    PROVE  CheckTreeCycles(p) = <<>> <=> \A k \in TokensOf(p) : ~OnCycle(p, k)
  <1> DEFINE a == VisitsTo(p, Len(p))
             c == a.cycles
  <1>1. ToSet(c) = {t \in TokensOf(p) : LeadsCycle(p, t)} /\ c \in Seq(TokensOf(p))
    BY ReportIsExact DEF ReportExact, Marks
  <1>2. CheckTreeCycles(p) = c
    BY DEF CheckTreeCycles
  <1> HIDE DEF a, c
  <1>3. c = <<>> <=> ToSet(c) = {}
    <2>1. ToSet(c) = {c[i] : i \in 1 .. Len(c)}
      BY <1>1 DEF ToSet
    <2>2. CASE Len(c) = 0
      <3>1. c = <<>>
        BY <1>1, <2>2
      <3>2. 1 .. Len(c) = {}
        BY <2>2
      <3> QED
        BY <2>1, <3>1, <3>2
    <2>3. CASE Len(c) # 0
      <3>1. 1 \in 1 .. Len(c)
        BY <1>1, <2>3
      <3>2. c # <<>>
        BY <2>3
      <3> QED
        BY <2>1, <3>1, <3>2
    <2> QED
      BY <2>2, <2>3
  <1>4. (\E k \in TokensOf(p) : OnCycle(p, k)) => \E t \in TokensOf(p) : LeadsCycle(p, t)
    BY CycleHasLeader
  <1>5. \A t \in TokensOf(p) : LeadsCycle(p, t) => OnCycle(p, t)
    BY DEF LeadsCycle
  <1> QED
    BY <1>1, <1>2, <1>3, <1>4, <1>5

\* Every token's parents lead to a root.
Forest(p) ==
    \A k \in TokensOf(p) : /\ Above(p, k) \subseteq TokensOf(p)
                           /\ \E r \in Above(p, k) : p[r + 1] = Root

LEMMA ParentsInRange ==
    ASSUME NEW p \in Seq(Int)
    PROVE  ParentProblems(p) = {}
           <=> \A k \in TokensOf(p) : p[k + 1] \in Root .. Len(p) - 1 /\ p[k + 1] # k
  BY DEF ParentProblems

\* Without bad parents and without cycles the list is a forest, and only then.
LEMMA CheckedIsForest ==
    ASSUME NEW p \in Seq(Int)
    PROVE  ParentProblems(p) = {} /\ CheckTreeCycles(p) = <<>> <=> Forest(p)
  <1>1. \A k \in TokensOf(p) : k + 1 \in 1 .. Len(p) /\ p[k + 1] \in Int
    BY DEF TokensOf
  <1>2. ASSUME ParentProblems(p) = {}, CheckTreeCycles(p) = <<>>, NEW k \in TokensOf(p)
        PROVE  \E r \in Above(p, k) : p[r + 1] = Root
    <2> DEFINE w == Walk(p, {}, k)
               L == Len(w.path)
               top == w.path[L]
    <2>1. w \in Walking(p, {}, k) /\ w.ended
      BY WalkEnds
    <2> HIDE DEF w
    <2>2. OnPath(p, {}, k, w.path) /\ EndsAt(p, {}, w)
      BY <2>1 DEF Walking, WalkInv
    <2>3. L \in Nat /\ L > 0 /\ 1 \in 1 .. L /\ L \in 1 .. L /\ top \in TokensOf(p) /\ w.path[1] = k
      BY <2>2 DEF OnPath, EndsAt
    <2>4. top \in Above(p, k)
      <3> DEFINE A == Above(p, k)
      <3>1. k \in A /\ Closed(p, A)
        BY AboveLeast
      <3> HIDE DEF A
      <3>2. \A m \in 1 .. L : w.path[m] \in A
        BY <2>2, <2>3, <3>1, PathStaysIn
      <3> QED
        BY <2>3, <3>2 DEF A
    <2>5. StopsAt(p, top)
      <3>1. SUFFICES ASSUME ~StopsAt(p, top) PROVE FALSE
        OBVIOUS
      <3>2. PICK j \in 1 .. L : p[top + 1] = w.path[j]
        BY <2>2, <3>1 DEF EndsAt
      <3>3. CycleFrom(p, w.path, j)
        BY <2>2, <3>1, <3>2, PathOnCycle
      <3>4. OnCycle(p, top)
        <4>1. L \in j .. L
          BY <2>3
        <4> QED
          BY <3>3, <4>1 DEF CycleFrom
      <3> QED
        BY <1>2, <2>3, <3>4, SilentIsAcyclic
    <2> HIDE DEF top, L
    <2>6. p[top + 1] \in Root .. Len(p) - 1 /\ p[top + 1] # top
      BY <1>2, <2>3, ParentsInRange
    <2>7. p[top + 1] = Root
      BY <1>1, <2>3, <2>5, <2>6 DEF StopsAt, Root
    <2> QED
      BY <2>4, <2>7
  <1>3. ASSUME Forest(p), NEW k \in TokensOf(p)
        PROVE  p[k + 1] \in Root .. Len(p) - 1 /\ p[k + 1] # k
    <2>1. SUFFICES ASSUME StopsAt(p, k) PROVE p[k + 1] = Root
      BY <1>1 DEF StopsAt, Root, TokensOf
    <2>2. Above(p, k) = {k}
      BY <2>1, AboveUnfolds
    <2> QED
      BY <1>3, <2>2 DEF Forest
  <1>4. ASSUME Forest(p), NEW k \in TokensOf(p) PROVE ~OnCycle(p, k)
    <2>1. PICK r \in Above(p, k) : p[r + 1] = Root
      BY <1>4 DEF Forest
    <2>2. StopsAt(p, r)
      BY <2>1 DEF StopsAt, Root
    <2> QED
      BY <2>2, StopBelowNoCycle
  <1>5. \A k \in TokensOf(p) : Above(p, k) \subseteq TokensOf(p)
    BY AboveLeast
  <1>6. ASSUME ParentProblems(p) = {}, CheckTreeCycles(p) = <<>> PROVE Forest(p)
    BY <1>2, <1>5, <1>6 DEF Forest
  <1>7. ASSUME Forest(p) PROVE ParentProblems(p) = {} /\ CheckTreeCycles(p) = <<>>
    BY <1>3, <1>4, <1>7, ParentsInRange, SilentIsAcyclic
  <1> QED
    BY <1>6, <1>7

\* The loop state is what the recursion of check_tree_cycles has reached.
TreeInv ==
    /\ parents \in Seq(Int)
    /\ start \in 0 .. Len(parents)
    /\ acc = VisitsTo(parents, start)

LEMMA TreeInvImplies == TreeInv => TreeChecksExact
  <1>1. SUFFICES ASSUME TreeInv PROVE TreeChecksExact
    OBVIOUS
  <1>2. parents \in Seq(Int) /\ acc = VisitsTo(parents, start)
    BY <1>1 DEF TreeInv
  <1>3. CyclesExact
    <2>1. SUFFICES ASSUME start = Len(parents)
                   PROVE  /\ ReportExact(parents, acc)
                          /\ acc.cycles = CheckTreeCycles(parents)
      BY DEF CyclesExact, ReportExact
    <2> QED
      BY <1>2, <2>1, ReportIsExact DEF CheckTreeCycles
  <1>4. AcceptedIsForest
    <2>1. SUFFICES ASSUME NEW anc_len \in {0, Len(parents), Len(parents) + 1}
                   PROVE  TreeAccepted([parents |-> parents, t_max |-> 1, anc_len |-> anc_len])
                          <=> anc_len = Len(parents) /\ Forest(parents)
      BY DEF AcceptedIsForest, Forest
    <2> DEFINE tree == [parents |-> parents, t_max |-> 1, anc_len |-> anc_len]
    <2>2. tree.parents = parents /\ tree.t_max = 1 /\ tree.anc_len = anc_len
      OBVIOUS
    <2> HIDE DEF tree
    <2>3. Len(parents) * 1 = Len(parents)
      BY <1>2
    <2>4. ShapeProblems(tree) = {} <=> anc_len = Len(parents)
      <3>1. ~(tree.parents # <<>> /\ tree.t_max = 0)
        BY <2>2
      <3>2. tree.anc_len # Len(tree.parents) * tree.t_max <=> anc_len # Len(parents)
        BY <2>2, <2>3
      <3>3. {<<"AncestorLength">>} # {}
        OBVIOUS
      <3> QED
        BY <3>1, <3>2, <3>3, Zenon DEF ShapeProblems
    <2>5. TreeAccepted(tree) <=> anc_len = Len(parents) /\ Forest(parents)
      BY <1>2, <2>2, <2>4, CheckedIsForest DEF TreeAccepted
    <2> QED
      BY <2>5 DEF tree
  <1> QED
    BY <1>3, <1>4 DEF TreeChecksExact

LEMMA TreeInvInit == TreeInit => TreeInv
  <1>1. SUFFICES ASSUME TreeInit PROVE TreeInv
    OBVIOUS
  <1>2. PICK n \in 0 .. MaxT : parents \in [1 .. n -> -2 .. n]
    BY <1>1 DEF TreeInit
  <1>3. n \in Nat /\ parents \in [1 .. n -> Int]
    BY <1>2, TreeAssumption
  <1>4. parents \in Seq(Int) /\ Len(parents) = n
    BY <1>3
  <1>5. VisitsTo(parents, 0) = NoMarks
    BY <1>4, VisitsSteps
  <1> QED
    BY <1>1, <1>3, <1>4, <1>5 DEF TreeInit, TreeInv, NoMarks

LEMMA TreeInvStep == TreeInv /\ [VisitNext]_treeVars => TreeInv'
  <1>1. SUFFICES ASSUME TreeInv, [VisitNext]_treeVars PROVE TreeInv'
    OBVIOUS
  <1>2. parents \in Seq(Int) /\ start \in 0 .. Len(parents) /\ acc = VisitsTo(parents, start)
    BY <1>1 DEF TreeInv
  <1>3. CASE UNCHANGED treeVars
    BY <1>1, <1>3 DEF TreeInv, treeVars
  <1>4. CASE VisitNext
    <2>1. /\ start < Len(parents) /\ start' = start + 1 /\ parents' = parents
          /\ acc' = VisitFrom(parents, start, acc)
      BY <1>4 DEF VisitNext, VisitFrom
    <2>2. start + 1 \in 1 .. Len(parents) /\ (start + 1) - 1 = start /\ start + 1 \in 0 .. Len(parents)
      BY <1>2, <2>1
    <2>3. VisitsTo(parents, start + 1) = VisitFrom(parents, (start + 1) - 1, VisitsTo(parents, (start + 1) - 1))
      BY <1>2, <2>2, VisitsSteps
    <2>4. acc' = VisitsTo(parents, start + 1)
      BY <1>2, <2>1, <2>2, <2>3
    <2> QED
      BY <1>2, <2>1, <2>2, <2>4 DEF TreeInv
  <1> QED
    BY <1>1, <1>3, <1>4

\* For every bound on the length of the list and every parent list within it,
\* check_tree_cycles reports exactly the cycles, each once and by its lowest
\* token, and TreeMask::new and validate_tree_slices accept exactly the forests.
THEOREM TreeChecksExactHolds == TreeSpec => []TreeChecksExact
  <1>1. TreeSpec => []TreeInv
    BY TreeInvInit, TreeInvStep, PTL DEF TreeSpec
  <1> QED
    BY <1>1, TreeInvImplies, PTL

=============================================================================
