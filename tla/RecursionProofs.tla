---------------------------- MODULE RecursionProofs ----------------------------
(***************************************************************************)
(* Induction over a set of naturals, and the existence of functions        *)
(* defined by recursion, for the proofs about recursive operators.         *)
(***************************************************************************)
EXTENDS Naturals, NaturalsInduction, WellFoundedInduction, TLAPS

LEMMA SetInduction ==
    ASSUME NEW T \in SUBSET Nat, 0 \in T, \A n \in T : n + 1 \in T
    PROVE  Nat \subseteq T
  <1> DEFINE R == OpToRel(<, Nat)
             C == Nat \ T
  <1>1. SUFFICES ASSUME C # {} PROVE FALSE
    OBVIOUS
  <1>2. IsWellFoundedOn(R, Nat)
    BY NatLessThanWellFounded
  <1>3. C \subseteq Nat
    OBVIOUS
  <1> HIDE DEF R, C
  <1>4. \E m \in C : \A y \in C : ~ (<<y, m>> \in R)
    BY <1>1, <1>2, <1>3, WFMin, Zenon
  <1>5. PICK m \in C : \A y \in C : ~ (<<y, m>> \in R)
    BY <1>4
  <1>6. \A y \in C : ~ (y < m)
    BY <1>3, <1>5 DEF R, OpToRel
  <1> QED
    BY <1>5, <1>6 DEF C

\* A function defined by its value at 0 and a step from each value to the next
\* exists.
Recursive(f, base, n, step) == f[0] = base /\ \A i \in 1..n : f[i] = step[i][f[i-1]]

LEMMA RecursionExists ==
    ASSUME NEW S, NEW base \in S, NEW n \in Nat, NEW step \in [1..n -> [S -> S]]
    PROVE  \E f \in [0..n -> S] : Recursive(f, base, n, step)
  <1> DEFINE Defined(m) == \E f \in [0..m -> S] :
                              f[0] = base /\ \A i \in 1..m : f[i] = step[i][f[i-1]]
             T == {m \in Nat : m <= n => Defined(m)}
  <1>1. 0 \in T
    <2> DEFINE f == [i \in 0..0 |-> base]
    <2>1. f \in [0..0 -> S] /\ f[0] = base
      OBVIOUS
    <2>2. \A i \in 1..0 : f[i] = step[i][f[i-1]]
      OBVIOUS
    <2> HIDE DEF f
    <2>3. Defined(0)
      BY <2>1, <2>2
    <2> QED
      BY <2>3
  <1>2. ASSUME NEW m \in T PROVE m + 1 \in T
    <2> HIDE DEF Defined
    <2>1. SUFFICES ASSUME m + 1 <= n PROVE Defined(m + 1)
      OBVIOUS
    <2>2. m \in Nat /\ Defined(m)
      BY <2>1
    <2> USE DEF Defined
    <2>3. PICK f \in [0..m -> S] : f[0] = base /\ \A i \in 1..m : f[i] = step[i][f[i-1]]
      BY <2>2
    <2> DEFINE g == [i \in 0..m+1 |-> IF i = m + 1 THEN step[m+1][f[m]] ELSE f[i]]
    <2>4. step[m+1][f[m]] \in S
      BY <2>1, <2>2
    <2>5. \A i \in 0..m+1 : i # m + 1 => i \in 0..m
      BY <2>2
    <2>6. g \in [0..m+1 -> S]
      BY <2>4, <2>5
    <2>7. g[0] = base
      BY <2>2, <2>3
    <2>8. ASSUME NEW i \in 1..m+1 PROVE g[i] = step[i][g[i-1]]
      <3>1. CASE i = m + 1
        BY <2>2, <3>1
      <3>2. CASE i # m + 1
        <4>1. i \in 1..m /\ i \in 0..m /\ i - 1 \in 0..m /\ i - 1 # m + 1 /\ i - 1 \in 0..m+1
          BY <2>2, <3>2
        <4>2. g[i] = f[i] /\ g[i-1] = f[i-1]
          BY <4>1, <3>2
        <4> QED
          BY <4>1, <4>2, <2>3
      <3> QED
        BY <3>1, <3>2
    <2> HIDE DEF g
    <2> QED
      BY <2>6, <2>7, <2>8
  <1>3. Nat \subseteq T
    <2> HIDE DEF T
    <2>1. T \subseteq Nat
      BY DEF T
    <2> QED
      BY <1>1, <1>2, <2>1, SetInduction
  <1> QED
    BY <1>3 DEF Recursive

\* A function whose first value is in S, and each next one if the one before
\* is, has all its values in S.
LEMMA BoundedInduction ==
    ASSUME NEW S, NEW n \in Nat, NEW g, g[0] \in S,
           \A i \in 1..n : g[i-1] \in S => g[i] \in S
    PROVE  \A i \in 0..n : g[i] \in S
  <1> DEFINE T == {i \in Nat : i <= n => g[i] \in S}
  <1>1. 0 \in T
    OBVIOUS
  <1>2. ASSUME NEW i \in T PROVE i + 1 \in T
    <2>1. i + 1 <= n => i + 1 \in 1..n /\ (i + 1) - 1 = i /\ i <= n
      OBVIOUS
    <2> QED
      BY <2>1
  <1>3. T \subseteq Nat
    OBVIOUS
  <1> HIDE DEF T
  <1>4. Nat \subseteq T
    BY <1>1, <1>2, <1>3, SetInduction
  <1> QED
    BY <1>4 DEF T

\* A set of naturals has a least element.
LEMMA LeastExists ==
    ASSUME NEW S \in SUBSET Nat, S # {}
    PROVE  \E m \in S : \A x \in S : m <= x
  <1> DEFINE R == OpToRel(<, Nat)
  <1>1. IsWellFoundedOn(R, Nat)
    BY NatLessThanWellFounded
  <1> HIDE DEF R
  <1>2. PICK m \in S : \A y \in S : ~ (<<y, m>> \in R)
    BY <1>1, WFMin, Zenon
  <1>3. \A y \in S : m <= y
    <2>1. S \subseteq Nat
      OBVIOUS
    <2>2. \A y \in S : ~ (y < m)
      BY <1>2, <2>1 DEF R, OpToRel
    <2> QED
      BY <2>1, <2>2
  <1> QED
    BY <1>3

================================================================================
