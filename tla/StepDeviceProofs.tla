--------------------------- MODULE StepDeviceProofs ---------------------------
(***************************************************************************)
(* Proofs about the device side.  StepDevice and the EventChain it drives: *)
(* graphs, slices and the record ring stay sound through growth, failures  *)
(* and wraps, and an accepted event chain orders the streams, for every    *)
(* program, arena, alignment and ring size.  AllocationBudget: the charged *)
(* bytes stay within the limit and implement AtomicBudget.                 *)
(***************************************************************************)
EXTENDS AllocationBudget, StepDevice, RecursionProofs, FiniteSetTheorems, SequenceTheorems, TLAPS

-------------------------------------------------------------------------------
(* The launches of a key and their workspace offsets                       *)

LEMMA LaunchedTyped ==
    ASSUME NEW k, program \in Seq(Operations)
    PROVE  Launched(k) \in Seq(Operations)
  <1> DEFINE n == Len(program)
             S == Seq(Operations)
             step == [i \in 1..n |-> [s \in S |->
                        IF k \in program[i].keys THEN Append(s, program[i]) ELSE s]]
             IsUpto(u) == u = [i \in 0..n |->
                        IF i = 0 THEN <<>>
                        ELSE IF k \in program[i].keys THEN Append(u[i-1], program[i])
                        ELSE u[i-1]]
             upto == CHOOSE u : IsUpto(u)
             T == {i \in Nat : i <= n => upto[i] \in S}
  <1>1. n \in Nat /\ \A i \in 1..n : program[i] \in Operations
    OBVIOUS
  <1>2. Launched(k) = upto[n]
    BY DEF Launched
  <1>3. <<>> \in S /\ \A s \in S : \A op \in Operations : Append(s, op) \in S
    OBVIOUS
  <1> HIDE DEF n, S
  <1>4. step \in [1..n -> [S -> S]]
    BY <1>1, <1>3
  <1>5. \E u : IsUpto(u)
    <2> HIDE DEF step, IsUpto
    <2>1. n \in Nat /\ <<>> \in S
      BY <1>1, <1>3
    <2>2. \E f \in [0..n -> S] : Recursive(f, <<>>, n, step)
      BY <2>1, <1>4, RecursionExists
    <2>6. PICK f \in [0..n -> S] : Recursive(f, <<>>, n, step)
      BY <2>2
    <2>7. f[0] = <<>> /\ \A i \in 1..n : f[i] = step[i][f[i-1]]
      BY <2>6 DEF Recursive
    <2>3. ASSUME NEW i \in 1..n
          PROVE  f[i] = IF k \in program[i].keys THEN Append(f[i-1], program[i]) ELSE f[i-1]
      <3>1. i - 1 \in 0..n
        BY <1>1
      <3> QED
        BY <3>1, <2>6, <2>7 DEF step
    <2>4. \A i \in 0..n : i # 0 => i \in 1..n
      BY <1>1
    <2>5. f = [i \in 0..n |-> IF i = 0 THEN <<>>
                              ELSE IF k \in program[i].keys THEN Append(f[i-1], program[i])
                              ELSE f[i-1]]
      BY <2>6, <2>7, <2>3, <2>4
    <2> QED
      BY <2>5 DEF IsUpto
  <1>6. IsUpto(upto)
    <2> HIDE DEF IsUpto
    <2> QED
      BY <1>5
  <1>7. /\ upto[0] = <<>>
        /\ \A i \in 0..n : i # 0 =>
              upto[i] = IF k \in program[i].keys THEN Append(upto[i-1], program[i])
                        ELSE upto[i-1]
    <2> DEFINE body == [i \in 0..n |->
                          IF i = 0 THEN <<>>
                          ELSE IF k \in program[i].keys THEN Append(upto[i-1], program[i])
                          ELSE upto[i-1]]
    <2> HIDE DEF upto
    <2>1. upto = body
      BY <1>6
    <2>2. body[0] = <<>>
      BY <1>1
    <2>3. \A i \in 0..n : i # 0 =>
              body[i] = IF k \in program[i].keys THEN Append(upto[i-1], program[i])
                        ELSE upto[i-1]
      OBVIOUS
    <2> HIDE DEF body
    <2> QED
      BY <2>1, <2>2, <2>3
  <1> HIDE DEF upto
  <1>8. 0 \in T
    BY <1>3, <1>7
  <1>9. ASSUME NEW i \in T PROVE i + 1 \in T
    <2>1. SUFFICES ASSUME i + 1 <= n PROVE upto[i+1] \in S
      OBVIOUS
    <2>2. i \in Nat /\ upto[i] \in S /\ i + 1 \in 0..n /\ i + 1 # 0 /\ (i + 1) - 1 = i
      BY <1>1, <2>1
    <2>3. i + 1 \in 1..n
      BY <2>1, <2>2
    <2> QED
      BY <1>1, <1>3, <1>7, <2>2, <2>3
  <1>10. Nat \subseteq T
    <2> HIDE DEF T
    <2>1. T \subseteq Nat
      BY DEF T
    <2> QED
      BY <1>8, <1>9, <2>1, SetInduction
  <1> QED
    BY <1>1, <1>2, <1>10 DEF S

LEMMA AlignUpProps ==
    ASSUME NEW x \in Nat
    PROVE  AlignUp(x) \in Nat /\ x <= AlignUp(x) /\ AlignUp(x) % Align = 0
  <1> DEFINE q == (x + Align - 1) \div Align
  <1>1. Align \in Nat /\ Align > 0
    BY DeviceAssumption
  <1>2. q \in Nat /\ q * Align <= x + Align - 1 /\ x + Align - 1 < q * Align + Align
    BY <1>1
  <1>3. AlignUp(x) = q * Align
    BY DEF AlignUp
  <1> HIDE DEF q
  <1>4. q * Align \in Nat /\ (q * Align) % Align = 0
    BY <1>1, <1>2
  <1> QED
    BY <1>1, <1>2, <1>3, <1>4

LEMMA ZeroAligned == 0 % Align = 0
  BY DeviceAssumption

\* What a launch without workspace and one with workspace do to the running
\* end, as a step between consecutive slices.
Placed(at, k) ==
    LET ops == Launched(k) IN
    /\ at[0] = [start |-> 0, end |-> 0]
    /\ \A i \in 1..Len(ops) :
          /\ ops[i].workspace[k] = 0 => at[i] = [start |-> 0, end |-> at[i-1].end]
          /\ ops[i].workspace[k] # 0 =>
                at[i] = [start |-> AlignUp(at[i-1].end),
                         end |-> AlignUp(at[i-1].end) + ops[i].workspace[k]]

LEMMA OffsetsPlaced ==
    ASSUME NEW k \in Keys, program \in Seq(Operations)
    PROVE  /\ Placed(Offsets(k), k)
           /\ DOMAIN Offsets(k) = 0..Len(Launched(k))
  <1> DEFINE ops == Launched(k)
             n == Len(ops)
             S == [start : Nat, end : Nat]
             base == [start |-> 0, end |-> 0]
             Next1(i, prev) ==
                IF ops[i].workspace[k] = 0 THEN [start |-> 0, end |-> prev.end]
                ELSE [start |-> AlignUp(prev.end), end |-> AlignUp(prev.end) + ops[i].workspace[k]]
             step == [i \in 1..n |-> [prev \in S |-> Next1(i, prev)]]
             IsAt(u) == u = [i \in 0..n |-> IF i = 0 THEN base ELSE Next1(i, u[i-1])]
             at == CHOOSE u : IsAt(u)
  <1>1. n \in Nat /\ \A i \in 1..n : ops[i].workspace[k] \in Nat
    <2>1. ops \in Seq(Operations)
      BY LaunchedTyped
    <2> HIDE DEF ops
    <2>2. n \in Nat /\ \A i \in 1..n : ops[i] \in Operations
      BY <2>1
    <2>3. \A op \in Operations : op.workspace[k] \in Nat
      BY DEF Operations
    <2> HIDE DEF n
    <2> QED
      BY <2>2, <2>3
  <1>2. Offsets(k) = at
    BY DEF Offsets
  <1>3. base \in S
    OBVIOUS
  <1> HIDE DEF n, S, ops
  <1>4. ASSUME NEW i \in 1..n, NEW prev \in S PROVE Next1(i, prev) \in S
    <2> DEFINE w == ops[i].workspace[k]
               e == prev.end
    <2>1. w \in Nat /\ e \in Nat
      BY <1>1 DEF S
    <2> HIDE DEF w, e
    <2>2. AlignUp(e) \in Nat
      BY <2>1, AlignUpProps
    <2>3. [start |-> 0, end |-> e] \in S /\ [start |-> AlignUp(e), end |-> AlignUp(e) + w] \in S
      BY <2>1, <2>2 DEF S
    <2> QED
      BY <2>3 DEF w, e
  <1> HIDE DEF Next1, base
  <1>5. step \in [1..n -> [S -> S]]
    BY <1>4
  <1>6. \E u : IsAt(u)
    <2> HIDE DEF step
    <2>1. \E f \in [0..n -> S] : Recursive(f, base, n, step)
      <3>1. n \in Nat
        BY <1>1
      <3> QED
        BY <3>1, <1>3, <1>5, RecursionExists
    <2>2. PICK f \in [0..n -> S] : Recursive(f, base, n, step)
      BY <2>1
    <2>3. f[0] = base /\ \A i \in 1..n : f[i] = step[i][f[i-1]]
      BY <2>2 DEF Recursive
    <2>4. ASSUME NEW i \in 1..n PROVE f[i] = Next1(i, f[i-1])
      <3>1. i - 1 \in 0..n
        BY <1>1
      <3> QED
        BY <3>1, <2>2, <2>3 DEF step
    <2>5. \A i \in 0..n : i # 0 => i \in 1..n
      BY <1>1
    <2>6. f = [i \in 0..n |-> IF i = 0 THEN base ELSE Next1(i, f[i-1])]
      BY <2>2, <2>3, <2>4, <2>5
    <2> QED
      BY <2>6
  <1>7. IsAt(at)
    <2> HIDE DEF IsAt
    <2> QED
      BY <1>6
  <1>8. DOMAIN at = 0..n /\ at[0] = base /\ \A i \in 1..n : at[i] = Next1(i, at[i-1])
    <2> DEFINE body == [i \in 0..n |-> IF i = 0 THEN base ELSE Next1(i, at[i-1])]
    <2>1. at = body
      <3> HIDE DEF at
      <3> QED
        BY <1>7
    <2> HIDE DEF at
    <2>2. DOMAIN body = 0..n /\ body[0] = base
      BY <1>1
    <2>3. \A i \in 1..n : body[i] = Next1(i, at[i-1])
      BY <1>1
    <2> HIDE DEF body
    <2> QED
      BY <2>1, <2>2, <2>3
  <1> HIDE DEF at
  <1> QED
    BY <1>2, <1>8 DEF Placed, Next1, base, n, ops

\* The slices of a key's launches are aligned, end in order, and a launch with
\* workspace starts after every earlier one ends.
LaidOut(at, k) ==
    LET ops == Launched(k) IN
    /\ \A i \in 0..Len(ops) :
          at[i].start \in Nat /\ at[i].end \in Nat /\ at[i].start % Align = 0
    /\ \A i \in 1..Len(ops) : at[i].start + ops[i].workspace[k] <= at[i].end
    /\ \A i, j \in 0..Len(ops) : i <= j => at[i].end <= at[j].end
    /\ \A i, j \in 1..Len(ops) :
          i < j /\ ops[j].workspace[k] # 0 => at[i].end <= at[j].start

LEMMA WorkspaceTyped ==
    ASSUME NEW k \in Keys, program \in Seq(Operations)
    PROVE  /\ Len(Launched(k)) \in Nat
           /\ DOMAIN Launched(k) = 1..Len(Launched(k))
           /\ \A i \in 1..Len(Launched(k)) : Launched(k)[i].workspace[k] \in Nat
  <1> DEFINE ops == Launched(k)
             n == Len(ops)
  <1>1. ops \in Seq(Operations)
    BY LaunchedTyped
  <1> HIDE DEF ops
  <1>2. n \in Nat /\ DOMAIN ops = 1..n /\ \A i \in 1..n : ops[i] \in Operations
    BY <1>1
  <1>3. \A op \in Operations : op.workspace[k] \in Nat
    BY DEF Operations
  <1> HIDE DEF n
  <1>4. \A i \in 1..n : ops[i].workspace[k] \in Nat
    BY <1>2, <1>3
  <1> QED
    BY <1>2, <1>4 DEF n, ops

LEMMA OffsetsLaidOut ==
    ASSUME NEW k \in Keys, program \in Seq(Operations)
    PROVE  LaidOut(Offsets(k), k)
  <1> DEFINE at == Offsets(k)
             n == Len(Launched(k))
             w(i) == Launched(k)[i].workspace[k]
             Good(i) == /\ at[i].start \in Nat /\ at[i].end \in Nat /\ at[i].start % Align = 0
                        /\ \A j \in 0..i : at[j].end \in Nat /\ at[j].end <= at[i].end
             T == {i \in Nat : i <= n => Good(i)}
  <1>1. n \in Nat /\ \A i \in 1..n : w(i) \in Nat
    BY WorkspaceTyped
  <1>2. /\ at[0] = [start |-> 0, end |-> 0]
        /\ \A i \in 1..n :
              /\ w(i) = 0 => at[i] = [start |-> 0, end |-> at[i-1].end]
              /\ w(i) # 0 => at[i] = [start |-> AlignUp(at[i-1].end),
                                      end |-> AlignUp(at[i-1].end) + w(i)]
    BY OffsetsPlaced DEF Placed
  <1> HIDE DEF at, n, w
  <1>3. Good(0)
    BY <1>2, ZeroAligned
  <1>4. ASSUME NEW i \in Nat, i + 1 <= n, Good(i)
        PROVE  /\ Good(i + 1)
               /\ at[i+1].start + w(i+1) <= at[i+1].end
               /\ w(i+1) # 0 => at[i].end <= at[i+1].start
    <2> DEFINE a == AlignUp(at[i].end)
    <2>1. i + 1 \in 1..n /\ (i + 1) - 1 = i
      BY <1>1, <1>4
    <2>2. a \in Nat /\ at[i].end <= a /\ a % Align = 0
      BY <1>4, AlignUpProps
    <2>3. w(i+1) \in Nat
      BY <1>1, <2>1
    <2>4. /\ w(i+1) = 0 => at[i+1] = [start |-> 0, end |-> at[i].end]
          /\ w(i+1) # 0 => at[i+1] = [start |-> a, end |-> a + w(i+1)]
      BY <1>2, <2>1
    <2> HIDE DEF a
    <2>5. /\ at[i+1].start \in Nat /\ at[i+1].end \in Nat /\ at[i+1].start % Align = 0
          /\ at[i].end <= at[i+1].end
          /\ at[i+1].start + w(i+1) <= at[i+1].end
          /\ w(i+1) # 0 => at[i].end <= at[i+1].start
      <3>1. CASE w(i+1) = 0
        BY <3>1, <1>4, <2>2, <2>4, ZeroAligned
      <3>2. CASE w(i+1) # 0
        BY <3>2, <1>4, <2>2, <2>3, <2>4
      <3> QED
        BY <3>1, <3>2
    <2>6. ASSUME NEW j \in 0..i+1 PROVE at[j].end \in Nat /\ at[j].end <= at[i+1].end
      <3>1. CASE j = i + 1
        BY <3>1, <2>5
      <3>2. CASE j # i + 1
        <4>1. j \in 0..i
          BY <3>2
        <4>2. at[j].end <= at[i].end /\ j \in 0..n
          BY <1>4, <4>1, <1>1
        <4>3. at[j].end \in Nat
          BY <1>4, <4>1
        <4> QED
          BY <4>2, <4>3, <1>4, <2>5
      <3> QED
        BY <3>1, <3>2
    <2> QED
      BY <2>5, <2>6
  <1>5. 0 \in T
    <2> HIDE DEF Good
    <2> QED
      BY <1>3
  <1>6. ASSUME NEW i \in T PROVE i + 1 \in T
    <2> HIDE DEF Good
    <2>1. SUFFICES ASSUME i + 1 <= n PROVE Good(i + 1)
      OBVIOUS
    <2>2. i \in Nat /\ Good(i)
      BY <1>1, <2>1
    <2> QED
      BY <1>4, <2>1, <2>2
  <1>7. Nat \subseteq T
    <2> HIDE DEF T
    <2>1. T \subseteq Nat
      BY DEF T
    <2> QED
      BY <1>5, <1>6, <2>1, SetInduction
  <1>8. ASSUME NEW i \in 0..n PROVE Good(i)
    <2> HIDE DEF Good
    <2> QED
      BY <1>1, <1>7
  <1>9. ASSUME NEW i \in 1..n
        PROVE  /\ at[i].start + w(i) <= at[i].end
               /\ w(i) # 0 => at[i-1].end <= at[i].start
    <2>1. i - 1 \in Nat /\ (i - 1) + 1 <= n /\ (i - 1) + 1 = i /\ i - 1 \in 0..n
      BY <1>1
    <2>2. Good(i - 1)
      BY <2>1, <1>8
    <2> HIDE DEF Good
    <2> QED
      BY <2>1, <2>2, <1>4
  <1>10. \A i, j \in 0..n : i <= j => at[i].end <= at[j].end
    BY <1>1, <1>8
  <1>11. ASSUME NEW i \in 1..n, NEW j \in 1..n, i < j, w(j) # 0
         PROVE  at[i].end <= at[j].start
    <2>1. i \in 0..n /\ j - 1 \in 0..n /\ j \in 0..n /\ i <= j - 1
      BY <1>1, <1>11
    <2>2. at[i].end <= at[j-1].end /\ at[j-1].end <= at[j].start
      BY <2>1, <1>9, <1>10, <1>11
    <2>3. at[i].end \in Nat /\ at[j-1].end \in Nat /\ at[j].start \in Nat
      BY <2>1, <1>8
    <2> QED
      BY <2>2, <2>3
  <1> QED
    BY <1>8, <1>9, <1>10, <1>11 DEF LaidOut, at, n, w

LEMMA RequiredProps ==
    ASSUME NEW k \in Keys, program \in Seq(Operations)
    PROVE  /\ Required(k) \in Nat
           /\ \A i \in DOMAIN Launched(k) :
                 Offsets(k)[i].start + Launched(k)[i].workspace[k] <= Required(k)
  <1> DEFINE at == Offsets(k)
             n == Len(Launched(k))
             w(i) == Launched(k)[i].workspace[k]
  <1>1. n \in Nat /\ DOMAIN Launched(k) = 1..n /\ \A i \in 1..n : w(i) \in Nat
    BY WorkspaceTyped
  <1>2. /\ \A i \in 0..n : at[i].start \in Nat /\ at[i].end \in Nat
        /\ \A i \in 1..n : at[i].start + w(i) <= at[i].end
        /\ \A i, j \in 0..n : i <= j => at[i].end <= at[j].end
    BY OffsetsLaidOut DEF LaidOut
  <1>3. Required(k) = at[n].end
    BY DEF Required
  <1> HIDE DEF at, n, w
  <1>4. at[n].end \in Nat
    BY <1>1, <1>2
  <1>5. ASSUME NEW i \in 1..n PROVE at[i].start + w(i) <= at[n].end
    <2>1. i \in 0..n /\ n \in 0..n /\ i <= n
      BY <1>1
    <2>2. at[i].start + w(i) <= at[i].end /\ at[i].end <= at[n].end
      BY <2>1, <1>2
    <2>3. at[i].start \in Nat /\ at[i].end \in Nat /\ w(i) \in Nat
      BY <2>1, <1>1, <1>2
    <2> QED
      BY <2>2, <2>3, <1>4
  <1> QED
    BY <1>1, <1>3, <1>4, <1>5 DEF at, w

\* The overlap test of capture cannot trip.
LEMMA NoSlicesOverlap ==
    ASSUME NEW k \in Keys, program \in Seq(Operations)
    PROVE  ~SlicesOverlap(k)
  <1> DEFINE at == Offsets(k)
             n == Len(Launched(k))
             w(i) == Launched(k)[i].workspace[k]
  <1>1. n \in Nat /\ DOMAIN Launched(k) = 1..n /\ \A i \in 1..n : w(i) \in Nat
    BY WorkspaceTyped
  <1>2. /\ \A i \in 0..n : at[i].start \in Nat /\ at[i].end \in Nat
        /\ \A i \in 1..n : at[i].start + w(i) <= at[i].end
        /\ \A i, j \in 1..n : i < j /\ w(j) # 0 => at[i].end <= at[j].start
    BY OffsetsLaidOut DEF LaidOut
  <1>3. \A i : SliceOf(k, i) = at[i].start..(at[i].start + w(i) - 1)
    BY DEF SliceOf
  <1> HIDE DEF at, n, w
  <1>4. ASSUME NEW i \in 1..n, NEW j \in 1..n, i < j, NEW x,
               x \in SliceOf(k, i), x \in SliceOf(k, j)
        PROVE  FALSE
    <2>1. i \in 0..n /\ j \in 0..n
      BY <1>1
    <2>2. /\ at[i].start \in Nat /\ at[i].end \in Nat /\ w(i) \in Nat
          /\ at[j].start \in Nat /\ w(j) \in Nat
      BY <1>1, <1>2, <2>1
    <2>3. /\ x \in at[i].start..(at[i].start + w(i) - 1)
          /\ x \in at[j].start..(at[j].start + w(j) - 1)
      BY <1>3, <1>4
    <2>4. x < at[i].start + w(i) /\ at[j].start <= x /\ w(j) # 0 /\ x \in Int
      BY <2>2, <2>3
    <2>5. at[i].start + w(i) <= at[i].end /\ at[i].end <= at[j].start
      BY <1>2, <1>4, <2>4
    <2> QED
      BY <2>2, <2>4, <2>5
  <1> QED
    BY <1>1, <1>4 DEF SlicesOverlap

LEMMA ProgramFixed ==
    ASSUME NEW k, program' = program
    PROVE  /\ Launched(k)' = Launched(k) /\ Offsets(k)' = Offsets(k)
           /\ Required(k)' = Required(k) /\ SlicesOverlap(k)' = SlicesOverlap(k)
           /\ CaptureFails(k)' = CaptureFails(k)
  <1>1. Launched(k)' = Launched(k)
    BY DEF Launched
  <1>2. Offsets(k)' = Offsets(k)
    BY <1>1 DEF Offsets
  <1>3. Required(k)' = Required(k)
    BY <1>1, <1>2 DEF Required
  <1>4. SlicesOverlap(k)' = SlicesOverlap(k)
    BY <1>1, <1>2 DEF SlicesOverlap, SliceOf
  <1>5. CaptureFails(k)' = CaptureFails(k)
    BY <1>1, <1>2, <1>4 DEF CaptureFails
  <1> QED
    BY <1>1, <1>2, <1>3, <1>4, <1>5

LEMMA GraphFixed ==
    ASSUME NEW k, NEW generation, program' = program
    PROVE  Graph(k, generation)' = Graph(k, generation)
  BY ProgramFixed DEF Graph

-------------------------------------------------------------------------------
(* The inductive invariant                                                 *)

\* The arena's counters bound what it handed out.
ArenaSound ==
    /\ arena \in [capacity : Nat, allocated : Nat, peak : Nat, generation : Nat]
    /\ arena.allocated <= arena.peak /\ arena.peak <= arena.capacity
    /\ slices \in Seq([start : Nat, end : Nat])
    /\ SlicesDisjoint

\* Every cached graph is the one a capture gives now, and it can be had again.
CacheSound ==
    /\ DOMAIN graphs = Keys
    /\ arena_generation = arena.generation
    /\ \A k \in Keys : Cached(k) =>
          /\ graphs[k] = Graph(k, arena.generation)
          /\ ~CaptureFails(k)
          /\ Required(k) <= arena.capacity

\* Where each completed step is in the ring: before the write index the most
\* recent ones, from it on those of the round before.
RingHolds(ring, done) ==
    LET w == ring.write_idx
        n == Len(done)
    IN  /\ DOMAIN ring.buffer = 0..LogCapacity-1
        /\ ring.total = n
        /\ w \in 0..LogCapacity-1 /\ w <= n
        /\ n < LogCapacity => w = n
        /\ \A r \in 0..w-1 : ring.buffer[r] = done[n - w + r + 1]
        /\ n >= LogCapacity =>
              \A r \in w..LogCapacity-1 : ring.buffer[r] = done[n - w - LogCapacity + r + 1]

RingSound == RingHolds(log, completed)

DeviceInv ==
    /\ program \in Seq(Operations)
    /\ dpc # "idle" => key \in Keys
    /\ completed \in Seq(Nat) /\ step_counter \in Nat
    /\ ArenaSound /\ CacheSound /\ RingSound

\* Under any caller: ids are handed out once, and what is recorded of a step
\* carries ids that were handed out.
EntryKinds == {"upload_complete", "compute_complete", "readback_complete", "comms_complete",
               "wait_upload", "wait_compute", "wait_comms"}
Handles == [id : Nat, step : Nat]
EventShapes == [stream : StreamKinds, kind : EntryKinds, awaited : Handles]
ChainEntries ==
    [step_id : Nat, stream : StreamKinds, kind : EntryKinds, event_id : Nat, awaited : Handles]

ChainSound ==
    /\ event_counter \in Nat /\ current_step \in Nat
    /\ held \subseteq Handles
    /\ \A h \in held : h.id \in 1..event_counter
    /\ \A h, g \in held : h.id = g.id => h = g
    /\ records \in Seq(ChainEntries)
    /\ \A i \in DOMAIN records :
          /\ records[i].step_id = current_step
          /\ [id |-> records[i].event_id, step |-> records[i].step_id] \in held
          /\ records[i].awaited \in held \cup {NoWait}

\* The one chain validation accepts, for a step whose first event is c + 1.
StepEvent(i, c, step) ==
    IF i = 1 THEN UploadEvent
    ELSE IF i = 2 THEN WaitEvent("compute", [id |-> c + 1, step |-> step])
    ELSE IF i = 3 THEN ComputeEvent
    ELSE IF i = 4 THEN WaitEvent("copy", [id |-> c + 3, step |-> step])
    ELSE ReadbackEvent

StepEntries(recs, c, step) ==
    \A i \in 1..Len(recs) : recs[i] = Entry(step, StepEvent(i, c, step), c + i)

\* What a step has recorded when it got to a place of the device phase: the
\* beginning of that chain, and nothing of an earlier step.
PhaseSound ==
    LET n == Len(records) IN
    /\ dpc = "upload" => n = 0
    /\ dpc = "wait_upload" => n = 1
    /\ dpc \in {"replay", "replayed"} => n = 2
    /\ dpc = "wait_compute" => n = 3
    /\ dpc = "readback" => n = 4
    /\ dpc # "idle" => current_step = step_counter
    /\ dpc \notin {"idle", "failed"} =>
          n <= event_counter /\ StepEntries(records, event_counter - n, step_counter)

-------------------------------------------------------------------------------
(* The invariant implies what the run checks                               *)

LEMMA CapturesAgain ==
    ASSUME NEW k \in Keys, DeviceInv
    PROVE  GetOrCaptureResult(k) # "recapture_failed"
  <1> DEFINE cap == Grown(Required(k)).capacity
  <1>1. /\ program \in Seq(Operations)
        /\ arena \in [capacity : Nat, allocated : Nat, peak : Nat, generation : Nat]
        /\ \A j \in Keys : Cached(j) => ~CaptureFails(j) /\ Required(j) <= arena.capacity
    BY DEF DeviceInv, ArenaSound, CacheSound
  <1>2. \A j \in Keys : Required(j) \in Nat
    BY <1>1, RequiredProps
  <1>3. SUFFICES ASSUME CaptureResult(k, arena.capacity) = "arena_overflow",
                        NEW j \in RecapturedKeys(k)
                 PROVE  CaptureResult(j, cap) = "ok"
    <2>1. CaptureResult(k, arena.capacity) # "recapture_failed"
      BY DEF CaptureResult
    <2> QED
      BY <2>1 DEF GetOrCaptureResult
  <1>4. ~CaptureFails(k) /\ ~(Required(k) <= arena.capacity)
    BY <1>1, <1>2, <1>3 DEF CaptureResult
  <1>5. AlignUp(Required(k)) \in Nat /\ Required(k) <= AlignUp(Required(k))
    BY <1>2, AlignUpProps
  <1>6. cap = AlignUp(Required(k))
    BY <1>1, <1>4 DEF Grown
  <1> HIDE DEF cap
  <1>7. arena.capacity \in Nat
    BY <1>1
  <1>8. j \in Keys /\ ~CaptureFails(j) /\ Required(j) <= cap
    <2>1. CASE j = k
      BY <2>1, <1>4, <1>5, <1>6
    <2>2. CASE j # k
      <3>1. j \in Keys /\ Cached(j)
        BY <1>3, <2>2 DEF RecapturedKeys
      <3>2. ~CaptureFails(j) /\ Required(j) <= arena.capacity /\ Required(j) \in Nat
        BY <3>1, <1>1, <1>2
      <3> QED
        BY <3>1, <3>2, <1>2, <1>4, <1>5, <1>6, <1>7
    <2> QED
      BY <2>1, <2>2
  <1>9. Required(j) \in Nat /\ cap \in Nat
    BY <1>2, <1>5, <1>6, <1>8
  <1> QED
    BY <1>8, <1>9 DEF CaptureResult

LEMMA GraphFields ==
    ASSUME NEW k, NEW generation
    PROVE  /\ Graph(k, generation).required = Required(k)
           /\ Graph(k, generation).generation = generation
           /\ DOMAIN Graph(k, generation).offsets = DOMAIN Launched(k)
           /\ \A i \in DOMAIN Launched(k) :
                 Graph(k, generation).offsets[i] = Offsets(k)[i].start
  BY DEF Graph

LEMMA WorkspaceIsBound ==
    ASSUME DeviceInv
    PROVE  WorkspaceBound
  <1>1. program \in Seq(Operations)
    BY DEF DeviceInv
  <1>2. SUFFICES ASSUME NEW k \in Keys, Cached(k)
                 PROVE  /\ graphs[k].required <= arena.capacity
                        /\ \A i, j \in DOMAIN graphs[k].offsets :
                              LET wi == Launched(k)[i].workspace[k]
                                  wj == Launched(k)[j].workspace[k]
                                  oi == graphs[k].offsets[i]
                                  oj == graphs[k].offsets[j]
                              IN  /\ oi % Align = 0 /\ oi + wi <= graphs[k].required
                                  /\ i < j /\ wi > 0 /\ wj > 0 => oi + wi <= oj
    BY DEF WorkspaceBound
  <1> DEFINE at == Offsets(k)
             n == Len(Launched(k))
             w(i) == Launched(k)[i].workspace[k]
  <1>3. graphs[k] = Graph(k, arena.generation) /\ Required(k) <= arena.capacity
    BY <1>2 DEF DeviceInv, CacheSound
  <1>4. n \in Nat /\ DOMAIN Launched(k) = 1..n /\ \A i \in 1..n : w(i) \in Nat
    BY <1>1, WorkspaceTyped
  <1>5. /\ \A i \in 0..n : at[i].start \in Nat /\ at[i].end \in Nat /\ at[i].start % Align = 0
        /\ \A i \in 1..n : at[i].start + w(i) <= at[i].end
        /\ \A i, j \in 1..n : i < j /\ w(j) # 0 => at[i].end <= at[j].start
    BY <1>1, OffsetsLaidOut DEF LaidOut
  <1>6. \A i \in 1..n : at[i].start + w(i) <= Required(k)
    BY <1>1, <1>4, RequiredProps
  <1>7. /\ graphs[k].required = Required(k) /\ DOMAIN graphs[k].offsets = 1..n
        /\ \A i \in 1..n : graphs[k].offsets[i] = at[i].start
    BY <1>3, <1>4, GraphFields
  <1> HIDE DEF at, n, w
  <1>8. ASSUME NEW i \in 1..n, NEW j \in 1..n
        PROVE  /\ at[i].start % Align = 0 /\ at[i].start + w(i) <= Required(k)
               /\ i < j /\ w(i) > 0 /\ w(j) > 0 => at[i].start + w(i) <= at[j].start
    <2>1. i \in 0..n /\ j \in 0..n
      BY <1>4
    <2>2. /\ at[i].start \in Nat /\ at[i].end \in Nat /\ at[j].start \in Nat
          /\ w(i) \in Nat /\ w(j) \in Nat
      BY <2>1, <1>4, <1>5
    <2> QED
      BY <2>1, <2>2, <1>5, <1>6
  <1>9. ASSUME NEW i \in DOMAIN graphs[k].offsets, NEW j \in DOMAIN graphs[k].offsets
        PROVE  LET wi == Launched(k)[i].workspace[k]
                   wj == Launched(k)[j].workspace[k]
                   oi == graphs[k].offsets[i]
                   oj == graphs[k].offsets[j]
               IN  /\ oi % Align = 0 /\ oi + wi <= graphs[k].required
                   /\ i < j /\ wi > 0 /\ wj > 0 => oi + wi <= oj
    <2>1. i \in 1..n /\ j \in 1..n
      BY <1>7
    <2>2. graphs[k].offsets[i] = at[i].start /\ graphs[k].offsets[j] = at[j].start
      BY <1>7, <2>1
    <2> QED
      BY <1>7, <1>8, <2>1, <2>2 DEF w
  <1>10. graphs[k].required <= arena.capacity
    BY <1>3, <1>7
  <1> QED
    BY <1>9, <1>10

-------------------------------------------------------------------------------
(* The record ring                                                         *)

LEMMA WrapOnce ==
    ASSUME NEW x \in Nat, NEW c \in Nat, c > 0, x < c + c
    PROVE  x % c = IF x < c THEN x ELSE x - c
  <1>1. CASE x < c
    BY <1>1
  <1>2. CASE x >= c
    BY <1>2
  <1> QED
    BY <1>1, <1>2

LEMMA RingNew == RingHolds(NewRing, <<>>)
  <1>1. LogCapacity \in Nat /\ LogCapacity > 0
    BY DeviceAssumption
  <1>2. /\ DOMAIN NewRing.buffer = 0..LogCapacity-1
        /\ NewRing.write_idx = 0 /\ NewRing.total = 0
    BY DEF NewRing
  <1> QED
    BY <1>1, <1>2 DEF RingHolds

LEMMA RingPush ==
    ASSUME NEW ring, NEW done \in Seq(Nat), NEW x \in Nat, RingHolds(ring, done)
    PROVE  RingHolds(Push(ring, x), Append(done, x))
  <1> DEFINE w == ring.write_idx
             n == Len(done)
             C == LogCapacity
             buf == ring.buffer
             more == Append(done, x)
             next == (w + 1) % C
             newbuf == [buf EXCEPT ![w] = x]
  <1>1. C \in Nat /\ C > 0
    BY DeviceAssumption
  <1>2. n \in Nat /\ Len(more) = n + 1 /\ more[n + 1] = x /\ \A i \in 1..n : more[i] = done[i]
    OBVIOUS
  <1>3. /\ DOMAIN buf = 0..C-1 /\ ring.total = n
        /\ w \in 0..C-1 /\ w <= n /\ (n < C => w = n)
        /\ \A r \in 0..w-1 : buf[r] = done[n - w + r + 1]
        /\ n >= C => \A r \in w..C-1 : buf[r] = done[n - w - C + r + 1]
    BY DEF RingHolds
  <1>4. /\ Push(ring, x).buffer = newbuf /\ Push(ring, x).write_idx = next
        /\ Push(ring, x).total = n + 1
    BY <1>3 DEF Push
  <1>5. next = IF w + 1 < C THEN w + 1 ELSE 0
    <2> HIDE DEF w, C
    <2>1. w \in Nat /\ w < C
      BY <1>1, <1>3
    <2> DEFINE p == w + 1
    <2>2. p \in Nat /\ p < C + C
      BY <1>1, <2>1
    <2>3. p % C = IF p < C THEN p ELSE p - C
      <3> HIDE DEF p
      <3> QED
        BY <1>1, <2>2, WrapOnce
    <2> QED
      BY <1>1, <2>1, <2>3 DEF next
  <1> HIDE DEF w, n, C, buf, more, next
  <1>6. /\ DOMAIN newbuf = 0..C-1 /\ newbuf[w] = x
        /\ \A r \in 0..C-1 : r # w => newbuf[r] = buf[r]
    BY <1>3
  <1> HIDE DEF newbuf
  <1>7. next \in 0..C-1 /\ next <= n + 1 /\ (n + 1 < C => next = n + 1)
    BY <1>1, <1>2, <1>3, <1>5
  <1>8. ASSUME NEW r \in 0..next-1 PROVE newbuf[r] = more[(n + 1) - next + r + 1]
    <2>1. w + 1 < C /\ next = w + 1
      BY <1>1, <1>3, <1>5
    <2>2. CASE r = w
      <3>1. (n + 1) - next + r + 1 = n + 1
        BY <2>1, <2>2, <1>2, <1>3
      <3> QED
        BY <3>1, <2>2, <1>2, <1>6
    <2>3. CASE r # w
      <3>1. r \in 0..w-1 /\ r \in 0..C-1
        BY <2>1, <2>3, <1>1, <1>3
      <3>2. (n + 1) - next + r + 1 = n - w + r + 1 /\ n - w + r + 1 \in 1..n
        BY <2>1, <3>1, <1>2, <1>3
      <3> QED
        BY <2>3, <3>1, <3>2, <1>2, <1>3, <1>6
    <2> QED
      BY <2>2, <2>3
  <1>9. ASSUME n + 1 >= C, NEW r \in next..C-1
        PROVE  newbuf[r] = more[(n + 1) - next - C + r + 1]
    <2>1. CASE w + 1 < C
      <3>1. next = w + 1 /\ n >= C /\ r \in w..C-1 /\ r # w /\ r \in 0..C-1
        BY <2>1, <1>1, <1>2, <1>3, <1>5, <1>9
      <3>2. /\ (n + 1) - next - C + r + 1 = n - w - C + r + 1
            /\ n - w - C + r + 1 \in 1..n
        BY <3>1, <1>1, <1>2, <1>3
      <3> QED
        BY <3>1, <3>2, <1>2, <1>3, <1>6
    <2>2. CASE w + 1 = C
      <3>1. next = 0 /\ r \in 0..C-1
        BY <2>2, <1>1, <1>3, <1>5, <1>9
      <3>2. CASE r = w
        <4>1. (n + 1) - next - C + r + 1 = n + 1
          BY <2>2, <3>1, <3>2, <1>1, <1>2, <1>3
        <4> QED
          BY <4>1, <3>2, <1>2, <1>6
      <3>3. CASE r # w
        <4>1. r \in 0..w-1
          BY <2>2, <3>1, <3>3, <1>1, <1>3
        <4>2. /\ (n + 1) - next - C + r + 1 = n - w + r + 1
              /\ n - w + r + 1 \in 1..n
          BY <2>2, <3>1, <4>1, <1>1, <1>2, <1>3
        <4> QED
          BY <3>1, <3>3, <4>1, <4>2, <1>2, <1>3, <1>6
      <3> QED
        BY <3>2, <3>3
    <2> QED
      BY <2>1, <2>2, <1>1, <1>3
  <1> QED
    BY <1>2, <1>4, <1>6, <1>7, <1>8, <1>9 DEF RingHolds, more, C

LEMMA RingRead ==
    ASSUME NEW ring, NEW done \in Seq(Nat), RingHolds(ring, done)
    PROVE  /\ ring.total = Len(done)
           /\ ToVec(ring) = SubSeq(done, Len(done) - RingLen(ring) + 1, Len(done))
  <1> DEFINE w == ring.write_idx
             n == Len(done)
             C == LogCapacity
             buf == ring.buffer
  <1>1. C \in Nat /\ C > 0
    BY DeviceAssumption
  <1>2. n \in Nat
    OBVIOUS
  <1>3. /\ DOMAIN buf = 0..C-1 /\ ring.total = n
        /\ w \in 0..C-1 /\ w <= n /\ (n < C => w = n)
        /\ \A r \in 0..w-1 : buf[r] = done[n - w + r + 1]
        /\ n >= C => \A r \in w..C-1 : buf[r] = done[n - w - C + r + 1]
    BY DEF RingHolds
  <1>4. CASE n < C
    <2>1. RingLen(ring) = n /\ n - n + 1 = 1
      BY <1>2, <1>3, <1>4 DEF RingLen
    <2>2. ToVec(ring) = [i \in 1..n |-> buf[i-1]]
      BY <1>3, <1>4 DEF ToVec
    <2>3. \A i \in 1..n : buf[i-1] = done[i]
      <3> HIDE DEF w, n, C, buf
      <3>1. \A i \in 1..n : i - 1 \in 0..w-1 /\ n - w + (i - 1) + 1 = i
        BY <1>1, <1>2, <1>3, <1>4
      <3> QED
        BY <3>1, <1>3
    <2>4. SubSeq(done, 1, n) = [i \in 1..n |-> done[i]]
      BY <1>2
    <2> HIDE DEF n, buf
    <2>5. ToVec(ring) = SubSeq(done, 1, n)
      BY <2>2, <2>3, <2>4
    <2> QED
      BY <1>3, <2>1, <2>5 DEF n
  <1>5. CASE n >= C
    <2>1. RingLen(ring) = C
      BY <1>1, <1>2, <1>3, <1>5 DEF RingLen
    <2>2. ToVec(ring) = [i \in 1..C |-> buf[(w + i - 1) % C]]
      BY <1>1, <1>2, <1>3, <1>5 DEF ToVec
    <2>3. ASSUME NEW i \in 1..C PROVE buf[(w + i - 1) % C] = done[i + (n - C + 1) - 1]
      <3> HIDE DEF w, n, C, buf
      <3> DEFINE p == w + i - 1
      <3>1. p \in Nat /\ p < C + C
        BY <1>1, <1>3
      <3>2. p % C = IF p < C THEN p ELSE p - C
        <4> HIDE DEF p
        <4> QED
          BY <3>1, <1>1, WrapOnce
      <3>3. CASE p < C
        <4>1. p \in w..C-1 /\ n - w - C + p + 1 = i + (n - C + 1) - 1
          BY <3>1, <3>3, <1>1, <1>2, <1>3
        <4> QED
          BY <3>2, <3>3, <4>1, <1>3, <1>5
      <3>4. CASE ~(p < C)
        <4>1. p - C \in 0..w-1 /\ n - w + (p - C) + 1 = i + (n - C + 1) - 1
          BY <3>1, <3>4, <1>1, <1>2, <1>3
        <4> QED
          BY <3>2, <3>4, <4>1, <1>3
      <3> QED
        BY <3>3, <3>4
    <2>4. SubSeq(done, n - C + 1, n) = [i \in 1..C |-> done[i + (n - C + 1) - 1]]
      <3>1. n - C + 1 \in 1..n+1 /\ 1 + n - (n - C + 1) = C
        BY <1>1, <1>2, <1>5
      <3> QED
        BY <3>1, <1>1, <1>2
    <2> HIDE DEF n, buf, w, C
    <2>5. ToVec(ring) = SubSeq(done, n - C + 1, n)
      BY <2>2, <2>3, <2>4
    <2> QED
      BY <1>3, <2>1, <2>5 DEF n
  <1> QED
    BY <1>1, <1>2, <1>4, <1>5

-------------------------------------------------------------------------------
(* The arena and the graph cache under each operation                      *)

Arenas == [capacity : Nat, allocated : Nat, peak : Nat, generation : Nat]
Slices == [start : Nat, end : Nat]

LEMMA ArenaAllocates ==
    ASSUME ArenaSound, NEW size \in Nat, AllocateSlice(size)
    PROVE  /\ ArenaSound'
           /\ arena'.capacity = arena.capacity /\ arena'.generation = arena.generation
  <1> DEFINE old == arena.allocated
             offset == AlignUp(old)
             new == offset + size
             slice == [start |-> offset, end |-> new]
             peak == IF new > arena.peak THEN new ELSE arena.peak
             n == Len(slices)
  <1>1. arena \in Arenas /\ arena.allocated <= arena.peak /\ arena.peak <= arena.capacity
    BY DEF ArenaSound, Arenas
  <1>2. slices \in Seq(Slices)
    BY DEF ArenaSound, Slices
  <1>3. old \in Nat /\ arena.peak \in Nat /\ arena.capacity \in Nat /\ arena.generation \in Nat
    BY <1>1 DEF Arenas
  <1>4. offset \in Nat /\ old <= offset /\ offset % Align = 0
    <2> HIDE DEF old
    <2> QED
      BY <1>3, AlignUpProps
  <1>5. arena' = [arena EXCEPT !.allocated = new, !.peak = peak]
    BY DEF AllocateSlice
  <1>6. new <= arena.capacity /\ slices' = Append(slices, slice)
    BY DEF AllocateSlice
  <1> HIDE DEF offset
  <1>7. new \in Nat /\ old <= new /\ peak \in Nat /\ new <= peak /\ peak <= arena.capacity
    BY <1>1, <1>3, <1>4, <1>6
  <1> HIDE DEF new, peak
  <1>8. /\ arena' \in Arenas
        /\ arena'.allocated = new /\ arena'.peak = peak
        /\ arena'.capacity = arena.capacity /\ arena'.generation = arena.generation
    BY <1>1, <1>5, <1>7 DEF Arenas
  <1>9. slice \in Slices
    BY <1>4, <1>7 DEF Slices
  <1>10. slice.start = offset /\ slice.end = new
    OBVIOUS
  <1> HIDE DEF slice
  <1>11. /\ slices' \in Seq(Slices) /\ n \in Nat /\ DOMAIN slices = 1..n
         /\ DOMAIN slices' = 1..n+1 /\ slices'[n+1] = slice
         /\ \A i \in 1..n : slices'[i] = slices[i]
    BY <1>2, <1>6, <1>9
  <1>12. \A i \in 1..n :
            /\ slices[i].start % Align = 0 /\ slices[i].end <= old /\ slices[i].end \in Nat
            /\ \A j \in 1..i-1 : slices[j].end <= slices[i].start
    <2>1. \A i \in DOMAIN slices :
            /\ slices[i].start % Align = 0 /\ slices[i].end <= old
            /\ \A j \in 1..i-1 : slices[j].end <= slices[i].start
      BY DEF ArenaSound, SlicesDisjoint
    <2>2. \A i \in 1..n : slices[i] \in Slices
      BY <1>2
    <2>3. \A i \in 1..n : slices[i].end \in Nat
      BY <2>2 DEF Slices
    <2> QED
      BY <2>1, <2>3, <1>11
  <1> HIDE DEF n
  <1>13. ASSUME NEW i \in 1..n+1
         PROVE  /\ slices'[i].start % Align = 0
                /\ slices'[i].end <= new
                /\ \A j \in 1..i-1 : slices'[j].end <= slices'[i].start
    <2>1. CASE i = n + 1
      <3>1. slices'[i] = slice
        BY <2>1, <1>11
      <3>2. ASSUME NEW j \in 1..i-1 PROVE slices'[j].end <= offset
        <4>1. j \in 1..n
          BY <2>1, <1>11
        <4> QED
          BY <4>1, <1>3, <1>4, <1>11, <1>12
      <3> QED
        BY <3>1, <3>2, <1>4, <1>7, <1>10
    <2>2. CASE i # n + 1
      <3>1. i \in 1..n /\ \A j \in 1..i-1 : j \in 1..n
        BY <2>2, <1>11
      <3>2. slices[i].end <= new
        BY <3>1, <1>3, <1>7, <1>12
      <3> QED
        BY <3>1, <3>2, <1>11, <1>12
    <2> QED
      BY <2>1, <2>2
  <1>14. SlicesDisjoint'
    BY <1>7, <1>8, <1>11, <1>13 DEF SlicesDisjoint
  <1> QED
    BY <1>7, <1>8, <1>11, <1>14 DEF ArenaSound, Arenas, Slices

LEMMA ArenaResets ==
    ASSUME ArenaSound, ResetArena
    PROVE  /\ ArenaSound'
           /\ arena'.capacity = arena.capacity /\ arena'.generation = arena.generation
  <1>1. arena \in Arenas /\ arena.peak <= arena.capacity
    BY DEF ArenaSound, Arenas
  <1>2. arena' = [arena EXCEPT !.allocated = 0] /\ slices' = <<>>
    BY DEF ResetArena
  <1>3. /\ arena' \in Arenas /\ arena'.allocated = 0 /\ arena'.peak = arena.peak
        /\ arena'.capacity = arena.capacity /\ arena'.generation = arena.generation
        /\ arena.peak \in Nat
    BY <1>1, <1>2 DEF Arenas
  <1>4. SlicesDisjoint'
    BY <1>2 DEF SlicesDisjoint
  <1>5. slices' \in Seq(Slices)
    BY <1>2
  <1> QED
    BY <1>1, <1>3, <1>4, <1>5 DEF ArenaSound, Arenas, Slices

LEMMA ArenaGrows ==
    ASSUME ArenaSound, NEW c \in Nat, arena' = Grown(c), slices' = slices
    PROVE  /\ ArenaSound'
           /\ arena.capacity <= arena'.capacity /\ c <= arena'.capacity
           /\ c > arena.capacity => arena'.generation = arena.generation + 1
  <1>1. arena \in Arenas /\ arena.allocated <= arena.peak /\ arena.peak <= arena.capacity
    BY DEF ArenaSound, Arenas
  <1>2. AlignUp(c) \in Nat /\ c <= AlignUp(c)
    BY AlignUpProps
  <1>3. arena.capacity \in Nat /\ arena.peak \in Nat
    BY <1>1 DEF Arenas
  <1>4. /\ arena' \in Arenas /\ arena'.allocated = arena.allocated /\ arena'.peak = arena.peak
        /\ arena.capacity <= arena'.capacity /\ c <= arena'.capacity
        /\ c > arena.capacity => arena'.generation = arena.generation + 1
    <2>1. CASE c <= arena.capacity
      BY <2>1, <1>1, <1>3 DEF Grown, Arenas
    <2>2. CASE ~(c <= arena.capacity)
      <3> DEFINE up == AlignUp(c)
                 g == arena.generation + 1
      <3>1. arena' = [arena EXCEPT !.capacity = up, !.generation = @ + 1]
        BY <2>2 DEF Grown
      <3>2. up \in Nat /\ g \in Nat
        BY <1>1, <1>2 DEF Arenas
      <3>3. arena' = [arena EXCEPT !.capacity = up, !.generation = g]
        BY <3>1, <1>1 DEF Arenas
      <3> HIDE DEF up, g
      <3>4. /\ arena' \in Arenas /\ arena'.allocated = arena.allocated /\ arena'.peak = arena.peak
            /\ arena'.capacity = up /\ arena'.generation = g
        BY <3>2, <3>3, <1>1 DEF Arenas
      <3> QED
        BY <2>2, <3>4, <1>2, <1>3 DEF up, g
    <2> QED
      BY <2>1, <2>2
  <1>5. arena'.capacity \in Nat
    BY <1>4 DEF Arenas
  <1>6. SlicesDisjoint'
    BY <1>1, <1>3, <1>4, <1>5 DEF ArenaSound, SlicesDisjoint
  <1> QED
    BY <1>1, <1>3, <1>4, <1>5, <1>6 DEF ArenaSound, Arenas

LEMMA GraphPrimed ==
    ASSUME NEW k, program' = program
    PROVE  Graph(k, arena.generation)' = Graph(k, arena'.generation)
  BY ProgramFixed DEF Graph

\* The cache is untouched and the arena keeps its capacity and generation.
LEMMA CacheKept ==
    ASSUME CacheSound, program' = program, UNCHANGED cacheVars,
           arena'.capacity = arena.capacity, arena'.generation = arena.generation
    PROVE  CacheSound'
  <1>1. graphs' = graphs /\ arena_generation' = arena_generation
    BY DEF cacheVars
  <1>2. ASSUME NEW k \in Keys, graphs'[k] # NoGraph
        PROVE  /\ graphs'[k] = Graph(k, arena.generation)'
               /\ ~CaptureFails(k)'
               /\ Required(k)' <= arena'.capacity
    <2>1. /\ graphs[k] = Graph(k, arena.generation) /\ ~CaptureFails(k)
          /\ Required(k) <= arena.capacity
      BY <1>1, <1>2 DEF CacheSound, Cached
    <2> QED
      BY <1>1, <2>1, ProgramFixed, GraphPrimed
  <1> QED
    BY <1>1, <1>2 DEF CacheSound, Cached

\* What get_or_capture may answer, and what each answer says.
LEMMA CaptureAnswers ==
    ASSUME NEW k \in Keys, DeviceInv, GetOrCaptureResult(k) # "failed"
    PROVE  \/ GetOrCaptureResult(k) = "cached"
           \/ /\ GetOrCaptureResult(k) = "ok"
              /\ ~CaptureFails(k) /\ Required(k) <= arena.capacity
           \/ /\ GetOrCaptureResult(k) = "grown"
              /\ Required(k) > arena.capacity
              /\ \A j \in RecapturedKeys(k) :
                    ~CaptureFails(j) /\ Required(j) <= Grown(Required(k)).capacity
  <1> DEFINE first == CaptureResult(k, arena.capacity)
             cap == Grown(Required(k)).capacity
  <1>1. GetOrCaptureResult(k) # "recapture_failed"
    BY CapturesAgain
  <1>2. program \in Seq(Operations) /\ arena.capacity \in Nat
    BY DEF DeviceInv, ArenaSound
  <1>3. \A j \in Keys : Required(j) \in Nat
    BY <1>2, RequiredProps
  <1>4. RecapturedKeys(k) \subseteq Keys
    BY DEF RecapturedKeys
  <1>5. cap \in Nat
    <2>1. AlignUp(Required(k)) \in Nat
      BY <1>3, AlignUpProps
    <2>2. arena \in Arenas
      BY DEF DeviceInv, ArenaSound, Arenas
    <2> QED
      BY <1>2, <2>1, <2>2 DEF Grown, Arenas
  <1>6. /\ first = "failed" \/ first = "ok" \/ first = "arena_overflow"
        /\ first = "ok" => ~CaptureFails(k) /\ Required(k) <= arena.capacity
        /\ first = "arena_overflow" => Required(k) > arena.capacity
    BY <1>2, <1>3 DEF CaptureResult
  <1> HIDE DEF cap
  <1>7. \A j \in RecapturedKeys(k) :
            CaptureResult(j, cap) = "ok" => ~CaptureFails(j) /\ Required(j) <= cap
    BY <1>3, <1>4, <1>5 DEF CaptureResult
  <1> HIDE DEF first
  <1>8. GetOrCaptureResult(k) =
            IF Cached(k) THEN "cached"
            ELSE IF first # "arena_overflow" THEN first
            ELSE IF GrowFails(Required(k)) THEN "failed"
            ELSE IF \E j \in RecapturedKeys(k) : CaptureResult(j, cap) # "ok"
                 THEN "recapture_failed"
            ELSE "grown"
    BY DEF GetOrCaptureResult, first, cap
  <1>9. CASE Cached(k)
    BY <1>8, <1>9
  <1>10. CASE ~Cached(k) /\ first # "arena_overflow"
    BY <1>6, <1>8, <1>10
  <1>11. CASE ~Cached(k) /\ first = "arena_overflow"
    <2>1. /\ GetOrCaptureResult(k) = "grown"
          /\ \A j \in RecapturedKeys(k) : CaptureResult(j, cap) = "ok"
      BY <1>1, <1>8, <1>11
    <2> QED
      BY <2>1, <1>6, <1>7, <1>11 DEF cap
  <1> QED
    BY <1>9, <1>10, <1>11

LEMMA CacheCaptures ==
    ASSUME NEW k \in Keys, DeviceInv, program' = program, GetOrCapture(k)
    PROVE  ArenaSound' /\ CacheSound'
  <1> DEFINE result == GetOrCaptureResult(k)
  <1>1. /\ result # "failed" /\ slices' = slices
        /\ arena' = IF result \in {"grown", "recapture_failed"} THEN Grown(Required(k)) ELSE arena
        /\ graphs' = IF result = "ok" THEN [graphs EXCEPT ![k] = Graph(k, arena.generation)]
                     ELSE IF result = "grown"
                     THEN [j \in Keys |-> IF j \in RecapturedKeys(k)
                                          THEN Graph(j, arena'.generation) ELSE graphs[j]]
                     ELSE graphs
        /\ arena_generation' = IF result = "grown" THEN arena'.generation ELSE arena_generation
    BY DEF GetOrCapture
  <1>2. \/ result = "cached"
        \/ result = "ok" /\ ~CaptureFails(k) /\ Required(k) <= arena.capacity
        \/ /\ result = "grown"
           /\ Required(k) > arena.capacity
           /\ \A j \in RecapturedKeys(k) :
                 ~CaptureFails(j) /\ Required(j) <= Grown(Required(k)).capacity
    BY <1>1, CaptureAnswers
  <1>3. ArenaSound /\ CacheSound /\ program \in Seq(Operations)
    BY DEF DeviceInv
  <1> HIDE DEF result
  <1>4. CASE result = "cached"
    <2>1. arena' = arena /\ graphs' = graphs /\ arena_generation' = arena_generation
      BY <1>1, <1>4
    <2>2. ArenaSound'
      BY <1>1, <1>3, <2>1 DEF ArenaSound, SlicesDisjoint
    <2> QED
      BY <1>3, <2>1, <2>2, CacheKept DEF cacheVars
  <1>5. CASE result = "ok" /\ ~CaptureFails(k) /\ Required(k) <= arena.capacity
    <2>1. /\ arena' = arena /\ arena_generation' = arena_generation
          /\ graphs' = [graphs EXCEPT ![k] = Graph(k, arena.generation)]
      BY <1>1, <1>5
    <2>2. ArenaSound'
      BY <1>1, <1>3, <2>1 DEF ArenaSound, SlicesDisjoint
    <2>3. DOMAIN graphs = Keys /\ arena_generation = arena.generation
      BY <1>3 DEF CacheSound
    <2>4. /\ DOMAIN graphs' = Keys /\ graphs'[k] = Graph(k, arena.generation)
          /\ \A j \in Keys : j # k => graphs'[j] = graphs[j]
      BY <2>1, <2>3
    <2>5. ASSUME NEW j \in Keys, graphs'[j] # NoGraph
          PROVE  /\ graphs'[j] = Graph(j, arena.generation)'
                 /\ ~CaptureFails(j)' /\ Required(j)' <= arena'.capacity
      <3>1. /\ graphs'[j] = Graph(j, arena.generation) /\ ~CaptureFails(j)
            /\ Required(j) <= arena.capacity
        <4>1. CASE j = k
          BY <4>1, <2>4, <1>5
        <4>2. CASE j # k
          BY <4>2, <2>4, <2>5, <1>3 DEF CacheSound, Cached
        <4> QED
          BY <4>1, <4>2
      <3> QED
        BY <3>1, <2>1, ProgramFixed, GraphPrimed
    <2> QED
      BY <2>1, <2>2, <2>3, <2>4, <2>5 DEF CacheSound, Cached
  <1>6. CASE /\ result = "grown"
             /\ Required(k) > arena.capacity
             /\ \A j \in RecapturedKeys(k) :
                   ~CaptureFails(j) /\ Required(j) <= Grown(Required(k)).capacity
    <2>1. /\ arena' = Grown(Required(k)) /\ arena_generation' = arena'.generation
          /\ graphs' = [j \in Keys |-> IF j \in RecapturedKeys(k)
                                       THEN Graph(j, arena'.generation) ELSE graphs[j]]
      BY <1>1, <1>6
    <2>2. ArenaSound'
      <3>1. Required(k) \in Nat
        BY <1>3, RequiredProps
      <3> QED
        BY <3>1, <1>1, <1>3, <2>1, ArenaGrows
    <2>3. ASSUME NEW j \in Keys, graphs'[j] # NoGraph
          PROVE  /\ graphs'[j] = Graph(j, arena.generation)'
                 /\ ~CaptureFails(j)' /\ Required(j)' <= arena'.capacity
      <3>1. j \in RecapturedKeys(k)
        BY <2>1, <2>3 DEF RecapturedKeys, Cached
      <3>2. graphs'[j] = Graph(j, arena'.generation)
        BY <2>1, <3>1
      <3>3. ~CaptureFails(j) /\ Required(j) <= arena'.capacity
        BY <1>6, <2>1, <3>1
      <3> QED
        BY <3>2, <3>3, ProgramFixed, GraphPrimed
    <2>4. DOMAIN graphs' = Keys
      BY <2>1
    <2> QED
      BY <2>1, <2>2, <2>3, <2>4 DEF CacheSound, Cached
  <1> QED
    BY <1>2, <1>4, <1>5, <1>6

-------------------------------------------------------------------------------
(* The device phase keeps the invariant                                    *)

LEMMA DeviceInvInit == DeviceInit => DeviceInv
  <1> SUFFICES ASSUME DeviceInit PROVE DeviceInv
    OBVIOUS
  <1>1. program \in Seq(Operations) /\ completed = <<>> /\ step_counter = 0 /\ dpc = "idle"
    BY DeviceAssumption DEF DeviceInit
  <1>2. PICK c \in Capacities : arena = NewArena(c)
    BY DEF DeviceInit
  <1>3. /\ arena = [capacity |-> c, allocated |-> 0, peak |-> 0, generation |-> 1]
        /\ c \in Nat /\ slices = <<>>
    BY <1>2, DeviceAssumption DEF NewArena, DeviceInit
  <1>4. ArenaSound
    BY <1>3 DEF ArenaSound, SlicesDisjoint
  <1>5. CacheSound
    <2>1. /\ \A k \in WarmKeys : CaptureResult(k, arena.capacity) = "ok"
          /\ graphs = [k \in Keys |-> IF k \in WarmKeys THEN Graph(k, arena.generation)
                                      ELSE NoGraph]
          /\ arena_generation = arena.generation
      BY DEF DeviceInit
    <2>2. ASSUME NEW k \in Keys, Cached(k)
          PROVE  /\ graphs[k] = Graph(k, arena.generation) /\ ~CaptureFails(k)
                 /\ Required(k) <= arena.capacity
      <3>1. k \in WarmKeys /\ graphs[k] = Graph(k, arena.generation)
        BY <2>1, <2>2 DEF Cached
      <3>2. CaptureResult(k, arena.capacity) = "ok"
        BY <2>1, <3>1
      <3>3. Required(k) \in Nat /\ arena.capacity \in Nat
        BY <1>1, <1>3, RequiredProps
      <3> QED
        BY <3>1, <3>2, <3>3 DEF CaptureResult
    <2> QED
      BY <2>1, <2>2 DEF CacheSound
  <1>6. RingSound
    <2>1. log = NewRing
      BY DEF DeviceInit
    <2> QED
      BY <1>1, <2>1, RingNew DEF RingSound
  <1> QED
    BY <1>1, <1>4, <1>5, <1>6 DEF DeviceInv

\* A step that leaves arena, cache and log alone.
LEMMA QuietStep ==
    ASSUME DeviceInv, UNCHANGED <<program, arenaVars, cacheVars, log, key, step_counter, completed>>,
           dpc # "idle"
    PROVE  DeviceInv'
  <1>1. /\ program' = program /\ arena' = arena /\ slices' = slices
        /\ log' = log /\ key' = key /\ step_counter' = step_counter /\ completed' = completed
        /\ UNCHANGED cacheVars
    BY DEF arenaVars
  <1>2. ArenaSound'
    BY <1>1 DEF DeviceInv, ArenaSound, SlicesDisjoint
  <1>3. CacheSound'
    BY <1>1, CacheKept DEF DeviceInv
  <1>4. RingSound'
    BY <1>1 DEF DeviceInv, RingSound
  <1> QED
    BY <1>1, <1>2, <1>3, <1>4 DEF DeviceInv

LEMMA DeviceInvStep == DeviceInv /\ [DeviceNext]_deviceVars => DeviceInv'
  <1> SUFFICES ASSUME DeviceInv, [DeviceNext]_deviceVars PROVE DeviceInv'
    OBVIOUS
  <1>0. /\ program \in Seq(Operations) /\ (dpc # "idle" => key \in Keys)
        /\ completed \in Seq(Nat) /\ step_counter \in Nat
        /\ ArenaSound /\ CacheSound /\ RingSound
    BY DEF DeviceInv
  <1>1. ASSUME NEW k \in Keys, BeginDevice(k) PROVE DeviceInv'
    <2>1. /\ program' = program /\ log' = log /\ completed' = completed /\ UNCHANGED cacheVars
          /\ key' = k /\ step_counter' = step_counter + 1 /\ ResetArena
      BY <1>1 DEF BeginDevice
    <2>2. /\ ArenaSound' /\ arena'.capacity = arena.capacity
          /\ arena'.generation = arena.generation
      BY <1>0, <2>1, ArenaResets
    <2>3. CacheSound'
      BY <1>0, <2>1, <2>2, CacheKept
    <2>4. RingSound'
      BY <1>0, <2>1 DEF RingSound
    <2> QED
      BY <1>0, <2>1, <2>2, <2>3, <2>4 DEF DeviceInv
  <1>2. CASE Uploaded \/ ComputeWaits \/ ComputeDone \/ CopyWaits \/ ReadBack
    <2>1. /\ UNCHANGED <<program, arenaVars, cacheVars, log, key, step_counter, completed>>
          /\ dpc # "idle"
      BY <1>2 DEF Uploaded, ComputeWaits, ComputeDone, CopyWaits, ReadBack
    <2> QED
      BY <2>1, QuietStep
  <1>3. CASE DeviceFails \/ StepFailed
    <2>1. /\ UNCHANGED <<program, arenaVars, cacheVars, log, key, step_counter, completed>>
          /\ dpc # "idle"
      BY <1>3 DEF DeviceFails, StepFailed
    <2> QED
      BY <2>1, QuietStep
  <1>4. CASE CaptureAndReplay
    <2>1. /\ program' = program /\ log' = log /\ completed' = completed
          /\ key' = key /\ step_counter' = step_counter /\ key \in Keys /\ GetOrCapture(key)
      BY <1>0, <1>4 DEF CaptureAndReplay
    <2>2. ArenaSound' /\ CacheSound'
      <3>1. PICK k \in Keys : k = key
        BY <2>1
      <3>2. GetOrCapture(k)
        BY <2>1, <3>1
      <3> QED
        BY <2>1, <3>2, CacheCaptures
    <2>3. RingSound'
      BY <1>0, <2>1 DEF RingSound
    <2> QED
      BY <1>0, <2>1, <2>2, <2>3 DEF DeviceInv
  <1>5. CASE PushRecord
    <2>1. /\ program' = program /\ key' = key /\ step_counter' = step_counter
          /\ arena' = arena /\ slices' = slices /\ UNCHANGED cacheVars /\ dpc # "idle"
          /\ log' = Push(log, step_counter) /\ completed' = Append(completed, step_counter)
      BY <1>5 DEF PushRecord, arenaVars
    <2>2. ArenaSound'
      BY <1>0, <2>1 DEF ArenaSound, SlicesDisjoint
    <2>3. CacheSound'
      BY <1>0, <2>1, CacheKept
    <2>4. RingSound'
      BY <1>0, <2>1, RingPush DEF RingSound
    <2>5. completed' \in Seq(Nat)
      BY <1>0, <2>1
    <2> QED
      BY <1>0, <2>1, <2>2, <2>3, <2>4, <2>5 DEF DeviceInv
  <1>6. CASE TakeSlice
    <2>1. /\ program' = program /\ key' = key /\ step_counter' = step_counter /\ dpc' = dpc
          /\ UNCHANGED cacheVars /\ log' = log /\ completed' = completed
      BY <1>6 DEF TakeSlice
    <2>2. PICK size \in SliceSizes : AllocateSlice(size)
      BY <1>6 DEF TakeSlice
    <2>3. size \in Nat
      BY <2>2, DeviceAssumption
    <2>4. /\ ArenaSound' /\ arena'.capacity = arena.capacity
          /\ arena'.generation = arena.generation
      BY <1>0, <2>2, <2>3, ArenaAllocates
    <2>5. CacheSound'
      BY <1>0, <2>1, <2>4, CacheKept
    <2>6. RingSound'
      BY <1>0, <2>1 DEF RingSound
    <2> QED
      BY <1>0, <2>1, <2>4, <2>5, <2>6 DEF DeviceInv
  <1>7. CASE ClearLog
    <2>1. /\ program' = program /\ key' = key /\ step_counter' = step_counter /\ dpc' = dpc
          /\ arena' = arena /\ slices' = slices /\ UNCHANGED cacheVars
          /\ log' = NewRing /\ completed' = <<>>
      BY <1>7 DEF ClearLog, arenaVars
    <2>2. ArenaSound'
      BY <1>0, <2>1 DEF ArenaSound, SlicesDisjoint
    <2>3. CacheSound'
      BY <1>0, <2>1, CacheKept
    <2>4. RingSound'
      BY <2>1, RingNew DEF RingSound
    <2> QED
      BY <1>0, <2>1, <2>2, <2>3, <2>4 DEF DeviceInv
  <1>8. CASE UNCHANGED deviceVars
    <2>1. /\ program' = program /\ key' = key /\ step_counter' = step_counter /\ dpc' = dpc
          /\ arena' = arena /\ slices' = slices /\ UNCHANGED cacheVars
          /\ log' = log /\ completed' = completed
      BY <1>8 DEF deviceVars, arenaVars
    <2>2. ArenaSound'
      BY <1>0, <2>1 DEF ArenaSound, SlicesDisjoint
    <2>3. CacheSound'
      BY <1>0, <2>1, CacheKept
    <2>4. RingSound'
      BY <1>0, <2>1 DEF RingSound
    <2> QED
      BY <1>0, <2>1, <2>2, <2>3, <2>4 DEF DeviceInv
  <1> QED
    BY <1>1, <1>2, <1>3, <1>4, <1>5, <1>6, <1>7, <1>8 DEF DeviceNext

LEMMA DeviceInvSound ==
    ASSUME DeviceInv
    PROVE  DeviceSound
  <1>1. GraphsOfOneGeneration
    BY GraphFields DEF DeviceInv, CacheSound, GraphsOfOneGeneration
  <1>2. WorkspaceBound
    BY WorkspaceIsBound
  <1>3. CaptureIsRepeatable
    <2>1. program \in Seq(Operations)
      BY DEF DeviceInv
    <2> QED
      BY <2>1, NoSlicesOverlap, CapturesAgain DEF CaptureIsRepeatable
  <1>4. SlicesDisjoint
    BY DEF DeviceInv, ArenaSound
  <1>5. LogIsRecentSteps
    BY RingRead DEF DeviceInv, RingSound, LogIsRecentSteps
  <1> QED
    BY <1>1, <1>2, <1>3, <1>4, <1>5 DEF DeviceSound

\* For every program, alignment, capacity and ring size: growing the arena in
\* the middle of a step leaves no graph of the old arena behind, a recapture
\* never fails, launch workspaces and slices never overlap or leave the arena,
\* and the ring reads as the most recent records (get_or_capture,
\* allocate_slice, ScheduleLogRing::push and to_vec).
THEOREM DeviceSoundHolds == DeviceSpec => []DeviceSound
  <1>1. DeviceInit => DeviceInv
    BY DeviceInvInit
  <1>2. DeviceInv /\ [DeviceNext]_deviceVars => DeviceInv'
    BY DeviceInvStep
  <1>3. DeviceInv => DeviceSound
    BY DeviceInvSound
  <1> QED
    BY <1>1, <1>2, <1>3, PTL DEF DeviceSpec

-------------------------------------------------------------------------------
(* The event chain under any caller                                        *)

LEMMA NoWaitTyped == NoWait \in Handles /\ NoWait.id = 0
  BY DEF NoWait, Handles, None

LEMMA EventsTyped ==
    /\ UploadEvent \in EventShapes /\ UploadEvent.awaited = NoWait
    /\ ComputeEvent \in EventShapes /\ ComputeEvent.awaited = NoWait
    /\ ReadbackEvent \in EventShapes /\ ReadbackEvent.awaited = NoWait
    /\ CommsEvent("comms_complete") \in EventShapes
    /\ CommsEvent("comms_complete").awaited = NoWait
  BY NoWaitTyped DEF UploadEvent, ComputeEvent, ReadbackEvent, CommsEvent, EventShapes,
                     EntryKinds, StreamKinds

LEMMA WaitTyped ==
    ASSUME NEW stream \in StreamKinds, NEW h \in Handles
    PROVE  WaitEvent(stream, h) \in EventShapes /\ WaitEvent(stream, h).awaited = h
  <1>1. WaitKind[stream] \in EntryKinds
    <2>1. CASE stream = "compute"
      BY <2>1 DEF WaitKind, EntryKinds
    <2>2. CASE stream = "copy"
      BY <2>2 DEF WaitKind, EntryKinds
    <2>3. CASE stream = "comms"
      BY <2>3 DEF WaitKind, EntryKinds
    <2> QED
      BY <2>1, <2>2, <2>3 DEF StreamKinds
  <1> QED
    BY <1>1 DEF WaitEvent, EventShapes

LEMMA RecordKeeps ==
    ASSUME ChainSound, NEW step, step = current_step, NEW e \in EventShapes,
           e.awaited \in held \cup {NoWait}, RecordEntry(step, e)
    PROVE  ChainSound'
  <1> DEFINE id == event_counter + 1
             h == [id |-> id, step |-> step]
             entry == Entry(step, e, id)
             n == Len(records)
  <1>1. /\ event_counter \in Nat /\ current_step \in Nat /\ held \subseteq Handles
        /\ \A g \in held : g.id \in 1..event_counter
        /\ \A f, g \in held : f.id = g.id => f = g
        /\ records \in Seq(ChainEntries)
        /\ \A i \in DOMAIN records :
              /\ records[i].step_id = current_step
              /\ [id |-> records[i].event_id, step |-> records[i].step_id] \in held
              /\ records[i].awaited \in held \cup {NoWait}
    BY DEF ChainSound
  <1>2. /\ event_counter' = id /\ records' = Append(records, entry)
        /\ held' = held \cup {h} /\ current_step' = current_step
    BY DEF RecordEntry, NextEvent
  <1>3. id \in Nat /\ id > event_counter /\ h \in Handles /\ h.id = id
    BY <1>1 DEF Handles
  <1>4. /\ entry \in ChainEntries /\ entry.step_id = step /\ entry.event_id = id
        /\ entry.awaited = e.awaited
    BY <1>1, <1>3 DEF Entry, ChainEntries, EventShapes
  <1>5. [id |-> entry.event_id, step |-> entry.step_id] = h
    BY <1>4
  <1> HIDE DEF entry, h
  <1>6. /\ records' \in Seq(ChainEntries) /\ n \in Nat /\ DOMAIN records = 1..n
        /\ DOMAIN records' = 1..n+1 /\ records'[n+1] = entry
        /\ \A i \in 1..n : records'[i] = records[i]
    BY <1>1, <1>2, <1>4
  <1> HIDE DEF n
  <1>7. held' \subseteq Handles /\ \A g \in held' : g.id \in 1..id
    BY <1>1, <1>2, <1>3
  <1>8. \A f, g \in held' : f.id = g.id => f = g
    BY <1>1, <1>2, <1>3
  <1>9. ASSUME NEW i \in 1..n+1
        PROVE  /\ records'[i].step_id = current_step'
               /\ [id |-> records'[i].event_id, step |-> records'[i].step_id] \in held'
               /\ records'[i].awaited \in held' \cup {NoWait}
    <2>1. CASE i = n + 1
      BY <2>1, <1>2, <1>4, <1>5, <1>6
    <2>2. CASE i # n + 1
      <3>1. i \in 1..n /\ records'[i] = records[i]
        BY <2>2, <1>6
      <3> QED
        BY <3>1, <1>1, <1>2, <1>6
    <2> QED
      BY <2>1, <2>2
  <1> QED
    BY <1>1, <1>2, <1>3, <1>6, <1>7, <1>8, <1>9 DEF ChainSound

LEMMA BeginKeeps ==
    ASSUME ChainSound, NEW step \in Nat, current_step' = step, records' = <<>>,
           UNCHANGED <<event_counter, held>>
    PROVE  ChainSound'
  BY DEF ChainSound

\* A chain that validation accepts orders the streams.
LEMMA ValidOrders ==
    ASSUME ChainSound
    PROVE  ValidChainOrders
  <1>1. SUFFICES ASSUME NEW step \in Steps, ValidChain(records, step)
                 PROVE  HappensBefore(1, 3) /\ HappensBefore(3, 5) /\ step = current_step
    BY DEF ValidChainOrders
  <1>2. /\ records \in Seq(ChainEntries)
        /\ \A i \in DOMAIN records :
              /\ records[i].step_id = current_step
              /\ [id |-> records[i].event_id, step |-> records[i].step_id] \in held
              /\ records[i].awaited \in held \cup {NoWait}
        /\ \A h \in held : h.id \in 1..event_counter
        /\ \A h, g \in held : h.id = g.id => h = g
        /\ event_counter \in Nat
    BY DEF ChainSound
  <1>3. Len(records) = 5 /\ DOMAIN records = 1..5
    BY <1>1, <1>2 DEF ValidChain
  <1>4. step = current_step
    BY <1>1, <1>2, <1>3 DEF ValidChain
  <1>5. ASSUME NEW i \in 1..5, NEW j \in 1..5, records[j].awaited.id = records[i].event_id
        PROVE  Follows(i, j)
    <2> DEFINE h == [id |-> records[i].event_id, step |-> records[i].step_id]
               a == records[j].awaited
    <2>1. h \in held /\ a \in held \cup {NoWait}
      BY <1>2, <1>3
    <2>2. h.id = a.id
      BY <1>5
    <2>3. h.id # 0
      BY <1>2, <2>1
    <2> HIDE DEF h, a
    <2>4. a = h
      BY <1>2, <2>1, <2>2, <2>3, NoWaitTyped
    <2> QED
      BY <2>4 DEF Follows, h, a
  <1>6. /\ records[2].awaited.id = records[1].event_id
        /\ records[4].awaited.id = records[3].event_id
        /\ records[2].stream = records[3].stream /\ records[4].stream = records[5].stream
    BY <1>1 DEF ValidChain, WaitsFor, IsEvent
  <1>7. Follows(1, 2) /\ Follows(3, 4)
    BY <1>5, <1>6
  <1>8. Follows(2, 3) /\ Follows(4, 5)
    BY <1>6 DEF Follows
  <1>9. ASSUME NEW i \in 1..3, Follows(i, i + 1), Follows(i + 1, i + 2)
        PROVE  HappensBefore(i, i + 2)
    <2> DEFINE path == [m \in 1..3 |-> i + m - 1]
    <2>1. path \in [1..3 -> DOMAIN records] /\ 3 \in 2..Len(records)
      BY <1>3
    <2>2. path[1] = i /\ path[2] = i + 1 /\ path[3] = i + 2
      OBVIOUS
    <2> HIDE DEF path
    <2>3. \A m \in 1..3-1 : Follows(path[m], path[m+1])
      <3>1. \A m \in 1..3-1 : m = 1 \/ m = 2
        OBVIOUS
      <3>2. Follows(path[1], path[2]) /\ Follows(path[2], path[3])
        BY <1>9, <2>2
      <3>3. 1 + 1 = 2 /\ 2 + 1 = 3
        OBVIOUS
      <3> QED
        BY <3>1, <3>2, <3>3
    <2> QED
      BY <2>1, <2>2, <2>3 DEF HappensBefore
  <1>10. HappensBefore(1, 1 + 2) /\ HappensBefore(3, 3 + 2)
    <2>1. 1 + 1 = 2 /\ 1 + 2 = 3 /\ 3 + 1 = 4 /\ 3 + 2 = 5
      OBVIOUS
    <2>2. Follows(1, 1 + 1) /\ Follows(1 + 1, 1 + 2) /\ Follows(3, 3 + 1) /\ Follows(3 + 1, 3 + 2)
      BY <2>1, <1>7, <1>8
    <2> QED
      BY <2>2, <1>9
  <1>11. 1 + 2 = 3 /\ 3 + 2 = 5
    OBVIOUS
  <1> QED
    BY <1>4, <1>10, <1>11

LEMMA ChainSoundInit == ChainInit => ChainSound
  BY DEF ChainInit, ChainSound, None

LEMMA ChainSoundStep == ChainSound /\ [ChainNext]_chainVars => ChainSound'
  <1> SUFFICES ASSUME ChainSound, [ChainNext]_chainVars PROVE ChainSound'
    OBVIOUS
  <1>1. ASSUME NEW step \in Steps, BeginStep(step) PROVE ChainSound'
    BY <1>1, ChainAssumption, BeginKeeps DEF BeginStep
  <1>2. CASE ClearChain
    BY <1>2, BeginKeeps DEF ClearChain, None
  <1>3. CASE \/ RecordUploadComplete(current_step) \/ RecordComputeComplete(current_step)
             \/ RecordReadbackComplete(current_step)
             \/ RecordCommsEvent(current_step, "comms_complete")
    <2>1. PICK step : step = current_step
      OBVIOUS
    <2>2. PICK e \in EventShapes : e.awaited = NoWait /\ RecordEntry(step, e)
      BY <1>3, <2>1, EventsTyped DEF RecordUploadComplete, RecordComputeComplete,
         RecordReadbackComplete, RecordCommsEvent
    <2> QED
      BY <2>1, <2>2, RecordKeeps
  <1>4. ASSUME NEW stream \in StreamKinds, NEW h \in held, RecordWait(current_step, stream, h)
        PROVE  ChainSound'
    <2>1. PICK step : step = current_step
      OBVIOUS
    <2>2. h \in Handles
      BY DEF ChainSound
    <2>3. WaitEvent(stream, h) \in EventShapes /\ WaitEvent(stream, h).awaited = h
      BY <2>2, WaitTyped
    <2>4. PICK e \in EventShapes : e.awaited = h /\ RecordEntry(step, e)
      BY <1>4, <2>1, <2>3 DEF RecordWait
    <2> QED
      BY <2>1, <2>4, RecordKeeps
  <1>5. CASE UNCHANGED chainVars
    BY <1>5 DEF ChainSound, chainVars
  <1> QED
    BY <1>1, <1>2, <1>3, <1>4, <1>5 DEF ChainNext

\* Whatever a caller records under its step and waits for, and whichever ids of older steps
\* it still has in hand, a chain that validate_step_chain accepts orders
\* upload, graph and readback by events of its own step.
THEOREM ChainOrdersHolds == ChainSpec => []ValidChainOrders
  <1>1. ChainInit => ChainSound
    BY ChainSoundInit
  <1>2. ChainSound /\ [ChainNext]_chainVars => ChainSound'
    BY ChainSoundStep
  <1>3. ChainSound => ValidChainOrders
    BY ValidOrders
  <1> QED
    BY <1>1, <1>2, <1>3, PTL DEF ChainSpec

-------------------------------------------------------------------------------
(* The chain of a step of the scheduler                                    *)

LEMMA EntryFields ==
    ASSUME NEW step, NEW e, NEW id
    PROVE  Entry(step, e, id).event_id = id /\ Entry(step, e, id).step_id = step
  BY DEF Entry

\* Recording the next event of the chain extends it, and the id just handed
\* out is the newest one.
LEMMA StepRecords ==
    ASSUME ChainSound, NEW step \in Nat, step = current_step,
           Len(records) <= event_counter, Len(records) < 5,
           StepEntries(records, event_counter - Len(records), step),
           RecordEntry(step, StepEvent(Len(records) + 1, event_counter - Len(records), step))
    PROVE  /\ ChainSound'
           /\ current_step' = current_step
           /\ Len(records') = Len(records) + 1 /\ Len(records') <= event_counter'
           /\ StepEntries(records', event_counter' - Len(records'), step)
  <1>1. /\ event_counter \in Nat /\ records \in Seq(ChainEntries)
        /\ \A i \in DOMAIN records :
              [id |-> records[i].event_id, step |-> records[i].step_id] \in held
    BY DEF ChainSound
  <1>2. PICK n \in Nat : n = Len(records)
    BY <1>1
  <1>3. PICK c \in Nat : c = event_counter - Len(records)
    <2>1. event_counter - Len(records) \in Nat
      BY <1>1, <1>2
    <2> QED
      BY <2>1
  <1>4. n \in 0..4 /\ event_counter = c + n /\ DOMAIN records = 1..n
    BY <1>1, <1>2, <1>3
  <1>5. PICK e : e = StepEvent(n + 1, c, step)
    OBVIOUS
  <1>6. RecordEntry(step, e)
    BY <1>2, <1>3, <1>5
  <1>7. \A i \in 1..n : records[i] = Entry(step, StepEvent(i, c, step), c + i)
    BY <1>2, <1>3 DEF StepEntries
  <1>8. ASSUME NEW i \in 1..n PROVE [id |-> c + i, step |-> step] \in held
    <2>1. records[i].event_id = c + i /\ records[i].step_id = step
      BY <1>7, EntryFields
    <2> QED
      BY <2>1, <1>1, <1>4
  <1>9. e \in EventShapes /\ e.awaited \in held \cup {NoWait}
    <2>1. CASE n = 0 \/ n = 2 \/ n = 4
      <3>1. e = UploadEvent \/ e = ComputeEvent \/ e = ReadbackEvent
        BY <2>1, <1>5 DEF StepEvent
      <3> QED
        BY <3>1, EventsTyped
    <2>2. CASE n = 1
      <3>1. PICK h : h = [id |-> c + 1, step |-> step]
        OBVIOUS
      <3>2. h \in Handles /\ h \in held
        BY <3>1, <2>2, <1>8 DEF Handles
      <3>3. e = WaitEvent("compute", h) /\ "compute" \in StreamKinds
        BY <2>2, <3>1, <1>5 DEF StepEvent, StreamKinds
      <3> QED
        BY <3>2, <3>3, WaitTyped
    <2>3. CASE n = 3
      <3>1. PICK h : h = [id |-> c + 3, step |-> step]
        OBVIOUS
      <3>2. h \in Handles /\ h \in held
        BY <3>1, <2>3, <1>8 DEF Handles
      <3>3. e = WaitEvent("copy", h) /\ "copy" \in StreamKinds
        BY <2>3, <3>1, <1>5 DEF StepEvent, StreamKinds
      <3> QED
        BY <3>2, <3>3, WaitTyped
    <2> QED
      BY <2>1, <2>2, <2>3, <1>4
  <1>10. ChainSound'
    BY <1>6, <1>9, RecordKeeps
  <1>11. /\ event_counter' = event_counter + 1 /\ current_step' = current_step
         /\ records' = Append(records, Entry(step, e, event_counter + 1))
    BY <1>6 DEF RecordEntry, NextEvent
  <1>12. PICK r : r = Entry(step, e, event_counter + 1)
    OBVIOUS
  <1>13. /\ Len(records') = n + 1 /\ records'[n + 1] = r
         /\ \A i \in 1..n : records'[i] = records[i]
    BY <1>1, <1>2, <1>11, <1>12
  <1>14. event_counter' - Len(records') = c /\ Len(records') <= event_counter'
    BY <1>4, <1>11, <1>13
  <1>15. ASSUME NEW i \in 1..n+1
         PROVE  records'[i] = Entry(step, StepEvent(i, c, step), c + i)
    <2>1. CASE i = n + 1
      <3>1. event_counter + 1 = c + (n + 1)
        BY <1>4
      <3>2. r = Entry(step, StepEvent(n + 1, c, step), c + (n + 1))
        BY <3>1, <1>5, <1>12
      <3> QED
        BY <2>1, <3>2, <1>13
    <2>2. CASE i # n + 1
      <3>1. i \in 1..n
        BY <2>2, <1>4
      <3> QED
        BY <3>1, <1>7, <1>13
    <2> QED
      BY <2>1, <2>2
  <1>16. StepEntries(records', event_counter' - Len(records'), step)
    BY <1>13, <1>14, <1>15 DEF StepEntries
  <1> QED
    BY <1>2, <1>10, <1>11, <1>13, <1>14, <1>16

\* The complete chain is accepted.
LEMMA CompleteChainIsValid ==
    ASSUME NEW recs, NEW c \in Nat, NEW step, Len(recs) = 5, StepEntries(recs, c, step)
    PROVE  ValidChain(recs, step)
  <1>1. \A i \in 1..5 : recs[i] = Entry(step, StepEvent(i, c, step), c + i)
    BY DEF StepEntries
  <1>2. /\ recs[1] = Entry(step, UploadEvent, c + 1)
        /\ recs[2] = Entry(step, WaitEvent("compute", [id |-> c + 1, step |-> step]), c + 2)
        /\ recs[3] = Entry(step, ComputeEvent, c + 3)
        /\ recs[4] = Entry(step, WaitEvent("copy", [id |-> c + 3, step |-> step]), c + 4)
        /\ recs[5] = Entry(step, ReadbackEvent, c + 5)
    BY <1>1 DEF StepEvent
  <1>3. \A i \in 1..5 : recs[i].step_id = step /\ recs[i].event_id = c + i
    BY <1>1 DEF Entry
  <1>4. \A i \in 1..4 : recs[i].event_id < recs[i+1].event_id
    <2>1. \A i \in 1..4 : i \in 1..5 /\ i + 1 \in 1..5
      OBVIOUS
    <2> QED
      BY <2>1, <1>3
  <1>5. /\ IsEvent(recs[1], "copy", "upload_complete")
        /\ IsEvent(recs[2], "compute", "wait_upload") /\ recs[2].awaited.id = c + 1
        /\ IsEvent(recs[3], "compute", "compute_complete")
        /\ IsEvent(recs[4], "copy", "wait_compute") /\ recs[4].awaited.id = c + 3
        /\ IsEvent(recs[5], "copy", "readback_complete")
    BY <1>2 DEF IsEvent, Entry, UploadEvent, ComputeEvent, ReadbackEvent, WaitEvent, WaitKind
  <1>6. WaitsFor(recs[2], recs[1]) /\ WaitsFor(recs[4], recs[3])
    BY <1>3, <1>5 DEF WaitsFor
  <1> QED
    BY <1>3, <1>4, <1>5, <1>6 DEF ValidChain

PhaseInv == ChainSound /\ PhaseSound /\ step_counter \in Nat

LEMMA PhaseInvInit == DeviceInit => PhaseInv
  BY ChainSoundInit DEF DeviceInit, PhaseInv, PhaseSound

\* One recording call of a step, from a place with n entries to the next.
LEMMA PhaseRecords ==
    ASSUME PhaseInv, dpc \notin {"idle", "failed"}, NEW n \in 0..4, Len(records) = n,
           NEW e, e = StepEvent(n + 1, event_counter - n, step_counter),
           RecordEntry(step_counter, e), step_counter' = step_counter
    PROVE  /\ ChainSound' /\ current_step' = step_counter' /\ step_counter' \in Nat
           /\ Len(records') = n + 1 /\ Len(records') <= event_counter'
           /\ StepEntries(records', event_counter' - Len(records'), step_counter')
  <1>1. /\ ChainSound /\ step_counter \in Nat /\ current_step = step_counter
        /\ Len(records) <= event_counter
        /\ StepEntries(records, event_counter - Len(records), step_counter)
    BY DEF PhaseInv, PhaseSound
  <1>2. PICK step \in Nat : step = step_counter
    BY <1>1
  <1>3. /\ step = current_step
        /\ StepEntries(records, event_counter - Len(records), step)
        /\ RecordEntry(step, StepEvent(Len(records) + 1, event_counter - Len(records), step))
    BY <1>1, <1>2
  <1>4. Len(records) < 5
    OBVIOUS
  <1> QED
    BY <1>1, <1>2, <1>3, <1>4, StepRecords

LEMMA PhaseInvStep ==
    ASSUME PhaseInv, [DeviceNext]_deviceVars
    PROVE  /\ PhaseInv'
           /\ dpc = "readback" /\ records' # records => dpc' = "post"
  <1>0. /\ ChainSound /\ step_counter \in Nat /\ event_counter \in Nat
        /\ dpc # "idle" => current_step = step_counter
    BY DEF PhaseInv, PhaseSound, ChainSound
  <1>1. ASSUME NEW k \in Keys, BeginDevice(k)
        PROVE  PhaseInv' /\ dpc # "readback"
    <2>1. PICK step : step = step_counter + 1
      OBVIOUS
    <2>2. /\ dpc = "idle" /\ dpc' = "upload" /\ step_counter' = step /\ step \in Nat
          /\ current_step' = step /\ records' = <<>> /\ UNCHANGED <<event_counter, held>>
      BY <1>0, <1>1, <2>1 DEF BeginDevice, BeginStep
    <2>3. ChainSound'
      BY <1>0, <2>2, BeginKeeps
    <2>4. Len(records') = 0 /\ Len(records') <= event_counter' /\ event_counter' \in Nat
      BY <1>0, <2>2
    <2>5. StepEntries(records', event_counter' - Len(records'), step_counter')
      BY <2>4 DEF StepEntries
    <2> QED
      BY <2>2, <2>3, <2>4, <2>5 DEF PhaseInv, PhaseSound
  <1>2. CASE Uploaded
    <2>1. /\ dpc = "upload" /\ dpc' = "wait_upload" /\ step_counter' = step_counter
          /\ RecordEntry(step_counter, UploadEvent)
      BY <1>2 DEF Uploaded, RecordUploadComplete
    <2>2. Len(records) = 0
      BY <2>1 DEF PhaseInv, PhaseSound
    <2>3. UploadEvent = StepEvent(0 + 1, event_counter - 0, step_counter)
      BY DEF StepEvent
    <2>4. PICK e : e = UploadEvent
      OBVIOUS
    <2>5. /\ ChainSound' /\ current_step' = step_counter' /\ step_counter' \in Nat
          /\ Len(records') = 0 + 1 /\ Len(records') <= event_counter'
          /\ StepEntries(records', event_counter' - Len(records'), step_counter')
      BY <2>1, <2>2, <2>3, <2>4, PhaseRecords
    <2> QED
      BY <2>1, <2>5 DEF PhaseInv, PhaseSound
  <1>3. CASE ComputeWaits
    <2>1. /\ dpc = "wait_upload" /\ dpc' = "replay" /\ step_counter' = step_counter
          /\ RecordEntry(step_counter, WaitEvent("compute", LastId))
      BY <1>3 DEF ComputeWaits, RecordWait
    <2>2. Len(records) = 1
      BY <2>1 DEF PhaseInv, PhaseSound
    <2>3. WaitEvent("compute", LastId) = StepEvent(1 + 1, event_counter - 1, step_counter)
      <3>1. (event_counter - 1) + 1 = event_counter /\ 1 + 1 = 2
        BY <1>0
      <3> QED
        BY <3>1 DEF StepEvent, LastId
    <2>4. PICK e : e = WaitEvent("compute", LastId)
      OBVIOUS
    <2>5. /\ ChainSound' /\ current_step' = step_counter' /\ step_counter' \in Nat
          /\ Len(records') = 1 + 1 /\ Len(records') <= event_counter'
          /\ StepEntries(records', event_counter' - Len(records'), step_counter')
      BY <2>1, <2>2, <2>3, <2>4, PhaseRecords
    <2> QED
      BY <2>1, <2>5 DEF PhaseInv, PhaseSound
  <1>4. CASE ComputeDone
    <2>1. /\ dpc = "replayed" /\ dpc' = "wait_compute" /\ step_counter' = step_counter
          /\ RecordEntry(step_counter, ComputeEvent)
      BY <1>4 DEF ComputeDone, RecordComputeComplete
    <2>2. Len(records) = 2
      BY <2>1 DEF PhaseInv, PhaseSound
    <2>3. ComputeEvent = StepEvent(2 + 1, event_counter - 2, step_counter)
      BY DEF StepEvent
    <2>4. PICK e : e = ComputeEvent
      OBVIOUS
    <2>5. /\ ChainSound' /\ current_step' = step_counter' /\ step_counter' \in Nat
          /\ Len(records') = 2 + 1 /\ Len(records') <= event_counter'
          /\ StepEntries(records', event_counter' - Len(records'), step_counter')
      BY <2>1, <2>2, <2>3, <2>4, PhaseRecords
    <2> QED
      BY <2>1, <2>5 DEF PhaseInv, PhaseSound
  <1>5. CASE CopyWaits
    <2>1. /\ dpc = "wait_compute" /\ dpc' = "readback" /\ step_counter' = step_counter
          /\ RecordEntry(step_counter, WaitEvent("copy", LastId))
      BY <1>5 DEF CopyWaits, RecordWait
    <2>2. Len(records) = 3
      BY <2>1 DEF PhaseInv, PhaseSound
    <2>3. WaitEvent("copy", LastId) = StepEvent(3 + 1, event_counter - 3, step_counter)
      <3>1. (event_counter - 3) + 3 = event_counter /\ 3 + 1 = 4
        BY <1>0
      <3> QED
        BY <3>1 DEF StepEvent, LastId
    <2>4. PICK e : e = WaitEvent("copy", LastId)
      OBVIOUS
    <2>5. /\ ChainSound' /\ current_step' = step_counter' /\ step_counter' \in Nat
          /\ Len(records') = 3 + 1 /\ Len(records') <= event_counter'
          /\ StepEntries(records', event_counter' - Len(records'), step_counter')
      BY <2>1, <2>2, <2>3, <2>4, PhaseRecords
    <2> QED
      BY <2>1, <2>5 DEF PhaseInv, PhaseSound
  <1>6. CASE ReadBack
    <2>1. /\ dpc = "readback" /\ step_counter' = step_counter
          /\ dpc' = IF ValidChain(records', step_counter) THEN "post" ELSE "failed"
          /\ RecordEntry(step_counter, ReadbackEvent)
      BY <1>6 DEF ReadBack, RecordReadbackComplete
    <2>2. Len(records) = 4
      BY <2>1 DEF PhaseInv, PhaseSound
    <2>3. ReadbackEvent = StepEvent(4 + 1, event_counter - 4, step_counter)
      BY DEF StepEvent
    <2>4. PICK e : e = ReadbackEvent
      OBVIOUS
    <2>5. /\ ChainSound' /\ current_step' = step_counter' /\ step_counter' \in Nat
          /\ Len(records') = 4 + 1 /\ Len(records') <= event_counter'
          /\ StepEntries(records', event_counter' - Len(records'), step_counter')
      BY <2>1, <2>2, <2>3, <2>4, PhaseRecords
    <2>6. ValidChain(records', step_counter)
      <3>1. event_counter' \in Nat
        BY <2>5 DEF ChainSound
      <3>2. PICK recs : recs = records'
        OBVIOUS
      <3>3. PICK c \in Nat : c = event_counter' - Len(records')
        <4>1. Len(records') = 5
          BY <2>5
        <4>2. 5 <= event_counter'
          BY <2>5
        <4>3. PICK m \in Nat : m = event_counter'
          BY <3>1
        <4>4. 5 <= m
          BY <4>2, <4>3
        <4>5. m - 5 \in Nat
          BY <4>4
        <4> QED
          BY <4>1, <4>3, <4>5
      <3>4. PICK step : step = step_counter
        OBVIOUS
      <3>5. Len(recs) = 5 /\ StepEntries(recs, c, step)
        BY <2>1, <2>5, <3>2, <3>3, <3>4
      <3>6. ValidChain(recs, step)
        BY <3>5, CompleteChainIsValid
      <3> QED
        BY <3>2, <3>4, <3>6
    <2>7. dpc' = "post"
      BY <2>1, <2>6
    <2> QED
      BY <2>5, <2>7 DEF PhaseInv, PhaseSound
  <1>7. CASE CaptureAndReplay
    <2>1. /\ UNCHANGED chainVars /\ step_counter' = step_counter /\ dpc = "replay"
          /\ dpc' \in {"replayed", "failed"}
      BY <1>7 DEF CaptureAndReplay
    <2> QED
      BY <1>0, <2>1 DEF PhaseInv, PhaseSound, ChainSound, chainVars
  <1>8. CASE DeviceFails \/ StepFailed
    <2>1. /\ UNCHANGED chainVars /\ step_counter' = step_counter /\ dpc # "idle"
          /\ dpc' \in {"idle", "failed"}
      BY <1>8 DEF DeviceFails, StepFailed
    <2> QED
      BY <1>0, <2>1 DEF PhaseInv, PhaseSound, ChainSound, chainVars
  <1>9. CASE PushRecord
    <2>1. UNCHANGED chainVars /\ step_counter' = step_counter /\ dpc' = "idle" /\ dpc = "post"
      BY <1>9 DEF PushRecord
    <2> QED
      BY <1>0, <2>1 DEF PhaseInv, PhaseSound, ChainSound, chainVars
  <1>10. CASE TakeSlice \/ ClearLog \/ UNCHANGED deviceVars
    <2>1. UNCHANGED chainVars /\ step_counter' = step_counter /\ dpc' = dpc
      BY <1>10 DEF TakeSlice, ClearLog, deviceVars
    <2> QED
      BY <1>0, <2>1 DEF PhaseInv, PhaseSound, ChainSound, chainVars
  <1> QED
    BY <1>1, <1>2, <1>3, <1>4, <1>5, <1>6, <1>7, <1>8, <1>9, <1>10 DEF DeviceNext

\* For every program and event limit: what validate_step_chain accepts orders
\* the streams by events of its own step, and a step whose executor calls all
\* succeed is accepted, whatever steps failed half-way before it.
THEOREM ChainExactHolds == DeviceSpec => ChainExact
  <1>1. DeviceInit => PhaseInv
    BY PhaseInvInit
  <1>2. PhaseInv /\ [DeviceNext]_deviceVars => PhaseInv'
    BY PhaseInvStep
  <1>3. PhaseInv => ValidChainOrders
    BY ValidOrders DEF PhaseInv
  <1>4. /\ PhaseInv /\ PhaseInv' /\ ValidChainOrders' /\ [DeviceNext]_deviceVars
        => [/\ ValidChainOrders'
            /\ dpc = "readback" /\ records' # records => dpc' = "post"]_deviceVars
    BY PhaseInvStep
  <1> QED
    BY <1>1, <1>2, <1>3, <1>4, PTL DEF DeviceSpec, ChainExact

-------------------------------------------------------------------------------
(* The allocation budget, for any finite set of owners, any limit and any
   word size                                                               *)

\* The Cardinality that AtomicBudget takes from FiniteSets is Cardinality.
LEMMA InstanceCardinality ==
    ASSUME NEW S
    PROVE  Atomic!Cardinality(S) = Cardinality(S)
BY Zenon DEF Atomic!Cardinality, Cardinality

\* Total counts bytes.
LEMMA TotalIsCardinality ==
    ASSUME NEW f
    PROVE  Atomic!Total(f) = Cardinality(Atomic!Bytes(f))
BY InstanceCardinality DEF Atomic!Total

\* The number of bytes of any map from owners to sizes is a natural number.
LEMMA TotalType ==
    ASSUME NEW f
    PROVE  IsFiniteSet(Atomic!Bytes(f)) /\ Atomic!Total(f) \in Nat
<1>1. IsFiniteSet(1 .. Limit)
    BY FS_Interval, BudgetAssumption
<1>2. IsFiniteSet(Owners \X (1 .. Limit))
    BY <1>1, FS_Product, BudgetAssumption
<1>3. Atomic!Bytes(f) \in SUBSET (Owners \X (1 .. Limit))
    BY DEF Atomic!Bytes
<1>4. IsFiniteSet(Atomic!Bytes(f))
    BY <1>2, <1>3, FS_Subset
<1> QED
    BY <1>4, FS_CardinalityType, TotalIsCardinality

\* A larger map has at least as many bytes.
LEMMA TotalMonotone ==
    ASSUME NEW f \in [Owners -> Nat], NEW g \in [Owners -> Nat],
           \A a \in Owners : f[a] <= g[a]
    PROVE  Atomic!Total(f) <= Atomic!Total(g)
<1>1. Atomic!Bytes(f) \subseteq Atomic!Bytes(g)
    <2> SUFFICES ASSUME NEW a \in Owners, NEW i \in 1 .. Limit, i <= f[a]
                 PROVE  i <= g[a]
        BY DEF Atomic!Bytes
    <2> QED
        BY BudgetAssumption
<1>2. IsFiniteSet(Atomic!Bytes(g))
    BY TotalType
<1> QED
    BY <1>1, <1>2, FS_Subset, TotalIsCardinality

\* Charging n bytes to an owner without a charge adds n bytes.
LEMMA TotalAdd ==
    ASSUME NEW f \in [Owners -> Nat], NEW a \in Owners, f[a] = 0,
           NEW n \in 0 .. Limit
    PROVE  Atomic!Total([f EXCEPT ![a] = n]) = Atomic!Total(f) + n
<1> DEFINE g == [f EXCEPT ![a] = n]
           B == {a} \X (1 .. n)
<1>0. Limit \in Nat /\ n \in Nat /\ n <= Limit
    BY BudgetAssumption
<1>1. Atomic!Bytes(g) = Atomic!Bytes(f) \cup B
    <2>1. ASSUME NEW c \in Owners, NEW i \in 1 .. Limit
          PROVE  i <= g[c] <=> i <= f[c] \/ <<c, i>> \in B
        BY <1>0
    <2>2. B \subseteq Owners \X (1 .. Limit)
        BY <1>0
    <2> QED
        BY <2>1, <2>2 DEF Atomic!Bytes
<1>2. Atomic!Bytes(f) \cap B = {}
    BY <1>0 DEF Atomic!Bytes
<1>3. IsFiniteSet(B) /\ Cardinality(B) = n
    <2>1. IsFiniteSet(1 .. n) /\ Cardinality(1 .. n) = n
        <3>1. n \in Int /\ 1 \in Int
            BY <1>0
        <3>2. /\ IsFiniteSet(1 .. n)
              /\ Cardinality(1 .. n) = IF 1 > n THEN 0 ELSE n - 1 + 1
            BY <3>1, FS_Interval, Zenon
        <3> QED
            BY <1>0, <3>2
    <2>2. IsFiniteSet({a}) /\ Cardinality({a}) = 1
        BY FS_Singleton
    <2>3. /\ IsFiniteSet(B)
          /\ Cardinality(B) = Cardinality({a}) * Cardinality(1 .. n)
        BY <2>1, <2>2, FS_Product, Zenon
    <2>4. Cardinality(B) = 1 * n
        BY <2>1, <2>2, <2>3
    <2> QED
        BY <1>0, <2>3, <2>4
<1>4. IsFiniteSet(Atomic!Bytes(f)) /\ Cardinality(Atomic!Bytes(f)) \in Nat
    BY TotalType, TotalIsCardinality
<1>5. Cardinality(Atomic!Bytes(f) \cup B) = Cardinality(Atomic!Bytes(f)) + n
    <2>1. Cardinality(Atomic!Bytes(f) \cup B)
              = Cardinality(Atomic!Bytes(f)) + Cardinality(B)
                    - Cardinality(Atomic!Bytes(f) \cap B)
        BY <1>3, <1>4, FS_Union, Zenon
    <2>2. Cardinality(Atomic!Bytes(f) \cap B) = 0
        BY <1>2, FS_EmptySet
    <2> QED
        BY <1>0, <1>3, <1>4, <2>1, <2>2
<1> QED
    BY <1>0, <1>1, <1>4, <1>5, TotalIsCardinality

\* Releasing an owner's charge takes exactly its bytes away.
LEMMA TotalRemove ==
    ASSUME NEW f \in [Owners -> Nat], NEW a \in Owners, f[a] <= Limit
    PROVE  Atomic!Total(f) = Atomic!Total([f EXCEPT ![a] = 0]) + f[a]
<1> DEFINE g == [f EXCEPT ![a] = 0]
<1>1. g \in [Owners -> Nat] /\ g[a] = 0 /\ f[a] \in 0 .. Limit
    BY BudgetAssumption
<1>2. f = [g EXCEPT ![a] = f[a]]
    OBVIOUS
<1>3. Atomic!Total([g EXCEPT ![a] = f[a]]) = Atomic!Total(g) + f[a]
    <2> HIDE DEF g
    <2> QED
        BY <1>1, TotalAdd
<1> QED
    BY <1>2, <1>3

\* What each owner's call keeps true of its own variables.
OwnersOK ==
    /\ BudgetTypeOK
    /\ \A a \in Owners :
        /\ pc[a] # "idle" => request[a] \in Sizes
        /\ pc[a] = "cas" => Fits(seen[a], request[a])
        /\ pc[a] \in Charging => request[a] <= Limit
        /\ resident[a] = IF pc[a] = "held" THEN request[a] ELSE 0

\* The inductive invariant: the ledger is exact only because every charged
\* request is within the limit and was compared with the counter it changed.
BudgetIInv == OwnersOK /\ LedgerExact

\* The steps that charge nothing and release nothing.
QuietOwnerStep(a) ==
    \/ \E n \in Sizes : Allocate(a, n)
    \/ CasFails(a) \/ Refused(a)
    \/ MallocSucceeds(a) \/ MallocFails(a)
    \/ \E lost \in 0 .. MaxLeaked : FreeBuffer(a, lost)

\* BudgetNext is a quiet step, an exchange or a release of some owner.
LEMMA NextCases ==
    BudgetNext <=> \E a \in Owners : QuietOwnerStep(a) \/ CasSucceeds(a) \/ Release(a)
BY DEF BudgetNext, QuietOwnerStep

\* The words an owner computes with.
LEMMA Words ==
    ASSUME OwnersOK, NEW a \in Owners
    PROVE  /\ MaxWord \in Nat /\ Limit \in Nat /\ Limit <= MaxWord
           /\ used \in Nat /\ used <= MaxWord
           /\ request[a] \in Nat /\ request[a] <= MaxWord
           /\ seen[a] \in Nat
<1>1. MaxWord \in Nat /\ Limit \in Nat /\ Limit <= MaxWord
    BY BudgetAssumption
<1>2. request[a] \in Sizes \cup {0}
    BY DEF OwnersOK, BudgetTypeOK
<1>3. request[a] \in 0 .. MaxWord
    <2>1. \A n \in Sizes : n \in 0 .. MaxWord
        BY BudgetAssumption, Zenon
    <2>2. 0 \in 0 .. MaxWord
        BY <1>1
    <2> QED
        BY <1>2, <2>1, <2>2, Zenon
<1> QED
    BY <1>1, <1>3 DEF OwnersOK, BudgetTypeOK

\* Every step of an owner keeps OwnersOK.
LEMMA OwnersStep ==
    ASSUME OwnersOK, BudgetNext
    PROVE  OwnersOK'
<1> USE BudgetAssumption DEF OwnersOK, BudgetTypeOK, Charging
<1>0. PICK a \in Owners : QuietOwnerStep(a) \/ CasSucceeds(a) \/ Release(a)
    BY NextCases
<1>1. ASSUME NEW n \in Sizes, Allocate(a, n) PROVE OwnersOK'
    BY <1>1 DEF Allocate, Observe, Fits
<1>2. CASE CasFails(a)
    BY <1>2 DEF CasFails, Observe, Fits
<1>3. CASE Refused(a)
    BY <1>3 DEF Refused, Fits
<1>4. CASE MallocSucceeds(a)
    BY <1>4 DEF MallocSucceeds, Fits
<1>5. CASE MallocFails(a)
    BY <1>5 DEF MallocFails, Fits
<1>6. ASSUME NEW lost \in 0 .. MaxLeaked, FreeBuffer(a, lost) PROVE OwnersOK'
    BY <1>6 DEF FreeBuffer, Fits
<1>7. CASE CasSucceeds(a)
    <2>1. used' \in 0 .. MaxWord /\ request[a] <= Limit
        BY <1>7, Words DEF CasSucceeds, Fits
    <2> QED
        BY <1>7, <2>1 DEF CasSucceeds, Fits
<1>8. CASE Release(a)
    <2>1. used' \in 0 .. MaxWord
        BY <1>8, Words DEF Release
    <2> QED
        BY <1>8, <2>1 DEF Release, Fits
<1> QED
    BY <1>0, <1>1, <1>2, <1>3, <1>4, <1>5, <1>6, <1>7, <1>8 DEF QuietOwnerStep

\* A quiet step changes neither the counter nor any charge.
LEMMA QuietCharge ==
    ASSUME OwnersOK, NEW a \in Owners, QuietOwnerStep(a)
    PROVE  used' = used /\ Charge' = Charge
BY DEF OwnersOK, BudgetTypeOK, Charging, Charge, QuietOwnerStep, Allocate, CasFails,
       Observe, Refused, MallocSucceeds, MallocFails, FreeBuffer

\* An exchange charges the request of its owner.
LEMMA ExchangeCharge ==
    ASSUME OwnersOK, NEW a \in Owners, CasSucceeds(a)
    PROVE  /\ Charge[a] = 0
           /\ request[a] \in 0 .. Limit
           /\ used' = used + request[a]
           /\ used' <= Limit
           /\ Charge' = [Charge EXCEPT ![a] = request[a]]
<1>1. /\ request[a] \in 0 .. Limit
      /\ used' = used + request[a]
      /\ used' <= Limit
    BY Words DEF OwnersOK, CasSucceeds, Fits
<1>2. Charge[a] = 0
    BY DEF CasSucceeds, Charge, Charging
<1>3. Charge' = [Charge EXCEPT ![a] = request[a]]
    BY DEF OwnersOK, BudgetTypeOK, Charging, Charge, CasSucceeds
<1> QED
    BY <1>1, <1>2, <1>3

\* A release takes the charge of its owner away.
LEMMA ReleaseCharge ==
    ASSUME OwnersOK, NEW a \in Owners, Release(a)
    PROVE  /\ Charge[a] = request[a]
           /\ request[a] \in 0 .. Limit
           /\ used' = (used - request[a]) % (MaxWord + 1)
           /\ Charge' = [Charge EXCEPT ![a] = 0]
<1>1. request[a] \in 0 .. Limit
    BY Words DEF OwnersOK, Release, Charging
<1>2. Charge[a] = request[a]
    BY DEF Release, Charge, Charging
<1>3. Charge' = [Charge EXCEPT ![a] = 0]
    BY DEF OwnersOK, BudgetTypeOK, Charging, Charge, Release
<1> QED
    BY <1>1, <1>2, <1>3 DEF Release

\* A charge is a size.
LEMMA ChargeType ==
    ASSUME OwnersOK
    PROVE  Charge \in [Owners -> Nat]
BY Words DEF Charge

\* The ledger stays exact through every step.
LEMMA LedgerStep ==
    ASSUME BudgetIInv, BudgetNext
    PROVE  LedgerExact'
<1> USE DEF BudgetIInv
<1>0. PICK a \in Owners : QuietOwnerStep(a) \/ CasSucceeds(a) \/ Release(a)
    BY NextCases
<1>1. /\ used = Atomic!Total(Charge) /\ used <= Limit
      /\ Charge \in [Owners -> Nat]
    BY ChargeType DEF LedgerExact
<1>2. SUFFICES used' = Atomic!Total(Charge') /\ used' <= Limit
    BY DEF LedgerExact, Atomic!Total, Atomic!Bytes
<1>3. CASE QuietOwnerStep(a)
    BY <1>1, <1>3, QuietCharge
<1>4. CASE CasSucceeds(a)
    BY <1>1, <1>4, ExchangeCharge, TotalAdd
<1>5. CASE Release(a)
    <2>1. /\ Charge[a] = request[a] /\ request[a] \in 0 .. Limit
          /\ used' = (used - request[a]) % (MaxWord + 1)
          /\ Charge' = [Charge EXCEPT ![a] = 0]
        BY <1>5, ReleaseCharge
    <2>2. Charge[a] <= Limit
        BY <2>1, Words
    <2>3. Atomic!Total(Charge) = Atomic!Total(Charge') + request[a]
        BY <1>1, <2>1, <2>2, TotalRemove
    <2>4. Atomic!Total(Charge') \in Nat
        BY TotalType
    <2>5. used - request[a] \in 0 .. MaxWord
        BY <1>1, <2>1, <2>3, <2>4, Words
    <2>6. used' = used - request[a]
        BY <2>1, <2>5, Words
    <2> QED
        BY <1>1, <2>1, <2>3, <2>4, <2>6, Words
<1> QED
    BY <1>0, <1>3, <1>4, <1>5

\* The inductive invariant holds initially.
LEMMA InvariantInit ==
    ASSUME BudgetInit
    PROVE  BudgetIInv
<1>1. OwnersOK
    BY BudgetAssumption
       DEF BudgetInit, OwnersOK, BudgetTypeOK, Charging, Fits
<1>2. Charge = [a \in Owners |-> 0]
    BY DEF BudgetInit, Charge, Charging
<1>3. Atomic!Bytes(Charge) = {}
    BY <1>2, BudgetAssumption DEF Atomic!Bytes
<1>4. Atomic!Total(Charge) = 0
    BY <1>3, FS_EmptySet, TotalIsCardinality
<1> QED
    BY <1>1, <1>4, BudgetAssumption DEF BudgetIInv, LedgerExact, BudgetInit

\* A stuttering step changes nothing.
LEMMA InvariantStutter ==
    ASSUME BudgetIInv, UNCHANGED budgetVars
    PROVE  BudgetIInv'
BY DEF BudgetIInv, OwnersOK, BudgetTypeOK, LedgerExact, Charge, budgetVars,
       Fits, Atomic!Total, Atomic!Bytes

\* The inductive invariant holds in every reachable state.
THEOREM BudgetInvariant == BudgetSpec => []BudgetIInv
<1>1. BudgetInit => BudgetIInv
    BY InvariantInit
<1>2. BudgetIInv /\ [BudgetNext]_budgetVars => BudgetIInv'
    BY OwnersStep, LedgerStep, InvariantStutter DEF BudgetIInv
<1> QED
    BY <1>1, <1>2, PTL DEF BudgetSpec

\* The counter of the allocation budget is always exact (LedgerExact): for any
\* number of threads, no charge is lost or released twice and the limit holds.
THEOREM LedgerExactHolds == BudgetSpec => []LedgerExact
<1>1. BudgetIInv => LedgerExact
    BY DEF BudgetIInv
<1> QED
    BY <1>1, BudgetInvariant, PTL

\* The device never holds more for budgeted buffers than is charged
\* (ResidentWithinBudget): the order of hipMalloc, hipFree and the ledger.
THEOREM ResidentWithinBudgetHolds == BudgetSpec => []ResidentWithinBudget
<1>1. ASSUME BudgetIInv PROVE ResidentWithinBudget
    <2>1. resident \in [Owners -> Nat] /\ Charge \in [Owners -> Nat]
        BY <1>1, ChargeType, BudgetAssumption
           DEF BudgetIInv, OwnersOK, BudgetTypeOK
    <2>2. ASSUME NEW a \in Owners PROVE resident[a] <= Charge[a]
        BY <1>1, Words DEF BudgetIInv, OwnersOK, Charge, Charging
    <2>3. Atomic!Total(resident) <= Atomic!Total(Charge)
        BY <2>1, <2>2, TotalMonotone
    <2> QED
        BY <1>1, <2>3 DEF BudgetIInv, LedgerExact, ResidentWithinBudget
<1> QED
    BY <1>1, BudgetInvariant, PTL

\* A quiet step is a refusal, the return of one, or invisible to the callers of
\* the atomic ledger.
LEMMA QuietIsAtomic ==
    ASSUME BudgetIInv, NEW a \in Owners, QuietOwnerStep(a)
    PROVE  \/ \E n \in Sizes : Atomic!Refuse(a, n)
           \/ Atomic!Forget(a)
           \/ UNCHANGED <<Charge, Status>>
<1> USE DEF BudgetIInv
<1>0. Charge' = Charge /\ used' = used
    BY QuietCharge
<1>1. ASSUME NEW n \in Nat, pc[a] \in {"idle", "cas"}, Observe(a, n, used),
             request' = [request EXCEPT ![a] = n]
      PROVE  \/ UNCHANGED Status
             \/ Status[a] = Atomic!Out /\ Atomic!Total(Charge) + n > Limit
                    /\ Status' = [Status EXCEPT ![a] = Atomic!Denied(n)]
    <2>1. CASE Fits(used, n)
        BY <1>1, <2>1 DEF Observe, Status, Charging, OwnersOK, BudgetTypeOK
    <2>2. CASE ~Fits(used, n)
        <3>1. Atomic!Total(Charge) + n > Limit
            BY <1>1, <2>2, Words DEF Fits, LedgerExact
        <3>2. /\ Status[a] = Atomic!Out
              /\ Status' = [Status EXCEPT ![a] = Atomic!Denied(n)]
            BY <1>1, <2>2 DEF Observe, Status, Charging, OwnersOK, BudgetTypeOK,
                              Atomic!Out, Atomic!Denied
        <3> QED
            BY <3>1, <3>2
    <2> QED
        BY <2>1, <2>2
<1>2. ASSUME NEW n \in Sizes, Allocate(a, n)
      PROVE  Atomic!Refuse(a, n) \/ UNCHANGED <<Charge, Status>>
    <2>1. n \in Nat
        BY BudgetAssumption
    <2> QED
        BY <1>0, <1>1, <1>2, <2>1 DEF Allocate, Atomic!Refuse
<1>3. CASE CasFails(a)
    <2>1. /\ request[a] \in Nat /\ request[a] \in Sizes /\ pc[a] \in {"idle", "cas"}
          /\ request' = [request EXCEPT ![a] = request[a]]
        BY <1>3, Words DEF CasFails, OwnersOK, BudgetTypeOK
    <2>2. Atomic!Refuse(a, request[a]) \/ UNCHANGED <<Charge, Status>>
        BY <1>0, <1>1, <1>3, <2>1 DEF CasFails, Atomic!Refuse
    <2> QED
        BY <2>1, <2>2
<1>4. CASE Refused(a)
    BY <1>0, <1>4 DEF Refused, Atomic!Forget, Atomic!Out, Status, Charging,
                      OwnersOK, BudgetTypeOK
<1>5. CASE MallocSucceeds(a) \/ MallocFails(a)
           \/ \E lost \in 0 .. MaxLeaked : FreeBuffer(a, lost)
    BY <1>0, <1>5 DEF MallocSucceeds, MallocFails, FreeBuffer, Status, Charging,
                      OwnersOK, BudgetTypeOK
<1> QED
    BY <1>2, <1>3, <1>4, <1>5 DEF QuietOwnerStep

\* The budget is linearizable (ImplementsAtomic): every step of the
\* compare-and-swap loop, of an allocation and of a drop is a step of the
\* indivisible ledger or invisible to it.
THEOREM BudgetRefinesAtomic == BudgetSpec => ImplementsAtomic
<1>1. BudgetInit => Atomic!AtomicInit
    BY DEF BudgetInit, Atomic!AtomicInit, Atomic!Out, Charge, Status, Charging
<1>2. ASSUME BudgetIInv, [BudgetNext]_budgetVars
      PROVE  [Atomic!AtomicNext]_(Atomic!ledger)
    <2>1. CASE UNCHANGED budgetVars
        BY <2>1 DEF budgetVars, Atomic!ledger, Charge, Status
    <2>2. ASSUME NEW a \in Owners, QuietOwnerStep(a)
          PROVE  [Atomic!AtomicNext]_(Atomic!ledger)
        BY <1>2, <2>2, QuietIsAtomic DEF Atomic!AtomicNext, Atomic!ledger
    <2>3. ASSUME NEW a \in Owners, CasSucceeds(a)
          PROVE  Atomic!AtomicNext
        <3>1. /\ used' = used + request[a] /\ used' <= Limit
              /\ Charge' = [Charge EXCEPT ![a] = request[a]]
            BY <1>2, <2>3, ExchangeCharge DEF BudgetIInv
        <3>2. request[a] \in Sizes /\ Atomic!Total(Charge) + request[a] <= Limit
            BY <1>2, <2>3, <3>1 DEF BudgetIInv, LedgerExact, OwnersOK, CasSucceeds
        <3>3. Status[a] = Atomic!Out /\ Status' = [Status EXCEPT ![a] = Atomic!In]
            BY <1>2, <2>3 DEF BudgetIInv, OwnersOK, BudgetTypeOK, CasSucceeds,
                              Status, Charging, Atomic!Out, Atomic!In
        <3>4. Atomic!Grant(a, request[a])
            BY <3>1, <3>2, <3>3 DEF Atomic!Grant
        <3> QED
            BY <3>2, <3>4 DEF Atomic!AtomicNext
    <2>4. ASSUME NEW a \in Owners, Release(a)
          PROVE  Atomic!AtomicNext
        <3>1. Charge' = [Charge EXCEPT ![a] = 0]
            BY <1>2, <2>4, ReleaseCharge DEF BudgetIInv
        <3>2. Status[a] = Atomic!In /\ Status' = [Status EXCEPT ![a] = Atomic!Out]
            BY <1>2, <2>4 DEF BudgetIInv, OwnersOK, BudgetTypeOK, Release,
                              Status, Charging, Atomic!Out, Atomic!In
        <3>3. Atomic!GiveBack(a)
            BY <3>1, <3>2 DEF Atomic!GiveBack
        <3> QED
            BY <3>3 DEF Atomic!AtomicNext
    <2> QED
        BY <1>2, <2>1, <2>2, <2>3, <2>4, NextCases
<1> QED
    BY <1>1, <1>2, BudgetInvariant, PTL DEF BudgetSpec, ImplementsAtomic, Atomic!AtomicSpec

=============================================================================
