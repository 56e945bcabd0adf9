----------------------------- MODULE FoldLemmas -----------------------------
(***************************************************************************)
(* Induction over data, for the definitions that go through a sequence     *)
(* step by step: the folds of SequencesExt and functions that are defined  *)
(* recursively over an interval.  The provers cannot instantiate an        *)
(* induction theorem that takes an operator, so induction is stated about  *)
(* a set: the naturals have a least element outside it, or it is all.      *)
(***************************************************************************)
EXTENDS SequencesExt, Integers, WellFoundedInduction, TLAPS

\* Every set of naturals has a least element.
LEMMA LeastNatural ==
  ASSUME NEW T \in SUBSET Nat, T # {}
  PROVE  \E n \in T : \A m \in T : n <= m
<1>1. IsWellFoundedOn(OpToRel(<, Nat), Nat)
  BY NatLessThanWellFounded
<1>2. PICK n \in T : \A m \in T : ~(<<m, n>> \in OpToRel(<, Nat))
  <2> HIDE DEF OpToRel
  <2> QED  BY <1>1, WFMin
<1>3. \A m \in T : ~(m < n)
  BY <1>2 DEF OpToRel
<1> QED  BY <1>3

LEMMA MinIs ==
  ASSUME NEW T \in SUBSET Nat, T # {}
  PROVE  Min(T) \in T /\ \A n \in T : Min(T) <= n
BY LeastNatural DEF Min

\* Induction: a set that has 0 and the successors of its elements has every natural.
LEMMA Induction ==
  ASSUME NEW T \in SUBSET Nat, 0 \in T, \A n \in T : n + 1 \in T
  PROVE  T = Nat
<1> SUFFICES ASSUME Nat \ T # {} PROVE FALSE
  OBVIOUS
<1>1. PICK n \in Nat \ T : \A m \in Nat \ T : n <= m
  BY LeastNatural
<1>2. n # 0
  BY <1>1
<1>3. n - 1 \in Nat /\ n - 1 \in T
  BY <1>1, <1>2
<1> QED  BY <1>1, <1>3

\* Induction up to a bound.
LEMMA BoundedInduction ==
  ASSUME NEW n \in Nat, NEW T, 0 \in T, \A k \in 1..n : k - 1 \in T => k \in T
  PROVE  0..n \subseteq T
<1> DEFINE U == {k \in Nat : k <= n => k \in T}
<1>1. 0 \in U /\ \A k \in U : k + 1 \in U
  <2>1. 0 \in U
    OBVIOUS
  <2>2. ASSUME NEW k \in U, k + 1 <= n PROVE k + 1 \in T
    <3>1. k \in T /\ k + 1 \in 1..n /\ (k + 1) - 1 = k
      BY <2>2
    <3> QED  BY <3>1
  <2> QED  BY <2>1, <2>2
<1>2. U = Nat
  <2> HIDE DEF U
  <2>1. U \in SUBSET Nat
    BY DEF U
  <2> QED  BY <1>1, <2>1, Induction
<1> QED  BY <1>2

-----------------------------------------------------------------------------
\* The greatest element of an initial interval, and of a set with it.
LEMMA MaxIs ==
  ASSUME NEW m \in Nat, NEW s \in SUBSET (1..m), m \in s
  PROVE  Max(s) = m
<1>1. \A y \in s : m >= y
  OBVIOUS
<1>2. \A x \in s : (\A y \in s : x >= y) => x = m
  OBVIOUS
<1> QED  BY <1>1, <1>2 DEF Max

LEMMA MaxOfFinite ==
  ASSUME NEW n \in Nat, NEW s \in SUBSET (1..n), s # {}
  PROVE  Max(s) \in s
<1> DEFINE Bounds == {k \in Nat : \A y \in s : y <= k}
<1>1. n \in Bounds
  OBVIOUS
<1>2. PICK m \in Bounds : \A k \in Bounds : m <= k
  <2> HIDE DEF Bounds
  <2>1. Bounds \in SUBSET Nat
    BY DEF Bounds
  <2> QED  BY <1>1, <2>1, LeastNatural
<1>3. m \in s
  <2> SUFFICES ASSUME m \notin s PROVE FALSE
    OBVIOUS
  <2>1. \A y \in s : y \in 1..n /\ y <= m /\ y # m
    BY <1>2
  <2>2. m - 1 \in Bounds
    <3>1. m \in Nat
      OBVIOUS
    <3>2. PICK y \in s : TRUE
      OBVIOUS
    <3>3. m - 1 \in Nat
      BY <2>1, <3>1, <3>2
    <3>4. \A z \in s : z <= m - 1
      BY <2>1, <3>1
    <3> QED  BY <3>3, <3>4
  <2>3. m \in Nat /\ m <= m - 1
    <3>1. m \in Nat
      BY <1>2
    <3> HIDE DEF Bounds
    <3> QED  BY <1>2, <2>2, <3>1
  <2> QED  BY <2>3
<1> QED  BY <1>2, <1>3 DEF Max

\* The steps of FoldLeft: the first k elements, for each k.
LEMMA InitialIntervals ==
  ASSUME NEW n \in Nat, NEW k \in 1..n
  PROVE  /\ 1..k \in SUBSET (1..n) /\ 1..k # {}
         /\ Max(1..k) = k /\ (1..k) \ {k} = 1..(k - 1)
<1>1. 1..k \in SUBSET (1..k) /\ k \in 1..k /\ 1..k \in SUBSET (1..n)
  OBVIOUS
<1>2. Max(1..k) = k
  BY <1>1, MaxIs
<1>3. (1..k) \ {k} = 1..(k - 1)
  OBVIOUS
<1> QED  BY <1>1, <1>2, <1>3

\* The functions that FoldLeft takes over the first n naturals, if a step leads from V to V.
FoldFunctions(V, base, step, n) ==
  {iter \in [SUBSET (1..n) -> V] :
     \A s \in SUBSET (1..n) :
       iter[s] = IF s = {} THEN base ELSE step[Max(s)][iter[s \ {Max(s)}]]}

\* There is one.
LEMMA FoldExists ==
  ASSUME NEW V, NEW base \in V, NEW n \in Nat, NEW step \in [1..n -> [V -> V]]
  PROVE  FoldFunctions(V, base, step, n) # {}
<1> DEFINE T == {m \in Nat : m <= n => FoldFunctions(V, base, step, m) # {}}
<1>1. 0 \in T
  <2> DEFINE only == [s \in SUBSET (1..0) |-> base]
  <2>1. \A s \in SUBSET (1..0) : s = {}
    OBVIOUS
  <2>2. only \in [SUBSET (1..0) -> V] /\ \A s \in SUBSET (1..0) : only[s] = base
    OBVIOUS
  <2> HIDE DEF only
  <2>3. only \in FoldFunctions(V, base, step, 0)
    BY <2>1, <2>2 DEF FoldFunctions
  <2> QED  BY <2>3
<1>2. ASSUME NEW m \in T PROVE m + 1 \in T
  <2> SUFFICES ASSUME m + 1 <= n
               PROVE  FoldFunctions(V, base, step, m + 1) # {}
    OBVIOUS
  <2>0. m \in Nat /\ m + 1 \in 1..n
    OBVIOUS
  <2>1. PICK it : it \in FoldFunctions(V, base, step, m)
    BY <2>0
  <2> HIDE DEF T
  <2>a. it \in [SUBSET (1..m) -> V]
    BY <2>1 DEF FoldFunctions
  <2>b. \A s \in SUBSET (1..m) :
          it[s] = IF s = {} THEN base ELSE step[Max(s)][it[s \ {Max(s)}]]
    BY <2>1 DEF FoldFunctions
  <2> DEFINE next == [s \in SUBSET (1..(m + 1)) |->
                        IF m + 1 \in s THEN step[m + 1][it[s \ {m + 1}]] ELSE it[s]]
  <2>2. \A s \in SUBSET (1..(m + 1)) :
          /\ m + 1 \in s => s \ {m + 1} \in SUBSET (1..m)
          /\ m + 1 \notin s => s \in SUBSET (1..m)
    BY <2>0
  <2>3. \A s \in SUBSET (1..m) : s \in SUBSET (1..(m + 1)) /\ m + 1 \notin s
    BY <2>0
  <2>c. \A s \in SUBSET (1..m) : next[s] = it[s]
    BY <2>3, Zenon
  <2>4. next \in [SUBSET (1..(m + 1)) -> V]
    <3>1. ASSUME NEW s \in SUBSET (1..(m + 1))
          PROVE  (IF m + 1 \in s THEN step[m + 1][it[s \ {m + 1}]] ELSE it[s]) \in V
      <4>1. CASE m + 1 \in s
        <5>1. it[s \ {m + 1}] \in V
          BY <2>2, <2>a, <4>1
        <5> QED  BY <2>0, <4>1, <5>1
      <4>2. CASE m + 1 \notin s
        BY <2>2, <2>a, <4>2
      <4> QED  BY <4>1, <4>2
    <3> QED  BY <3>1, Zenon
  <2>d. \A s \in SUBSET (1..(m + 1)) :
          next[s] = IF m + 1 \in s THEN step[m + 1][it[s \ {m + 1}]] ELSE it[s]
    OBVIOUS
  <2> HIDE DEF next
  <2>5. ASSUME NEW s \in SUBSET (1..(m + 1))
        PROVE  next[s] = IF s = {} THEN base ELSE step[Max(s)][next[s \ {Max(s)}]]
    <3>1. CASE m + 1 \in s
      <4>1. Max(s) = m + 1
        BY <2>0, <3>1, MaxIs
      <4>2. next[s \ {m + 1}] = it[s \ {m + 1}]
        BY <2>2, <2>c, <3>1
      <4>3. next[s] = step[m + 1][it[s \ {m + 1}]]
        BY <2>d, <3>1
      <4> QED  BY <3>1, <4>1, <4>2, <4>3
    <3>2. CASE m + 1 \notin s
      <4>1. s \in SUBSET (1..m) /\ s \ {Max(s)} \in SUBSET (1..m)
        BY <2>2, <3>2
      <4>2. next[s \ {Max(s)}] = it[s \ {Max(s)}] /\ next[s] = it[s]
        BY <2>c, <4>1
      <4>3. it[s] = IF s = {} THEN base ELSE step[Max(s)][it[s \ {Max(s)}]]
        BY <2>b, <4>1
      <4> QED  BY <4>2, <4>3
    <3> QED  BY <3>1, <3>2
  <2>6. next \in FoldFunctions(V, base, step, m + 1)
    BY <2>4, <2>5 DEF FoldFunctions
  <2> QED  BY <2>6
<1>3. n \in T
  <2> HIDE DEF T
  <2>1. T \in SUBSET Nat
    BY DEF T
  <2> QED  BY <1>1, <1>2, <2>1, Induction
<1> QED  BY <1>3

\* The rounds of a fold stay in V.
LEMMA RoundsIn ==
  ASSUME NEW V, NEW n \in Nat, NEW run,
         run[0] \in V, \A k \in 1..n : run[k - 1] \in V => run[k] \in V
  PROVE  \A k \in 0..n : run[k] \in V
<1> DEFINE T == {k \in 0..n : run[k] \in V}
<1>1. 0 \in T
  OBVIOUS
<1>2. \A k \in 1..n : k - 1 \in T => k \in T
  OBVIOUS
<1>3. 0..n \subseteq T
  <2> HIDE DEF T
  <2> QED  BY <1>1, <1>2, BoundedInduction
<1> QED  BY <1>3

\* The functions that are defined recursively over an interval: there is one.
Recursions(V, base, step, n) ==
  {f \in [0..n -> V] : f[0] = base /\ \A k \in 1..n : f[k] = step[k][f[k - 1]]}

LEMMA RecursionExists ==
  ASSUME NEW V, NEW base \in V, NEW n \in Nat, NEW step \in [1..n -> [V -> V]]
  PROVE  Recursions(V, base, step, n) # {}
<1>1. PICK iter : iter \in FoldFunctions(V, base, step, n)
  BY FoldExists
<1>2. \A s \in SUBSET (1..n) :
        iter[s] = IF s = {} THEN base ELSE step[Max(s)][iter[s \ {Max(s)}]]
  BY <1>1 DEF FoldFunctions
<1> DEFINE f == [k \in 0..n |-> iter[1..k]]
<1>3. f[0] = base
  <2>1. 1..0 = {} /\ 1..0 \in SUBSET (1..n)
    OBVIOUS
  <2>2. f[0] = iter[1..0]
    OBVIOUS
  <2> HIDE DEF f
  <2> QED  BY <1>2, <2>1, <2>2
<1>4. ASSUME NEW k \in 1..n PROVE f[k] = step[k][f[k - 1]]
  <2>1. iter[1..k] = step[k][iter[1..(k - 1)]]
    BY <1>2, InitialIntervals
  <2> QED  BY <2>1
<1>5. f = [k \in 0..n |-> f[k]]
  OBVIOUS
<1> HIDE DEF f
<1>6. \A k \in 1..n : f[k - 1] \in V => f[k] \in V
  BY <1>4
<1>7. \A k \in 0..n : f[k] \in V
  BY <1>3, <1>6, RoundsIn
<1>8. f \in [0..n -> V]
  BY <1>5, <1>7
<1> QED  BY <1>3, <1>4, <1>8 DEF Recursions

\* The rounds of FlattenSeq: the first k sequences, one after the other.
FlattenRun(run, E, seqs) ==
  /\ run \in [1..Len(seqs) -> Seq(E)]
  /\ run[1] = seqs[1]
  /\ \A k \in 2..Len(seqs) : run[k] = run[k - 1] \o seqs[k]
  /\ FlattenSeq(seqs) = run[Len(seqs)]

LEMMA FlattenRounds ==
  ASSUME NEW E, NEW seqs \in Seq(Seq(E)), Len(seqs) # 0
  PROVE  \E run : FlattenRun(run, E, seqs)
<1> DEFINE n == Len(seqs)
           V == Seq(E)
           step == [k \in 1..n |-> [v \in V |-> v \o seqs[k]]]
           Round(it, i) == IF i = 1 THEN seqs[i] ELSE it[i - 1] \o seqs[i]
           flatten == CHOOSE it : it = [i \in 1..n |-> Round(it, i)]
<1>0. n \in Nat /\ n # 0
  OBVIOUS
<1>1. n \in Nat /\ n # 0 /\ \A k \in 1..n : seqs[k] \in V
  OBVIOUS
<1>2. FlattenSeq(seqs) = flatten[n]
  BY <1>1 DEF FlattenSeq
<1>3. step \in [1..n -> [V -> V]] /\ <<>> \in V
  <2>1. \A k \in 1..n : \A v \in V : v \o seqs[k] \in V
    BY <1>1
  <2> QED  BY <2>1
<1>4. \A k \in 1..n : \A v \in V : step[k][v] = v \o seqs[k]
  OBVIOUS
<1>5. <<>> \o seqs[1] = seqs[1]
  <2>1. seqs[1] \in Seq(E)
    BY <1>1
  <2> QED  BY <2>1
<1> HIDE DEF n, V, step
<1>r. PICK f : f \in Recursions(V, <<>>, step, n)
  BY <1>0, <1>3, RecursionExists
<1>6. f \in [0..n -> V] /\ f[0] = <<>> /\ \A k \in 1..n : f[k] = step[k][f[k - 1]]
  BY <1>r DEF Recursions
<1>7. \A k \in 1..n : f[k] = f[k - 1] \o seqs[k]
  <2>1. \A k \in 1..n : f[k - 1] \in V
    BY <1>0, <1>6
  <2> QED  BY <1>4, <1>6, <2>1
<1> DEFINE g == [i \in 1..n |-> f[i]]
<1>8. g = [i \in 1..n |-> Round(g, i)]
  <2>1. ASSUME NEW i \in 1..n PROVE f[i] = Round(g, i)
    <3>1. CASE i = 1
      <4>1. f[1] = f[0] \o seqs[1]
        <5>1. 1 \in 1..n /\ 1 - 1 = 0
          BY <1>0
        <5> QED  BY <1>7, <5>1
      <4> QED  BY <1>5, <1>6, <3>1, <4>1
    <3>2. CASE i # 1
      <4>1. i - 1 \in 1..n
        BY <1>1, <3>2
      <4>2. g[i - 1] = f[i - 1]
        BY <4>1
      <4> QED  BY <1>7, <3>2, <4>2
    <3> QED  BY <3>1, <3>2
  <2> HIDE DEF Round
  <2> QED  BY <2>1
<1>9. \A i \in 1..n : flatten[i] = Round(flatten, i)
  <2> HIDE DEF Round
  <2>1. flatten = [i \in 1..n |-> Round(flatten, i)]
    BY <1>8
  <2> HIDE DEF flatten
  <2> QED  BY <2>1
<1> HIDE DEF flatten
<1> DEFINE run == [i \in 1..n |-> flatten[i]]
<1>10. run[1] = seqs[1] /\ run[n] = flatten[n] /\ run = [i \in 1..n |-> run[i]]
  BY <1>1, <1>9
<1>11. ASSUME NEW k \in 2..n PROVE run[k] = run[k - 1] \o seqs[k]
  <2>1. k \in 1..n /\ k - 1 \in 1..n /\ k # 1
    BY <1>1
  <2>2. run[k] = flatten[k] /\ run[k - 1] = flatten[k - 1]
    BY <2>1
  <2> HIDE DEF run
  <2> QED  BY <1>9, <2>1, <2>2
<1> HIDE DEF run
<1>12. \A k \in 1..n : run[k] \in V
  <2> DEFINE T == {0} \cup {k \in 1..n : run[k] \in V}
  <2>1. \A k \in 1..n : k - 1 \in T => k \in T
    <3> SUFFICES ASSUME NEW k \in 1..n, k - 1 \in T PROVE run[k] \in V
      OBVIOUS
    <3>1. CASE k = 1
      BY <1>1, <1>10, <3>1
    <3>2. CASE k # 1
      <4>1. k \in 2..n /\ k - 1 # 0
        BY <1>0, <3>2
      <4>2. run[k - 1] \in Seq(E) /\ seqs[k] \in Seq(E)
        BY <1>1, <4>1 DEF V
      <4>3. run[k] = run[k - 1] \o seqs[k]
        BY <1>11, <4>1
      <4>4. run[k - 1] \o seqs[k] \in Seq(E)
        BY <4>2
      <4> QED  BY <4>3, <4>4 DEF V
    <3> QED  BY <3>1, <3>2
  <2>2. 0 \in T
    OBVIOUS
  <2>3. 0..n \subseteq T
    <3> HIDE DEF T
    <3> QED  BY <1>0, <2>1, <2>2, BoundedInduction
  <2>4. \A k \in 1..n : k \in 0..n /\ k # 0
    BY <1>0
  <2> QED  BY <2>3, <2>4
<1>13. run \in [1..n -> V]
  BY <1>10, <1>12
<1>14. FlattenSeq(seqs) = run[n]
  BY <1>2, <1>10
<1> QED  BY <1>10, <1>11, <1>13, <1>14 DEF FlattenRun, n, V
=============================================================================
