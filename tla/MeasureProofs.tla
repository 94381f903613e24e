--------------------------- MODULE MeasureProofs ----------------------------
(***************************************************************************)
(* Proofs about the labs that measure: CapacitySim, LoadTester,            *)
(* PerfReports, ClusterSims and Benchmarks, for any latencies, limits,     *)
(* workers, rounds and requests.                                           *)
(*                                                                         *)
(* First what holds of sums, of the n-th smallest and of quotients; then   *)
(* lab by lab an invariant, that it holds initially, that the lab's steps  *)
(* keep it, and that the numbers the lab prints follow from it; at the end *)
(* all of them together.                                                   *)
(***************************************************************************)
EXTENDS MCLabs, FiniteSetTheorems, WellFoundedInduction, TLAPS

\* A set of numbers has a least element, < being well-founded.
LEMMA LeastNumber ==
  ASSUME NEW S \in SUBSET Nat, S # {}
  PROVE  \E x \in S : \A y \in S : x <= y
<1> DEFINE Less == OpToRel(<, Nat)
<1>1. IsWellFoundedOn(Less, Nat)
  BY NatLessThanWellFounded
<1>2. \A x, y \in Nat : y < x => <<y, x>> \in Less
  BY DEF OpToRel
<1> HIDE DEF Less
<1>3. PICK x \in S : \A y \in S : ~(<<y, x>> \in Less)
  BY <1>1, WFMin, Zenon
<1>4. ASSUME NEW y \in S PROVE ~(y < x)
  <2>1. x \in Nat /\ y \in Nat
    OBVIOUS
  <2> QED BY <1>2, <1>3, <2>1, Zenon
<1> QED BY <1>4, SMT

\* A set of numbers below a bound has a greatest element.
LEMMA LargestNumber ==
  ASSUME NEW S \in SUBSET Nat, S # {}, NEW n \in Nat, \A x \in S : x <= n
  PROVE  Max(S) \in S /\ \A y \in S : y <= Max(S)
<1> DEFINE Below == {n - x : x \in S}
<1>1. Below \in SUBSET Nat /\ Below # {}
  <2>1. \A x \in S : n - x \in Nat
    BY SMT
  <2> QED BY <2>1
<1>2. PICK b \in Below : \A y \in Below : b <= y
  BY <1>1, LeastNumber
<1>3. PICK x \in S : b = n - x
  BY <1>2
<1>4. \A y \in S : x >= y
  <2> TAKE y \in S
  <2>1. n - x <= n - y
    BY <1>2, <1>3
  <2> QED BY <2>1, SMT
<1>5. Max(S) \in S /\ \A y \in S : Max(S) >= y
  BY <1>4, Zenon DEF Max
<1> QED BY <1>5, SMT

\* What holds of 0, and of n + 1 when it holds of n, holds of every number.
LEMMA EveryNumber ==
  ASSUME NEW S \in SUBSET Nat, 0 \in S, \A n \in S : n + 1 \in S
  PROVE  S = Nat
<1> SUFFICES ASSUME Nat \ S # {} PROVE FALSE
  OBVIOUS
<1>1. PICK x \in Nat \ S : \A y \in Nat \ S : x <= y
  BY LeastNumber
<1>2. x # 0 /\ x - 1 \in Nat /\ (x - 1) + 1 = x /\ ~(x <= x - 1)
  BY <1>1
<1>3. x - 1 \in S
  BY <1>1, <1>2
<1> QED BY <1>2, <1>3

\* A function on 0..N can be given by its first value and the step to each of the next.
Follows(f, V, N, first, by) ==
  f \in [0..N -> V] /\ f[0] = first /\ \A i \in 1..N : f[i] = by[i][f[i - 1]]

\* Such a function exists.
LEMMA Recursion ==
  ASSUME NEW N \in Nat, NEW V, NEW first \in V, NEW by \in [1..N -> [V -> V]]
  PROVE  \E f : Follows(f, V, N, first, by)
<1> DEFINE S == {n \in Nat : n <= N => \E f : Follows(f, V, n, first, by)}
<1>1. 0 \in S
  <2>1. Follows([i \in 0..0 |-> first], V, 0, first, by)
    BY DEF Follows
  <2> QED BY <2>1
<1>2. ASSUME NEW n \in S PROVE n + 1 \in S
  <2>1. CASE ~(n + 1 <= N)
    BY <2>1
  <2>2. CASE n + 1 <= N
    <3>1. n \in Nat /\ n <= N /\ n + 1 \in 1..N
      BY <2>2
    <3>2. PICK f : Follows(f, V, n, first, by)
      BY <3>1
    <3> DEFINE g == [i \in 0..(n + 1) |-> IF i = n + 1 THEN by[n + 1][f[n]] ELSE f[i]]
    <3>3. f \in [0..n -> V] /\ f[0] = first /\ \A i \in 1..n : f[i] = by[i][f[i - 1]]
      BY <3>2 DEF Follows
    <3>4. f[n] \in V /\ by[n + 1] \in [V -> V]
      BY <3>1, <3>3
    <3>5. by[n + 1][f[n]] \in V
      BY <3>4
    <3>6. \A i \in 0..(n + 1) : i = n + 1 \/ (i \in 0..n /\ i # n + 1)
      BY <3>1
    <3>7. g \in [0..(n + 1) -> V]
      BY <3>3, <3>5, <3>6
    <3>8. g[0] = first
      BY <3>1, <3>3
    <3>9. ASSUME NEW i \in 1..(n + 1) PROVE g[i] = by[i][g[i - 1]]
      <4>1. i \in 0..(n + 1) /\ i - 1 \in 0..(n + 1) /\ i - 1 # n + 1 /\ (i = n + 1 => i - 1 = n) /\ (i # n + 1 => i \in 1..n)
        BY <3>1
      <4>2. g[i - 1] = f[i - 1]
        BY <4>1
      <4>3. CASE i = n + 1
        BY <4>1, <4>2, <4>3
      <4>4. CASE i # n + 1
        BY <3>3, <4>1, <4>2, <4>4
      <4> QED BY <4>3, <4>4
    <3> HIDE DEF g
    <3>10. Follows(g, V, n + 1, first, by)
      BY <3>7, <3>8, <3>9 DEF Follows
    <3> QED BY <3>1, <3>10
  <2> QED BY <2>1, <2>2
<1>3. S = Nat
  <2> HIDE DEF S
  <2>1. S \subseteq Nat
    BY DEF S
  <2> QED BY <1>1, <1>2, <2>1, EveryNumber
<1>4. N \in S
  <2> HIDE DEF S
  <2> QED BY <1>3
<1> QED BY <1>4

\* What holds of the empty set, and of T with an element more when it holds of T, holds of a finite set.
LEMMA SubsetInduction ==
  ASSUME NEW D, IsFiniteSet(D), NEW P \in SUBSET (SUBSET D), {} \in P,
         \A T \in P : \A x \in D \ T : T \cup {x} \in P
  PROVE  D \in P
<1> SUFFICES ASSUME D \notin P PROVE FALSE
  OBVIOUS
<1> DEFINE Bad == (SUBSET D) \ P
<1>1. IsWellFoundedOn(StrictSubsetOrdering(D), SUBSET D)
  <2>1. FiniteSubsetsOf(D) = SUBSET D
    BY FS_FiniteSubsetsOfFinite, Zenon
  <2>2. IsWellFoundedOn(StrictSubsetOrdering(D), FiniteSubsetsOf(D))
    BY FS_StrictSubsetOrderingWellFounded, Zenon
  <2> QED BY <2>1, <2>2, Zenon
<1>2. PICK T \in Bad : \A U \in Bad : ~(<<U, T>> \in StrictSubsetOrdering(D))
  <2>1. Bad \subseteq SUBSET D /\ Bad # {}
    OBVIOUS
  <2> HIDE DEF Bad
  <2> QED BY <1>1, <2>1, WFMin, Zenon
<1>3. T # {}
  OBVIOUS
<1>4. PICK x \in T : TRUE
  BY <1>3
<1>5. <<T \ {x}, T>> \in StrictSubsetOrdering(D)
  BY <1>4 DEF StrictSubsetOrdering
<1>6. T \ {x} \in P
  BY <1>2, <1>5
<1>7. x \in D \ (T \ {x}) /\ (T \ {x}) \cup {x} = T
  BY <1>4
<1>8. T \in P
  BY <1>6, <1>7
<1> QED BY <1>8

----------------------------------------------------------------------------
(* Sums *)

\* The totals of the subsets, defined by any choice of the next element.
TotalsOf(tot, f, D) ==
  /\ tot \in [SUBSET D -> Int] /\ tot[{}] = 0
  /\ \A T \in SUBSET D : \A x \in T : tot[T] = f[x] + tot[T \ {x}]

\* The fold's equation has a solution: the totals of the sets of n elements, for n from 0.
Unfolds(g, f, D) == g = [s \in SUBSET D |-> IF s = {} THEN 0
                                        ELSE f[CHOOSE x \in s : TRUE] + g[s \ {CHOOSE x \in s : TRUE}]]

\* The equation of the fold has a solution.
LEMMA SumExists ==
  ASSUME NEW D, IsFiniteSet(D), NEW f \in [D -> Int]
  PROVE  \E g : Unfolds(g, f, D)
<1> DEFINE N == Cardinality(D)
           V == [SUBSET D -> Int]
           first == [s \in SUBSET D |-> 0]
           By(h) == [s \in SUBSET D |-> IF s = {} THEN 0
                                        ELSE f[CHOOSE x \in s : TRUE] + h[s \ {CHOOSE x \in s : TRUE}]]
           by == [i \in 1..N |-> [h \in V |-> By(h)]]
<1>1. N \in Nat
  BY FS_CardinalityType
<1>2. first \in V
  OBVIOUS
<1>3. \A s \in SUBSET D : s # {} => (CHOOSE x \in s : TRUE) \in s
  BY Zenon
<1>4. \A h \in V : By(h) \in V
  <2> TAKE h \in V
  <2>1. ASSUME NEW s \in SUBSET D, s # {}
        PROVE  f[CHOOSE x \in s : TRUE] \in Int /\ h[s \ {CHOOSE x \in s : TRUE}] \in Int
    <3> DEFINE c == CHOOSE x \in s : TRUE
    <3>1. c \in s
      BY <1>3, <2>1
    <3> HIDE DEF c
    <3>2. s \ {c} \in SUBSET D /\ c \in D
      BY <3>1
    <3>3. f[c] \in Int /\ h[s \ {c}] \in Int
      BY <3>2
    <3> QED BY <3>3 DEF c
  <2>2. \A s \in SUBSET D : (IF s = {} THEN 0 ELSE f[CHOOSE x \in s : TRUE] + h[s \ {CHOOSE x \in s : TRUE}]) \in Int
    <3> TAKE s \in SUBSET D
    <3>1. CASE s = {}
      BY <3>1
    <3>2. CASE s # {}
      BY <2>1, <3>2
    <3> QED BY <3>1, <3>2
  <2> QED BY <2>2, Zenon
<1>5. by \in [1..N -> [V -> V]]
  <2> HIDE DEF By
  <2> QED BY <1>4
<1>6. PICK gs : Follows(gs, V, N, first, by)
  <2> HIDE DEF V, first, by, N
  <2> QED BY <1>1, <1>2, <1>5, Recursion
<1>7. gs \in [0..N -> V] /\ gs[0] = first /\ \A i \in 1..N : gs[i] = By(gs[i - 1])
  <2>1. gs \in [0..N -> V] /\ gs[0] = first /\ \A i \in 1..N : gs[i] = by[i][gs[i - 1]]
    BY <1>6 DEF Follows
  <2>2. \A i \in 1..N : gs[i - 1] \in V
    <3> HIDE DEF V
    <3> QED BY <1>1, <2>1
  <2>3. \A i \in 1..N : by[i][gs[i - 1]] = By(gs[i - 1])
    <3> HIDE DEF V, By
    <3> QED BY <2>2
  <2> HIDE DEF by, By, V, first, N
  <2> QED BY <2>1, <2>3
<1> DEFINE g == [s \in SUBSET D |-> gs[Cardinality(s)][s]]
<1>8. \A s \in SUBSET D : Cardinality(s) \in 0..N
  <2> TAKE s \in SUBSET D
  <2>1. IsFiniteSet(s) /\ Cardinality(s) <= N
    BY FS_Subset
  <2> QED BY <1>1, <2>1, FS_CardinalityType
<1>9. ASSUME NEW s \in SUBSET D
      PROVE  g[s] = IF s = {} THEN 0 ELSE f[CHOOSE x \in s : TRUE] + g[s \ {CHOOSE x \in s : TRUE}]
  <2>1. CASE s = {}
    <3>1. Cardinality(s) = 0
      BY <2>1, FS_EmptySet
    <3>2. g[s] = gs[0][s]
      BY <3>1
    <3> QED BY <1>7, <2>1, <3>2
  <2>2. CASE s # {}
    <3> DEFINE c == CHOOSE x \in s : TRUE
    <3>1. c \in s
      BY <1>3, <2>2
    <3>2. By(gs[Cardinality(s) - 1])[s] = f[c] + gs[Cardinality(s) - 1][s \ {c}]
      BY <2>2
    <3> HIDE DEF c
    <3>3. IsFiniteSet(s)
      BY FS_Subset
    <3>4. Cardinality(s \ {c}) = Cardinality(s) - 1
      BY <3>1, <3>3, FS_RemoveElement
    <3>5. Cardinality(s) # 0
      BY <2>2, <3>3, FS_EmptySet
    <3>6. Cardinality(s) \in 1..N
      BY <1>1, <1>8, <3>5
    <3>7. gs[Cardinality(s)] = By(gs[Cardinality(s) - 1])
      <4> HIDE DEF By, N
      <4> QED BY <1>7, <3>6
    <3>8. g[s] = f[c] + gs[Cardinality(s) - 1][s \ {c}]
      <4>1. g[s] = gs[Cardinality(s)][s]
        OBVIOUS
      <4> HIDE DEF By, g
      <4> QED BY <3>2, <3>7, <4>1
    <3>9. g[s \ {c}] = gs[Cardinality(s) - 1][s \ {c}]
      BY <3>4
    <3> HIDE DEF g
    <3>10. g[s] = f[c] + g[s \ {c}]
      BY <3>8, <3>9
    <3> QED BY <2>2, <3>10 DEF c
  <2> QED BY <2>1, <2>2
<1>10. g = [s \in SUBSET D |-> g[s]]
  OBVIOUS
<1> HIDE DEF g
<1>11. g = [s \in SUBSET D |-> IF s = {} THEN 0
                               ELSE f[CHOOSE x \in s : TRUE] + g[s \ {CHOOSE x \in s : TRUE}]]
  BY <1>9, <1>10, Zenon
<1> QED BY <1>11 DEF Unfolds

\* A sum is the total of all, and a total is any one element and the total of the others.
LEMMA SumIs ==
  ASSUME NEW D, IsFiniteSet(D), NEW f \in [D -> Int]
  PROVE  \E tot : TotalsOf(tot, f, D) /\ SumFunction(f) = tot[D]
<1> DEFINE Eq(g) == g = [s \in SUBSET D |-> IF s = {} THEN 0
                                        ELSE f[CHOOSE x \in s : TRUE] + g[s \ {CHOOSE x \in s : TRUE}]]
           tot == CHOOSE g : Eq(g)
<1>1. SumFunction(f) = tot[D]
  BY DEF SumFunction, SumFunctionOnSet, FoldFunctionOnSet, MapThenFoldSet
<1>2. Eq(tot)
  <2>1. \E g : Eq(g)
    <3>1. \E g : Unfolds(g, f, D)
      BY SumExists, Zenon
    <3> QED BY <3>1 DEF Unfolds
  <2> HIDE DEF Eq
  <2> QED BY <2>1, Zenon
<1> HIDE DEF tot
<1>3. DOMAIN tot = SUBSET D /\ tot[{}] = 0
  BY <1>2
<1>4. ASSUME NEW s \in SUBSET D, s # {}
      PROVE  \E c \in s : tot[s] = f[c] + tot[s \ {c}]
  <2>1. (CHOOSE x \in s : TRUE) \in s
    BY <1>4
  <2>2. tot[s] = f[CHOOSE x \in s : TRUE] + tot[s \ {CHOOSE x \in s : TRUE}]
    BY <1>2, <1>4
  <2> QED BY <2>1, <2>2
<1> HIDE DEF Eq
<1>5. ASSUME NEW T \in SUBSET D
      PROVE  /\ Cardinality(T) \in Nat /\ (Cardinality(T) = 0 <=> T = {})
             /\ \A x \in T : Cardinality(T \ {x}) = Cardinality(T) - 1
  <2>1. IsFiniteSet(T)
    BY FS_Subset
  <2>2. Cardinality(T) \in Nat /\ (Cardinality(T) = 0 <=> T = {})
    BY <2>1, FS_CardinalityType, FS_EmptySet
  <2>3. \A x \in T : Cardinality(T \ {x}) = Cardinality(T) - 1
    BY <2>1, FS_RemoveElement
  <2> QED BY <2>2, <2>3
<1> DEFINE Ints == {n \in Nat : \A T \in SUBSET D : Cardinality(T) = n => tot[T] \in Int}
<1>6. Ints = Nat
  <2>1. 0 \in Ints
    <3>1. \A T \in SUBSET D : Cardinality(T) = 0 => tot[T] = 0
      BY <1>3, <1>5, Zenon
    <3> QED BY <3>1
  <2>2. ASSUME NEW n \in Ints PROVE n + 1 \in Ints
    <3>1. n \in Nat /\ \A T \in SUBSET D : Cardinality(T) = n => tot[T] \in Int
      OBVIOUS
    <3>2. ASSUME NEW T \in SUBSET D, Cardinality(T) = n + 1 PROVE tot[T] \in Int
      <4>1. PICK c \in T : tot[T] = f[c] + tot[T \ {c}]
        BY <1>4, <1>5, <3>1, <3>2
      <4>2. Cardinality(T \ {c}) = n
        BY <1>5, <3>1, <3>2
      <4>3. f[c] \in Int /\ tot[T \ {c}] \in Int
        BY <3>1, <4>2
      <4> QED BY <4>1, <4>3
    <3> QED BY <3>1, <3>2
  <2> HIDE DEF Ints
  <2>3. Ints \in SUBSET Nat
    BY DEF Ints
  <2> QED BY <2>1, <2>2, <2>3, EveryNumber
<1>7. \A T \in SUBSET D : tot[T] \in Int
  BY <1>5, <1>6
<1> HIDE DEF Ints
<1> DEFINE Good == {n \in Nat : \A T \in SUBSET D : Cardinality(T) = n =>
                                  \A x \in T : tot[T] = f[x] + tot[T \ {x}]}
<1>8. Good = Nat
  <2>1. 0 \in Good
    BY <1>5
  <2>2. ASSUME NEW n \in Good PROVE n + 1 \in Good
    <3>1. n \in Nat /\ \A T \in SUBSET D : Cardinality(T) = n => \A x \in T : tot[T] = f[x] + tot[T \ {x}]
      OBVIOUS
    <3>2. ASSUME NEW T \in SUBSET D, Cardinality(T) = n + 1, NEW x \in T PROVE tot[T] = f[x] + tot[T \ {x}]
      <4>1. PICK c \in T : tot[T] = f[c] + tot[T \ {c}]
        BY <1>4, <1>5, <3>1, <3>2
      <4>2. CASE x # c
        <5>1. Cardinality(T \ {c}) = n /\ Cardinality(T \ {x}) = n
          BY <1>5, <3>1, <3>2
        <5>2. x \in T \ {c} /\ c \in T \ {x} /\ (T \ {c}) \ {x} = (T \ {x}) \ {c}
          BY <4>2
        <5>3. tot[T \ {c}] = f[x] + tot[(T \ {x}) \ {c}]
          BY <3>1, <5>1, <5>2
        <5>4. tot[T \ {x}] = f[c] + tot[(T \ {x}) \ {c}]
          BY <3>1, <5>1, <5>2
        <5>5. f[x] \in Int /\ f[c] \in Int /\ tot[(T \ {x}) \ {c}] \in Int
          BY <1>7
        <5> QED BY <4>1, <5>3, <5>4, <5>5
      <4> QED BY <4>1, <4>2
    <3> QED BY <3>1, <3>2
  <2> HIDE DEF Good
  <2>3. Good \in SUBSET Nat
    BY DEF Good
  <2> QED BY <2>1, <2>2, <2>3, EveryNumber
<1>9. \A T \in SUBSET D : \A x \in T : tot[T] = f[x] + tot[T \ {x}]
  BY <1>5, <1>8
<1>10. tot \in [SUBSET D -> Int]
  <2>1. tot = [s \in SUBSET D |-> tot[s]]
    BY <1>2 DEF Eq
  <2> QED BY <1>3, <1>7, <2>1
<1>11. TotalsOf(tot, f, D)
  BY <1>3, <1>9, <1>10 DEF TotalsOf
<1> QED BY <1>1, <1>11

\* The sum over nothing, its type, and the sum of a restriction, which is a total.
LEMMA SumOfNothing == ASSUME NEW f, DOMAIN f = {}, f \in [{} -> Int] PROVE SumFunction(f) = 0
<1>1. PICK tot : TotalsOf(tot, f, {}) /\ SumFunction(f) = tot[{}]
  BY SumIs, FS_EmptySet
<1> QED BY <1>1 DEF TotalsOf

\* The sum of a part of a function is a total of the whole.
LEMMA SumOfPart ==
  ASSUME NEW D, IsFiniteSet(D), NEW f \in [D -> Int], NEW S \in SUBSET D, NEW tot, TotalsOf(tot, f, D)
  PROVE  SumFunction([x \in S |-> f[x]]) = tot[S]
<1> DEFINE h == [x \in S |-> f[x]]
<1>1. IsFiniteSet(S)
  BY FS_Subset
<1>2. h \in [S -> Int]
  OBVIOUS
<1> HIDE DEF h
<1>3. PICK t2 : TotalsOf(t2, h, S) /\ SumFunction(h) = t2[S]
  BY <1>1, <1>2, SumIs
<1> DEFINE P == {T \in SUBSET S : tot[T] = t2[T]}
<1>4. {} \in P
  BY <1>3 DEF TotalsOf
<1>5. ASSUME NEW T \in P, NEW x \in S \ T PROVE T \cup {x} \in P
  <2>1. T \cup {x} \in SUBSET S /\ T \cup {x} \in SUBSET D /\ x \in T \cup {x} /\ (T \cup {x}) \ {x} = T
    OBVIOUS
  <2>2. tot[T \cup {x}] = f[x] + tot[T]
    BY <2>1 DEF TotalsOf
  <2>3. t2[T \cup {x}] = h[x] + t2[T]
    <3>1. TotalsOf(t2, h, S)
      BY <1>3
    <3>2. \A U \in SUBSET S : \A y \in U : t2[U] = h[y] + t2[U \ {y}]
      BY <3>1 DEF TotalsOf
    <3> QED BY <2>1, <3>2
  <2>4. h[x] = f[x] /\ tot[T] = t2[T]
    BY DEF h
  <2> QED BY <2>1, <2>2, <2>3, <2>4
<1>6. P \in SUBSET (SUBSET S)
  OBVIOUS
<1>7. S \in P
  <2> HIDE DEF P
  <2> QED BY <1>1, <1>4, <1>5, <1>6, SubsetInduction
<1> QED BY <1>3, <1>7 DEF h

\* A sum of integers is an integer.
LEMMA SumType == ASSUME NEW D, IsFiniteSet(D), NEW f \in [D -> Int] PROVE SumFunction(f) \in Int
<1>1. PICK tot : TotalsOf(tot, f, D) /\ SumFunction(f) = tot[D]
  BY SumIs
<1> QED BY <1>1 DEF TotalsOf

\* One element taken out.
LEMMA SumTakenOut ==
  ASSUME NEW D, IsFiniteSet(D), NEW f \in [D -> Int], NEW x \in D
  PROVE  SumFunction(f) = f[x] + SumFunction([y \in D \ {x} |-> f[y]])
<1>1. PICK tot : TotalsOf(tot, f, D) /\ SumFunction(f) = tot[D]
  BY SumIs
<1>2. SumFunction([y \in D \ {x} |-> f[y]]) = tot[D \ {x}]
  BY <1>1, SumOfPart
<1> QED BY <1>1, <1>2 DEF TotalsOf

\* Sums of two functions, larger functions, constants.
LEMMA SumAdded ==
  ASSUME NEW D, IsFiniteSet(D), NEW f \in [D -> Int], NEW g \in [D -> Int], NEW h \in [D -> Int],
         \A x \in D : h[x] = f[x] + g[x]
  PROVE  SumFunction(h) = SumFunction(f) + SumFunction(g)
<1>1. PICK tf : TotalsOf(tf, f, D) /\ SumFunction(f) = tf[D]
  BY SumIs
<1>2. PICK tg : TotalsOf(tg, g, D) /\ SumFunction(g) = tg[D]
  BY SumIs
<1>3. PICK th : TotalsOf(th, h, D) /\ SumFunction(h) = th[D]
  BY SumIs
<1> DEFINE P == {T \in SUBSET D : th[T] = tf[T] + tg[T]}
<1>4. {} \in P
  BY <1>1, <1>2, <1>3 DEF TotalsOf
<1>5. ASSUME NEW T \in P, NEW x \in D \ T PROVE T \cup {x} \in P
  <2>1. T \cup {x} \in SUBSET D /\ x \in T \cup {x} /\ (T \cup {x}) \ {x} = T
    OBVIOUS
  <2>2. tf[T \cup {x}] = f[x] + tf[T] /\ tf[T] \in Int /\ f[x] \in Int
    <3>1. tf \in [SUBSET D -> Int] /\ \A U \in SUBSET D : \A y \in U : tf[U] = f[y] + tf[U \ {y}]
      BY <1>1 DEF TotalsOf
    <3> QED BY <2>1, <3>1
  <2>3. tg[T \cup {x}] = g[x] + tg[T] /\ tg[T] \in Int /\ g[x] \in Int
    <3>1. tg \in [SUBSET D -> Int] /\ \A U \in SUBSET D : \A y \in U : tg[U] = g[y] + tg[U \ {y}]
      BY <1>2 DEF TotalsOf
    <3> QED BY <2>1, <3>1
  <2>4. th[T \cup {x}] = h[x] + th[T]
    <3>1. \A U \in SUBSET D : \A y \in U : th[U] = h[y] + th[U \ {y}]
      BY <1>3 DEF TotalsOf
    <3> QED BY <2>1, <3>1
  <2>5. th[T] = tf[T] + tg[T] /\ h[x] = f[x] + g[x]
    OBVIOUS
  <2> QED BY <2>1, <2>2, <2>3, <2>4, <2>5
<1>6. P \in SUBSET (SUBSET D)
  OBVIOUS
<1>7. D \in P
  <2> HIDE DEF P
  <2> QED BY <1>4, <1>5, <1>6, SubsetInduction
<1> QED BY <1>1, <1>2, <1>3, <1>7

\* A function that is nowhere less has no lesser sum.
LEMMA SumGrows ==
  ASSUME NEW D, IsFiniteSet(D), NEW f \in [D -> Int], NEW g \in [D -> Int], \A x \in D : f[x] <= g[x]
  PROVE  SumFunction(f) <= SumFunction(g)
<1>1. PICK tf : TotalsOf(tf, f, D) /\ SumFunction(f) = tf[D]
  BY SumIs
<1>2. PICK tg : TotalsOf(tg, g, D) /\ SumFunction(g) = tg[D]
  BY SumIs
<1> DEFINE P == {T \in SUBSET D : tf[T] <= tg[T]}
<1>4. {} \in P
  BY <1>1, <1>2 DEF TotalsOf
<1>5. ASSUME NEW T \in P, NEW x \in D \ T PROVE T \cup {x} \in P
  <2>1. T \cup {x} \in SUBSET D /\ x \in T \cup {x} /\ (T \cup {x}) \ {x} = T
    OBVIOUS
  <2>2. tf[T \cup {x}] = f[x] + tf[T] /\ tf[T] \in Int /\ f[x] \in Int
    <3>1. tf \in [SUBSET D -> Int] /\ \A U \in SUBSET D : \A y \in U : tf[U] = f[y] + tf[U \ {y}]
      BY <1>1 DEF TotalsOf
    <3> QED BY <2>1, <3>1
  <2>3. tg[T \cup {x}] = g[x] + tg[T] /\ tg[T] \in Int /\ g[x] \in Int
    <3>1. tg \in [SUBSET D -> Int] /\ \A U \in SUBSET D : \A y \in U : tg[U] = g[y] + tg[U \ {y}]
      BY <1>2 DEF TotalsOf
    <3> QED BY <2>1, <3>1
  <2>5. tf[T] <= tg[T] /\ f[x] <= g[x]
    OBVIOUS
  <2> QED BY <2>1, <2>2, <2>3, <2>5
<1>6. P \in SUBSET (SUBSET D)
  OBVIOUS
<1>7. D \in P
  <2> HIDE DEF P
  <2> QED BY <1>4, <1>5, <1>6, SubsetInduction
<1> QED BY <1>1, <1>2, <1>7

\* The sum of a constant.
LEMMA SumOfTheSame ==
  ASSUME NEW D, IsFiniteSet(D), NEW c \in Int
  PROVE  SumFunction([x \in D |-> c]) = Cardinality(D) * c
<1> DEFINE f == [x \in D |-> c]
<1>1. PICK tf : TotalsOf(tf, f, D) /\ SumFunction(f) = tf[D]
  <2>1. f \in [D -> Int]
    OBVIOUS
  <2> HIDE DEF f
  <2> QED BY <2>1, SumIs
<1> DEFINE P == {T \in SUBSET D : tf[T] = Cardinality(T) * c}
<1>4. {} \in P
  BY <1>1, FS_EmptySet DEF TotalsOf
<1>5. ASSUME NEW T \in P, NEW x \in D \ T PROVE T \cup {x} \in P
  <2>1. T \cup {x} \in SUBSET D /\ x \in T \cup {x} /\ (T \cup {x}) \ {x} = T
    OBVIOUS
  <2>2. tf[T \cup {x}] = f[x] + tf[T] /\ tf[T] \in Int
    <3>1. tf \in [SUBSET D -> Int] /\ \A U \in SUBSET D : \A y \in U : tf[U] = f[y] + tf[U \ {y}]
      BY <1>1, Zenon DEF TotalsOf
    <3> HIDE DEF f
    <3> QED BY <2>1, <3>1
  <2>3. IsFiniteSet(T)
    BY FS_Subset
  <2>4. Cardinality(T \cup {x}) = Cardinality(T) + 1 /\ Cardinality(T) \in Nat
    BY <2>3, FS_AddElement, FS_CardinalityType
  <2>5. tf[T] = Cardinality(T) * c /\ f[x] = c
    OBVIOUS
  <2>6. c + Cardinality(T) * c = (Cardinality(T) + 1) * c
    BY <2>4
  <2> QED BY <2>1, <2>2, <2>4, <2>5, <2>6
<1>6. P \in SUBSET (SUBSET D)
  OBVIOUS
<1>7. D \in P
  <2> HIDE DEF P
  <2> QED BY <1>4, <1>5, <1>6, SubsetInduction
<1> QED BY <1>1, <1>7

\* A sum is at least the least term so many times.
LEMMA SumAtLeast ==
  ASSUME NEW D, IsFiniteSet(D), NEW f \in [D -> Int], NEW c \in Int, \A x \in D : c <= f[x]
  PROVE  Cardinality(D) * c <= SumFunction(f)
<1> DEFINE g == [x \in D |-> c]
<1>1. g \in [D -> Int] /\ \A x \in D : g[x] <= f[x]
  OBVIOUS
<1>2. SumFunction(g) = Cardinality(D) * c
  BY SumOfTheSame
<1> HIDE DEF g
<1> QED BY <1>1, <1>2, SumGrows

\* A sum is at most the greatest term so many times.
LEMMA SumAtMost ==
  ASSUME NEW D, IsFiniteSet(D), NEW f \in [D -> Int], NEW c \in Int, \A x \in D : f[x] <= c
  PROVE  SumFunction(f) <= Cardinality(D) * c
<1> DEFINE g == [x \in D |-> c]
<1>1. g \in [D -> Int] /\ \A x \in D : f[x] <= g[x]
  OBVIOUS
<1>2. SumFunction(g) = Cardinality(D) * c
  BY SumOfTheSame
<1> HIDE DEF g
<1> QED BY <1>1, <1>2, SumGrows

\* All the terms later by the same.
LEMMA SumShifted ==
  ASSUME NEW D, IsFiniteSet(D), NEW f \in [D -> Int], NEW g \in [D -> Int], NEW c \in Int,
         \A x \in D : g[x] = f[x] + c
  PROVE  SumFunction(g) = SumFunction(f) + Cardinality(D) * c
<1> DEFINE h == [x \in D |-> c]
<1>1. h \in [D -> Int] /\ \A x \in D : g[x] = f[x] + h[x]
  OBVIOUS
<1>2. SumFunction(h) = Cardinality(D) * c
  BY SumOfTheSame
<1> HIDE DEF h
<1> QED BY <1>1, <1>2, SumAdded

\* A sum of natural numbers is one.
LEMMA SumIsNat ==
  ASSUME NEW D, IsFiniteSet(D), NEW f \in [D -> Nat]
  PROVE  SumFunction(f) \in Nat
<1>1. f \in [D -> Int] /\ \A x \in D : 0 <= f[x]
  OBVIOUS
<1>2. Cardinality(D) * 0 <= SumFunction(f)
  BY <1>1, SumAtLeast
<1>3. Cardinality(D) \in Nat /\ SumFunction(f) \in Int
  BY <1>1, FS_CardinalityType, SumType
<1> QED BY <1>2, <1>3

\* Two parts, and one of them.
PartOf(f, S) == [x \in S |-> f[x]]

\* The sum over two disjoint sets is that of the one and that of the other.
LEMMA SumOfTwoParts ==
  ASSUME NEW A, IsFiniteSet(A), NEW B, IsFiniteSet(B), A \cap B = {}, NEW f \in [A \cup B -> Int]
  PROVE  SumFunction(f) = SumFunction(PartOf(f, A)) + SumFunction(PartOf(f, B))
<1>1. IsFiniteSet(A \cup B)
  BY FS_Union
<1>2. PICK tot : TotalsOf(tot, f, A \cup B) /\ SumFunction(f) = tot[A \cup B]
  BY <1>1, SumIs
<1>3. SumFunction(PartOf(f, A)) = tot[A] /\ SumFunction(PartOf(f, B)) = tot[B]
  BY <1>1, <1>2, SumOfPart DEF PartOf
<1> DEFINE P == {T \in SUBSET B : tot[A \cup T] = tot[A] + tot[T]}
<1>4. {} \in P
  <2>1. tot[A] \in Int /\ tot[{}] = 0 /\ A \cup {} = A
    BY <1>2 DEF TotalsOf
  <2> QED BY <2>1
<1>5. ASSUME NEW T \in P, NEW x \in B \ T PROVE T \cup {x} \in P
  <2>1. /\ T \cup {x} \in SUBSET B /\ T \cup {x} \in SUBSET (A \cup B) /\ x \in T \cup {x} /\ (T \cup {x}) \ {x} = T
        /\ A \cup (T \cup {x}) \in SUBSET (A \cup B) /\ x \in A \cup (T \cup {x})
        /\ (A \cup (T \cup {x})) \ {x} = A \cup T
    OBVIOUS
  <2>2. \A U \in SUBSET (A \cup B) : tot[U] \in Int /\ \A y \in U : tot[U] = f[y] + tot[U \ {y}]
    BY <1>2 DEF TotalsOf
  <2>3. tot[T \cup {x}] = f[x] + tot[T]
    <3>1. tot[T \cup {x}] = f[x] + tot[(T \cup {x}) \ {x}]
      BY <2>1, <2>2
    <3> QED BY <2>1, <3>1
  <2>5. tot[A \cup (T \cup {x})] = f[x] + tot[A \cup T]
    <3>1. tot[A \cup (T \cup {x})] = f[x] + tot[(A \cup (T \cup {x})) \ {x}]
      BY <2>1, <2>2
    <3> QED BY <2>1, <3>1
  <2>4. tot[A] \in Int /\ tot[T] \in Int /\ f[x] \in Int /\ tot[A \cup T] = tot[A] + tot[T]
    BY <2>2
  <2> QED BY <2>1, <2>3, <2>4, <2>5
<1>6. P \in SUBSET (SUBSET B)
  OBVIOUS
<1>7. B \in P
  <2> HIDE DEF P
  <2> QED BY <1>4, <1>5, <1>6, SubsetInduction
<1> QED BY <1>2, <1>3, <1>7

\* The sum over a part is no greater, when no term is negative.
LEMMA SumOfLess ==
  ASSUME NEW D, IsFiniteSet(D), NEW f \in [D -> Nat], NEW S \in SUBSET D
  PROVE  SumFunction([x \in S |-> f[x]]) <= SumFunction(f)
<1>1. IsFiniteSet(S) /\ IsFiniteSet(D \ S) /\ S \cap (D \ S) = {} /\ S \cup (D \ S) = D
  BY FS_Subset
<1>2. f \in [S \cup (D \ S) -> Int]
  BY <1>1
<1>3. SumFunction(f) = SumFunction([x \in S |-> f[x]]) + SumFunction([x \in D \ S |-> f[x]])
  <2>1. SumFunction(f) = SumFunction(PartOf(f, S)) + SumFunction(PartOf(f, D \ S))
    BY <1>1, <1>2, SumOfTwoParts, Zenon
  <2> QED BY <2>1, Zenon DEF PartOf
<1> DEFINE a == [x \in S |-> f[x]]
           b == [x \in D \ S |-> f[x]]
<1>4. a \in [S -> Nat] /\ b \in [D \ S -> Nat]
  OBVIOUS
<1> HIDE DEF a, b
<1>5. SumFunction(a) \in Nat /\ SumFunction(b) \in Nat
  BY <1>1, <1>4, SumIsNat
<1> QED BY <1>3, <1>5 DEF a, b

\* An element more, and another value for one.
LEMMA SumExtended ==
  ASSUME NEW D, IsFiniteSet(D), NEW x, x \notin D, NEW f \in [D -> Int], NEW g \in [D \cup {x} -> Int],
         \A y \in D : g[y] = f[y]
  PROVE  SumFunction(g) = SumFunction(f) + g[x]
<1>1. IsFiniteSet(D \cup {x}) /\ (D \cup {x}) \ {x} = D /\ x \in D \cup {x}
  BY FS_AddElement
<1>2. SumFunction(g) = g[x] + SumFunction([y \in (D \cup {x}) \ {x} |-> g[y]])
  BY <1>1, SumTakenOut
<1>3. [y \in (D \cup {x}) \ {x} |-> g[y]] = f
  BY <1>1
<1>4. SumFunction(f) \in Int /\ g[x] \in Int
  BY <1>1, SumType
<1> QED BY <1>2, <1>3, <1>4

\* What is added to a sum by one element more, for any function.
ExtendedSums(D, x) ==
  \A f \in [D -> Int], g \in [D \cup {x} -> Int] :
    (\A y \in D : g[y] = f[y]) => SumFunction(g) = SumFunction(f) + g[x]

\* One element more adds its value, for any function.
LEMMA SumsExtended ==
  ASSUME NEW D, IsFiniteSet(D), NEW x, x \notin D PROVE ExtendedSums(D, x)
<1> SUFFICES ASSUME NEW f \in [D -> Int], NEW g \in [D \cup {x} -> Int], \A y \in D : g[y] = f[y]
             PROVE  SumFunction(g) = SumFunction(f) + g[x]
  BY DEF ExtendedSums
<1> QED BY SumExtended, SMT

\* Whatever element is taken out.
LEMMA SumsTakenOut ==
  ASSUME NEW D, IsFiniteSet(D), NEW f \in [D -> Int]
  PROVE  \A x \in D : SumFunction(f) = f[x] + SumFunction([y \in D \ {x} |-> f[y]])
<1> TAKE x \in D
<1> QED BY SumTakenOut, Zenon

\* Another value for one element changes the sum by the difference.
LEMMA SumUpdated ==
  ASSUME NEW D, IsFiniteSet(D), NEW x \in D, NEW f \in [D -> Int], NEW g \in [D -> Int],
         \A y \in D \ {x} : g[y] = f[y]
  PROVE  SumFunction(g) = SumFunction(f) - f[x] + g[x]
<1>0. \A e \in [D -> Int] : SumFunction(e) = e[x] + SumFunction([y \in D \ {x} |-> e[y]])
  <2> TAKE e \in [D -> Int]
  <2>1. PICK tot : TotalsOf(tot, e, D) /\ SumFunction(e) = tot[D]
    BY SumIs
  <2>2. SumFunction([y \in D \ {x} |-> e[y]]) = tot[D \ {x}]
    BY <2>1, SumOfPart
  <2> QED BY <2>1, <2>2 DEF TotalsOf
<1>1. SumFunction(g) = g[x] + SumFunction([y \in D \ {x} |-> g[y]])
  BY <1>0, Zenon
<1>2. SumFunction(f) = f[x] + SumFunction([y \in D \ {x} |-> f[y]])
  BY <1>0, Zenon
<1> DEFINE h == [y \in D \ {x} |-> f[y]]
<1>3. [y \in D \ {x} |-> g[y]] = h
  OBVIOUS
<1>4. IsFiniteSet(D \ {x}) /\ h \in [D \ {x} -> Int]
  BY FS_RemoveElement
<1> HIDE DEF h
<1>5. SumFunction(h) \in Int /\ g[x] \in Int /\ f[x] \in Int
  BY <1>4, SumType
<1> QED BY <1>1, <1>2, <1>3, <1>5 DEF h

----------------------------------------------------------------------------
(* Order: the n-th smallest of the values of a function on a finite set *)

\* A function on a finite set has a greatest and a least value.
LEMMA GreatestValue ==
  ASSUME NEW D, IsFiniteSet(D), NEW f \in [D -> Int], D # {}
  PROVE  \E k \in D : \A m \in D : f[m] <= f[k]
<1> DEFINE P == {T \in SUBSET D : T # {} => \E k \in T : \A m \in T : f[m] <= f[k]}
<1>1. {} \in P
  OBVIOUS
<1>2. ASSUME NEW T \in P, NEW x \in D \ T PROVE T \cup {x} \in P
  <2>1. CASE T = {}
    BY <2>1
  <2>2. CASE T # {}
    <3>1. PICK k \in T : \A m \in T : f[m] <= f[k]
      BY <2>2
    <3>2. CASE f[x] <= f[k]
      BY <3>1, <3>2
    <3>3. CASE ~(f[x] <= f[k])
      <4>1. \A m \in T \cup {x} : f[m] <= f[x]
        BY <3>1, <3>3
      <4> QED BY <4>1
    <3> QED BY <3>2, <3>3
  <2> QED BY <2>1, <2>2
<1>3. P \in SUBSET (SUBSET D)
  OBVIOUS
<1>4. D \in P
  <2> HIDE DEF P
  <2> QED BY <1>1, <1>2, <1>3, SubsetInduction
<1> QED BY <1>4

\* A function on a finite set has a least value among the arguments of a nonempty set.
LEMMA LeastValue ==
  ASSUME NEW D, IsFiniteSet(D), NEW f \in [D -> Int], D # {}
  PROVE  \E k \in D : \A m \in D : f[k] <= f[m]
<1> DEFINE g == [x \in D |-> 0 - f[x]]
<1>1. g \in [D -> Int]
  OBVIOUS
<1>2. PICK k \in D : \A m \in D : g[m] <= g[k]
  <2> HIDE DEF g
  <2> QED BY <1>1, GreatestValue
<1>3. \A m \in D : f[k] <= f[m]
  <2> TAKE m \in D
  <2>1. 0 - f[m] <= 0 - f[k] /\ f[m] \in Int /\ f[k] \in Int
    BY <1>2
  <2> QED BY <2>1
<1> QED BY <1>3

Within(f, k) == {m \in DOMAIN f : f[m] <= f[k]}
Candidates(f, n) == {k \in DOMAIN f : Cardinality(Within(f, k)) >= n}

\* The arguments whose values do not exceed a given one are finitely many.
LEMMA WithinIsFinite ==
  ASSUME NEW D, IsFiniteSet(D), NEW f \in [D -> Int], NEW k \in D
  PROVE  /\ IsFiniteSet(Within(f, k)) /\ Within(f, k) \subseteq D /\ k \in Within(f, k)
         /\ Cardinality(Within(f, k)) \in 1..Cardinality(D)
         /\ Cardinality(Within(f, k)) = Cardinality(D) => Within(f, k) = D
<1>1. Within(f, k) \subseteq D /\ k \in Within(f, k)
  BY DEF Within
<1>2. IsFiniteSet(Within(f, k)) /\ Cardinality(Within(f, k)) <= Cardinality(D)
  BY <1>1, FS_Subset
<1>3. Cardinality(Within(f, k)) = Cardinality(D) => Within(f, k) = D
  BY <1>1, FS_Subset
<1>4. Cardinality(Within(f, k)) \in Nat /\ Cardinality(Within(f, k)) # 0 /\ Cardinality(D) \in Nat
  BY <1>1, <1>2, FS_CardinalityType, FS_EmptySet
<1> QED BY <1>1, <1>2, <1>3, <1>4

\* The n-th smallest is a value with at least n values up to it, and the least such.
LEMMA SmallestIs ==
  ASSUME NEW D, IsFiniteSet(D), NEW f \in [D -> Int], NEW n \in 1..Cardinality(D)
  PROVE  \E k \in Candidates(f, n) : Smallest(f, n) = f[k] /\ \A j \in Candidates(f, n) : f[k] <= f[j]
<1> DEFINE C == Candidates(f, n)
<1>1. C \subseteq D /\ IsFiniteSet(C)
  <2>1. C \subseteq D
    BY DEF Candidates
  <2> QED BY <2>1, FS_Subset
<1>2. Cardinality(D) \in Nat /\ D # {}
  BY FS_CardinalityType, FS_EmptySet
<1>3. PICK top \in D : \A m \in D : f[m] <= f[top]
  BY <1>2, GreatestValue
<1>4. top \in C
  <2>1. Within(f, top) = D
    BY <1>3 DEF Within
  <2> QED BY <1>2, <2>1 DEF Candidates
<1> DEFINE h == [k \in C |-> f[k]]
<1>5. h \in [C -> Int]
  BY <1>1
<1>6. PICK k \in C : \A j \in C : h[k] <= h[j]
  <2> HIDE DEF C, h
  <2> QED BY <1>1, <1>4, <1>5, LeastValue
<1>7. \A j \in C : f[k] <= f[j]
  BY <1>6
<1>8. Smallest(f, n) = Min({f[j] : j \in C})
  BY DEF Smallest, Candidates, Within
<1>9. Min({f[j] : j \in C}) = f[k]
  <2> DEFINE V == {f[j] : j \in C}
  <2>1. f[k] \in V /\ \A v \in V : f[k] <= v
    BY <1>7
  <2>2. V \subseteq Int
    BY <1>1
  <2> HIDE DEF V
  <2>3. Min(V) \in V /\ \A v \in V : Min(V) <= v
    BY <2>1, Zenon DEF Min
  <2>4. Min(V) \in Int /\ f[k] \in Int /\ f[k] <= Min(V) /\ Min(V) <= f[k]
    BY <2>1, <2>2, <2>3, Zenon
  <2>5. Min(V) = f[k]
    BY <2>4, SMT
  <2> QED BY <2>5 DEF V
<1> QED BY <1>7, <1>8, <1>9

\* The n-th smallest is a value, so an integer.
LEMMA SmallestType ==
  ASSUME NEW D, IsFiniteSet(D), NEW f \in [D -> Int], NEW n \in 1..Cardinality(D)
  PROVE  Smallest(f, n) \in Int /\ \E k \in D : Smallest(f, n) = f[k]
<1>1. PICK k \in Candidates(f, n) : Smallest(f, n) = f[k]
  BY SmallestIs
<1> QED BY <1>1 DEF Candidates

\* The n-th smallest rises with n.
LEMMA SmallestRises ==
  ASSUME NEW D, IsFiniteSet(D), NEW f \in [D -> Int], NEW n \in 1..Cardinality(D), NEW m \in 1..Cardinality(D), n <= m
  PROVE  Smallest(f, n) <= Smallest(f, m)
<1>1. PICK k \in Candidates(f, n) : Smallest(f, n) = f[k] /\ \A j \in Candidates(f, n) : f[k] <= f[j]
  BY SmallestIs
<1>2. PICK k2 \in Candidates(f, m) : Smallest(f, m) = f[k2]
  BY SmallestIs
<1>3. k2 \in D /\ Cardinality(Within(f, k2)) >= m
  BY <1>2 DEF Candidates
<1>4. Cardinality(Within(f, k2)) \in 1..Cardinality(D)
  BY <1>3, WithinIsFinite
<1>5. Cardinality(Within(f, k2)) >= n
  BY <1>3, <1>4, FS_CardinalityType
<1>6. k2 \in Candidates(f, n)
  BY <1>3, <1>5 DEF Candidates
<1> QED BY <1>1, <1>2, <1>6

\* The n-th smallest rises with the function.
LEMMA SmallestGrows ==
  ASSUME NEW D, IsFiniteSet(D), NEW f \in [D -> Int], NEW g \in [D -> Int], \A x \in D : f[x] <= g[x],
         NEW n \in 1..Cardinality(D)
  PROVE  Smallest(f, n) <= Smallest(g, n)
<1>1. PICK k \in Candidates(f, n) : Smallest(f, n) = f[k] /\ \A j \in Candidates(f, n) : f[k] <= f[j]
  BY SmallestIs
<1>2. PICK k2 \in Candidates(g, n) : Smallest(g, n) = g[k2]
  BY SmallestIs
<1> DEFINE S == Within(g, k2)
<1>3. k2 \in D /\ Cardinality(S) >= n
  BY <1>2 DEF Candidates
<1>4. IsFiniteSet(S) /\ S \subseteq D /\ k2 \in S /\ Cardinality(S) \in Nat
  BY <1>3, WithinIsFinite
<1>5. \A m \in S : g[m] <= g[k2]
  BY DEF Within
<1> HIDE DEF S
<1> DEFINE h == [x \in S |-> f[x]]
<1>6. h \in [S -> Int]
  BY <1>4
<1>7. PICK t \in S : \A m \in S : h[m] <= h[t]
  <2> HIDE DEF h
  <2> QED BY <1>4, <1>6, GreatestValue
<1>8. S \subseteq Within(f, t) /\ t \in D
  BY <1>4, <1>7 DEF Within
<1>9. IsFiniteSet(Within(f, t)) /\ Cardinality(Within(f, t)) \in Nat
  BY <1>8, WithinIsFinite
<1>10. Cardinality(S) <= Cardinality(Within(f, t))
  BY <1>8, <1>9, FS_Subset
<1>11. t \in Candidates(f, n)
  BY <1>3, <1>4, <1>8, <1>9, <1>10 DEF Candidates
<1>12. f[k] <= f[t] /\ f[t] <= g[t] /\ g[t] <= g[k2] /\ k \in D
  BY <1>1, <1>4, <1>5, <1>7, <1>11 DEF Candidates
<1> QED BY <1>1, <1>2, <1>3, <1>4, <1>7, <1>12

\* The first is a lower bound of the values and the last an upper bound.
LEMMA SmallestBounds ==
  ASSUME NEW D, IsFiniteSet(D), NEW f \in [D -> Int], NEW x \in D
  PROVE  Smallest(f, 1) <= f[x] /\ f[x] <= Smallest(f, Cardinality(D))
<1>1. Cardinality(D) \in Nat /\ Cardinality(D) # 0
  BY FS_CardinalityType, FS_EmptySet
<1>2. 1 \in 1..Cardinality(D) /\ Cardinality(D) \in 1..Cardinality(D)
  BY <1>1
<1>3. Smallest(f, 1) <= f[x]
  <2>1. PICK k \in Candidates(f, 1) : Smallest(f, 1) = f[k] /\ \A j \in Candidates(f, 1) : f[k] <= f[j]
    BY <1>2, SmallestIs
  <2>2. Cardinality(Within(f, x)) \in 1..Cardinality(D)
    BY WithinIsFinite
  <2>3. x \in Candidates(f, 1)
    BY <1>1, <2>2 DEF Candidates
  <2> QED BY <2>1, <2>3
<1>4. f[x] <= Smallest(f, Cardinality(D))
  <2>1. PICK k \in Candidates(f, Cardinality(D)) : Smallest(f, Cardinality(D)) = f[k]
    BY <1>2, SmallestIs
  <2>2. k \in D /\ Cardinality(Within(f, k)) >= Cardinality(D)
    BY <2>1 DEF Candidates
  <2>3. Cardinality(Within(f, k)) \in 1..Cardinality(D) /\ (Cardinality(Within(f, k)) = Cardinality(D) => Within(f, k) = D)
    BY <2>2, WithinIsFinite
  <2>4. Within(f, k) = D
    BY <1>1, <2>2, <2>3
  <2> QED BY <2>1, <2>4 DEF Within
<1> QED BY <1>3, <1>4

----------------------------------------------------------------------------
(* The capacity simulator *)

Since(S, from, t) == SumFunction([j \in S |-> t - from[j]])

\* What a job more adds to a sum of times.
TimeInGrows(S, j, from, to, from2, to2) ==
  /\ TimeIn(S \cup {j}, from2, to2) = TimeIn(S, from, to) + (to2[j] - from2[j])
  /\ TimeIn(S, from2, to2) = TimeIn(S, from, to)
SinceGrows(S, j, from, from2, t) ==
  /\ Since(S \cup {j}, from2, t) = Since(S, from, t) + (t - from2[j])
  /\ Since(S, from2, t) = Since(S, from, t)

\* One more job: the time spent grows by its own.
LEMMA TimeInMore ==
  ASSUME NEW S, IsFiniteSet(S), NEW j, j \notin S, NEW from, NEW to, NEW from2, NEW to2,
         \A x \in S : from[x] \in Int /\ to[x] \in Int /\ from2[x] = from[x] /\ to2[x] = to[x],
         from2[j] \in Int, to2[j] \in Int
  PROVE  TimeInGrows(S, j, from, to, from2, to2)
<1> DEFINE f == [x \in S |-> to[x] - from[x]]
           g == [x \in S \cup {j} |-> to2[x] - from2[x]]
<1>1. f \in [S -> Int] /\ g \in [S \cup {j} -> Int] /\ \A x \in S : g[x] = f[x]
  OBVIOUS
<1>2. g[j] = to2[j] - from2[j] /\ [x \in S |-> to2[x] - from2[x]] = f
  OBVIOUS
<1>3. SumFunction(g) = SumFunction(f) + g[j]
  <2> HIDE DEF f, g
  <2>1. ExtendedSums(S, j)
    BY SumsExtended
  <2> QED BY <1>1, <2>1, Zenon DEF ExtendedSums
<1> QED BY <1>2, <1>3 DEF TimeIn, TimeInGrows

\* Times spent are integers.
LEMMA TimeInType ==
  ASSUME NEW S, IsFiniteSet(S), NEW from, NEW to, \A x \in S : from[x] \in Int /\ to[x] \in Int
  PROVE  TimeIn(S, from, to) \in Int
<1> DEFINE f == [x \in S |-> to[x] - from[x]]
<1>1. f \in [S -> Int]
  OBVIOUS
<1> HIDE DEF f
<1>2. SumFunction(f) \in Int
  BY <1>1, SumType
<1> QED BY <1>2 DEF f, TimeIn

\* One more job: the time since grows by its own.
LEMMA SinceMore ==
  ASSUME NEW S, IsFiniteSet(S), NEW j, j \notin S, NEW from, NEW from2, NEW t \in Int,
         \A x \in S : from[x] \in Int /\ from2[x] = from[x], from2[j] \in Int
  PROVE  SinceGrows(S, j, from, from2, t)
<1> DEFINE f == [x \in S |-> t - from[x]]
           g == [x \in S \cup {j} |-> t - from2[x]]
<1>1. f \in [S -> Int] /\ g \in [S \cup {j} -> Int] /\ \A x \in S : g[x] = f[x]
  OBVIOUS
<1>2. g[j] = t - from2[j] /\ [x \in S |-> t - from2[x]] = f
  OBVIOUS
<1>3. SumFunction(g) = SumFunction(f) + g[j]
  <2> HIDE DEF f, g
  <2>1. ExtendedSums(S, j)
    BY SumsExtended
  <2> QED BY <1>1, <2>1, Zenon DEF ExtendedSums
<1> QED BY <1>2, <1>3 DEF Since, SinceGrows

\* Later, each job's time since has grown by the same.
LEMMA SinceLater ==
  ASSUME NEW S, IsFiniteSet(S), NEW from, NEW t \in Int, NEW u \in Int, \A x \in S : from[x] \in Int
  PROVE  /\ Since(S, from, t) \in Int
         /\ Since(S, from, u) = Since(S, from, t) + Cardinality(S) * (u - t)
<1> DEFINE f == [x \in S |-> t - from[x]]
           g == [x \in S |-> u - from[x]]
<1>1. f \in [S -> Int] /\ g \in [S -> Int] /\ \A x \in S : g[x] = f[x] + (u - t)
  OBVIOUS
<1>2. SumFunction(f) \in Int /\ SumFunction(g) = SumFunction(f) + Cardinality(S) * (u - t)
  <2>1. u - t \in Int
    OBVIOUS
  <2> HIDE DEF f, g
  <2> QED BY <1>1, <2>1, SumShifted, SumType
<1> QED BY <1>2 DEF Since

\* The time since is no negative number when nobody comes after now.
LEMMA SinceIsNat ==
  ASSUME NEW S, IsFiniteSet(S), NEW from, NEW t \in Int, \A x \in S : from[x] \in Int /\ from[x] <= t
  PROVE  Since(S, from, t) \in Nat
<1> DEFINE f == [x \in S |-> t - from[x]]
<1>1. f \in [S -> Nat]
  OBVIOUS
<1> HIDE DEF f
<1>2. SumFunction(f) \in Nat
  BY <1>1, SumIsNat
<1> QED BY <1>2 DEF f, Since

----------------------------------------------------------------------------
SimTypes ==
  /\ simNow \in Nat /\ busyServers \in Nat /\ areaQueue \in Int /\ areaSystem \in Int
  /\ \E n \in Nat : DOMAIN arrivalTime = 1..n
  /\ arrivalTime \in [DOMAIN arrivalTime -> Nat]
  /\ startTime \in [DOMAIN startTime -> Nat] /\ DOMAIN startTime \subseteq DOMAIN arrivalTime
  /\ departureTime \in [DOMAIN departureTime -> Nat] /\ DOMAIN departureTime \subseteq DOMAIN startTime
  /\ droppedJobs \subseteq DOMAIN arrivalTime /\ queue \in Seq(DOMAIN arrivalTime)
  /\ events \subseteq [time : Nat, type : {"arrival", "departure"}, job : Nat]

\* No time lies ahead of the clock, no event behind it.
SimClock ==
  /\ \A j \in DOMAIN arrivalTime : arrivalTime[j] <= simNow
  /\ \A j \in DOMAIN startTime : arrivalTime[j] <= startTime[j] /\ startTime[j] <= simNow
  /\ \A j \in DOMAIN departureTime : startTime[j] <= departureTime[j] /\ departureTime[j] <= simNow
  /\ \A e \in events : simNow <= e.time

\* A departure is that of a job in service, and its only one.
SimDepartures ==
  /\ \A e \in events : e.type = "departure" => e.job \in InService
  /\ \A d, e \in events : d.type = "departure" /\ e.type = "departure" /\ d.job = e.job => d = e

\* The queue holds the jobs in the order they came, all after the ones that have started.
SimQueue ==
  /\ \A i, k \in 1..Len(queue) : i < k => queue[i] < queue[k]
  /\ \A i \in 1..Len(queue) : queue[i] \notin droppedJobs /\ \A j \in DOMAIN startTime : j < queue[i]
  /\ droppedJobs \cap DOMAIN startTime = {}
  /\ DOMAIN arrivalTime = DOMAIN startTime \cup {queue[i] : i \in 1..Len(queue)} \cup droppedJobs
  /\ \A i, j \in DOMAIN startTime : i < j => startTime[i] <= startTime[j]

SimServers ==
  /\ Len(queue) # 0 => busyServers = Servers
  /\ busyServers = Cardinality(InService) /\ busyServers <= Servers

\* The areas, and the time the servers have been busy.
SimSums ==
  /\ areaQueue = TimeIn(DOMAIN startTime, arrivalTime, startTime) + Since(Queued, arrivalTime, simNow)
  /\ areaSystem = TimeIn(DOMAIN departureTime, arrivalTime, departureTime)
                  + Since(Queued \cup InService, arrivalTime, simNow)
  /\ TimeIn(DOMAIN departureTime, startTime, departureTime) + Since(InService, startTime, simNow) <= Servers * simNow

SimInv == SimTypes /\ SimClock /\ SimDepartures /\ SimQueue /\ SimServers /\ SimSums

\* SimInv holds before the first arrival.
LEMMA SimInitially == SimInit => SimInv
<1> SUFFICES ASSUME SimInit PROVE SimInv
  OBVIOUS
<1>1. PICK gap \in Gaps : events = {[time |-> gap, type |-> "arrival", job |-> 0]}
  BY DEF SimInit
<1>2. gap \in Nat /\ Servers \in Nat
  BY SimAssumption
<1>3. /\ simNow = 0 /\ queue = <<>> /\ busyServers = 0 /\ droppedJobs = {} /\ areaQueue = 0 /\ areaSystem = 0
      /\ arrivalTime = <<>> /\ startTime = <<>> /\ departureTime = <<>>
  BY DEF SimInit
<1>4. DOMAIN arrivalTime = {} /\ DOMAIN startTime = {} /\ DOMAIN departureTime = {} /\ Len(queue) = 0 /\ 1..0 = {}
  BY <1>3
<1>5. SimTypes
  <2>1. DOMAIN arrivalTime = 1..0
    BY <1>4
  <2>2. queue \in Seq(DOMAIN arrivalTime)
    BY <1>3
  <2>3. arrivalTime \in [DOMAIN arrivalTime -> Nat]
    BY <1>3
  <2>4. startTime \in [DOMAIN startTime -> Nat] /\ departureTime \in [DOMAIN departureTime -> Nat]
    BY <1>3
  <2>5. events \subseteq [time : Nat, type : {"arrival", "departure"}, job : Nat]
    BY <1>1, <1>2
  <2>6. simNow \in Nat /\ busyServers \in Nat /\ areaQueue \in Int /\ areaSystem \in Int
    BY <1>3
  <2>7. DOMAIN startTime \subseteq DOMAIN arrivalTime /\ DOMAIN departureTime \subseteq DOMAIN startTime /\ droppedJobs \subseteq DOMAIN arrivalTime
    BY <1>3, <1>4
  <2>8. \E n \in Nat : DOMAIN arrivalTime = 1..n
    BY <2>1
  <2> QED BY <2>2, <2>3, <2>4, <2>5, <2>6, <2>7, <2>8, Zenon DEF SimTypes
<1>6. SimClock
  <2>1. \A e \in events : simNow <= e.time
    BY <1>1, <1>2, <1>3
  <2> QED BY <1>4, <2>1 DEF SimClock
<1>7. SimDepartures
  BY <1>1 DEF SimDepartures
<1>8. SimQueue
  <2>1. {queue[i] : i \in 1..Len(queue)} = {}
    BY <1>4
  <2> QED BY <1>3, <1>4, <2>1 DEF SimQueue
<1>9. InService = {} /\ Queued = {}
  BY <1>3, <1>4 DEF InService, Queued
<1>10. SimServers
  BY <1>2, <1>3, <1>4, <1>9, FS_EmptySet DEF SimServers
<1>11. SimSums
  <2>1. \A from, to : TimeIn({}, from, to) = 0 /\ Since({}, from, 0) = 0
    <3> TAKE from, to
    <3> DEFINE f == [j \in {} |-> to[j] - from[j]]
               g == [j \in {} |-> 0 - from[j]]
    <3>1. f \in [{} -> Int] /\ DOMAIN f = {} /\ g \in [{} -> Int] /\ DOMAIN g = {}
      OBVIOUS
    <3> HIDE DEF f, g
    <3>2. SumFunction(f) = 0 /\ SumFunction(g) = 0
      BY <3>1, SumOfNothing
    <3> QED BY <3>2 DEF f, g, TimeIn, Since
  <2>2. Servers * 0 = 0 /\ Queued \cup InService = {}
    BY <1>2, <1>9
  <2> QED BY <1>2, <1>3, <1>4, <1>9, <2>1, <2>2 DEF SimSums
<1> QED BY <1>5, <1>6, <1>7, <1>8, <1>10, <1>11 DEF SimInv

\* The sets of jobs are finite, the queued ones as many as the queue is long.
LEMMA JobsAreFinite ==
  ASSUME SimTypes
  PROVE  /\ IsFiniteSet(DOMAIN arrivalTime) /\ \A j \in DOMAIN arrivalTime : j \in Nat
         /\ NextJobId \in Nat /\ NextJobId \notin DOMAIN arrivalTime /\ \A j \in DOMAIN arrivalTime : j < NextJobId
         /\ DOMAIN arrivalTime \cup {NextJobId} = 1..NextJobId
<1>1. PICK n \in Nat : DOMAIN arrivalTime = 1..n
  BY DEF SimTypes
<1>2. IsFiniteSet(1..n) /\ Cardinality(1..n) = n
  BY FS_Interval
<1>3. NextJobId = n + 1
  BY <1>1, <1>2 DEF NextJobId
<1> QED BY <1>1, <1>2, <1>3

\* The queue holds different jobs, each of which has arrived.
LEMMA QueuedIs ==
  ASSUME SimTypes, SimQueue
  PROVE  /\ Queued = {queue[i] : i \in 1..Len(queue)} /\ Queued \subseteq DOMAIN arrivalTime
         /\ IsFiniteSet(Queued) /\ Cardinality(Queued) = Len(queue)
         /\ Queued \cap DOMAIN startTime = {}
<1>1. queue \in Seq(DOMAIN arrivalTime) /\ DOMAIN queue = 1..Len(queue) /\ Len(queue) \in Nat
  BY DEF SimTypes
<1>2. Queued = {queue[i] : i \in 1..Len(queue)}
  BY <1>1 DEF Queued
<1>3. \A i \in 1..Len(queue) : queue[i] \in DOMAIN arrivalTime
  BY <1>1
<1>4. Queued \subseteq DOMAIN arrivalTime
  BY <1>2, <1>3
<1>5. IsFiniteSet(Queued)
  BY <1>4, JobsAreFinite, FS_Subset
<1>6. \A i, k \in 1..Len(queue) : i # k => queue[i] # queue[k]
  <2> TAKE i, k \in 1..Len(queue)
  <2>1. queue[i] \in Nat /\ queue[k] \in Nat /\ (i < k => queue[i] < queue[k]) /\ (k < i => queue[k] < queue[i])
    BY <1>3, JobsAreFinite DEF SimQueue
  <2> QED BY <1>1, <2>1
<1>7. Cardinality(Queued) = Len(queue)
  <2> DEFINE f == [i \in 1..Len(queue) |-> queue[i]]
  <2>1. f \in Bijection(1..Len(queue), Queued)
    <3>1. f \in [1..Len(queue) -> Queued]
      BY <1>2
    <3>2. \A a, b \in 1..Len(queue) : f[a] = f[b] => a = b
      BY <1>6
    <3>3. \A y \in Queued : \E x \in 1..Len(queue) : f[x] = y
      BY <1>2
    <3> HIDE DEF f
    <3> QED BY <3>1, <3>2, <3>3 DEF Bijection, Injection, Surjection, IsInjective
  <2>2. ExistsBijection(1..Len(queue), Queued)
    BY <2>1 DEF ExistsBijection
  <2> QED BY <1>1, <2>2, FS_CountingElements
<1>8. Queued \cap DOMAIN startTime = {}
  <2>1. ASSUME NEW j \in Queued, j \in DOMAIN startTime PROVE FALSE
    <3>1. PICK i \in 1..Len(queue) : j = queue[i]
      BY <1>2
    <3>2. j < j /\ j \in Nat
      BY <1>3, <2>1, <3>1, JobsAreFinite DEF SimQueue
    <3> QED BY <3>2
  <2> QED BY <2>1
<1> QED BY <1>2, <1>4, <1>5, <1>7, <1>8

\* The jobs in service have started, and none of them is queued.
LEMMA InServiceIs ==
  ASSUME SimTypes, SimQueue, SimServers
  PROVE  /\ InService \subseteq DOMAIN startTime /\ IsFiniteSet(InService) /\ Queued \cap InService = {}
         /\ IsFiniteSet(DOMAIN startTime) /\ IsFiniteSet(DOMAIN departureTime)
         /\ IsFiniteSet(Queued \cup InService) /\ Cardinality(Queued \cup InService) = Len(queue) + busyServers
<1>1. IsFiniteSet(DOMAIN startTime) /\ IsFiniteSet(DOMAIN departureTime)
  BY JobsAreFinite, FS_Subset DEF SimTypes
<1>2. InService \subseteq DOMAIN startTime
  BY DEF InService
<1>3. IsFiniteSet(InService)
  BY <1>1, <1>2, FS_Subset
<1>4. Queued \cap InService = {} /\ IsFiniteSet(Queued)
  BY <1>2, QueuedIs
<1>5. Cardinality(Queued \cap InService) = 0
  BY <1>4, FS_EmptySet
<1>6. /\ IsFiniteSet(Queued \cup InService)
      /\ Cardinality(Queued \cup InService) = Cardinality(Queued) + Cardinality(InService) - Cardinality(Queued \cap InService)
  BY <1>3, <1>4, FS_Union
<1>7. Cardinality(Queued) = Len(queue) /\ Len(queue) \in Nat
  BY QueuedIs DEF SimTypes
<1> QED BY <1>1, <1>2, <1>3, <1>4, <1>5, <1>6, <1>7 DEF SimServers, SimTypes

\* The clock moves to the next event: the areas grow by what is in the queue and in the system.
LEMMA TimePasses ==
  ASSUME SimInv, NEW e \in events, Areas(e)
  PROVE  /\ e.time \in Nat /\ simNow <= e.time /\ simNow' = e.time
         /\ areaQueue' = TimeIn(DOMAIN startTime, arrivalTime, startTime) + Since(Queued, arrivalTime, e.time)
         /\ areaSystem' = TimeIn(DOMAIN departureTime, arrivalTime, departureTime)
                          + Since(Queued \cup InService, arrivalTime, e.time)
         /\ TimeIn(DOMAIN departureTime, startTime, departureTime) + Since(InService, startTime, e.time)
            <= Servers * e.time
         /\ areaQueue' \in Int /\ areaSystem' \in Int
<1> DEFINE t == e.time
<1>1. SimTypes /\ SimClock /\ SimQueue /\ SimServers /\ SimSums
  BY DEF SimInv
<1>2. t \in Nat /\ simNow \in Nat /\ simNow <= t /\ simNow' = t
  BY <1>1 DEF SimTypes, SimClock, Areas
<1>3. areaQueue' = areaQueue + Len(queue) * (t - simNow) /\ areaSystem' = areaSystem + (Len(queue) + busyServers) * (t - simNow)
  BY DEF Areas, InSystem
<1>4. Queued \subseteq DOMAIN arrivalTime /\ IsFiniteSet(Queued) /\ Cardinality(Queued) = Len(queue)
  BY <1>1, QueuedIs
<1>5. /\ InService \subseteq DOMAIN startTime /\ IsFiniteSet(InService) /\ Cardinality(InService) = busyServers
      /\ IsFiniteSet(DOMAIN startTime) /\ IsFiniteSet(DOMAIN departureTime)
      /\ IsFiniteSet(Queued \cup InService) /\ Cardinality(Queued \cup InService) = Len(queue) + busyServers
  BY <1>1, InServiceIs DEF SimServers
<1>6. /\ \A j \in DOMAIN arrivalTime : arrivalTime[j] \in Int
      /\ \A j \in DOMAIN startTime : startTime[j] \in Int /\ j \in DOMAIN arrivalTime
      /\ \A j \in DOMAIN departureTime : departureTime[j] \in Int /\ j \in DOMAIN startTime
  BY <1>1 DEF SimTypes
<1>7. /\ Since(Queued, arrivalTime, t) = Since(Queued, arrivalTime, simNow) + Len(queue) * (t - simNow)
      /\ Since(Queued, arrivalTime, simNow) \in Int
  <2>1. \A j \in Queued : arrivalTime[j] \in Int
    BY <1>4, <1>6
  <2> QED BY <1>2, <1>4, <2>1, SinceLater
<1>8. /\ Since(Queued \cup InService, arrivalTime, t)
           = Since(Queued \cup InService, arrivalTime, simNow) + (Len(queue) + busyServers) * (t - simNow)
      /\ Since(Queued \cup InService, arrivalTime, simNow) \in Int
  <2>1. \A j \in Queued \cup InService : arrivalTime[j] \in Int
    BY <1>4, <1>5, <1>6
  <2> QED BY <1>2, <1>5, <2>1, SinceLater
<1>9. /\ Since(InService, startTime, t) = Since(InService, startTime, simNow) + busyServers * (t - simNow)
      /\ Since(InService, startTime, simNow) \in Int
  <2>1. \A j \in InService : startTime[j] \in Int
    BY <1>5, <1>6
  <2> QED BY <1>2, <1>5, <2>1, SinceLater
<1>10. /\ TimeIn(DOMAIN startTime, arrivalTime, startTime) \in Int
       /\ TimeIn(DOMAIN departureTime, arrivalTime, departureTime) \in Int
       /\ TimeIn(DOMAIN departureTime, startTime, departureTime) \in Int
  <2>1. \A j \in DOMAIN startTime : arrivalTime[j] \in Int /\ startTime[j] \in Int
    BY <1>6
  <2>2. \A j \in DOMAIN departureTime : arrivalTime[j] \in Int /\ startTime[j] \in Int /\ departureTime[j] \in Int
    BY <1>6
  <2> QED BY <1>5, <2>1, <2>2, TimeInType
<1>11. busyServers * (t - simNow) <= Servers * (t - simNow)
  <2>1. busyServers \in Nat /\ Servers \in Nat /\ busyServers <= Servers
    BY <1>1, SimAssumption DEF SimServers, SimTypes
  <2>2. t - simNow \in Nat
    BY <1>2
  <2> QED BY <2>1, <2>2, SMT
<1>12. Servers * simNow + Servers * (t - simNow) = Servers * t
  BY <1>2, SimAssumption
<1>13. Len(queue) * (t - simNow) \in Int /\ (Len(queue) + busyServers) * (t - simNow) \in Int
  <2>1. Len(queue) \in Int /\ busyServers \in Int /\ t - simNow \in Int
    BY <1>1, <1>2 DEF SimTypes
  <2> HIDE DEF t
  <2> QED BY <2>1
<1>14. areaQueue' = TimeIn(DOMAIN startTime, arrivalTime, startTime) + Since(Queued, arrivalTime, t)
  <2>1. areaQueue = TimeIn(DOMAIN startTime, arrivalTime, startTime) + Since(Queued, arrivalTime, simNow)
    BY <1>1 DEF SimSums
  <2> DEFINE a == TimeIn(DOMAIN startTime, arrivalTime, startTime)
             x0 == Since(Queued, arrivalTime, simNow)
             x1 == Since(Queued, arrivalTime, t)
             d == Len(queue) * (t - simNow)
  <2>2. areaQueue = a + x0 /\ areaQueue' = areaQueue + d /\ x1 = x0 + d /\ a \in Int /\ x0 \in Int /\ d \in Int
    BY <1>3, <1>7, <1>10, <1>13, <2>1
  <2> HIDE DEF a, x0, x1, d
  <2>3. areaQueue' = a + x1
    BY <2>2
  <2> QED BY <2>3 DEF a, x1
<1>15. areaSystem' = TimeIn(DOMAIN departureTime, arrivalTime, departureTime) + Since(Queued \cup InService, arrivalTime, t)
  <2>1. areaSystem = TimeIn(DOMAIN departureTime, arrivalTime, departureTime) + Since(Queued \cup InService, arrivalTime, simNow)
    BY <1>1 DEF SimSums
  <2> DEFINE a == TimeIn(DOMAIN departureTime, arrivalTime, departureTime)
             x0 == Since(Queued \cup InService, arrivalTime, simNow)
             x1 == Since(Queued \cup InService, arrivalTime, t)
             d == (Len(queue) + busyServers) * (t - simNow)
  <2>2. areaSystem = a + x0 /\ areaSystem' = areaSystem + d /\ x1 = x0 + d /\ a \in Int /\ x0 \in Int /\ d \in Int
    BY <1>3, <1>8, <1>10, <1>13, <2>1
  <2> HIDE DEF a, x0, x1, d
  <2>3. areaSystem' = a + x1
    BY <2>2
  <2> QED BY <2>3 DEF a, x1
<1> DEFINE served == TimeIn(DOMAIN departureTime, startTime, departureTime)
           now0 == Since(InService, startTime, simNow)
           now1 == Since(InService, startTime, t)
           b == busyServers * (t - simNow)
           c == Servers * (t - simNow)
           s0 == Servers * simNow
           s1 == Servers * t
<1>16. served + now1 <= s1
  <2>1. served + now0 <= s0 /\ now1 = now0 + b /\ b <= c /\ s0 + c = s1 /\ served \in Int /\ now0 \in Int
    BY <1>1, <1>9, <1>10, <1>11, <1>12 DEF SimSums
  <2>2. b \in Int /\ c \in Int /\ s0 \in Int /\ s1 \in Int
    <3>1. busyServers \in Int /\ t - simNow \in Int /\ Servers \in Int /\ simNow \in Int /\ t \in Int
      BY <1>1, <1>2, SimAssumption DEF SimTypes
    <3> HIDE DEF t
    <3> QED BY <3>1
  <2> HIDE DEF served, now0, now1, b, c, s0, s1
  <2> QED BY <2>1, <2>2
<1>17. areaQueue' \in Int /\ areaSystem' \in Int
  <2>1. /\ areaQueue \in Int /\ areaSystem \in Int /\ Len(queue) \in Int /\ busyServers \in Int
        /\ t - simNow \in Int
    BY <1>1, <1>2 DEF SimTypes
  <2> HIDE DEF t
  <2> QED BY <1>3, <2>1
<1> QED BY <1>2, <1>14, <1>15, <1>16, <1>17

\* What an arrival does to the times and the events, whatever becomes of the job.
LEMMA ArrivalIs ==
  ASSUME SimInv, NEW e \in Earliest, Areas(e), Arrive(e)
  PROVE  /\ e \in events /\ e.time \in Nat /\ \A x \in events : e.time <= x.time
         /\ arrivalTime' = At(arrivalTime, NextJobId, e.time)
         /\ arrivalTime' \in [DOMAIN arrivalTime \cup {NextJobId} -> Nat]
         /\ DOMAIN arrivalTime' = DOMAIN arrivalTime \cup {NextJobId}
         /\ arrivalTime'[NextJobId] = e.time
         /\ \A j \in DOMAIN arrivalTime : arrivalTime'[j] = arrivalTime[j] /\ j \in Nat /\ j < NextJobId
         /\ \A j \in DOMAIN arrivalTime' : arrivalTime'[j] <= e.time
         /\ NextJobId \in Nat /\ NextJobId \notin DOMAIN arrivalTime
         /\ DOMAIN arrivalTime' = 1..NextJobId
         /\ UNCHANGED departureTime
         /\ \A next \in NextArrival(e.time, NextJobId) :
              /\ next \subseteq [time : Nat, type : {"arrival", "departure"}, job : Nat]
              /\ \A x \in next : x.type = "arrival" /\ e.time <= x.time
<1> DEFINE t == e.time
           job == NextJobId
<1>1. SimTypes /\ SimClock
  BY DEF SimInv
<1>2. e \in events /\ \A x \in events : t <= x.time
  BY DEF Earliest
<1>3. t \in Nat /\ simNow \in Nat /\ simNow <= t
  BY <1>1, <1>2 DEF SimTypes, SimClock
<1>4. /\ \A j \in DOMAIN arrivalTime : j \in Nat
      /\ job \in Nat /\ job \notin DOMAIN arrivalTime /\ \A j \in DOMAIN arrivalTime : j < job
      /\ DOMAIN arrivalTime \cup {job} = 1..job
  BY <1>1, JobsAreFinite
<1>5. arrivalTime' = At(arrivalTime, job, t) /\ UNCHANGED departureTime
  BY DEF Arrive
<1>6. arrivalTime \in [DOMAIN arrivalTime -> Nat] /\ \A j \in DOMAIN arrivalTime : arrivalTime[j] <= simNow
  BY <1>1 DEF SimTypes, SimClock
<1>7. /\ At(arrivalTime, job, t) \in [DOMAIN arrivalTime \cup {job} -> Nat] /\ At(arrivalTime, job, t)[job] = t
      /\ \A j \in DOMAIN arrivalTime : j # job => At(arrivalTime, job, t)[j] = arrivalTime[j]
  <2> HIDE DEF t, job
  <2> QED BY <1>3, <1>6 DEF At
<1>8. ASSUME NEW next \in NextArrival(t, job)
      PROVE  /\ next \subseteq [time : Nat, type : {"arrival", "departure"}, job : Nat]
             /\ \A x \in next : x.type = "arrival" /\ t <= x.time
  <2>1. PICK gap \in Gaps : next = IF t + gap < SimDuration THEN {[time |-> t + gap, type |-> "arrival", job |-> job]} ELSE {}
    BY DEF NextArrival
  <2>2. gap \in Nat
    BY SimAssumption
  <2>3. t + gap \in Nat /\ t <= t + gap
    BY <1>3, <2>2
  <2> HIDE DEF t, job
  <2> QED BY <1>4, <2>1, <2>3
<1> HIDE DEF t, job
<1>9. \A j \in DOMAIN arrivalTime : At(arrivalTime, job, t)[j] = arrivalTime[j] /\ At(arrivalTime, job, t)[j] <= t
  <2> TAKE j \in DOMAIN arrivalTime
  <2>1. j # job /\ arrivalTime[j] \in Nat /\ arrivalTime[j] <= simNow
    BY <1>4, <1>6
  <2> QED BY <1>3, <1>7, <2>1
<1>10. DOMAIN At(arrivalTime, job, t) = DOMAIN arrivalTime \cup {job}
  BY <1>7
<1>11. \A j \in DOMAIN At(arrivalTime, job, t) : At(arrivalTime, job, t)[j] <= t
  BY <1>3, <1>7, <1>9, <1>10
<1> QED BY <1>2, <1>3, <1>4, <1>5, <1>7, <1>8, <1>9, <1>10, <1>11, Zenon DEF t, job

\* The job is served at once: nobody waits, since a server is free.
LEMMA ServeAtOnce ==
  ASSUME SimInv, NEW e \in Earliest, Areas(e), Arrive(e), NEW next \in NextArrival(e.time, NextJobId),
         busyServers < Servers, busyServers' = busyServers + 1,
         startTime' = At(startTime, NextJobId, e.time),
         NEW d \in Departures(e.time, NextJobId), events' = (events \ {e}) \cup d \cup next,
         UNCHANGED <<queue, droppedJobs>>
  PROVE  SimInv'
<1> DEFINE t == e.time
           job == NextJobId
           A == DOMAIN arrivalTime
           S == DOMAIN startTime
           D == DOMAIN departureTime
<1>1. SimTypes /\ SimClock /\ SimDepartures /\ SimQueue /\ SimServers
  BY DEF SimInv
<1>2. /\ e \in events /\ t \in Nat /\ \A x \in events : t <= x.time
      /\ arrivalTime' \in [A \cup {job} -> Nat] /\ DOMAIN arrivalTime' = A \cup {job} /\ arrivalTime'[job] = t
      /\ \A j \in A : arrivalTime'[j] = arrivalTime[j] /\ j \in Nat /\ j < job
      /\ \A j \in DOMAIN arrivalTime' : arrivalTime'[j] <= t
      /\ job \in Nat /\ job \notin A /\ DOMAIN arrivalTime' = 1..job /\ departureTime' = departureTime
      /\ next \subseteq [time : Nat, type : {"arrival", "departure"}, job : Nat]
      /\ \A x \in next : x.type = "arrival" /\ t <= x.time
  BY ArrivalIs, Zenon
<1>3. /\ simNow \in Nat /\ simNow <= t /\ simNow' = t /\ areaQueue' \in Int /\ areaSystem' \in Int
      /\ areaQueue' = TimeIn(S, arrivalTime, startTime) + Since(Queued, arrivalTime, t)
      /\ areaSystem' = TimeIn(D, arrivalTime, departureTime) + Since(Queued \cup InService, arrivalTime, t)
      /\ TimeIn(D, startTime, departureTime) + Since(InService, startTime, t) <= Servers * t
  <2>1. e \in events /\ simNow \in Nat
    BY <1>1, <1>2 DEF SimTypes
  <2> HIDE DEF SimInv
  <2> QED BY <2>1, TimePasses, Zenon
<1>4. /\ arrivalTime \in [A -> Nat] /\ startTime \in [S -> Nat] /\ S \subseteq A
      /\ departureTime \in [D -> Nat] /\ D \subseteq S /\ droppedJobs \subseteq A /\ queue \in Seq(A)
      /\ events \subseteq [time : Nat, type : {"arrival", "departure"}, job : Nat]
  BY <1>1 DEF SimTypes
<1>5. Len(queue) = 0 /\ queue = <<>> /\ Queued = {}
  <2>1. Len(queue) = 0
    BY <1>1, SimAssumption DEF SimServers, SimTypes
  <2>2. queue = <<>>
    BY <1>4, <2>1
  <2> QED BY <2>1, <2>2 DEF Queued
<1>6. job \notin S /\ job \notin D /\ job \notin InService
  BY <1>2, <1>4 DEF InService
<1>7. PICK s \in ServiceTimes : d = {[time |-> t + s, type |-> "departure", job |-> job]}
  BY DEF Departures
<1>8. s \in Nat /\ t + s \in Nat /\ t <= t + s
  BY <1>2, <1>7, SimAssumption
<1>9. startTime' \in [S \cup {job} -> Nat] /\ DOMAIN startTime' = S \cup {job} /\ startTime'[job] = t /\ \A j \in S : startTime'[j] = startTime[j]
  <2>1. /\ At(startTime, job, t) \in [S \cup {job} -> Nat] /\ At(startTime, job, t)[job] = t
        /\ \A j \in S : j # job => At(startTime, job, t)[j] = startTime[j]
    <3> HIDE DEF t, job
    <3> QED BY <1>2, <1>4 DEF At
  <2> HIDE DEF t, job
  <2> QED BY <1>6, <2>1 DEF t, job
<1>10. InService' = InService \cup {job}
  BY <1>2, <1>6, <1>9 DEF InService
<1>11. Queued' = {} /\ Len(queue') = 0 /\ queue' = <<>> /\ droppedJobs' = droppedJobs
  BY <1>5 DEF Queued
<1> HIDE DEF t, job
<1>12. SimTypes'
  <2>1. events' \subseteq [time : Nat, type : {"arrival", "departure"}, job : Nat]
    BY <1>2, <1>4, <1>7, <1>8 DEF t, job
  <2>2. simNow' \in Nat /\ busyServers' \in Nat /\ \E n \in Nat : DOMAIN arrivalTime' = 1..n
    <3>1. simNow' \in Nat /\ \E n \in Nat : DOMAIN arrivalTime' = 1..n
      BY <1>2, <1>3, Zenon
    <3>2. busyServers' \in Nat
      BY <1>1 DEF SimTypes
    <3> QED BY <3>1, <3>2, Zenon
  <2>3. arrivalTime' \in [DOMAIN arrivalTime' -> Nat] /\ startTime' \in [DOMAIN startTime' -> Nat]
    BY <1>2, <1>9
  <2>4. departureTime' \in [DOMAIN departureTime' -> Nat] /\ DOMAIN departureTime' \subseteq DOMAIN startTime'
    BY <1>2, <1>4, <1>9
  <2>5. DOMAIN startTime' \subseteq DOMAIN arrivalTime' /\ droppedJobs' \subseteq DOMAIN arrivalTime' /\ queue' \in Seq(DOMAIN arrivalTime')
    BY <1>2, <1>4, <1>9, <1>11
  <2> QED BY <1>3, <2>1, <2>2, <2>3, <2>4, <2>5, Zenon DEF SimTypes
<1>13. SimClock'
  <2>1. \A j \in DOMAIN arrivalTime' : arrivalTime'[j] <= simNow'
    BY <1>2, <1>3
  <2>2. \A j \in DOMAIN startTime' : arrivalTime'[j] <= startTime'[j] /\ startTime'[j] <= simNow'
    <3> TAKE j \in DOMAIN startTime'
    <3>1. CASE j = job
      BY <1>2, <1>3, <1>9, <3>1
    <3>2. CASE j # job
      <4>1. j \in S /\ arrivalTime'[j] = arrivalTime[j] /\ startTime'[j] = startTime[j] /\ startTime[j] \in Nat
        BY <1>2, <1>4, <1>9, <3>2
      <4>2. arrivalTime[j] <= startTime[j] /\ startTime[j] <= simNow
        BY <1>1, <4>1 DEF SimClock
      <4>3. t \in Nat /\ simNow \in Nat /\ simNow <= t /\ simNow' = t
        BY <1>2, <1>3
      <4> QED BY <4>1, <4>2, <4>3
    <3> QED BY <3>1, <3>2
  <2>3. \A j \in DOMAIN departureTime' : startTime'[j] <= departureTime'[j] /\ departureTime'[j] <= simNow'
    <3> TAKE j \in DOMAIN departureTime'
    <3>1. j \in D /\ j \in S /\ departureTime[j] \in Nat /\ startTime'[j] = startTime[j]
      BY <1>2, <1>4, <1>9
    <3> QED BY <1>1, <1>2, <1>3, <3>1 DEF SimClock
  <2>4. \A x \in events' : simNow' <= x.time
    BY <1>2, <1>3, <1>7, <1>8
  <2> QED BY <2>1, <2>2, <2>3, <2>4, Zenon DEF SimClock
<1>14. SimDepartures'
  <2>1. \A x \in events' : x.type = "departure" => (x \in events /\ x.job \in InService) \/ (x = [time |-> t + s, type |-> "departure", job |-> job])
    <3> TAKE x \in events'
    <3>1. CASE x \in events
      BY <1>1, <3>1 DEF SimDepartures
    <3>2. CASE x \in next
      BY <1>2, <3>2
    <3>3. CASE x \in d
      BY <1>7, <3>3
    <3> QED BY <3>1, <3>2, <3>3 DEF job
  <2>2. \A x \in events' : x.type = "departure" => x.job \in InService'
    BY <1>10, <2>1
  <2>3. \A x, y \in events' : x.type = "departure" /\ y.type = "departure" /\ x.job = y.job => x = y
    <3> TAKE x, y \in events'
    <3> HAVE x.type = "departure" /\ y.type = "departure" /\ x.job = y.job
    <3>1. CASE x \in events /\ x.job \in InService /\ y \in events /\ y.job \in InService
      BY <1>1, <3>1 DEF SimDepartures
    <3>2. CASE x = [time |-> t + s, type |-> "departure", job |-> job]
      <4>1. y.job = job
        BY <3>2
      <4> QED BY <1>6, <2>1, <3>2, <4>1
    <3>3. CASE y = [time |-> t + s, type |-> "departure", job |-> job]
      <4>1. x.job = job
        BY <3>3
      <4> QED BY <1>6, <2>1, <3>3, <4>1
    <3> QED BY <2>1, <3>1, <3>2, <3>3
  <2> QED BY <2>2, <2>3, Zenon DEF SimDepartures
<1>15. SimQueue'
  <2>1. DOMAIN arrivalTime = DOMAIN startTime \cup {} \cup droppedJobs /\ droppedJobs \cap DOMAIN startTime = {}
    <3>1. Queued = {queue[i] : i \in 1..Len(queue)}
      BY <1>1, QueuedIs
    <3> QED BY <1>1, <1>5, <3>1 DEF SimQueue
  <2>2. droppedJobs' \cap DOMAIN startTime' = {}
    BY <1>2, <1>4, <1>9, <1>11, <2>1
  <2>3. 1..Len(queue') = {} /\ {queue'[i] : i \in 1..Len(queue')} = {}
    BY <1>11
  <2>4. DOMAIN arrivalTime' = DOMAIN startTime' \cup {queue'[i] : i \in 1..Len(queue')} \cup droppedJobs'
    BY <1>2, <1>9, <1>11, <2>1, <2>3
  <2>5. \A i, j \in DOMAIN startTime' : i < j => startTime'[i] <= startTime'[j]
    <3> TAKE i, j \in DOMAIN startTime'
    <3> HAVE i < j
    <3>1. CASE i \in S /\ j \in S
      BY <1>1, <1>9, <3>1 DEF SimQueue
    <3>2. CASE j = job /\ i \in S
      <4>1. startTime[i] \in Nat /\ startTime[i] <= simNow
        BY <1>1, <1>4, <3>2 DEF SimClock
      <4> QED BY <1>3, <1>9, <3>2, <4>1
    <3>3. CASE i = job
      <4>1. j = job \/ j < job
        BY <1>2, <1>4, <1>9
      <4>2. j \in Nat
        BY <1>2, <1>4, <1>9
      <4> QED BY <1>2, <3>3, <4>1, <4>2
    <3> QED BY <1>9, <3>1, <3>2, <3>3
  <2> QED BY <2>2, <2>3, <2>4, <2>5, Zenon DEF SimQueue
<1>16. SimServers'
  <2>1. IsFiniteSet(InService)
    BY <1>1, InServiceIs
  <2>2. Cardinality(InService') = Cardinality(InService) + 1
    BY <1>6, <1>10, <2>1, FS_AddElement
  <2> QED BY <1>1, <1>11, <2>2, SimAssumption DEF SimServers, SimTypes
<1>17. SimSums'
  <2>1. IsFiniteSet(S) /\ IsFiniteSet(D) /\ IsFiniteSet(InService) /\ InService \subseteq S
    BY <1>1, InServiceIs
  <2>2. \A j \in S : arrivalTime[j] \in Int /\ startTime[j] \in Int /\ arrivalTime'[j] = arrivalTime[j] /\ startTime'[j] = startTime[j]
    BY <1>2, <1>4, <1>9
  <2>3. TimeIn(S \cup {job}, arrivalTime', startTime') = TimeIn(S, arrivalTime, startTime) + (t - t)
    <3>1. arrivalTime'[job] \in Int /\ startTime'[job] \in Int /\ arrivalTime'[job] = t /\ startTime'[job] = t
      BY <1>2, <1>9
    <3>2. TimeIn(S \cup {job}, arrivalTime', startTime') = TimeIn(S, arrivalTime, startTime) + (startTime'[job] - arrivalTime'[job])
      <4>1. TimeInGrows(S, job, arrivalTime, startTime, arrivalTime', startTime')
        BY <1>6, <2>1, <2>2, <3>1, TimeInMore
      <4> QED BY <4>1 DEF TimeInGrows
    <3> QED BY <3>1, <3>2
  <2>4. \A j \in D : arrivalTime[j] \in Int /\ startTime[j] \in Int /\ departureTime[j] \in Int /\ arrivalTime'[j] = arrivalTime[j] /\ startTime'[j] = startTime[j]
    BY <1>4, <2>2
  <2>5. [j \in D |-> departureTime[j] - arrivalTime'[j]] = [j \in D |-> departureTime[j] - arrivalTime[j]]
    BY <2>4
  <2>6. [j \in D |-> departureTime[j] - startTime'[j]] = [j \in D |-> departureTime[j] - startTime[j]]
    BY <2>4
  <2>7. /\ TimeIn(D, arrivalTime', departureTime') = TimeIn(D, arrivalTime, departureTime)
        /\ TimeIn(D, startTime', departureTime') = TimeIn(D, startTime, departureTime)
    BY <1>2, <2>5, <2>6, Zenon DEF TimeIn
  <2>8. Since(InService \cup {job}, arrivalTime', t) = Since(InService, arrivalTime, t)
    <3>1. \A j \in InService : arrivalTime[j] \in Int /\ arrivalTime'[j] = arrivalTime[j]
      BY <2>1, <2>2
    <3>2. Since(InService \cup {job}, arrivalTime', t) = Since(InService, arrivalTime, t) + (t - arrivalTime'[job])
      <4>1. job \notin InService /\ IsFiniteSet(InService) /\ arrivalTime'[job] \in Int /\ t \in Int
        BY <1>2, <1>6, <2>1
      <4>2. SinceGrows(InService, job, arrivalTime, arrivalTime', t)
        BY <3>1, <4>1, SinceMore
      <4> QED BY <4>2 DEF SinceGrows
    <3>3. Since(InService, arrivalTime, t) \in Int
      BY <1>2, <2>1, <3>1, SinceLater
    <3> QED BY <1>2, <3>2, <3>3
  <2>9. Since(InService \cup {job}, startTime', t) = Since(InService, startTime, t)
    <3>1. \A j \in InService : startTime[j] \in Int /\ startTime'[j] = startTime[j]
      BY <2>1, <2>2
    <3>2. Since(InService \cup {job}, startTime', t) = Since(InService, startTime, t) + (t - startTime'[job])
      <4>1. job \notin InService /\ IsFiniteSet(InService) /\ startTime'[job] \in Int /\ t \in Int
        BY <1>2, <1>6, <1>9, <2>1
      <4>2. SinceGrows(InService, job, startTime, startTime', t)
        BY <3>1, <4>1, SinceMore
      <4> QED BY <4>2 DEF SinceGrows
    <3>3. Since(InService, startTime, t) \in Int
      BY <1>2, <2>1, <3>1, SinceLater
    <3> QED BY <1>2, <1>9, <3>2, <3>3
  <2>10. Since({}, arrivalTime', t) = Since({}, arrivalTime, t)
    <3>1. [j \in {} |-> t - arrivalTime'[j]] = [j \in {} |-> t - arrivalTime[j]]
      OBVIOUS
    <3> QED BY <3>1, Zenon DEF Since
  <2>11. TimeIn(S, arrivalTime, startTime) \in Int
    BY <2>1, <2>2, TimeInType
  <2>12. areaQueue' = TimeIn(DOMAIN startTime', arrivalTime', startTime') + Since(Queued', arrivalTime', simNow')
    BY <1>2, <1>3, <1>5, <1>9, <1>11, <2>3, <2>10, <2>11
  <2>13. areaSystem' = TimeIn(DOMAIN departureTime', arrivalTime', departureTime') + Since(Queued' \cup InService', arrivalTime', simNow')
    <3>1. Queued \cup InService = InService /\ Queued' \cup InService' = InService \cup {job}
      BY <1>5, <1>10, <1>11
    <3> QED BY <1>2, <1>3, <2>7, <2>8, <3>1
  <2>14. TimeIn(DOMAIN departureTime', startTime', departureTime') + Since(InService', startTime', simNow') <= Servers * simNow'
    BY <1>2, <1>3, <1>10, <2>7, <2>9
  <2> QED BY <2>12, <2>13, <2>14, Zenon DEF SimSums
<1> QED BY <1>12, <1>13, <1>14, <1>15, <1>16, <1>17, Zenon DEF SimInv

\* The servers are busy: the job waits or is dropped, which nothing in service notices.
LEMMA NotServed ==
  ASSUME SimInv, NEW e \in Earliest, Areas(e), Arrive(e), NEW next \in NextArrival(e.time, NextJobId),
         events' = (events \ {e}) \cup next, UNCHANGED <<busyServers, startTime>>
  PROVE  /\ SimClock' /\ SimDepartures' /\ InService' = InService
         /\ events' \subseteq [time : Nat, type : {"arrival", "departure"}, job : Nat]
         /\ areaQueue' = TimeIn(DOMAIN startTime', arrivalTime', startTime') + Since(Queued, arrivalTime', simNow')
         /\ areaSystem' = TimeIn(DOMAIN departureTime', arrivalTime', departureTime')
                          + Since(Queued \cup InService', arrivalTime', simNow')
         /\ TimeIn(DOMAIN departureTime', startTime', departureTime') + Since(InService', startTime', simNow')
            <= Servers * simNow'
         /\ simNow' = e.time /\ areaQueue' \in Int /\ areaSystem' \in Int
<1> DEFINE t == e.time
           job == NextJobId
           A == DOMAIN arrivalTime
           S == DOMAIN startTime
           D == DOMAIN departureTime
<1>1. SimTypes /\ SimClock /\ SimDepartures /\ SimQueue /\ SimServers
  BY DEF SimInv
<1>2. /\ e \in events /\ t \in Nat /\ \A x \in events : t <= x.time
      /\ arrivalTime' \in [A \cup {job} -> Nat] /\ DOMAIN arrivalTime' = A \cup {job} /\ arrivalTime'[job] = t
      /\ \A j \in A : arrivalTime'[j] = arrivalTime[j] /\ j \in Nat /\ j < job
      /\ \A j \in DOMAIN arrivalTime' : arrivalTime'[j] <= t
      /\ job \in Nat /\ job \notin A /\ departureTime' = departureTime
      /\ next \subseteq [time : Nat, type : {"arrival", "departure"}, job : Nat]
      /\ \A x \in next : x.type = "arrival" /\ t <= x.time
  BY ArrivalIs, Zenon
<1>3. /\ simNow \in Nat /\ simNow <= t /\ simNow' = t /\ areaQueue' \in Int /\ areaSystem' \in Int
      /\ areaQueue' = TimeIn(S, arrivalTime, startTime) + Since(Queued, arrivalTime, t)
      /\ areaSystem' = TimeIn(D, arrivalTime, departureTime) + Since(Queued \cup InService, arrivalTime, t)
      /\ TimeIn(D, startTime, departureTime) + Since(InService, startTime, t) <= Servers * t
  <2>1. e \in events /\ simNow \in Nat
    BY <1>1, <1>2 DEF SimTypes
  <2> HIDE DEF SimInv
  <2> QED BY <2>1, TimePasses, Zenon
<1>4. /\ arrivalTime \in [A -> Nat] /\ startTime \in [S -> Nat] /\ S \subseteq A
      /\ departureTime \in [D -> Nat] /\ D \subseteq S
      /\ events \subseteq [time : Nat, type : {"arrival", "departure"}, job : Nat]
  BY <1>1 DEF SimTypes
<1>5. InService' = InService /\ startTime' = startTime
  BY <1>2 DEF InService
<1> HIDE DEF t, job
<1>6. SimClock'
  <2>1. \A j \in DOMAIN arrivalTime' : arrivalTime'[j] <= simNow'
    BY <1>2, <1>3
  <2>2. \A j \in S : arrivalTime'[j] <= startTime[j] /\ startTime[j] <= t
    <3> TAKE j \in S
    <3>1. arrivalTime'[j] = arrivalTime[j] /\ startTime[j] \in Nat
      BY <1>2, <1>4
    <3>2. arrivalTime[j] <= startTime[j] /\ startTime[j] <= simNow
      BY <1>1, <1>4 DEF SimClock
    <3>3. t \in Nat /\ simNow \in Nat /\ simNow <= t
      BY <1>2, <1>3
    <3> QED BY <3>1, <3>2, <3>3
  <2>3. \A j \in D : startTime[j] <= departureTime[j] /\ departureTime[j] <= t
    <3> TAKE j \in D
    <3>1. departureTime[j] \in Nat /\ startTime[j] <= departureTime[j] /\ departureTime[j] <= simNow
      BY <1>1, <1>4 DEF SimClock
    <3>2. t \in Nat /\ simNow \in Nat /\ simNow <= t
      BY <1>2, <1>3
    <3> QED BY <3>1, <3>2
  <2>4. \A x \in events' : simNow' <= x.time
    BY <1>2, <1>3
  <2> QED BY <1>2, <1>3, <1>5, <2>1, <2>2, <2>3, <2>4, Zenon DEF SimClock
<1>7. SimDepartures'
  <2>1. \A x \in events' : x.type = "departure" => x \in events
    BY <1>2
  <2> QED BY <1>1, <1>5, <2>1, Zenon DEF SimDepartures
<1>8. events' \subseteq [time : Nat, type : {"arrival", "departure"}, job : Nat]
  BY <1>2, <1>4
<1>9. \A j \in A : arrivalTime'[j] = arrivalTime[j]
  BY <1>2
<1>10. Queued \subseteq A /\ InService \subseteq A
  BY <1>1, <1>4, QueuedIs DEF InService
<1>11. /\ TimeIn(S, arrivalTime', startTime) = TimeIn(S, arrivalTime, startTime)
       /\ TimeIn(D, arrivalTime', departureTime) = TimeIn(D, arrivalTime, departureTime)
  <2>1. /\ [j \in S |-> startTime[j] - arrivalTime'[j]] = [j \in S |-> startTime[j] - arrivalTime[j]]
        /\ [j \in D |-> departureTime[j] - arrivalTime'[j]] = [j \in D |-> departureTime[j] - arrivalTime[j]]
    BY <1>4, <1>9
  <2> QED BY <2>1, Zenon DEF TimeIn
<1>12. /\ Since(Queued, arrivalTime', t) = Since(Queued, arrivalTime, t)
       /\ Since(Queued \cup InService, arrivalTime', t) = Since(Queued \cup InService, arrivalTime, t)
  <2>1. /\ [j \in Queued |-> t - arrivalTime'[j]] = [j \in Queued |-> t - arrivalTime[j]]
        /\ [j \in Queued \cup InService |-> t - arrivalTime'[j]] = [j \in Queued \cup InService |-> t - arrivalTime[j]]
    BY <1>9, <1>10
  <2> QED BY <2>1, Zenon DEF Since
<1>13. areaQueue' = TimeIn(DOMAIN startTime', arrivalTime', startTime') + Since(Queued, arrivalTime', simNow')
  BY <1>3, <1>5, <1>11, <1>12, Zenon
<1>14. areaSystem' = TimeIn(DOMAIN departureTime', arrivalTime', departureTime')
                     + Since(Queued \cup InService', arrivalTime', simNow')
  BY <1>2, <1>3, <1>5, <1>11, <1>12, Zenon
<1>15. TimeIn(DOMAIN departureTime', startTime', departureTime') + Since(InService', startTime', simNow') <= Servers * simNow'
  BY <1>2, <1>3, <1>5, Zenon
<1>16. simNow' = e.time /\ areaQueue' \in Int /\ areaSystem' \in Int
  BY <1>3 DEF t
<1> QED BY <1>5, <1>6, <1>7, <1>8, <1>13, <1>14, <1>15, <1>16, Zenon

\* SimInv survives an arrival that waits.
LEMMA WaitInQueue ==
  ASSUME SimInv, NEW e \in Earliest, Areas(e), Arrive(e), NEW next \in NextArrival(e.time, NextJobId),
         events' = (events \ {e}) \cup next, UNCHANGED <<busyServers, startTime>>, busyServers >= Servers,
         queue' = Append(queue, NextJobId), UNCHANGED droppedJobs
  PROVE  SimInv'
<1> DEFINE t == e.time
           job == NextJobId
           A == DOMAIN arrivalTime
<1>1. SimTypes /\ SimQueue /\ SimServers
  BY DEF SimInv
<1>2. /\ SimClock' /\ SimDepartures' /\ InService' = InService
      /\ events' \subseteq [time : Nat, type : {"arrival", "departure"}, job : Nat]
      /\ areaQueue' = TimeIn(DOMAIN startTime', arrivalTime', startTime') + Since(Queued, arrivalTime', simNow')
      /\ areaSystem' = TimeIn(DOMAIN departureTime', arrivalTime', departureTime')
                       + Since(Queued \cup InService', arrivalTime', simNow')
      /\ TimeIn(DOMAIN departureTime', startTime', departureTime') + Since(InService', startTime', simNow')
         <= Servers * simNow'
      /\ simNow' = t /\ areaQueue' \in Int /\ areaSystem' \in Int
  <2> HIDE DEF SimInv
  <2> QED BY NotServed, Zenon
<1>3. /\ t \in Nat /\ arrivalTime' \in [A \cup {job} -> Nat] /\ DOMAIN arrivalTime' = A \cup {job} /\ arrivalTime'[job] = t
      /\ \A j \in A : arrivalTime'[j] = arrivalTime[j] /\ j \in Nat /\ j < job
      /\ job \in Nat /\ job \notin A /\ DOMAIN arrivalTime' = 1..job /\ departureTime' = departureTime
  BY ArrivalIs, Zenon
<1>4. /\ arrivalTime \in [A -> Nat] /\ startTime \in [DOMAIN startTime -> Nat] /\ DOMAIN startTime \subseteq A
      /\ departureTime \in [DOMAIN departureTime -> Nat] /\ DOMAIN departureTime \subseteq DOMAIN startTime
      /\ droppedJobs \subseteq A /\ queue \in Seq(A) /\ busyServers \in Nat /\ Len(queue) \in Nat
  BY <1>1 DEF SimTypes
<1>5. startTime' = startTime /\ droppedJobs' = droppedJobs /\ busyServers' = busyServers
  OBVIOUS
<1> HIDE DEF t, job
<1>6. /\ queue' \in Seq(A \cup {job}) /\ Len(queue') = Len(queue) + 1
      /\ \A i \in 1..Len(queue') : IF i = Len(queue) + 1 THEN queue'[i] = job ELSE i \in 1..Len(queue) /\ queue'[i] = queue[i]
  <2>1. queue \in Seq(A \cup {job}) /\ queue' = Append(queue, job)
    BY <1>4 DEF job
  <2> QED BY <2>1
<1>7. SimTypes'
  <2>1. simNow' \in Nat /\ busyServers' \in Nat /\ \E n \in Nat : DOMAIN arrivalTime' = 1..n
    BY <1>2, <1>3, <1>4, <1>5
  <2>2. arrivalTime' \in [DOMAIN arrivalTime' -> Nat] /\ startTime' \in [DOMAIN startTime' -> Nat]
        /\ departureTime' \in [DOMAIN departureTime' -> Nat] /\ DOMAIN departureTime' \subseteq DOMAIN startTime'
    BY <1>3, <1>4, <1>5
  <2>3. DOMAIN startTime' \subseteq DOMAIN arrivalTime' /\ droppedJobs' \subseteq DOMAIN arrivalTime' /\ queue' \in Seq(DOMAIN arrivalTime')
    BY <1>3, <1>4, <1>5, <1>6
  <2> QED BY <1>2, <2>1, <2>2, <2>3, Zenon DEF SimTypes
<1>8. {queue'[i] : i \in 1..Len(queue')} = {queue[i] : i \in 1..Len(queue)} \cup {job}
  <2>1. \A i \in 1..Len(queue) : i \in 1..Len(queue') /\ queue'[i] = queue[i]
    BY <1>4, <1>6
  <2>2. Len(queue') \in 1..Len(queue') /\ queue'[Len(queue')] = job
    <3> DEFINE n == Len(queue')
    <3>1. n = Len(queue) + 1 /\ n \in 1..n
      BY <1>4, <1>6
    <3>2. \A i \in 1..n : i = Len(queue) + 1 => queue'[i] = job
      BY <1>6
    <3> HIDE DEF n
    <3>3. queue'[n] = job
      BY <3>1, <3>2
    <3> QED BY <3>1, <3>3 DEF n
  <2>3. \A i \in 1..Len(queue') : queue'[i] = job \/ \E k \in 1..Len(queue) : queue'[i] = queue[k]
    BY <1>6
  <2> QED BY <2>1, <2>2, <2>3
<1>9. SimQueue'
  <2>1. \A i, k \in 1..Len(queue') : i < k => queue'[i] < queue'[k]
    <3> TAKE i, k \in 1..Len(queue')
    <3> HAVE i < k
    <3>1. i \in 1..Len(queue) /\ queue'[i] = queue[i] /\ queue[i] \in A
      BY <1>4, <1>6
    <3>2. CASE k = Len(queue) + 1
      BY <1>3, <1>6, <3>1, <3>2
    <3>3. CASE k # Len(queue) + 1
      BY <1>1, <1>6, <3>1, <3>3 DEF SimQueue
    <3> QED BY <3>2, <3>3
  <2>2. \A i \in 1..Len(queue') : queue'[i] \notin droppedJobs' /\ \A j \in DOMAIN startTime' : j < queue'[i]
    <3> TAKE i \in 1..Len(queue')
    <3>1. CASE i = Len(queue) + 1
      BY <1>3, <1>4, <1>5, <1>6, <3>1
    <3>2. CASE i # Len(queue) + 1
      BY <1>1, <1>5, <1>6, <3>2 DEF SimQueue
    <3> QED BY <3>1, <3>2
  <2>3. droppedJobs' \cap DOMAIN startTime' = {}
    BY <1>1, <1>5 DEF SimQueue
  <2>4. DOMAIN arrivalTime' = DOMAIN startTime' \cup {queue'[i] : i \in 1..Len(queue')} \cup droppedJobs'
    <3>1. DOMAIN arrivalTime = DOMAIN startTime \cup {queue[i] : i \in 1..Len(queue)} \cup droppedJobs
      BY <1>1 DEF SimQueue
    <3> QED BY <1>3, <1>5, <1>8, <3>1
  <2>5. \A i, j \in DOMAIN startTime' : i < j => startTime'[i] <= startTime'[j]
    BY <1>1, <1>5 DEF SimQueue
  <2> QED BY <2>1, <2>2, <2>3, <2>4, <2>5, Zenon DEF SimQueue
<1>10. SimServers'
  BY <1>1, <1>2, <1>4, <1>5, SimAssumption DEF SimServers
<1>11. Queued' = Queued \cup {job} /\ job \notin Queued /\ Queued \subseteq A /\ IsFiniteSet(Queued)
  <2>1. Queued = {queue[i] : i \in 1..Len(queue)} /\ Queued \subseteq A /\ IsFiniteSet(Queued)
    BY <1>1, QueuedIs
  <2>2. Queued' = {queue'[i] : i \in 1..Len(queue')}
    <3>1. DOMAIN queue' = 1..Len(queue')
      BY <1>6
    <3> QED BY <3>1 DEF Queued
  <2> QED BY <1>3, <1>8, <2>1, <2>2
<1>12. SimSums'
  <2>1. InService \subseteq A /\ IsFiniteSet(Queued \cup InService) /\ IsFiniteSet(Queued)
    BY <1>1, <1>4, InServiceIs, QueuedIs
  <2>2. Since(Queued \cup {job}, arrivalTime', t) = Since(Queued, arrivalTime', t)
    <3>1. \A j \in Queued : arrivalTime'[j] \in Int /\ arrivalTime'[j] = arrivalTime'[j]
      BY <1>3, <1>11
    <3>2. t \in Int /\ arrivalTime'[job] \in Int /\ job \notin Queued
      BY <1>3, <1>11
    <3>3. SinceGrows(Queued, job, arrivalTime', arrivalTime', t)
      BY <2>1, <3>1, <3>2, SinceMore
    <3>4. Since(Queued, arrivalTime', t) \in Int
      BY <2>1, <3>1, <3>2, SinceLater
    <3> QED BY <1>3, <3>3, <3>4 DEF SinceGrows
  <2>3. Since((Queued \cup InService) \cup {job}, arrivalTime', t) = Since(Queued \cup InService, arrivalTime', t)
    <3> DEFINE Q == Queued \cup InService
    <3>1. \A j \in Q : arrivalTime'[j] \in Int /\ arrivalTime'[j] = arrivalTime'[j]
      BY <1>3, <1>11, <2>1
    <3>2. t \in Int /\ arrivalTime'[job] \in Int /\ job \notin Q /\ IsFiniteSet(Q)
      BY <1>3, <1>11, <2>1
    <3> HIDE DEF Q
    <3>3. SinceGrows(Q, job, arrivalTime', arrivalTime', t)
      BY <3>1, <3>2, SinceMore
    <3>4. Since(Q, arrivalTime', t) \in Int
      BY <3>1, <3>2, SinceLater
    <3>5. Since(Q \cup {job}, arrivalTime', t) = Since(Q, arrivalTime', t)
      BY <1>3, <3>3, <3>4 DEF SinceGrows
    <3> QED BY <3>5 DEF Q
  <2>4. (Queued \cup InService) \cup {job} = Queued' \cup InService'
    BY <1>2, <1>11
  <2> QED BY <1>2, <1>11, <2>2, <2>3, <2>4, Zenon DEF SimSums
<1> QED BY <1>2, <1>7, <1>9, <1>10, <1>12, Zenon DEF SimInv

\* SimInv survives an arrival that is dropped.
LEMMA DropTheJob ==
  ASSUME SimInv, NEW e \in Earliest, Areas(e), Arrive(e), NEW next \in NextArrival(e.time, NextJobId),
         events' = (events \ {e}) \cup next, UNCHANGED <<busyServers, startTime>>, busyServers >= Servers,
         droppedJobs' = droppedJobs \cup {NextJobId}, UNCHANGED queue
  PROVE  SimInv'
<1> DEFINE t == e.time
           job == NextJobId
           A == DOMAIN arrivalTime
<1>1. SimTypes /\ SimQueue /\ SimServers
  BY DEF SimInv
<1>2. /\ SimClock' /\ SimDepartures' /\ InService' = InService
      /\ events' \subseteq [time : Nat, type : {"arrival", "departure"}, job : Nat]
      /\ areaQueue' = TimeIn(DOMAIN startTime', arrivalTime', startTime') + Since(Queued, arrivalTime', simNow')
      /\ areaSystem' = TimeIn(DOMAIN departureTime', arrivalTime', departureTime')
                       + Since(Queued \cup InService', arrivalTime', simNow')
      /\ TimeIn(DOMAIN departureTime', startTime', departureTime') + Since(InService', startTime', simNow')
         <= Servers * simNow'
      /\ simNow' = t /\ areaQueue' \in Int /\ areaSystem' \in Int
  <2> HIDE DEF SimInv
  <2> QED BY NotServed, Zenon
<1>3. /\ t \in Nat /\ arrivalTime' \in [A \cup {job} -> Nat] /\ DOMAIN arrivalTime' = A \cup {job}
      /\ job \in Nat /\ job \notin A /\ DOMAIN arrivalTime' = 1..job /\ departureTime' = departureTime
  BY ArrivalIs, Zenon
<1>4. /\ startTime \in [DOMAIN startTime -> Nat] /\ DOMAIN startTime \subseteq A
      /\ departureTime \in [DOMAIN departureTime -> Nat] /\ DOMAIN departureTime \subseteq DOMAIN startTime
      /\ droppedJobs \subseteq A /\ queue \in Seq(A) /\ busyServers \in Nat
  BY <1>1 DEF SimTypes
<1>5. startTime' = startTime /\ droppedJobs' = droppedJobs \cup {job} /\ busyServers' = busyServers /\ queue' = queue
  OBVIOUS
<1> HIDE DEF t, job
<1>6. SimTypes'
  <2>1. simNow' \in Nat /\ busyServers' \in Nat /\ \E n \in Nat : DOMAIN arrivalTime' = 1..n
    BY <1>2, <1>3, <1>4, <1>5
  <2>2. arrivalTime' \in [DOMAIN arrivalTime' -> Nat] /\ startTime' \in [DOMAIN startTime' -> Nat]
        /\ departureTime' \in [DOMAIN departureTime' -> Nat] /\ DOMAIN departureTime' \subseteq DOMAIN startTime'
    BY <1>3, <1>4, <1>5
  <2>3. DOMAIN startTime' \subseteq DOMAIN arrivalTime' /\ droppedJobs' \subseteq DOMAIN arrivalTime' /\ queue' \in Seq(DOMAIN arrivalTime')
    BY <1>3, <1>4, <1>5
  <2> QED BY <1>2, <2>1, <2>2, <2>3, Zenon DEF SimTypes
<1>7. SimQueue'
  <2>1. \A i \in 1..Len(queue) : queue[i] \in A
    BY <1>4
  <2>2. \A i \in 1..Len(queue) : queue[i] \notin droppedJobs' /\ \A j \in DOMAIN startTime : j < queue[i]
    BY <1>1, <1>3, <1>5, <2>1 DEF SimQueue
  <2>3. droppedJobs' \cap DOMAIN startTime = {}
    BY <1>1, <1>3, <1>4, <1>5 DEF SimQueue
  <2>4. DOMAIN arrivalTime' = DOMAIN startTime \cup {queue[i] : i \in 1..Len(queue)} \cup droppedJobs'
    <3>1. DOMAIN arrivalTime = DOMAIN startTime \cup {queue[i] : i \in 1..Len(queue)} \cup droppedJobs
      BY <1>1 DEF SimQueue
    <3> QED BY <1>3, <1>5, <3>1
  <2> QED BY <1>1, <1>5, <2>2, <2>3, <2>4, Zenon DEF SimQueue
<1>8. SimServers'
  BY <1>1, <1>2, <1>5, Zenon DEF SimServers
<1>9. Queued' = Queued
  BY <1>5 DEF Queued
<1>10. SimSums'
  BY <1>2, <1>9, Zenon DEF SimSums
<1> QED BY <1>2, <1>6, <1>7, <1>8, <1>10, Zenon DEF SimInv

\* SimInv survives an arrival: it is served at once, waits or is dropped.
LEMMA ArriveKeeps == ASSUME SimInv, NEW e \in Earliest, Areas(e), Arrive(e) PROVE SimInv'
<1>1. PICK next \in NextArrival(e.time, NextJobId) :
        \/ /\ busyServers < Servers
           /\ busyServers' = busyServers + 1
           /\ startTime' = At(startTime, NextJobId, e.time)
           /\ \E d \in Departures(e.time, NextJobId) : events' = (events \ {e}) \cup d \cup next
           /\ UNCHANGED <<queue, droppedJobs>>
        \/ /\ busyServers >= Servers
           /\ events' = (events \ {e}) \cup next
           /\ IF MaxQueueSize = 0 \/ Len(queue) < MaxQueueSize
              THEN queue' = Append(queue, NextJobId) /\ UNCHANGED droppedJobs
              ELSE droppedJobs' = droppedJobs \cup {NextJobId} /\ UNCHANGED queue
           /\ UNCHANGED <<busyServers, startTime>>
  BY DEF Arrive
<1>2. CASE busyServers < Servers /\ UNCHANGED <<queue, droppedJobs>> /\ busyServers' = busyServers + 1
           /\ startTime' = At(startTime, NextJobId, e.time)
           /\ \E d \in Departures(e.time, NextJobId) : events' = (events \ {e}) \cup d \cup next
  <2>1. PICK d \in Departures(e.time, NextJobId) : events' = (events \ {e}) \cup d \cup next
    BY <1>2
  <2> QED BY <1>2, <2>1, ServeAtOnce, Zenon
<1>3. CASE busyServers >= Servers /\ UNCHANGED <<busyServers, startTime>> /\ events' = (events \ {e}) \cup next
           /\ queue' = Append(queue, NextJobId) /\ UNCHANGED droppedJobs
  BY <1>3, WaitInQueue, Zenon
<1>4. CASE busyServers >= Servers /\ UNCHANGED <<busyServers, startTime>> /\ events' = (events \ {e}) \cup next
           /\ droppedJobs' = droppedJobs \cup {NextJobId} /\ UNCHANGED queue
  BY <1>4, DropTheJob, Zenon
<1> QED BY <1>1, <1>2, <1>3, <1>4, Zenon

\* What a departure does, whoever is served next.
LEMMA DepartureIs ==
  ASSUME SimInv, NEW e \in Earliest, Areas(e), Depart(e)
  PROVE  /\ e \in events /\ e.time \in Nat /\ simNow \in Nat /\ simNow <= e.time /\ simNow' = e.time
         /\ \A x \in events : e.time <= x.time
         /\ UNCHANGED <<arrivalTime, droppedJobs>>
         /\ e.job \in InService /\ e.job \notin Queued
         /\ \A x \in events \ {e} : x.type = "departure" => x.job \in InService \ {e.job}
         /\ departureTime' \in [DOMAIN departureTime \cup {e.job} -> Nat]
         /\ DOMAIN departureTime' = DOMAIN departureTime \cup {e.job}
         /\ \A j \in DOMAIN departureTime' : startTime[j] <= departureTime'[j] /\ departureTime'[j] <= e.time
         /\ areaQueue' \in Int /\ areaSystem' \in Int
         /\ areaQueue' = TimeIn(DOMAIN startTime, arrivalTime, startTime) + Since(Queued, arrivalTime, e.time)
         /\ areaSystem' = TimeIn(DOMAIN departureTime', arrivalTime, departureTime')
                          + Since((Queued \cup InService) \ {e.job}, arrivalTime, e.time)
         /\ TimeIn(DOMAIN departureTime', startTime, departureTime') + Since(InService \ {e.job}, startTime, e.time)
            <= Servers * e.time
<1> DEFINE t == e.time
           job == e.job
           D == DOMAIN departureTime
           W == Queued \cup InService
<1>1. SimTypes /\ SimClock /\ SimDepartures /\ SimQueue /\ SimServers
  BY DEF SimInv
<1>2. e \in events /\ \A x \in events : t <= x.time
  BY DEF Earliest
<1>3. /\ t \in Nat /\ simNow \in Nat /\ simNow <= t /\ simNow' = t /\ areaQueue' \in Int /\ areaSystem' \in Int
      /\ areaQueue' = TimeIn(DOMAIN startTime, arrivalTime, startTime) + Since(Queued, arrivalTime, t)
      /\ areaSystem' = TimeIn(D, arrivalTime, departureTime) + Since(W, arrivalTime, t)
      /\ TimeIn(D, startTime, departureTime) + Since(InService, startTime, t) <= Servers * t
  <2>1. e \in events /\ simNow \in Nat
    BY <1>1, <1>2 DEF SimTypes
  <2> HIDE DEF SimInv
  <2> QED BY <2>1, TimePasses, Zenon
<1>4. e.type = "departure" /\ departureTime' = At(departureTime, job, t) /\ UNCHANGED <<arrivalTime, droppedJobs>>
  BY DEF Depart
<1>5. job \in InService /\ \A x \in events : x.type = "departure" /\ x.job = job => x = e
  BY <1>1, <1>2, <1>4 DEF SimDepartures
<1>6. /\ IsFiniteSet(InService) /\ InService \subseteq DOMAIN startTime /\ IsFiniteSet(D)
      /\ IsFiniteSet(W) /\ Queued \cap InService = {} /\ Queued \subseteq DOMAIN arrivalTime
  BY <1>1, InServiceIs, QueuedIs
<1>7. /\ arrivalTime \in [DOMAIN arrivalTime -> Nat] /\ startTime \in [DOMAIN startTime -> Nat]
      /\ DOMAIN startTime \subseteq DOMAIN arrivalTime /\ departureTime \in [D -> Nat] /\ D \subseteq DOMAIN startTime
  BY <1>1 DEF SimTypes
<1>8. job \notin D /\ job \in DOMAIN startTime /\ job \notin Queued
  BY <1>5, <1>6 DEF InService
<1>9. \A x \in events \ {e} : x.type = "departure" => x.job \in InService \ {job}
  BY <1>1, <1>5 DEF SimDepartures
<1>10. /\ departureTime' \in [D \cup {job} -> Nat] /\ DOMAIN departureTime' = D \cup {job} /\ departureTime'[job] = t
       /\ \A j \in D : departureTime'[j] = departureTime[j]
  <2>1. /\ At(departureTime, job, t) \in [D \cup {job} -> Nat] /\ At(departureTime, job, t)[job] = t
        /\ \A j \in D : j # job => At(departureTime, job, t)[j] = departureTime[j]
    <3> HIDE DEF t, job
    <3> QED BY <1>3, <1>7 DEF At
  <2> HIDE DEF t, job, D
  <2> QED BY <1>4, <1>8, <2>1
<1> HIDE DEF t, job, D, W
<1>11. \A j \in D \cup {job} : startTime[j] <= departureTime'[j] /\ departureTime'[j] <= t
  <2> TAKE j \in D \cup {job}
  <2>1. startTime[j] \in Nat /\ startTime[j] <= simNow
    BY <1>1, <1>7, <1>8 DEF SimClock
  <2>2. CASE j = job
    BY <1>3, <1>10, <2>1, <2>2
  <2>3. CASE j # job
    <3>1. j \in D /\ departureTime'[j] = departureTime[j] /\ departureTime[j] \in Nat
      BY <1>7, <1>10, <2>3
    <3>2. startTime[j] <= departureTime[j] /\ departureTime[j] <= simNow
      BY <1>1, <3>1 DEF SimClock, D
    <3> QED BY <1>3, <3>1, <3>2
  <2> QED BY <2>2, <2>3
<1>12. \A j \in DOMAIN arrivalTime : arrivalTime[j] \in Int
  BY <1>7
<1>13. \A j \in DOMAIN startTime : startTime[j] \in Int /\ arrivalTime[j] \in Int
  BY <1>7
<1>14. \A j \in D : departureTime[j] \in Int /\ departureTime'[j] = departureTime[j] /\ j \in DOMAIN startTime
  BY <1>7, <1>10
<1>15. departureTime'[job] \in Int /\ t \in Int
  BY <1>3, <1>10
<1>16. TimeIn(D \cup {job}, arrivalTime, departureTime') = TimeIn(D, arrivalTime, departureTime) + (t - arrivalTime[job])
  <2>1. \A j \in D : arrivalTime[j] \in Int /\ departureTime[j] \in Int /\ arrivalTime[j] = arrivalTime[j] /\ departureTime'[j] = departureTime[j]
    BY <1>13, <1>14
  <2>2. TimeInGrows(D, job, arrivalTime, departureTime, arrivalTime, departureTime')
    BY <1>6, <1>8, <1>13, <1>15, <2>1, TimeInMore
  <2> QED BY <1>10, <2>2 DEF TimeInGrows
<1>17. TimeIn(D \cup {job}, startTime, departureTime') = TimeIn(D, startTime, departureTime) + (t - startTime[job])
  <2>1. \A j \in D : startTime[j] \in Int /\ departureTime[j] \in Int /\ startTime[j] = startTime[j] /\ departureTime'[j] = departureTime[j]
    BY <1>13, <1>14
  <2>2. TimeInGrows(D, job, startTime, departureTime, startTime, departureTime')
    BY <1>6, <1>8, <1>13, <1>15, <2>1, TimeInMore
  <2> QED BY <1>10, <2>2 DEF TimeInGrows
<1>18. Since(W, arrivalTime, t) = Since(W \ {job}, arrivalTime, t) + (t - arrivalTime[job]) /\ Since(W \ {job}, arrivalTime, t) \in Int
  <2> DEFINE V == W \ {job}
  <2>1. V \cup {job} = W /\ job \notin V /\ IsFiniteSet(V)
    BY <1>5, <1>6, FS_RemoveElement DEF W
  <2>2. \A j \in V : arrivalTime[j] \in Int /\ arrivalTime[j] = arrivalTime[j]
    BY <1>6, <1>12, <1>13 DEF W
  <2> HIDE DEF V
  <2>3. SinceGrows(V, job, arrivalTime, arrivalTime, t)
    BY <1>8, <1>13, <1>15, <2>1, <2>2, SinceMore
  <2>4. Since(V, arrivalTime, t) \in Int
    BY <1>15, <2>1, <2>2, SinceLater
  <2> QED BY <2>1, <2>3, <2>4 DEF SinceGrows, V
<1>19. Since(InService, startTime, t) = Since(InService \ {job}, startTime, t) + (t - startTime[job]) /\ Since(InService \ {job}, startTime, t) \in Int
  <2> DEFINE V == InService \ {job}
  <2>1. V \cup {job} = InService /\ job \notin V /\ IsFiniteSet(V)
    BY <1>5, <1>6, FS_RemoveElement
  <2>2. \A j \in V : startTime[j] \in Int /\ startTime[j] = startTime[j]
    BY <1>6, <1>13
  <2> HIDE DEF V
  <2>3. SinceGrows(V, job, startTime, startTime, t)
    BY <1>8, <1>13, <1>15, <2>1, <2>2, SinceMore
  <2>4. Since(V, startTime, t) \in Int
    BY <1>15, <2>1, <2>2, SinceLater
  <2> QED BY <2>1, <2>3, <2>4 DEF SinceGrows, V
<1>20. /\ TimeIn(D, arrivalTime, departureTime) \in Int /\ TimeIn(D, startTime, departureTime) \in Int
       /\ arrivalTime[job] \in Int /\ startTime[job] \in Int
  <2>1. \A j \in D : arrivalTime[j] \in Int /\ departureTime[j] \in Int
    BY <1>13, <1>14
  <2>2. \A j \in D : startTime[j] \in Int /\ departureTime[j] \in Int
    BY <1>13, <1>14
  <2> QED BY <1>6, <1>8, <1>13, <2>1, <2>2, TimeInType
<1>21. areaSystem' = TimeIn(D \cup {job}, arrivalTime, departureTime') + Since(W \ {job}, arrivalTime, t)
  BY <1>3, <1>16, <1>18, <1>20, <1>15
<1>22. TimeIn(D \cup {job}, startTime, departureTime') + Since(InService \ {job}, startTime, t) <= Servers * t
  <2>1. Servers * t \in Int
    BY <1>3, SimAssumption
  <2> QED BY <1>3, <1>17, <1>19, <1>20, <1>15, <2>1
<1> QED BY <1>2, <1>3, <1>4, <1>5, <1>8, <1>9, <1>10, <1>11, <1>21, <1>22, Zenon DEF t, job, D, W

\* SimInv survives a departure that leaves a server idle.
LEMMA ServerFreed ==
  ASSUME SimInv, NEW e \in Earliest, Areas(e), Depart(e), queue = <<>>, busyServers' = busyServers - 1,
         events' = events \ {e}, UNCHANGED <<queue, startTime>>
  PROVE  SimInv'
<1> DEFINE t == e.time
           job == e.job
           A == DOMAIN arrivalTime
           S == DOMAIN startTime
           D == DOMAIN departureTime
<1>1. SimTypes /\ SimClock /\ SimDepartures /\ SimQueue /\ SimServers
  BY DEF SimInv
<1>2. /\ e \in events /\ t \in Nat /\ simNow \in Nat /\ simNow <= t /\ simNow' = t
      /\ \A x \in events : t <= x.time
      /\ arrivalTime' = arrivalTime /\ droppedJobs' = droppedJobs
      /\ job \in InService /\ job \notin Queued
      /\ \A x \in events \ {e} : x.type = "departure" => x.job \in InService \ {job}
      /\ departureTime' \in [D \cup {job} -> Nat] /\ DOMAIN departureTime' = D \cup {job}
      /\ \A j \in D \cup {job} : startTime[j] <= departureTime'[j] /\ departureTime'[j] <= t
      /\ areaQueue' \in Int /\ areaSystem' \in Int
      /\ areaQueue' = TimeIn(S, arrivalTime, startTime) + Since(Queued, arrivalTime, t)
      /\ areaSystem' = TimeIn(D \cup {job}, arrivalTime, departureTime')
                       + Since((Queued \cup InService) \ {job}, arrivalTime, t)
      /\ TimeIn(D \cup {job}, startTime, departureTime') + Since(InService \ {job}, startTime, t) <= Servers * t
  <2> HIDE DEF SimInv
  <2>1. UNCHANGED <<arrivalTime, droppedJobs>> => arrivalTime' = arrivalTime /\ droppedJobs' = droppedJobs
    OBVIOUS
  <2>2. DOMAIN departureTime' = D \cup {job}
    BY DepartureIs, Zenon
  <2> QED BY DepartureIs, <2>1, <2>2, Zenon
<1> HIDE DEF t, job
<1>3. /\ S \subseteq A /\ D \subseteq S /\ startTime \in [S -> Nat] /\ arrivalTime \in [A -> Nat]
      /\ events \subseteq [time : Nat, type : {"arrival", "departure"}, job : Nat]
  BY <1>1 DEF SimTypes
<1>4. InService' = InService \ {job} /\ Queued' = Queued /\ Queued \cap InService = {} /\ IsFiniteSet(InService) /\ job \in S
  BY <1>1, <1>2, InServiceIs DEF InService, Queued
<1>5. Cardinality(InService') = busyServers - 1 /\ busyServers - 1 \in Nat
  <2>1. Cardinality(InService \ {job}) = Cardinality(InService) - 1
    BY <1>2, <1>4, FS_RemoveElement
  <2>2. Cardinality(InService \ {job}) \in Nat
    BY <1>4, FS_RemoveElement, FS_CardinalityType
  <2> QED BY <1>1, <1>4, <2>1, <2>2 DEF SimServers
<1>6. SimTypes'
  <2>1. DOMAIN departureTime' \subseteq DOMAIN startTime' /\ departureTime' \in [DOMAIN departureTime' -> Nat]
    BY <1>2, <1>3, <1>4
  <2>2. events' \subseteq [time : Nat, type : {"arrival", "departure"}, job : Nat] /\ simNow' \in Nat /\ busyServers' \in Nat
    BY <1>2, <1>3, <1>5
  <2>3. /\ \E n \in Nat : DOMAIN arrivalTime' = 1..n
        /\ arrivalTime' \in [DOMAIN arrivalTime' -> Nat]
        /\ startTime' \in [DOMAIN startTime' -> Nat] /\ DOMAIN startTime' \subseteq DOMAIN arrivalTime'
        /\ droppedJobs' \subseteq DOMAIN arrivalTime' /\ queue' \in Seq(DOMAIN arrivalTime')
    BY <1>1, <1>2 DEF SimTypes
  <2> QED BY <1>2, <2>1, <2>2, <2>3, Zenon DEF SimTypes
<1>7. SimClock'
  <2>1. \A j \in A : arrivalTime[j] <= t
    BY <1>1, <1>2, <1>3 DEF SimClock
  <2>2. \A j \in S : arrivalTime[j] <= startTime[j] /\ startTime[j] <= t
    BY <1>1, <1>2, <1>3 DEF SimClock
  <2>3. \A x \in events' : simNow' <= x.time
    BY <1>2
  <2> QED BY <1>2, <2>1, <2>2, <2>3, Zenon DEF SimClock
<1>8. SimDepartures'
  BY <1>1, <1>2, <1>4 DEF SimDepartures
<1>9. SimQueue'
  <2>1. queue' = queue /\ startTime' = startTime
    OBVIOUS
  <2>2. arrivalTime' = arrivalTime /\ droppedJobs' = droppedJobs
    BY <1>2
  <2>3. SimQueue
    BY <1>1
  <2> QED BY <2>1, <2>2, <2>3 DEF SimQueue
<1>10. SimServers'
  <2>1. Len(queue') = 0 /\ Servers \in Nat /\ busyServers \in Nat /\ busyServers <= Servers
    BY <1>1, SimAssumption DEF SimServers, SimTypes
  <2> QED BY <1>5, <2>1 DEF SimServers
<1>11. SimSums'
  <2>1. (Queued \cup InService) \ {job} = Queued' \cup InService'
    BY <1>2, <1>4
  <2> QED BY <1>2, <1>4, <2>1, Zenon DEF SimSums
<1> QED BY <1>6, <1>7, <1>8, <1>9, <1>10, <1>11, Zenon DEF SimInv

\* The first in the queue is served next.
LEMMA HeadIsServed ==
  ASSUME SimTypes, SimQueue, queue # <<>>
  PROVE  /\ Head(queue) \in Queued /\ Head(queue) \in DOMAIN arrivalTime /\ Head(queue) \notin DOMAIN startTime
         /\ \A j \in DOMAIN startTime : j < Head(queue)
         /\ Head(queue) \notin droppedJobs
         /\ Tail(queue) \in Seq(DOMAIN arrivalTime) /\ Len(queue) \in Nat /\ Len(Tail(queue)) = Len(queue) - 1
         /\ \A i \in 1..Len(Tail(queue)) : i + 1 \in 1..Len(queue) /\ Tail(queue)[i] = queue[i + 1]
         /\ {Tail(queue)[i] : i \in 1..Len(Tail(queue))} = Queued \ {Head(queue)}
<1> DEFINE A == DOMAIN arrivalTime
           h == Head(queue)
           T == Tail(queue)
<1>1. queue \in Seq(A) /\ Len(queue) \in Nat /\ Len(queue) # 0
  <2>1. queue \in Seq(A)
    BY DEF SimTypes
  <2> QED BY <2>1
<1>2. h = queue[1] /\ 1 \in 1..Len(queue) /\ T \in Seq(A) /\ Len(T) = Len(queue) - 1
  BY <1>1
<1>3. \A i \in 1..Len(T) : i + 1 \in 1..Len(queue) /\ T[i] = queue[i + 1]
  <2>1. \A i \in 1..(Len(queue) - 1) : i + 1 \in 1..Len(queue) /\ Tail(queue)[i] = queue[i + 1]
    BY <1>1
  <2> QED BY <1>2, <2>1
<1> HIDE DEF h, T
<1>4. Queued = {queue[i] : i \in 1..Len(queue)} /\ Queued \subseteq A
  BY QueuedIs
<1>5. h \in Queued
  BY <1>2, <1>4
<1>6. \A i, k \in 1..Len(queue) : i < k => queue[i] < queue[k]
  BY DEF SimQueue
<1>7. \A j \in A : j \in Nat
  BY JobsAreFinite
<1>8. {T[i] : i \in 1..Len(T)} = Queued \ {h}
  <2>1. ASSUME NEW i \in 1..Len(T) PROVE T[i] \in Queued \ {h}
    <3>1. i + 1 \in 1..Len(queue) /\ T[i] = queue[i + 1] /\ 1 < i + 1
      BY <1>1, <1>2, <1>3
    <3>2. queue[1] < queue[i + 1] /\ queue[1] \in Nat /\ queue[i + 1] \in Nat
      BY <1>2, <1>4, <1>6, <1>7, <3>1
    <3> QED BY <1>2, <1>4, <3>1, <3>2
  <2>2. ASSUME NEW j \in Queued \ {h} PROVE \E i \in 1..Len(T) : j = T[i]
    <3>1. PICK k \in 1..Len(queue) : j = queue[k]
      BY <1>4
    <3>2. k # 1
      BY <1>2, <3>1
    <3>3. k - 1 \in 1..Len(T) /\ (k - 1) + 1 = k
      BY <1>1, <1>2, <3>2
    <3> QED BY <1>3, <3>1, <3>3
  <2> QED BY <2>1, <2>2
<1>9. \A i \in 1..Len(queue) : queue[i] \notin droppedJobs /\ \A j \in DOMAIN startTime : j < queue[i]
  BY DEF SimQueue
<1>10. h \notin droppedJobs /\ \A j \in DOMAIN startTime : j < h
  BY <1>2, <1>9
<1>11. h \notin DOMAIN startTime
  <2>1. h \in Nat
    BY <1>4, <1>5, <1>7
  <2> QED BY <1>10, <2>1
<1> QED BY <1>1, <1>2, <1>3, <1>4, <1>5, <1>8, <1>10, <1>11, Zenon DEF h, T

\* SimInv survives a departure after which the head of the queue is served.
LEMMA ServeNext ==
  ASSUME SimInv, NEW e \in Earliest, Areas(e), Depart(e), queue # <<>>, startTime' = At(startTime, Head(queue), e.time),
         NEW d \in Departures(e.time, Head(queue)), events' = (events \ {e}) \cup d, queue' = Tail(queue),
         UNCHANGED busyServers
  PROVE  SimInv'
<1> DEFINE t == e.time
           job == e.job
           h == Head(queue)
           A == DOMAIN arrivalTime
           S == DOMAIN startTime
           D == DOMAIN departureTime
<1>1. SimTypes /\ SimClock /\ SimDepartures /\ SimQueue /\ SimServers
  BY DEF SimInv
<1>2. /\ e \in events /\ t \in Nat /\ simNow \in Nat /\ simNow <= t /\ simNow' = t
      /\ \A x \in events : t <= x.time
      /\ arrivalTime' = arrivalTime /\ droppedJobs' = droppedJobs
      /\ job \in InService /\ job \notin Queued
      /\ \A x \in events \ {e} : x.type = "departure" => x.job \in InService \ {job}
      /\ departureTime' \in [D \cup {job} -> Nat] /\ DOMAIN departureTime' = D \cup {job}
      /\ \A j \in D \cup {job} : startTime[j] <= departureTime'[j] /\ departureTime'[j] <= t
      /\ areaQueue' \in Int /\ areaSystem' \in Int
      /\ areaQueue' = TimeIn(S, arrivalTime, startTime) + Since(Queued, arrivalTime, t)
      /\ areaSystem' = TimeIn(D \cup {job}, arrivalTime, departureTime')
                       + Since((Queued \cup InService) \ {job}, arrivalTime, t)
      /\ TimeIn(D \cup {job}, startTime, departureTime') + Since(InService \ {job}, startTime, t) <= Servers * t
  <2> HIDE DEF SimInv
  <2>1. UNCHANGED <<arrivalTime, droppedJobs>> => arrivalTime' = arrivalTime /\ droppedJobs' = droppedJobs
    OBVIOUS
  <2>2. DOMAIN departureTime' = D \cup {job}
    BY DepartureIs, Zenon
  <2> QED BY DepartureIs, <2>1, <2>2, Zenon
<1>3. /\ S \subseteq A /\ D \subseteq S /\ startTime \in [S -> Nat] /\ arrivalTime \in [A -> Nat]
      /\ events \subseteq [time : Nat, type : {"arrival", "departure"}, job : Nat] /\ droppedJobs \subseteq A
  BY <1>1 DEF SimTypes
<1>4. /\ h \in Queued /\ h \in A /\ h \notin S /\ \A j \in S : j < h
      /\ h \notin droppedJobs /\ queue' \in Seq(A) /\ Len(queue) \in Nat /\ Len(queue') = Len(queue) - 1
      /\ \A i \in 1..Len(queue') : i + 1 \in 1..Len(queue) /\ queue'[i] = queue[i + 1]
      /\ {queue'[i] : i \in 1..Len(queue')} = Queued \ {h}
  BY <1>1, HeadIsServed, Zenon
<1>5. Queued' = Queued \ {h}
  <2>1. DOMAIN queue' = 1..Len(queue')
    BY <1>4
  <2> QED BY <1>4, <2>1 DEF Queued
<1>6. PICK s \in ServiceTimes : d = {[time |-> t + s, type |-> "departure", job |-> h]}
  BY DEF Departures
<1>7. s \in Nat /\ t + s \in Nat /\ t <= t + s
  BY <1>2, <1>6, SimAssumption
<1>8. startTime' \in [S \cup {h} -> Nat] /\ DOMAIN startTime' = S \cup {h} /\ startTime'[h] = t /\ \A j \in S : startTime'[j] = startTime[j]
  <2>1. /\ At(startTime, h, t) \in [S \cup {h} -> Nat] /\ At(startTime, h, t)[h] = t
        /\ \A j \in S : j # h => At(startTime, h, t)[j] = startTime[j]
    <3> HIDE DEF t, h
    <3> QED BY <1>2, <1>3 DEF At
  <2> HIDE DEF t, h
  <2> QED BY <1>4, <2>1 DEF t, h
<1>9. /\ InService \subseteq S /\ IsFiniteSet(InService) /\ Queued \cap InService = {} /\ IsFiniteSet(Queued)
      /\ IsFiniteSet(S) /\ job \in S
  BY <1>1, <1>2, InServiceIs, QueuedIs
<1> HIDE DEF t, job, h
<1>10. InService' = (InService \ {job}) \cup {h} /\ h # job /\ h \notin D
  <2>1. h # job /\ h \notin D
    BY <1>2, <1>3, <1>4
  <2>2. InService' = (S \cup {h}) \ (D \cup {job})
    BY <1>2, <1>8 DEF InService
  <2> QED BY <2>1, <2>2 DEF InService
<1>11. SimTypes'
  <2>1. DOMAIN departureTime' \subseteq DOMAIN startTime' /\ departureTime' \in [DOMAIN departureTime' -> Nat]
    BY <1>2, <1>3, <1>8, <1>9
  <2>2. events' \subseteq [time : Nat, type : {"arrival", "departure"}, job : Nat]
    <3>1. h \in Nat
      BY <1>1, <1>4, JobsAreFinite
    <3> QED BY <1>3, <1>6, <1>7, <3>1 DEF h, t
  <2>3. simNow' \in Nat /\ busyServers' \in Nat /\ droppedJobs' \subseteq DOMAIN arrivalTime' /\ queue' \in Seq(DOMAIN arrivalTime')
    BY <1>1, <1>2, <1>3, <1>4 DEF SimTypes
  <2>4. startTime' \in [DOMAIN startTime' -> Nat] /\ DOMAIN startTime' \subseteq DOMAIN arrivalTime'
    BY <1>2, <1>3, <1>4, <1>8
  <2>5. (\E n \in Nat : DOMAIN arrivalTime' = 1..n) /\ arrivalTime' \in [DOMAIN arrivalTime' -> Nat]
    BY <1>1, <1>2 DEF SimTypes
  <2> QED BY <1>2, <2>1, <2>2, <2>3, <2>4, <2>5, Zenon DEF SimTypes
<1>12. \A j \in A : arrivalTime[j] <= t /\ arrivalTime[j] \in Nat
  BY <1>1, <1>2, <1>3 DEF SimClock
<1>13. SimClock'
  <2>1. \A j \in S \cup {h} : arrivalTime[j] <= startTime'[j] /\ startTime'[j] <= t
    <3> TAKE j \in S \cup {h}
    <3>1. CASE j = h
      BY <1>2, <1>4, <1>8, <1>12, <3>1
    <3>2. CASE j # h
      BY <1>1, <1>2, <1>3, <1>8, <3>2 DEF SimClock
    <3> QED BY <3>1, <3>2
  <2>2. \A x \in events' : simNow' <= x.time
    BY <1>2, <1>6, <1>7 DEF t
  <2>3. \A j \in D \cup {job} : startTime'[j] <= departureTime'[j] /\ departureTime'[j] <= t
    BY <1>2, <1>3, <1>8, <1>9
  <2> QED BY <1>2, <1>8, <1>12, <2>1, <2>2, <2>3, Zenon DEF SimClock
<1>14. SimDepartures'
  <2>1. \A x \in events' : x.type = "departure" =>
           (x \in events \ {e} /\ x.job \in InService \ {job}) \/ x = [time |-> t + s, type |-> "departure", job |-> h]
    BY <1>2, <1>6 DEF h, t
  <2>2. h \notin InService
    BY <1>4, <1>9
  <2>3. \A x \in events' : x.type = "departure" => x.job \in InService'
    BY <1>10, <2>1
  <2>4. \A x, y \in events' : x.type = "departure" /\ y.type = "departure" /\ x.job = y.job => x = y
    <3> TAKE x, y \in events'
    <3> HAVE x.type = "departure" /\ y.type = "departure" /\ x.job = y.job
    <3>1. CASE x \in events /\ y \in events
      BY <1>1, <3>1 DEF SimDepartures
    <3>2. CASE x = [time |-> t + s, type |-> "departure", job |-> h]
      <4>1. y.job = h
        BY <3>2
      <4> QED BY <2>1, <2>2, <3>2, <4>1
    <3>3. CASE y = [time |-> t + s, type |-> "departure", job |-> h]
      <4>1. x.job = h
        BY <3>3
      <4> QED BY <2>1, <2>2, <3>3, <4>1
    <3> QED BY <2>1, <3>1, <3>2, <3>3
  <2> QED BY <2>3, <2>4, Zenon DEF SimDepartures
<1>15. SimQueue'
  <2>0. \A i \in 1..Len(queue) : queue[i] \in Queued
    BY <1>1, QueuedIs
  <2>1. \A i, k \in 1..Len(queue') : i < k => queue'[i] < queue'[k]
    <3> TAKE i, k \in 1..Len(queue')
    <3> HAVE i < k
    <3>1. i + 1 \in 1..Len(queue) /\ k + 1 \in 1..Len(queue) /\ i + 1 < k + 1
      BY <1>4
    <3>2. queue[i + 1] < queue[k + 1]
      BY <1>1, <3>1 DEF SimQueue
    <3> QED BY <1>4, <3>2
  <2>2. \A i \in 1..Len(queue') : queue'[i] \notin droppedJobs' /\ \A j \in DOMAIN startTime' : j < queue'[i]
    <3> TAKE i \in 1..Len(queue')
    <3>1. i + 1 \in 1..Len(queue) /\ queue'[i] = queue[i + 1] /\ 1 \in 1..Len(queue) /\ 1 < i + 1
      BY <1>4
    <3>2. queue[1] < queue[i + 1] /\ queue[i + 1] \notin droppedJobs /\ \A j \in S : j < queue[i + 1]
      BY <1>1, <3>1 DEF SimQueue
    <3>3. h = queue[1]
      BY <1>4 DEF h
    <3> QED BY <1>2, <1>8, <3>1, <3>2, <3>3
  <2>3. droppedJobs' \cap DOMAIN startTime' = {}
    <3>1. droppedJobs \cap S = {}
      BY <1>1 DEF SimQueue
    <3> QED BY <1>2, <1>4, <1>8, <3>1
  <2>4. DOMAIN arrivalTime' = DOMAIN startTime' \cup {queue'[i] : i \in 1..Len(queue')} \cup droppedJobs'
    <3>1. A = S \cup {queue[i] : i \in 1..Len(queue)} \cup droppedJobs
      BY <1>1 DEF SimQueue
    <3>2. Queued = {queue[i] : i \in 1..Len(queue)}
      BY <1>1, QueuedIs
    <3>3. A = S \cup Queued \cup droppedJobs
      BY <3>1, <3>2
    <3>4. A = (S \cup {h}) \cup (Queued \ {h}) \cup droppedJobs
      BY <1>4, <3>3
    <3> QED BY <1>2, <1>4, <1>8, <3>4, Zenon
  <2>5. \A i, j \in DOMAIN startTime' : i < j => startTime'[i] <= startTime'[j]
    <3> TAKE i, j \in DOMAIN startTime'
    <3> HAVE i < j
    <3>1. CASE i \in S /\ j \in S
      BY <1>1, <1>8, <3>1 DEF SimQueue
    <3>2. CASE j = h /\ i \in S
      <4>1. startTime[i] \in Nat /\ startTime[i] <= simNow
        BY <1>1, <1>3, <3>2 DEF SimClock
      <4> QED BY <1>2, <1>8, <3>2, <4>1
    <3>3. CASE i = h
      <4>1. j = h \/ j < h
        BY <1>4, <1>8
      <4>2. j \in Nat /\ h \in Nat
        BY <1>1, <1>3, <1>4, <1>8, JobsAreFinite
      <4> QED BY <3>3, <4>1, <4>2
    <3> QED BY <1>8, <3>1, <3>2, <3>3
  <2> QED BY <2>1, <2>2, <2>3, <2>4, <2>5, Zenon DEF SimQueue
<1>16. SimServers'
  <2>1. Cardinality(InService \ {job}) = Cardinality(InService) - 1 /\ IsFiniteSet(InService \ {job})
    BY <1>2, <1>9, FS_RemoveElement
  <2>2. h \notin InService \ {job}
    BY <1>4, <1>9
  <2>3. Cardinality(InService') = Cardinality(InService \ {job}) + 1
    BY <1>10, <2>1, <2>2, FS_AddElement
  <2>4. Len(queue) # 0 /\ busyServers \in Nat
    BY <1>1, <1>4 DEF SimTypes, SimServers
  <2> QED BY <1>1, <2>1, <2>3, <2>4 DEF SimServers
<1>17. \A j \in A : arrivalTime[j] \in Int
  BY <1>3
<1>18. \A j \in S : startTime[j] \in Int /\ startTime'[j] = startTime[j] /\ arrivalTime[j] \in Int
  BY <1>3, <1>8
<1>19. areaQueue' = TimeIn(DOMAIN startTime', arrivalTime', startTime') + Since(Queued', arrivalTime', simNow')
  <2>1. TimeIn(S \cup {h}, arrivalTime, startTime') = TimeIn(S, arrivalTime, startTime) + (t - arrivalTime[h])
    <3>1. \A j \in S : arrivalTime[j] \in Int /\ startTime[j] \in Int /\ arrivalTime[j] = arrivalTime[j] /\ startTime'[j] = startTime[j]
      BY <1>18
    <3>2. arrivalTime[h] \in Int /\ startTime'[h] \in Int
      BY <1>2, <1>4, <1>8, <1>17
    <3>3. TimeInGrows(S, h, arrivalTime, startTime, arrivalTime, startTime')
      BY <1>4, <1>9, <3>1, <3>2, TimeInMore
    <3> QED BY <1>8, <3>3 DEF TimeInGrows
  <2>2. Since(Queued, arrivalTime, t) = Since(Queued \ {h}, arrivalTime, t) + (t - arrivalTime[h]) /\ Since(Queued \ {h}, arrivalTime, t) \in Int
    <3> DEFINE V == Queued \ {h}
    <3>1. V \cup {h} = Queued /\ h \notin V /\ IsFiniteSet(V)
      BY <1>4, <1>9, FS_RemoveElement
    <3>2. \A j \in V : arrivalTime[j] \in Int /\ arrivalTime[j] = arrivalTime[j]
      BY <1>1, <1>17, QueuedIs
    <3> HIDE DEF V
    <3>3. t \in Int /\ arrivalTime[h] \in Int
      BY <1>2, <1>4, <1>17
    <3>4. SinceGrows(V, h, arrivalTime, arrivalTime, t)
      BY <3>1, <3>2, <3>3, SinceMore
    <3>5. Since(V, arrivalTime, t) \in Int
      BY <3>1, <3>2, <3>3, SinceLater
    <3> QED BY <3>1, <3>4, <3>5 DEF SinceGrows, V
  <2>3. TimeIn(S, arrivalTime, startTime) \in Int /\ arrivalTime[h] \in Int /\ t \in Int
    <3>1. \A j \in S : arrivalTime[j] \in Int /\ startTime[j] \in Int
      BY <1>18
    <3> QED BY <1>2, <1>4, <1>9, <1>17, <3>1, TimeInType
  <2> QED BY <1>2, <1>5, <1>8, <2>1, <2>2, <2>3
<1>20. areaSystem' = TimeIn(DOMAIN departureTime', arrivalTime', departureTime') + Since(Queued' \cup InService', arrivalTime', simNow')
  <2>1. (Queued \cup InService) \ {job} = Queued' \cup InService'
    BY <1>2, <1>4, <1>5, <1>9, <1>10
  <2> QED BY <1>2, <2>1, Zenon
<1>21. TimeIn(DOMAIN departureTime', startTime', departureTime') + Since(InService', startTime', simNow') <= Servers * simNow'
  <2>1. TimeIn(D \cup {job}, startTime', departureTime') = TimeIn(D \cup {job}, startTime, departureTime')
    <3>1. [j \in D \cup {job} |-> departureTime'[j] - startTime'[j]] = [j \in D \cup {job} |-> departureTime'[j] - startTime[j]]
      BY <1>3, <1>9, <1>18
    <3> QED BY <3>1, Zenon DEF TimeIn
  <2>2. Since((InService \ {job}) \cup {h}, startTime', t) = Since(InService \ {job}, startTime, t)
    <3> DEFINE V == InService \ {job}
    <3>1. IsFiniteSet(V) /\ h \notin V
      BY <1>2, <1>4, <1>9, FS_RemoveElement
    <3>2. \A j \in V : startTime[j] \in Int /\ startTime'[j] = startTime[j]
      BY <1>9, <1>18
    <3> HIDE DEF V
    <3>3. t \in Int /\ startTime'[h] \in Int /\ startTime'[h] = t
      BY <1>2, <1>8
    <3>4. SinceGrows(V, h, startTime, startTime', t)
      BY <3>1, <3>2, <3>3, SinceMore
    <3>5. Since(V, startTime, t) \in Int
      BY <3>1, <3>2, <3>3, SinceLater
    <3> QED BY <3>3, <3>4, <3>5 DEF SinceGrows, V
  <2> QED BY <1>2, <1>10, <2>1, <2>2
<1>22. SimSums'
  BY <1>19, <1>20, <1>21, Zenon DEF SimSums
<1> QED BY <1>11, <1>13, <1>14, <1>15, <1>16, <1>22, Zenon DEF SimInv

\* SimInv survives a departure.
LEMMA DepartKeeps == ASSUME SimInv, NEW e \in Earliest, Areas(e), Depart(e) PROVE SimInv'
<1>1. CASE queue # <<>> /\ startTime' = At(startTime, Head(queue), e.time) /\ queue' = Tail(queue) /\ UNCHANGED busyServers
           /\ \E d \in Departures(e.time, Head(queue)) : events' = (events \ {e}) \cup d
  BY <1>1, ServeNext, Zenon
<1>2. CASE queue = <<>> /\ busyServers' = busyServers - 1 /\ events' = events \ {e} /\ UNCHANGED <<queue, startTime>>
  BY <1>2, ServerFreed, Zenon
<1> QED BY <1>1, <1>2 DEF Depart

\* SimInv survives an event.
LEMMA SimStep == ASSUME SimInv, SimNext PROVE SimInv'
<1>1. PICK e \in Earliest : Areas(e) /\ (Arrive(e) \/ Depart(e))
  BY DEF SimNext
<1> QED BY <1>1, ArriveKeeps, DepartKeeps, Zenon

\* SimInv survives a step of another lab.
LEMMA SimStutter == ASSUME SimInv, UNCHANGED simVars PROVE SimInv'
<1>1. /\ events' = events /\ simNow' = simNow /\ queue' = queue /\ busyServers' = busyServers /\ arrivalTime' = arrivalTime
      /\ startTime' = startTime /\ departureTime' = departureTime /\ droppedJobs' = droppedJobs
      /\ areaQueue' = areaQueue /\ areaSystem' = areaSystem
  BY DEF simVars
<1>2. Queued' = Queued /\ InService' = InService
  BY <1>1 DEF Queued, InService
<1>3. SimTypes' /\ SimClock' /\ SimDepartures' /\ SimQueue' /\ SimServers' /\ SimSums'
  <2>1. SimTypes'
    BY <1>1, Zenon DEF SimInv, SimTypes
  <2>2. SimClock'
    BY <1>1, Zenon DEF SimInv, SimClock
  <2>3. SimDepartures'
    BY <1>1, <1>2, Zenon DEF SimInv, SimDepartures
  <2>4. SimQueue'
    BY <1>1, Zenon DEF SimInv, SimQueue
  <2>5. SimServers'
    BY <1>1, <1>2, Zenon DEF SimInv, SimServers
  <2>6. SimSums'
    BY <1>1, <1>2, Zenon DEF SimInv, SimSums
  <2> QED BY <2>1, <2>2, <2>3, <2>4, <2>5, <2>6
<1> QED BY <1>3, Zenon DEF SimInv

\* Little's law is one part of SimInv.
LEMMA SimLittlesLaw == ASSUME SimInv PROVE LittlesLaw
<1>1. \A S, from : TimeSince(S, from) = Since(S, from, simNow)
  BY DEF TimeSince, Since
<1> QED BY <1>1, Zenon DEF SimInv, SimSums, LittlesLaw

\* The order of the queue makes it first come, first served.
LEMMA SimFirstCome == ASSUME SimInv PROVE FirstComeFirstServedQueue
<1>1. SimTypes /\ SimQueue /\ SimServers
  BY DEF SimInv
<1>2. /\ Queued = {queue[i] : i \in 1..Len(queue)} /\ IsFiniteSet(Queued) /\ Cardinality(Queued) = Len(queue)
      /\ Queued \cap DOMAIN startTime = {} /\ IsFiniteSet(DOMAIN startTime)
  BY <1>1, QueuedIs, InServiceIs
<1>3. Len(queue) \in Nat /\ (queue # <<>> => Len(queue) # 0)
  <2>1. queue \in Seq(DOMAIN arrivalTime)
    BY <1>1 DEF SimTypes
  <2> QED BY <2>1
<1>4. DOMAIN arrivalTime = DOMAIN startTime \cup Queued \cup droppedJobs
  BY <1>1, <1>2 DEF SimQueue
<1>5. IsFiniteSet(droppedJobs)
  BY <1>1, JobsAreFinite, FS_Subset DEF SimTypes
<1>6. IsFiniteSet(DOMAIN startTime \cup Queued) /\ Cardinality(DOMAIN startTime \cup Queued) = Cardinality(DOMAIN startTime) + Len(queue)
  <2>1. /\ IsFiniteSet(DOMAIN startTime \cup Queued)
        /\ Cardinality(DOMAIN startTime \cup Queued)
           = Cardinality(DOMAIN startTime) + Cardinality(Queued) - Cardinality(DOMAIN startTime \cap Queued)
    BY <1>2, FS_Union
  <2>2. DOMAIN startTime \cap Queued = {} /\ Cardinality({}) = 0 /\ Cardinality(DOMAIN startTime) \in Nat
    BY <1>2, FS_EmptySet, FS_CardinalityType
  <2>3. Cardinality(DOMAIN startTime \cap Queued) = 0
    BY <2>2, Zenon
  <2>4. Cardinality(Queued) = Len(queue) /\ Len(queue) \in Nat /\ Cardinality(DOMAIN startTime) \in Nat
    BY <1>2, <1>3, <2>2
  <2>5. Cardinality(DOMAIN startTime \cup Queued) = Cardinality(DOMAIN startTime) + Len(queue) - 0
    BY <2>1, <2>3, <2>4, Zenon
  <2> QED BY <2>1, <2>4, <2>5
<1>7. (DOMAIN startTime \cup Queued) \cap droppedJobs = {}
  <2>1. \A i \in 1..Len(queue) : queue[i] \notin droppedJobs
    BY <1>1 DEF SimQueue
  <2>2. droppedJobs \cap DOMAIN startTime = {}
    BY <1>1 DEF SimQueue
  <2> QED BY <1>2, <2>1, <2>2
<1>8. Cardinality(DOMAIN arrivalTime) = Cardinality(DOMAIN startTime) + Len(queue) + Cardinality(droppedJobs)
  <2> DEFINE B == DOMAIN startTime \cup Queued
  <2>1. Cardinality(B \cup droppedJobs) = Cardinality(B) + Cardinality(droppedJobs) - Cardinality(B \cap droppedJobs)
    BY <1>5, <1>6, FS_Union
  <2>2. Cardinality(B \cap droppedJobs) = 0 /\ Cardinality(droppedJobs) \in Nat /\ Cardinality(DOMAIN startTime) \in Nat
    BY <1>2, <1>5, <1>7, FS_EmptySet, FS_CardinalityType
  <2> QED BY <1>3, <1>4, <1>6, <2>1, <2>2
<1>9. \A i, j \in DOMAIN startTime : i < j => startTime[i] <= startTime[j]
  BY <1>1 DEF SimQueue
<1> QED BY <1>1, <1>3, <1>4, <1>8, <1>9 DEF SimServers, FirstComeFirstServedQueue

\* P99 is an order statistic, the slowest of all while there are at most a hundred.
LEMMA P99Is ==
  ASSUME NEW D, IsFiniteSet(D), D # {}, NEW f \in [D -> Int]
  PROVE  LET n == (Cardinality(D) * 99) \div 100 + 1
         IN  P99(f) = Smallest(f, n) /\ n \in 1..Cardinality(D) /\ (Cardinality(D) <= 100 => n = Cardinality(D))
<1> DEFINE c == Cardinality(D)
           n == (c * 99) \div 100 + 1
<1>1. c \in Nat /\ c # 0 /\ DOMAIN f = D
  BY FS_CardinalityType, FS_EmptySet
<1>2. P99(f) = Smallest(f, n)
  BY <1>1, Zenon DEF P99, Smallest
<1> HIDE DEF c
<1>3. n \in 1..c /\ (c <= 100 => n = c)
  BY <1>1
<1> QED BY <1>2, <1>3 DEF c

\* The formulas for c servers agree with those for one, for the rates of the lab.
LEMMA OneServerTheory ==
  \A lambda, mu \in 1..4 :
    LET theory == Theory(lambda, mu, 1)
    IN  /\ theory.valid <=> lambda < mu
        /\ theory.valid => lambda * theory.W * (mu - lambda) = lambda * theory.den
<1> SUFFICES ASSUME NEW lambda \in 1..4, NEW mu \in 1..4
             PROVE  /\ Theory(lambda, mu, 1).valid <=> lambda < mu
                    /\ Theory(lambda, mu, 1).valid =>
                         lambda * Theory(lambda, mu, 1).W * (mu - lambda) = lambda * Theory(lambda, mu, 1).den
  OBVIOUS
<1>1. CASE lambda >= mu
  <2>1. Theory(lambda, mu, 1) = [valid |-> FALSE]
    BY <1>1 DEF Theory
  <2> QED BY <1>1, <2>1
<1>2. CASE lambda < mu
  <2>1. /\ Theory(lambda, mu, 1).valid = TRUE /\ Theory(lambda, mu, 1).W = lambda + (mu - lambda)
        /\ Theory(lambda, mu, 1).den = mu * (mu - lambda)
    BY <1>2 DEF Theory
  <2>2. \A l, m \in 1..4 : l * (l + (m - l)) * (m - l) = l * (m * (m - l))
    <3> TAKE l, m \in 1..4
    <3>1. l \in {1, 2, 3, 4} /\ m \in {1, 2, 3, 4}
      OBVIOUS
    <3> QED BY <3>1
  <2> QED BY <1>2, <2>1, <2>2
<1> QED BY <1>1, <1>2

\* What the simulator prints adds up at every event.
LEMMA SimAddsUp == ASSUME SimInv PROVE ResultAddsUp
<1> DEFINE D == Completed
<1>1. SimTypes /\ SimClock /\ SimQueue /\ SimServers /\ SimSums
  BY DEF SimInv
<1>2. IsFiniteSet(D) /\ \A j \in D : arrivalTime[j] \in Int /\ startTime[j] \in Int /\ departureTime[j] \in Int
                                     /\ arrivalTime[j] <= startTime[j] /\ startTime[j] <= departureTime[j]
  <2>1. IsFiniteSet(D)
    BY <1>1, InServiceIs DEF Completed
  <2>2. ASSUME NEW j \in D
        PROVE  arrivalTime[j] \in Int /\ startTime[j] \in Int /\ departureTime[j] \in Int
               /\ arrivalTime[j] <= startTime[j] /\ startTime[j] <= departureTime[j]
    <3>1. j \in DOMAIN departureTime /\ j \in DOMAIN startTime /\ j \in DOMAIN arrivalTime
      BY <1>1 DEF Completed, SimTypes
    <3>2. arrivalTime[j] \in Nat /\ startTime[j] \in Nat /\ departureTime[j] \in Nat
      BY <1>1, <3>1 DEF SimTypes
    <3> QED BY <1>1, <3>1, <3>2 DEF SimClock
  <2> QED BY <2>1, <2>2
<1>3. /\ WaitTime \in [D -> Int] /\ SystemTime \in [D -> Int] /\ ServiceTime \in [D -> Int]
      /\ \A j \in D : SystemTime[j] = WaitTime[j] + ServiceTime[j] /\ WaitTime[j] <= SystemTime[j]
  BY <1>2 DEF WaitTime, SystemTime, ServiceTime
<1>4. Total(SystemTime) = Total(WaitTime) + Total(ServiceTime)
  <2> HIDE DEF D
  <2>1. SumFunction(SystemTime) = SumFunction(WaitTime) + SumFunction(ServiceTime)
    BY <1>2, <1>3, SumAdded
  <2> QED BY <2>1 DEF Total
<1>5. Total(ServiceTime) <= Servers * simNow
  <2>1. Total(ServiceTime) = TimeIn(DOMAIN departureTime, startTime, departureTime)
    BY Zenon DEF Total, ServiceTime, TimeIn, Completed
  <2>2. Since(InService, startTime, simNow) \in Nat
    <3>1. IsFiniteSet(InService) /\ InService \subseteq DOMAIN startTime
      BY <1>1, InServiceIs
    <3>2. simNow \in Int /\ \A j \in DOMAIN startTime : startTime[j] \in Int /\ startTime[j] <= simNow
      BY <1>1 DEF SimTypes, SimClock
    <3> QED BY <3>1, <3>2, SinceIsNat
  <2>3. TimeIn(DOMAIN departureTime, startTime, departureTime) \in Int
    <3>1. \A j \in DOMAIN departureTime : startTime[j] \in Int /\ departureTime[j] \in Int
      BY <1>2 DEF Completed
    <3>2. IsFiniteSet(DOMAIN departureTime)
      BY <1>2 DEF Completed
    <3> QED BY <3>1, <3>2, TimeInType
  <2>4. TimeIn(DOMAIN departureTime, startTime, departureTime) + Since(InService, startTime, simNow) <= Servers * simNow
    BY <1>1 DEF SimSums
  <2>5. Servers * simNow \in Int
    BY <1>1, SimAssumption DEF SimTypes
  <2> QED BY <2>1, <2>2, <2>3, <2>4, <2>5
<1> DEFINE n == (Cardinality(D) * 99) \div 100 + 1
<1> HIDE DEF D
<1>6. ASSUME D # {} PROVE P99(WaitTime) <= P99(SystemTime)
  <2>1. P99(WaitTime) = Smallest(WaitTime, n) /\ n \in 1..Cardinality(D) /\ P99(SystemTime) = Smallest(SystemTime, n)
    BY <1>2, <1>3, <1>6, P99Is
  <2> HIDE DEF n
  <2>2. Smallest(WaitTime, n) <= Smallest(SystemTime, n)
    BY <1>2, <1>3, <2>1, SmallestGrows
  <2> QED BY <2>1, <2>2
<1>7. ASSUME D # {}, Cardinality(D) <= 100 PROVE \A j \in D : SystemTime[j] <= P99(SystemTime)
  <2>1. P99(SystemTime) = Smallest(SystemTime, Cardinality(D))
    BY <1>2, <1>3, <1>7, P99Is
  <2> QED BY <1>2, <1>3, <2>1, SmallestBounds
<1> QED BY <1>4, <1>5, <1>6, <1>7, OneServerTheory DEF ResultAddsUp, D

----------------------------------------------------------------------------
(* The load tester *)

InFlight == {w \in Workers : at[w] = "request"}
TestInv ==
  /\ at \in [Workers -> {"loop", "sleeping", "request", "left"}]
  /\ sent \in Nat /\ stageRecords \in Nat /\ allRecords \in Nat
  /\ allRecords + stageRecords + Cardinality(InFlight) = sent
  /\ phase = "reported" => stageRecords = 0 /\ Gathered

\* The requests in flight are finitely many, one more or one less with a worker.
LEMMA InFlightIsFinite ==
  /\ IsFiniteSet(InFlight) /\ Cardinality(InFlight) \in Nat
  /\ \A w \in InFlight : Cardinality(InFlight \ {w}) = Cardinality(InFlight) - 1
  /\ \A w : w \notin InFlight => Cardinality(InFlight \cup {w}) = Cardinality(InFlight) + 1
  /\ InFlight = {} => Cardinality(InFlight) = 0
<1>1. InFlight \subseteq Workers
  BY DEF InFlight
<1>2. IsFiniteSet(InFlight)
  BY <1>1, WorkersAssumption, FS_Subset
<1> HIDE DEF InFlight
<1> QED BY <1>2, FS_CardinalityType, FS_RemoveElement, FS_AddElement, FS_EmptySet

\* TestInv holds before the first request.
LEMMA TestInitially == TestInit => TestInv
<1> SUFFICES ASSUME TestInit PROVE TestInv
  OBVIOUS
<1>1. InFlight = {}
  BY DEF TestInit, Started, InFlight
<1> QED BY <1>1, InFlightIsFinite DEF TestInit, Started, TestInv

\* A worker's step moves no other worker, and its own request into or out of the records.
LEMMA WorkerKeeps ==
  ASSUME TestInv, NEW w \in Workers, WorkerStep(w) \/ TargetAnswers(w)
  PROVE  TestInv'
<1>1. at \in [Workers -> {"loop", "sleeping", "request", "left"}] /\ sent \in Nat /\ stageRecords \in Nat /\ allRecords \in Nat
  BY DEF TestInv
<1>2. allRecords' = allRecords /\ phase' = phase
  BY DEF WorkerStep, TargetAnswers
<1>3. at[w] # "left" /\ phase # "reported"
  <2>1. at[w] # "left"
    BY DEF WorkerStep, TargetAnswers, Leave, SendClosed, SendOpen, SleepUntilSlot, SkipSlot, Timeout, Answer
  <2> QED BY <2>1 DEF TestInv, Gathered
<1>4. CASE Leave(w) \/ SleepUntilSlot(w) \/ SkipSlot(w)
  <2>1. /\ at' \in [Workers -> {"loop", "sleeping", "request", "left"}] /\ sent' = sent /\ stageRecords' = stageRecords
        /\ \A v \in Workers : at'[v] = "request" <=> at[v] = "request"
    BY <1>1, <1>4 DEF Leave, SleepUntilSlot, SkipSlot
  <2>2. InFlight' = InFlight
    BY <2>1 DEF InFlight
  <2> QED BY <1>1, <1>2, <1>3, <2>1, <2>2 DEF TestInv
<1>5. CASE SendClosed(w) \/ SendOpen(w)
  <2>1. /\ at' \in [Workers -> {"loop", "sleeping", "request", "left"}] /\ sent' = sent + 1 /\ stageRecords' = stageRecords
        /\ at[w] # "request" /\ \A v \in Workers : at'[v] = IF v = w THEN "request" ELSE at[v]
    BY <1>1, <1>5 DEF SendClosed, SendOpen, Send
  <2>2. InFlight' = InFlight \cup {w} /\ w \notin InFlight
    BY <2>1 DEF InFlight
  <2>3. Cardinality(InFlight') = Cardinality(InFlight) + 1 /\ Cardinality(InFlight) \in Nat
    BY <2>2, InFlightIsFinite
  <2> QED BY <1>1, <1>2, <1>3, <2>1, <2>3 DEF TestInv
<1>6. CASE Timeout(w) \/ Answer(w)
  <2>1. /\ at' \in [Workers -> {"loop", "sleeping", "request", "left"}] /\ sent' = sent /\ stageRecords' = stageRecords + 1
        /\ at[w] = "request" /\ \A v \in Workers : at'[v] = IF v = w THEN "loop" ELSE at[v]
    BY <1>1, <1>6 DEF Timeout, Answer, Recorded
  <2>2. InFlight' = InFlight \ {w} /\ w \in InFlight
    BY <2>1 DEF InFlight
  <2>3. Cardinality(InFlight') = Cardinality(InFlight) - 1 /\ Cardinality(InFlight) \in Nat
    BY <2>2, InFlightIsFinite
  <2> QED BY <1>1, <1>2, <1>3, <2>1, <2>3 DEF TestInv
<1> QED BY <1>4, <1>5, <1>6 DEF WorkerStep, TargetAnswers

\* TestInv survives a step of the load tester.
LEMMA TestStep == ASSUME TestInv, TestNext \/ UNCHANGED testVars PROVE TestInv'
<1>1. CASE \E w \in Workers : WorkerStep(w) \/ TargetAnswers(w)
  BY <1>1, WorkerKeeps
<1>2. CASE Signal \/ StopStage \/ TestTick \/ UNCHANGED testVars
  <2>1. /\ at' = at /\ sent' = sent /\ stageRecords' = stageRecords /\ allRecords' = allRecords
        /\ phase' = phase \/ phase' = "gathering"
    BY <1>2 DEF Signal, StopStage, TestTick, workerVars, testVars
  <2> QED BY <2>1 DEF TestInv, InFlight, Gathered
<1>3. CASE CollectStage
  <2>1. /\ at \in [Workers -> {"loop", "sleeping", "request", "left"}] /\ sent \in Nat /\ stageRecords \in Nat
        /\ allRecords \in Nat /\ allRecords + stageRecords + Cardinality(InFlight) = sent
    BY DEF TestInv
  <2>2. Gathered /\ allRecords' = allRecords + stageRecords /\ stageRecords' = 0 /\ sent' = sent
    BY <1>3 DEF CollectStage
  <2>3. /\ at' \in [Workers -> {"loop", "sleeping", "request", "left"}] /\ (\A w \in Workers : at'[w] # "request")
        /\ (phase' = "reported" => Gathered')
    BY <1>3, <2>1, <2>2 DEF CollectStage, Started, Gathered
  <2>4. InFlight = {} /\ InFlight' = {}
    BY <2>2, <2>3 DEF InFlight, Gathered
  <2>5. Cardinality(InFlight) = 0 /\ Cardinality(InFlight') = 0
    BY <2>4, FS_EmptySet
  <2> QED BY <2>1, <2>2, <2>3, <2>5 DEF TestInv
<1> QED BY <1>1, <1>2, <1>3 DEF TestNext

\* When the report is out nothing is in flight, so it counts every request.
LEMMA TestReport == ASSUME TestInv PROVE ReportIsComplete
<1>1. ASSUME phase = "reported" PROVE InFlight = {}
  BY <1>1 DEF TestInv, Gathered, InFlight
<1> QED BY <1>1, InFlightIsFinite DEF TestInv, ReportIsComplete

----------------------------------------------------------------------------
(* Ping-pong *)

Places == {"enter", "give", "tell", "look", "waiting", "woken", "done"}
PingTypes ==
  /\ how \in {"condition", "queue", "pipe"}
  /\ playerAt \in [Player -> Places] /\ gone \in [Player -> Nat] /\ inbox \in [Player -> Nat]

\* The turns the leader and the other have given away over conditions.
GivenByA == gone["a"] + (IF playerAt["a"] \in {"tell", "look", "waiting", "woken"} THEN 1 ELSE 0)
GivenByB == gone["b"] + (IF playerAt["b"] = "tell" THEN 1 ELSE 0)
OverConditions ==
  /\ inbox["a"] = 0 /\ inbox["b"] = 0
  /\ \/ whoseTurn = "a" /\ GivenByA = GivenByB
     \/ whoseTurn = "b" /\ GivenByA = GivenByB + 1
  /\ playerAt["a"] \in {"enter", "give", "done"} => whoseTurn = "a"
  /\ playerAt["b"] = "give" => whoseTurn = "b"

\* What the leader l has sent and the other, o, has received, and the other way round.
OverMessages(l, o) ==
  /\ playerAt[l] \in {"give", "look", "done"} /\ playerAt[o] \in {"give", "look", "done"}
  /\ gone[l] + (IF playerAt[l] = "look" THEN 1 ELSE 0) = gone[o] + (IF playerAt[o] = "give" THEN 1 ELSE 0) + inbox[o]
  /\ gone[o] = gone[l] + inbox[l]

PingInv ==
  /\ PingTypes
  /\ how = "condition" => OverConditions
  /\ how = "queue" => OverMessages("a", "b")
  /\ how = "pipe" => OverMessages("b", "a")

\* PingInv holds at the start of a game.
LEMMA PingInitially == PingInit => PingInv
  BY DEF PingInit, PingInv, PingTypes, Places, OverConditions, OverMessages, GivenByA, GivenByB, Player, Leads, FirstMove

\* The two players, and which of them leads.
LEMMA PlayersAre == /\ Player = {"a", "b"} /\ Other("a") = "b" /\ Other("b") = "a"
                    /\ (Leads("a") <=> how # "pipe") /\ (Leads("b") <=> how = "pipe")
  BY DEF Player, Other, Leads

\* A half round ends: what becomes of the player, and that the other stays what it was.
LEMMA ProceedIs ==
  ASSUME PingTypes, NEW p \in Player, NEW halfAt \in {"give", "look"}, NEW places \in [Player -> Places], NEW held,
         Proceed(p, halfAt, places, held)
  PROVE  /\ gone' \in [Player -> Nat] /\ playerAt' \in [Player -> Places]
         /\ gone'[Other(p)] = gone[Other(p)] /\ playerAt'[Other(p)] = places[Other(p)]
         /\ halfAt = "look" /\ Leads(p) => gone'[p] = gone[p] + 1 /\ playerAt'[p] \in {"done", "give"}
         /\ halfAt = "look" /\ ~Leads(p) => gone'[p] = gone[p] /\ playerAt'[p] = "give"
         /\ halfAt = "give" /\ Leads(p) => gone'[p] = gone[p] /\ playerAt'[p] = "look"
         /\ halfAt = "give" /\ ~Leads(p) => gone'[p] = gone[p] + 1 /\ playerAt'[p] \in {"done", "look"}
<1>1. p # Other(p) /\ Other(p) \in Player
  BY DEF Player, Other
<1>2. gone \in [Player -> Nat] /\ (Leads(p) \in BOOLEAN)
  BY DEF PingTypes, Leads
<1>3. CASE Leads(p) <=> (halfAt = "look")
  <2>1. gone' = [gone EXCEPT ![p] = @ + 1]
    BY <1>2, <1>3 DEF Proceed
  <2>2. playerAt' = [places EXCEPT ![p] = IF gone[p] + 1 = pingPongs THEN "done" ELSE IF halfAt = "look" THEN "give" ELSE "look"]
    BY <1>2, <1>3 DEF Proceed
  <2> QED BY <1>1, <1>2, <1>3, <2>1, <2>2 DEF Places
<1>4. CASE ~(Leads(p) <=> (halfAt = "look"))
  <2>1. gone' = [gone EXCEPT ![p] = @]
    BY <1>2, <1>4 DEF Proceed
  <2>2. playerAt' = [places EXCEPT ![p] = IF halfAt = "look" THEN "give" ELSE "look"]
    BY <1>2, <1>4 DEF Proceed
  <2> QED BY <1>1, <1>2, <1>4, <2>1, <2>2 DEF Places
<1> QED BY <1>3, <1>4

\* A step of a player on the condition keeps the invariant of that way.
LEMMA ByCondition ==
  ASSUME PingInv, how = "condition", NEW p \in Player, PlayerStep(p)
  PROVE  PingTypes' /\ OverConditions'
<1>1. PingTypes /\ OverConditions
  BY DEF PingInv
<1>2. /\ playerAt \in [Player -> Places] /\ gone \in [Player -> Nat] /\ inbox \in [Player -> Nat]
      /\ gone["a"] \in Nat /\ gone["b"] \in Nat
  BY <1>1, PlayersAre DEF PingTypes
<1>3. how' = how
  BY DEF PlayerStep, Enter, Give, Tell, Look, WakeUp, SendTurn, ReceiveTurn
<1>4. p \in {"a", "b"}
  BY DEF Player
<1>5. CASE Enter(p) \/ WakeUp(p) \/ Give(p)
  <2>1. /\ inbox' = inbox /\ gone' = gone /\ playerAt' \in [Player -> Places]
        /\ playerAt'[Other(p)] = playerAt[Other(p)]
        /\ IF Give(p) THEN whoseTurn' = Other(p) /\ playerAt[p] = "give" /\ playerAt'[p] = "tell"
           ELSE whoseTurn' = whoseTurn /\ \/ playerAt[p] = "enter" /\ playerAt'[p] = FirstMove(p)
                                          \/ playerAt[p] = "woken" /\ playerAt'[p] = "look"
    BY <1>2, <1>4, <1>5, PlayersAre DEF Enter, WakeUp, Give, FirstMove, Places
  <2>2. PingTypes'
    BY <1>1, <1>3, <2>1 DEF PingTypes
  <2>3. ASSUME p = "a" PROVE OverConditions'
    BY <1>1, <1>2, <2>1, <2>3, PlayersAre DEF OverConditions, GivenByA, GivenByB, FirstMove
  <2>4. ASSUME p = "b" PROVE OverConditions'
    BY <1>1, <1>2, <2>1, <2>4, PlayersAre DEF OverConditions, GivenByA, GivenByB, FirstMove
  <2> QED BY <1>4, <2>2, <2>3, <2>4
<1>6. CASE Tell(p)
  <2> DEFINE W == Woken(Other(p))
  <2>1. /\ W \in [Player -> Places] /\ W[p] = playerAt[p]
        /\ W[Other(p)] = IF playerAt[Other(p)] = "waiting" THEN "woken" ELSE playerAt[Other(p)]
    BY <1>2, <1>4, PlayersAre DEF Woken, Places
  <2>2. playerAt[p] = "tell" /\ Proceed(p, "give", W, heldBy) /\ whoseTurn' = whoseTurn /\ inbox' = inbox
    BY <1>6 DEF Tell
  <2> HIDE DEF W
  <2>3. /\ gone' \in [Player -> Nat] /\ playerAt' \in [Player -> Places]
        /\ gone'[Other(p)] = gone[Other(p)] /\ playerAt'[Other(p)] = W[Other(p)]
        /\ ~Leads(p) => gone'[p] = gone[p] + 1 /\ playerAt'[p] \in {"done", "look"}
        /\ Leads(p) => gone'[p] = gone[p] /\ playerAt'[p] = "look"
    BY <1>1, <2>1, <2>2, ProceedIs
  <2>4. PingTypes'
    BY <1>1, <1>3, <2>2, <2>3 DEF PingTypes
  <2>5. ASSUME p = "a" PROVE OverConditions'
    BY <1>1, <1>2, <2>1, <2>2, <2>3, <2>5, PlayersAre DEF OverConditions, GivenByA, GivenByB
  <2>6. ASSUME p = "b" PROVE OverConditions'
    BY <1>1, <1>2, <2>1, <2>2, <2>3, <2>6, PlayersAre DEF OverConditions, GivenByA, GivenByB
  <2> QED BY <1>4, <2>4, <2>5, <2>6
<1>7. CASE Look(p) /\ whoseTurn = p
  <2>1. playerAt[p] = "look" /\ Proceed(p, "look", playerAt, heldBy) /\ whoseTurn' = whoseTurn /\ inbox' = inbox
    BY <1>7 DEF Look
  <2>2. /\ gone' \in [Player -> Nat] /\ playerAt' \in [Player -> Places]
        /\ gone'[Other(p)] = gone[Other(p)] /\ playerAt'[Other(p)] = playerAt[Other(p)]
        /\ Leads(p) => gone'[p] = gone[p] + 1 /\ playerAt'[p] \in {"done", "give"}
        /\ ~Leads(p) => gone'[p] = gone[p] /\ playerAt'[p] = "give"
    BY <1>1, <1>2, <2>1, ProceedIs
  <2>3. PingTypes'
    BY <1>1, <1>3, <2>1, <2>2 DEF PingTypes
  <2>4. ASSUME p = "a" PROVE OverConditions'
    BY <1>1, <1>2, <1>7, <2>1, <2>2, <2>4, PlayersAre DEF OverConditions, GivenByA, GivenByB
  <2>5. ASSUME p = "b" PROVE OverConditions'
    BY <1>1, <1>2, <1>7, <2>1, <2>2, <2>5, PlayersAre DEF OverConditions, GivenByA, GivenByB
  <2> QED BY <1>4, <2>3, <2>4, <2>5
<1>8. CASE Look(p) /\ whoseTurn # p
  <2>1. /\ playerAt[p] = "look" /\ gone' = gone /\ whoseTurn' = whoseTurn /\ inbox' = inbox
        /\ playerAt' = [playerAt EXCEPT ![p] = "waiting"]
    BY <1>8 DEF Look
  <2>2. playerAt' \in [Player -> Places] /\ playerAt'[p] = "waiting" /\ playerAt'[Other(p)] = playerAt[Other(p)]
    BY <1>2, <1>4, <2>1, PlayersAre DEF Places
  <2>3. PingTypes'
    BY <1>1, <1>3, <2>1, <2>2 DEF PingTypes
  <2>4. ASSUME p = "a" PROVE OverConditions'
    BY <1>1, <1>2, <2>1, <2>2, <2>4, PlayersAre DEF OverConditions, GivenByA, GivenByB
  <2>5. ASSUME p = "b" PROVE OverConditions'
    BY <1>1, <1>2, <2>1, <2>2, <2>5, PlayersAre DEF OverConditions, GivenByA, GivenByB
  <2> QED BY <1>4, <2>3, <2>4, <2>5
<1> QED BY <1>5, <1>6, <1>7, <1>8 DEF PlayerStep, SendTurn, ReceiveTurn

\* A step of a player on queues or pipes keeps the invariant of that way.
LEMMA ByMessages ==
  ASSUME PingInv, how # "condition", NEW l \in Player, Leads(l), NEW p \in Player, PlayerStep(p)
  PROVE  PingTypes' /\ OverMessages(l, Other(l))'
<1> DEFINE o == Other(l)
<1>1. PingTypes /\ OverMessages(l, o) /\ o \in Player /\ o # l /\ ~Leads(o) /\ p \in {l, o} /\ Other(o) = l
  BY PlayersAre DEF PingInv, PingTypes
<1>2. /\ playerAt \in [Player -> Places] /\ gone \in [Player -> Nat] /\ inbox \in [Player -> Nat]
      /\ gone[l] \in Nat /\ gone[o] \in Nat /\ inbox[l] \in Nat /\ inbox[o] \in Nat
  BY <1>1 DEF PingTypes
<1>3. how' = how
  BY DEF PlayerStep, Enter, Give, Tell, Look, WakeUp, SendTurn, ReceiveTurn
<1>4. SendTurn(p) \/ ReceiveTurn(p)
  <2>1. playerAt[p] \in {"give", "look", "done"}
    BY <1>1 DEF OverMessages
  <2> QED BY <2>1 DEF PlayerStep, Enter, Give, Tell, Look, WakeUp
<1> HIDE DEF o
<1>5. CASE SendTurn(p)
  <2>1. playerAt[p] = "give" /\ Proceed(p, "give", playerAt, heldBy) /\ inbox' = [inbox EXCEPT ![Other(p)] = @ + 1]
    BY <1>5 DEF SendTurn
  <2>2. /\ gone' \in [Player -> Nat] /\ playerAt' \in [Player -> Places]
        /\ gone'[Other(p)] = gone[Other(p)] /\ playerAt'[Other(p)] = playerAt[Other(p)]
        /\ ~Leads(p) => gone'[p] = gone[p] + 1 /\ playerAt'[p] \in {"done", "look"}
        /\ Leads(p) => gone'[p] = gone[p] /\ playerAt'[p] = "look"
    BY <1>1, <1>2, <2>1, ProceedIs
  <2>3. /\ inbox' \in [Player -> Nat] /\ Other(p) # p /\ inbox'[p] = inbox[p] /\ inbox'[Other(p)] = inbox[Other(p)] + 1
    BY <1>1, <1>2, <2>1, PlayersAre DEF o
  <2>4. PingTypes'
    BY <1>1, <1>3, <2>2, <2>3 DEF PingTypes
  <2>5. ASSUME p = l PROVE OverMessages(l, o)'
    <3>1. /\ playerAt[l] = "give" /\ playerAt'[l] = "look" /\ playerAt'[o] = playerAt[o]
          /\ gone'[l] = gone[l] /\ gone'[o] = gone[o] /\ inbox'[l] = inbox[l] /\ inbox'[o] = inbox[o] + 1
      BY <1>1, <2>1, <2>2, <2>3, <2>5 DEF o
    <3> QED BY <1>1, <1>2, <3>1 DEF OverMessages
  <2>6. ASSUME p = o PROVE OverMessages(l, o)'
    <3>1. /\ playerAt[o] = "give" /\ playerAt'[o] \in {"done", "look"} /\ playerAt'[l] = playerAt[l]
          /\ gone'[o] = gone[o] + 1 /\ gone'[l] = gone[l] /\ inbox'[o] = inbox[o] /\ inbox'[l] = inbox[l] + 1
      BY <1>1, <2>1, <2>2, <2>3, <2>6
    <3> QED BY <1>1, <1>2, <3>1 DEF OverMessages
  <2> QED BY <1>1, <2>4, <2>5, <2>6 DEF o
<1>6. CASE ReceiveTurn(p)
  <2>1. playerAt[p] = "look" /\ inbox[p] > 0 /\ Proceed(p, "look", playerAt, heldBy) /\ inbox' = [inbox EXCEPT ![p] = @ - 1]
    BY <1>6 DEF ReceiveTurn
  <2>2. /\ gone' \in [Player -> Nat] /\ playerAt' \in [Player -> Places]
        /\ gone'[Other(p)] = gone[Other(p)] /\ playerAt'[Other(p)] = playerAt[Other(p)]
        /\ Leads(p) => gone'[p] = gone[p] + 1 /\ playerAt'[p] \in {"done", "give"}
        /\ ~Leads(p) => gone'[p] = gone[p] /\ playerAt'[p] = "give"
    BY <1>1, <1>2, <2>1, ProceedIs
  <2>3. /\ inbox' \in [Player -> Nat] /\ Other(p) # p /\ inbox'[p] = inbox[p] - 1 /\ inbox'[Other(p)] = inbox[Other(p)]
    BY <1>1, <1>2, <2>1, PlayersAre DEF o
  <2>4. PingTypes'
    BY <1>1, <1>3, <2>2, <2>3 DEF PingTypes
  <2>5. ASSUME p = l PROVE OverMessages(l, o)'
    <3>1. /\ playerAt[l] = "look" /\ playerAt'[l] \in {"done", "give"} /\ playerAt'[o] = playerAt[o] /\ inbox[l] > 0
          /\ gone'[l] = gone[l] + 1 /\ gone'[o] = gone[o] /\ inbox'[l] = inbox[l] - 1 /\ inbox'[o] = inbox[o]
      BY <1>1, <2>1, <2>2, <2>3, <2>5 DEF o
    <3> QED BY <1>1, <1>2, <3>1 DEF OverMessages
  <2>6. ASSUME p = o PROVE OverMessages(l, o)'
    <3>1. /\ playerAt[o] = "look" /\ playerAt'[o] = "give" /\ playerAt'[l] = playerAt[l] /\ inbox[o] > 0
          /\ gone'[o] = gone[o] /\ gone'[l] = gone[l] /\ inbox'[o] = inbox[o] - 1 /\ inbox'[l] = inbox[l]
      BY <1>1, <2>1, <2>2, <2>3, <2>6
    <3> QED BY <1>1, <1>2, <3>1 DEF OverMessages
  <2> QED BY <1>1, <2>4, <2>5, <2>6 DEF o
<1> QED BY <1>4, <1>5, <1>6

\* PingInv survives a step of a player.
LEMMA PingStep == ASSUME PingInv, PingNext \/ UNCHANGED pingVars PROVE PingInv'
<1>1. CASE UNCHANGED pingVars
  BY <1>1 DEF pingVars, PingInv, PingTypes, OverConditions, OverMessages, GivenByA, GivenByB
<1>2. CASE PingNext
  <2>1. PICK p \in Player : PlayerStep(p)
    BY <1>2 DEF PingNext
  <2>2. how' = how
    BY <2>1 DEF PlayerStep, Enter, Give, Tell, Look, WakeUp, SendTurn, ReceiveTurn
  <2>3. CASE how = "condition"
    BY <2>1, <2>2, <2>3, ByCondition DEF PingInv
  <2>4. CASE how = "queue"
    <3>1. Leads("a") /\ Other("a") = "b" /\ "a" \in Player
      BY <2>4, PlayersAre
    <3>2. PingTypes' /\ OverMessages("a", Other("a"))'
      BY <2>1, <2>4, <3>1, ByMessages
    <3>3. OverMessages("a", "b")'
      BY <3>1, <3>2 DEF OverMessages
    <3> QED BY <2>2, <2>4, <3>2, <3>3 DEF PingInv
  <2>5. CASE how = "pipe"
    <3>1. Leads("b") /\ Other("b") = "a" /\ "b" \in Player
      BY <2>5, PlayersAre
    <3>2. PingTypes' /\ OverMessages("b", Other("b"))'
      BY <2>1, <2>5, <3>1, ByMessages
    <3>3. OverMessages("b", "a")'
      BY <3>1, <3>2 DEF OverMessages
    <3> QED BY <2>2, <2>5, <3>2, <3>3 DEF PingInv
  <2> QED BY <2>3, <2>4, <2>5 DEF PingInv, PingTypes
<1> QED BY <1>1, <1>2

\* Of PingInv it follows that turns alternate.
LEMMA PingTurns == ASSUME PingInv PROVE TurnsAlternate
<1> DEFINE S == {p \in Player : playerAt[p] = "give"} \cup {p \in Player : inbox[p] > 0}
<1>1. gone["a"] \in Nat /\ gone["b"] \in Nat /\ inbox["a"] \in Nat /\ inbox["b"] \in Nat /\ how \in {"condition", "queue", "pipe"}
  BY PlayersAre DEF PingInv, PingTypes
<1>2. /\ ~(playerAt["a"] = "give" /\ playerAt["b"] = "give") /\ ~(inbox["a"] > 0 /\ inbox["b"] > 0)
      /\ ~(playerAt["a"] = "give" /\ inbox["b"] > 0) /\ ~(playerAt["b"] = "give" /\ inbox["a"] > 0)
      /\ gone["a"] - gone["b"] \in {-1, 0, 1}
  <2>1. CASE how = "condition"
    <3>1. playerAt["a"] \in Places
      BY PlayersAre DEF PingInv, PingTypes
    <3> QED BY <1>1, <2>1, <3>1 DEF PingInv, OverConditions, GivenByA, GivenByB, Places
  <2>2. CASE how = "queue"
    BY <1>1, <2>2 DEF PingInv, OverMessages
  <2>3. CASE how = "pipe"
    BY <1>1, <2>3 DEF PingInv, OverMessages
  <2> QED BY <1>1, <2>1, <2>2, <2>3
<1>6. S \subseteq {"a", "b"} /\ ~({"a", "b"} \subseteq S)
  BY <1>2, PlayersAre
<1>3. \E x : S \subseteq {x}
  BY <1>6
<1>4. Cardinality(S) <= 1
  <2>1. PICK x : S \subseteq {x}
    BY <1>3
  <2>2. IsFiniteSet({x}) /\ Cardinality({x}) = 1
    BY FS_Singleton
  <2> HIDE DEF S
  <2> QED BY <2>1, <2>2, FS_Subset
<1>5. \A p \in Player : gone[p] - gone[Other(p)] \in {-1, 0, 1}
  BY <1>1, <1>2, PlayersAre
<1> QED BY <1>4, <1>5 DEF TurnsAlternate

----------------------------------------------------------------------------
(* Lock contention *)

CountTypes ==
  /\ iterations \in Nat
  /\ cells \in [0..NumCounters -> Int] /\ todo \in [Counter -> Int]
  /\ counterAt \in [Counter -> {"loop", "locked", "read"}] /\ seen \in [Counter -> Int]

CountInv ==
  /\ CountTypes /\ NoCountIsLost
  /\ \A w \in Counter : counterAt[w] = "read" => seen[w] = cells[CellOf(w)]
  /\ IF Sharded THEN \A w \in Counter : counterAt[w] # "locked"
     ELSE \A v, w \in Counter : counterAt[v] # "loop" /\ counterAt[w] # "loop" => v = w

\* The workers are finitely many, and sharded ones have cells of their own.
LEMMA CountersAre ==
  /\ NumCounters \in Nat \ {0} /\ IsFiniteSet(0..NumCounters) /\ IsFiniteSet(Counter) /\ Cardinality(Counter) = NumCounters
  /\ \A w \in Counter : CellOf(w) \in 0..NumCounters /\ \A v \in Counter : Sharded => (CellOf(v) = CellOf(w) => v = w)
<1>1. NumCounters \in Nat \ {0}
  BY CountersAssumption
<1>2. IsFiniteSet(0..NumCounters) /\ IsFiniteSet(1..NumCounters) /\ Cardinality(1..NumCounters) = NumCounters
  BY <1>1, FS_Interval
<1> QED BY <1>1, <1>2 DEF Counter, CellOf

\* CountInv holds before the first increment.
LEMMA CountInitially == CountInit => CountInv
<1> SUFFICES ASSUME CountInit PROVE CountInv
  OBVIOUS
<1> DEFINE n == NumCounters
           i == iterations
<1>1. n \in Nat \ {0} /\ i \in Nat /\ IsFiniteSet(0..n) /\ IsFiniteSet(Counter) /\ Cardinality(Counter) = n
  BY CountersAre, CountersAssumption DEF CountInit
<1>2. cells = [c \in 0..n |-> 0] /\ todo = [w \in Counter |-> i \div n]
  BY DEF CountInit
<1>3. i \div n \in Int /\ n * (i \div n) = i - (i % n)
  BY <1>1
<1>4. Cardinality(0..n) \in Nat
  BY <1>1, FS_CardinalityType
<1> HIDE DEF n, i
<1>5. SumFunction([c \in 0..n |-> 0]) = Cardinality(0..n) * 0 /\ SumFunction([w \in Counter |-> i \div n]) = n * (i \div n)
  <2>1. \A D, c : IsFiniteSet(D) /\ c \in Int => SumFunction([x \in D |-> c]) = Cardinality(D) * c
    BY SumOfTheSame
  <2>2. SumFunction([x \in 0..n |-> 0]) = Cardinality(0..n) * 0
    <3>1. 0 \in Int
      OBVIOUS
    <3> QED BY <1>1, <2>1, <3>1, Zenon
  <2>3. SumFunction([x \in Counter |-> i \div n]) = Cardinality(Counter) * (i \div n)
    BY <1>1, <1>3, <2>1, Zenon
  <2> QED BY <1>1, <2>2, <2>3, Zenon
<1>6. NoCountIsLost
  <2>1. SumFunction(cells) = 0 /\ SumFunction(todo) = i - (i % n)
    BY <1>2, <1>3, <1>4, <1>5
  <2>2. i - (i % n) \in Int
    BY <1>1, <1>3
  <2> QED BY <2>1, <2>2 DEF NoCountIsLost, n, i
<1>7. CountTypes
  BY <1>1, <1>2, <1>3 DEF CountInit, CountTypes, n, i
<1> QED BY <1>6, <1>7 DEF CountInit, CountInv

\* The write adds the increment that its worker has left.
LEMMA WriteKeepsCount ==
  ASSUME CountInv, NEW w \in Counter, WriteCell(w)
  PROVE  SumFunction(cells') + SumFunction(todo') = SumFunction(cells) + SumFunction(todo)
<1> DEFINE c == CellOf(w)
<1>1. c \in 0..NumCounters /\ IsFiniteSet(0..NumCounters) /\ IsFiniteSet(Counter)
  BY CountersAre
<1>2. cells \in [0..NumCounters -> Int] /\ todo \in [Counter -> Int] /\ seen[w] = cells[c]
  BY DEF CountInv, CountTypes, WriteCell
<1> HIDE DEF c
<1>3. cells' = [cells EXCEPT ![c] = seen[w] + 1] /\ todo' = [todo EXCEPT ![w] = @ - 1]
  BY DEF WriteCell, c
<1>4. /\ cells' \in [0..NumCounters -> Int] /\ cells'[c] = cells[c] + 1 /\ \A d \in (0..NumCounters) \ {c} : cells'[d] = cells[d]
      /\ todo' \in [Counter -> Int] /\ todo'[w] = todo[w] - 1 /\ \A v \in Counter \ {w} : todo'[v] = todo[v]
      /\ cells[c] \in Int /\ todo[w] \in Int
  BY <1>1, <1>2, <1>3
<1>5. SumFunction(cells') = SumFunction(cells) - cells[c] + cells'[c]
  <2> DEFINE D == 0..NumCounters
  <2>1. /\ IsFiniteSet(D) /\ c \in D /\ cells \in [D -> Int] /\ cells' \in [D -> Int]
        /\ \A d \in D \ {c} : cells'[d] = cells[d]
    BY <1>1, <1>2, <1>4
  <2> HIDE DEF D
  <2> QED BY <2>1, SumUpdated, Zenon
<1>6. SumFunction(todo') = SumFunction(todo) - todo[w] + todo'[w]
  BY <1>1, <1>2, <1>4, SumUpdated
<1>7. SumFunction(cells) \in Int /\ SumFunction(todo) \in Int
  BY <1>1, <1>2, SumType
<1>8. cells[c] \in Int /\ todo[w] \in Int /\ cells'[c] = cells[c] + 1 /\ todo'[w] = todo[w] - 1
  BY <1>4
<1> QED BY <1>5, <1>6, <1>7, <1>8

\* CountInv survives a step of a worker.
LEMMA CountStep == ASSUME CountInv, CountNext \/ UNCHANGED countVars PROVE CountInv'
<1>1. CountTypes /\ NoCountIsLost
  BY DEF CountInv
<1>2. CASE UNCHANGED countVars
  BY <1>2 DEF countVars, CountInv, CountTypes, NoCountIsLost, Sharded, CellOf
<1>3. ASSUME NEW w \in Counter, LockCounter(w) PROVE CountInv'
  <2>1. CountTypes' /\ NoCountIsLost'
    BY <1>1, <1>3 DEF LockCounter, CountTypes, NoCountIsLost
  <2>2. /\ ~Sharded /\ Sharded' = Sharded /\ cells' = cells /\ seen' = seen /\ \A v \in Counter : counterAt[v] = "loop"
        /\ \A v \in Counter : CellOf(v)' = CellOf(v) /\ counterAt'[v] = IF v = w THEN "locked" ELSE "loop"
    BY <1>1, <1>3 DEF LockCounter, Sharded, CellOf, CountTypes
  <2> QED BY <2>1, <2>2 DEF CountInv
<1>4. ASSUME NEW w \in Counter, ReadCell(w) PROVE CountInv'
  <2>1. CellOf(w) \in 0..NumCounters
    BY CountersAre
  <2>2. CountTypes' /\ NoCountIsLost'
    BY <1>1, <1>4, <2>1 DEF ReadCell, CountTypes, NoCountIsLost
  <2>3. /\ (Sharded' <=> Sharded) /\ cells' = cells /\ counterAt[w] = (IF Sharded THEN "loop" ELSE "locked")
        /\ \A v \in Counter : /\ CellOf(v)' = CellOf(v) /\ counterAt'[v] = IF v = w THEN "read" ELSE counterAt[v]
                              /\ seen'[v] = IF v = w THEN cells[CellOf(w)] ELSE seen[v]
    BY <1>1, <1>4 DEF ReadCell, Sharded, CellOf, CountTypes
  <2>4. /\ \A v \in Counter : counterAt[v] = "read" => seen[v] = cells[CellOf(v)]
        /\ Sharded => \A v \in Counter : counterAt[v] # "locked"
        /\ ~Sharded => \A u, v \in Counter : counterAt[u] # "loop" /\ counterAt[v] # "loop" => u = v
    BY DEF CountInv
  <2>5. \A v \in Counter : counterAt'[v] = "read" => seen'[v] = cells'[CellOf(v)']
    BY <2>3, <2>4
  <2>6. Sharded => \A v \in Counter : counterAt'[v] # "locked"
    BY <2>3, <2>4
  <2>7. ~Sharded => \A u, v \in Counter : counterAt'[u] # "loop" /\ counterAt'[v] # "loop" => u = v
    BY <2>3, <2>4
  <2> QED BY <2>2, <2>3, <2>5, <2>6, <2>7 DEF CountInv
<1>5. ASSUME NEW w \in Counter, WriteCell(w) PROVE CountInv'
  <2>1. CellOf(w) \in 0..NumCounters
    BY CountersAre
  <2>2. CountTypes'
    BY <1>1, <1>5, <2>1 DEF WriteCell, CountTypes
  <2>3. NoCountIsLost'
    <3>1. SumFunction(cells') + SumFunction(todo') = SumFunction(cells) + SumFunction(todo) /\ iterations' = iterations
      BY <1>5, WriteKeepsCount DEF WriteCell
    <3> QED BY <1>1, <3>1 DEF NoCountIsLost
  <2>4. /\ (Sharded' <=> Sharded) /\ counterAt[w] = "read"
        /\ \A v \in Counter : /\ CellOf(v)' = CellOf(v) /\ counterAt'[v] = IF v = w THEN "loop" ELSE counterAt[v]
                              /\ seen'[v] = seen[v] /\ (CellOf(v) # CellOf(w) => cells'[CellOf(v)] = cells[CellOf(v)])
    <3>1. cells' = [cells EXCEPT ![CellOf(w)] = seen[w] + 1] /\ seen' = seen /\ strategy' = strategy
          /\ counterAt[w] = "read" /\ counterAt' = [counterAt EXCEPT ![w] = "loop"]
      BY <1>5 DEF WriteCell
    <3>2. \A v \in Counter : CellOf(v) \in 0..NumCounters /\ CellOf(v)' = CellOf(v)
      BY <3>1, CountersAre DEF CellOf, Sharded
    <3> QED BY <1>1, <2>1, <3>1, <3>2 DEF Sharded, CountTypes
  <2>5. /\ \A v \in Counter : counterAt[v] = "read" => seen[v] = cells[CellOf(v)]
        /\ Sharded => \A v \in Counter : counterAt[v] # "locked"
        /\ ~Sharded => \A u, v \in Counter : counterAt[u] # "loop" /\ counterAt[v] # "loop" => u = v
    BY DEF CountInv
  <2>6. \A v \in Counter : counterAt'[v] = "read" => seen'[v] = cells'[CellOf(v)']
    <3> TAKE v \in Counter
    <3> HAVE counterAt'[v] = "read"
    <3>1. v # w /\ counterAt[v] = "read"
      BY <2>4
    <3>2. Sharded
      BY <2>4, <2>5, <3>1
    <3>3. CellOf(v) # CellOf(w)
      BY <3>1, <3>2, CountersAre
    <3> QED BY <2>4, <2>5, <3>1, <3>3
  <2>7. Sharded => \A v \in Counter : counterAt'[v] # "locked"
    BY <2>4, <2>5
  <2>8. ~Sharded => \A u, v \in Counter : counterAt'[u] # "loop" /\ counterAt'[v] # "loop" => u = v
    BY <2>4, <2>5
  <2> QED BY <2>2, <2>3, <2>4, <2>6, <2>7, <2>8 DEF CountInv
<1> QED BY <1>2, <1>3, <1>4, <1>5 DEF CountNext

----------------------------------------------------------------------------
(* The pod and the node *)

\* Quotient and remainder of natural numbers.
LEMMA Division ==
  ASSUME NEW n \in Nat, NEW k \in Nat \ {0}
  PROVE  /\ n \div k \in Int /\ n \div k >= 0 /\ 0 <= n % k /\ n % k < k
         /\ k * (n \div k) \in Int /\ n = k * (n \div k) + (n % k)
<1>1. n \div k \in Int /\ n \div k >= 0 /\ n % k \in 0..(k - 1)
  OBVIOUS
<1>2. k * (n \div k) = n - (n % k)
  OBVIOUS
<1>3. k * (n \div k) \in Int
  BY <1>1
<1> DEFINE q == n \div k
           m == n % k
           x == k * (n \div k)
<1>4. q >= 0 /\ q \in Int /\ m \in 0..(k - 1) /\ x = n - m /\ x \in Int
  BY <1>1, <1>2, <1>3
<1> HIDE DEF x, q, m
<1>5. q \in Int /\ q >= 0 /\ 0 <= m /\ m < k /\ x \in Int /\ n = x + m
  BY <1>4
<1> QED BY <1>5, Zenon DEF x, q, m

\* What fits k times is at most the quotient by k.
LEMMA DividedBy == ASSUME NEW r \in Nat, NEW n \in Nat, NEW k \in Nat \ {0}, r * k <= n PROVE r <= n \div k
<1> DEFINE q == n \div k
<1>1. q \in Nat /\ n < (q + 1) * k
  <2>1. q \in Int /\ 0 <= n % k /\ n % k < k /\ n = k * q + (n % k)
    BY Division
  <2>2. q >= 0
    OBVIOUS
  <2> HIDE DEF q
  <2>3. (q + 1) * k = k * q + k
    BY <2>1
  <2> QED BY <2>1, <2>2, <2>3
<1> HIDE DEF q
<1>2. ASSUME r >= q + 1 PROVE FALSE
  <2> DEFINE m == r - (q + 1)
  <2>1. m \in Nat /\ r = (q + 1) + m
    BY <1>1, <1>2
  <2> HIDE DEF m
  <2>2. r * k = (q + 1) * k + m * k /\ m * k \in Nat /\ (q + 1) * k \in Nat
    BY <1>1, <2>1
  <2> QED BY <1>1, <2>2
<1>3. r <= q
  BY <1>1, <1>2
<1> QED BY <1>3 DEF q

PodInv ==
  /\ pod \in [phase : {"Pending", "Running"}, healthy : BOOLEAN, ready : BOOLEAN, started : Nat, restarts : Nat]
  /\ podTicks \in Nat /\ startupDelay \in Nat /\ failAt \in Nat
  /\ pod.started <= podTicks
  /\ pod.phase = "Running" => podTicks - pod.started >= startupDelay + 1
  /\ pod.ready => pod.phase = "Running" /\ pod.healthy /\ podTicks - pod.started >= startupDelay + 2
  /\ ~pod.healthy \/ pod.restarts > 0 => podTicks > failAt
  /\ pod.restarts * (startupDelay + 1) <= pod.started

\* PodInv holds before the pod's first tick.
LEMMA PodInitially == PodInit => PodInv
<1> SUFFICES ASSUME PodInit PROVE PodInv
  OBVIOUS
<1>1. podTicks = 0 /\ startupDelay \in Nat /\ failAt \in Nat
  BY ClusterAssumption DEF PodInit
<1>2. pod = [phase |-> "Pending", healthy |-> TRUE, ready |-> FALSE, started |-> 0, restarts |-> 0]
  BY DEF PodInit
<1>3. 0 * (startupDelay + 1) = 0
  BY <1>1
<1> QED BY <1>1, <1>2, <1>3 DEF PodInv

\* PodInv survives a tick of the pod.
LEMMA PodStep == ASSUME PodInv, PodTick \/ UNCHANGED podVars PROVE PodInv'
<1>1. CASE UNCHANGED podVars
  BY <1>1 DEF podVars, PodInv
<1>2. CASE PodTick
  <2> DEFINE p == [pod EXCEPT !.healthy = @ /\ podTicks # failAt]
  <2>1. /\ podTicks' = podTicks + 1 /\ startupDelay' = startupDelay /\ failAt' = failAt /\ pod' = AfterTick(p)
        /\ podTicks \in Nat /\ startupDelay \in Nat /\ failAt \in Nat
    BY <1>2 DEF PodTick, PodInv
  <2>2. /\ p \in [phase : {"Pending", "Running"}, healthy : BOOLEAN, ready : BOOLEAN, started : Nat, restarts : Nat]
        /\ p.phase = pod.phase /\ p.started = pod.started /\ p.ready = pod.ready /\ p.restarts = pod.restarts
        /\ (p.healthy <=> pod.healthy /\ podTicks # failAt)
    BY DEF PodInv
  <2> HIDE DEF p
  <2>3. /\ p.started <= podTicks /\ (p.phase = "Running" => podTicks - p.started >= startupDelay + 1)
        /\ (p.ready => p.phase = "Running" /\ podTicks - p.started >= startupDelay + 2)
        /\ (~p.healthy \/ p.restarts > 0 => podTicks + 1 > failAt)
        /\ p.restarts * (startupDelay + 1) <= p.started
    BY <2>1, <2>2 DEF PodInv
  <2>4. CASE p.phase = "Pending" /\ StartupProbe
    <3>1. pod' = [p EXCEPT !.phase = "Running"] /\ podTicks - p.started >= startupDelay
      BY <2>1, <2>2, <2>4 DEF AfterTick, StartupProbe
    <3>2. /\ pod' \in [phase : {"Pending", "Running"}, healthy : BOOLEAN, ready : BOOLEAN, started : Nat, restarts : Nat]
          /\ pod'.phase = "Running" /\ pod'.healthy = p.healthy /\ ~pod'.ready /\ pod'.started = p.started
          /\ pod'.restarts = p.restarts
      BY <2>2, <2>3, <2>4, <3>1
    <3> QED BY <2>1, <2>2, <2>3, <3>1, <3>2 DEF PodInv
  <2>5. CASE p.phase = "Pending" /\ ~StartupProbe
    <3>1. pod' = p
      BY <2>1, <2>5 DEF AfterTick
    <3> QED BY <2>1, <2>2, <2>3, <2>5, <3>1 DEF PodInv
  <2>6. CASE p.phase = "Running" /\ p.healthy
    <3>1. pod' = [p EXCEPT !.ready = p.healthy]
      BY <2>1, <2>6 DEF AfterTick
    <3>2. /\ pod' \in [phase : {"Pending", "Running"}, healthy : BOOLEAN, ready : BOOLEAN, started : Nat, restarts : Nat]
          /\ pod'.phase = "Running" /\ pod'.healthy /\ pod'.started = p.started /\ pod'.restarts = p.restarts
      BY <2>2, <2>6, <3>1
    <3> QED BY <2>1, <2>2, <2>3, <2>6, <3>2 DEF PodInv
  <2>7. CASE p.phase = "Running" /\ ~p.healthy
    <3>1. pod' = [p EXCEPT !.phase = "Pending", !.started = podTicks, !.ready = FALSE, !.restarts = @ + 1]
      BY <2>1, <2>7 DEF AfterTick
    <3>2. /\ pod' \in [phase : {"Pending", "Running"}, healthy : BOOLEAN, ready : BOOLEAN, started : Nat, restarts : Nat]
          /\ pod'.phase = "Pending" /\ ~pod'.healthy /\ ~pod'.ready /\ pod'.started = podTicks /\ pod'.restarts = p.restarts + 1
      <4>1. p.restarts + 1 \in Nat /\ podTicks \in Nat
        BY <2>1, <2>2
      <4> DEFINE n == p.restarts + 1
                 q == [p EXCEPT !.phase = "Pending", !.started = podTicks, !.ready = FALSE, !.restarts = n]
      <4>2. pod' = q
        BY <2>2, <3>1
      <4> HIDE DEF n
      <4>3. /\ q \in [phase : {"Pending", "Running"}, healthy : BOOLEAN, ready : BOOLEAN, started : Nat, restarts : Nat]
            /\ q.phase = "Pending" /\ q.healthy = p.healthy /\ ~q.ready /\ q.started = podTicks /\ q.restarts = n
        BY <2>2, <4>1 DEF n
      <4> QED BY <2>7, <4>2, <4>3 DEF n
    <3> DEFINE d == startupDelay + 1
               r == p.restarts
    <3>3. d \in Nat /\ r \in Nat /\ r * d <= p.started /\ p.started + d <= podTicks /\ p.started \in Nat
      BY <2>1, <2>2, <2>3, <2>7
    <3> HIDE DEF d, r
    <3>4. (r + 1) * d = r * d + d /\ r * d \in Nat
      BY <3>3
    <3>5. (r + 1) * d <= podTicks
      BY <2>1, <3>3, <3>4
    <3>6. pod'.restarts * (startupDelay' + 1) <= pod'.started
      BY <2>1, <3>2, <3>5 DEF d, r
    <3> QED BY <2>1, <2>2, <2>3, <2>7, <3>2, <3>6 DEF PodInv
  <2> QED BY <2>2, <2>4, <2>5, <2>6, <2>7
<1> QED BY <1>1, <1>2

\* Of PodInv it follows that the probes are kept.
LEMMA PodProbes == ASSUME PodInv PROVE ProbesAreKept
<1>1. /\ pod.restarts \in Nat /\ pod.started \in Nat /\ podTicks \in Nat /\ startupDelay \in Nat
      /\ pod.started <= podTicks /\ pod.restarts * (startupDelay + 1) <= pod.started
  BY DEF PodInv
<1> DEFINE d == startupDelay + 1
<1>2. pod.restarts <= podTicks \div (startupDelay + 1)
  <2>1. d \in Nat \ {0} /\ pod.restarts * d \in Int /\ pod.restarts * d <= pod.started
    BY <1>1
  <2> HIDE DEF d
  <2>2. pod.restarts * d <= podTicks
    BY <1>1, <2>1
  <2>3. pod.restarts <= podTicks \div d
    BY <1>1, <2>1, <2>2, DividedBy
  <2> QED BY <2>3 DEF d
<1> QED BY <1>2 DEF PodInv, ProbesAreKept

----------------------------------------------------------------------------
PodOnNode == [cpu_request : Nat, cpu_limit : Nat, cpu_usage : Nat, mem_request : Nat, mem_limit : Nat,
              mem_usage : Nat, oom_killed : BOOLEAN, throttled : BOOLEAN]
Amounts == {"cpu_request", "cpu_usage", "mem_request"}

NodeInv ==
  /\ nodePods \in Seq(PodOnNode) /\ RequestsAreGuaranteed
  /\ \A i \in 1..Len(nodePods) : /\ nodePods[i].cpu_request <= nodePods[i].cpu_limit
                                 /\ nodePods[i].mem_request <= nodePods[i].mem_limit

\* The sum over the pods of a node is a natural number.
LEMMA SumOfType ==
  ASSUME NEW pods \in Seq(PodOnNode), NEW field \in Amounts
  PROVE  /\ [i \in DOMAIN pods |-> pods[i][field]] \in [1..Len(pods) -> Nat] /\ SumOf(pods, field) \in Nat
         /\ IsFiniteSet(1..Len(pods))
<1> DEFINE f == [i \in DOMAIN pods |-> pods[i][field]]
<1>1. \A p \in PodOnNode : p[field] \in Nat
  BY DEF PodOnNode, Amounts
<1>2. DOMAIN pods = 1..Len(pods) /\ Len(pods) \in Nat /\ \A i \in 1..Len(pods) : pods[i] \in PodOnNode
  OBVIOUS
<1>3. f \in [1..Len(pods) -> Nat]
  BY <1>1, <1>2
<1>4. IsFiniteSet(1..Len(pods))
  BY <1>2, FS_Interval
<1> HIDE DEF f
<1>5. SumFunction(f) \in Nat
  BY <1>3, <1>4, SumIsNat
<1> QED BY <1>3, <1>4, <1>5 DEF f, SumOf

\* One more pod adds what it asks for.
LEMMA SumOfAppended ==
  ASSUME NEW pods \in Seq(PodOnNode), NEW p \in PodOnNode, NEW field \in Amounts
  PROVE  SumOf(Append(pods, p), field) = SumOf(pods, field) + p[field]
<1> DEFINE f == [i \in DOMAIN pods |-> pods[i][field]]
           more == Append(pods, p)
           g == [i \in DOMAIN more |-> more[i][field]]
           n == Len(pods)
           D == 1..n
<1>1. more \in Seq(PodOnNode) /\ Len(more) = n + 1 /\ n \in Nat /\ DOMAIN more = D \cup {n + 1} /\ n + 1 \notin D
      /\ DOMAIN pods = D
  OBVIOUS
<1>2. /\ f \in [D -> Int] /\ g \in [1..Len(more) -> Int] /\ IsFiniteSet(D)
  <2>1. f \in [1..Len(pods) -> Nat] /\ IsFiniteSet(1..Len(pods))
    BY SumOfType
  <2>2. \A q \in Seq(PodOnNode) : [i \in DOMAIN q |-> q[i][field]] \in [1..Len(q) -> Nat]
    BY SumOfType
  <2>3. g \in [1..Len(more) -> Nat]
    BY <1>1, <2>2
  <2> HIDE DEF f, g, more
  <2> QED BY <2>1, <2>3
<1>3. (\A i \in D : g[i] = f[i]) /\ g[n + 1] = p[field]
  OBVIOUS
<1>4. g \in [D \cup {n + 1} -> Int]
  <2> HIDE DEF f, g, more
  <2>1. 1..Len(more) = D \cup {n + 1}
    BY <1>1
  <2> QED BY <1>2, <2>1
<1>5. SumFunction(g) = SumFunction(f) + g[n + 1]
  <2> HIDE DEF f, g, n, D
  <2>1. n + 1 \notin D
    BY <1>1
  <2>2. \A e \in [D -> Int], h \in [D \cup {n + 1} -> Int] :
          (\A y \in D : h[y] = e[y]) => SumFunction(h) = SumFunction(e) + h[n + 1]
    BY <1>2, <2>1, SumExtended, Zenon
  <2> QED BY <1>2, <1>3, <1>4, <2>2, Zenon
<1> QED BY <1>3, <1>5, Zenon DEF SumOf

\* NodeInv survives scheduling and running.
LEMMA NodeStep == ASSUME NodeInv, (\E p \in PodSpecs : SchedulePod(p)) \/ RunTick \/ UNCHANGED nodePods PROVE NodeInv'
<1>1. /\ nodePods \in Seq(PodOnNode) /\ DOMAIN nodePods = 1..Len(nodePods) /\ Len(nodePods) \in Nat
      /\ \A i \in 1..Len(nodePods) : /\ nodePods[i].cpu_request <= nodePods[i].cpu_limit
                                     /\ nodePods[i].mem_request <= nodePods[i].mem_limit
      /\ SumOf(nodePods, "cpu_request") <= NodeCpu /\ SumOf(nodePods, "mem_request") <= NodeMemory
      /\ (\A i \in 1..Len(nodePods) : nodePods[i].cpu_usage <= nodePods[i].cpu_request) =>
           \A i \in 1..Len(nodePods) : ~nodePods[i].throttled
      /\ \A i \in 1..Len(nodePods) : nodePods[i].mem_usage <= nodePods[i].mem_request => ~nodePods[i].oom_killed
  BY DEF NodeInv, RequestsAreGuaranteed
<1>2. CASE UNCHANGED nodePods
  BY <1>2 DEF NodeInv, RequestsAreGuaranteed, SumOf
<1>3. ASSUME NEW p \in PodSpecs, SchedulePod(p) PROVE NodeInv'
  <2>1. /\ nodePods' = Append(nodePods, p) /\ SumOf(nodePods, "cpu_request") + p.cpu_request <= NodeCpu
        /\ SumOf(nodePods, "mem_request") + p.mem_request <= NodeMemory
    BY <1>3 DEF SchedulePod, CanSchedule
  <2>2. /\ p \in PodOnNode /\ p.cpu_request <= p.cpu_limit /\ p.mem_request <= p.mem_limit
        /\ ~p.throttled /\ ~p.oom_killed
    <3>1. /\ p \in [cpu_request : 1..2, cpu_limit : 1..2, cpu_usage : 1..2, mem_request : {1, 2}, mem_limit : {1, 2},
                     mem_usage : {1, 2}, oom_killed : {FALSE}, throttled : {FALSE}]
          /\ p.cpu_request <= p.cpu_limit /\ p.mem_request <= p.mem_limit
      BY DEF PodSpecs
    <3>2. /\ p.cpu_request \in Nat /\ p.cpu_limit \in Nat /\ p.cpu_usage \in Nat /\ p.mem_request \in Nat
          /\ p.mem_limit \in Nat /\ p.mem_usage \in Nat /\ p.oom_killed = FALSE /\ p.throttled = FALSE
      <4>1. /\ p.cpu_request \in 1..2 /\ p.cpu_limit \in 1..2 /\ p.cpu_usage \in 1..2 /\ p.mem_request \in {1, 2}
            /\ p.mem_limit \in {1, 2} /\ p.mem_usage \in {1, 2} /\ p.oom_killed \in {FALSE} /\ p.throttled \in {FALSE}
        BY <3>1
      <4>2. p.oom_killed = FALSE /\ p.throttled = FALSE
        BY <4>1, Zenon
      <4>3. p.cpu_request \in Nat /\ p.cpu_limit \in Nat /\ p.cpu_usage \in Nat
        BY <4>1
      <4>4. p.mem_request \in Nat /\ p.mem_limit \in Nat /\ p.mem_usage \in Nat
        BY <4>1
      <4> QED BY <4>2, <4>3, <4>4, Zenon
    <3>3. p = [cpu_request |-> p.cpu_request, cpu_limit |-> p.cpu_limit, cpu_usage |-> p.cpu_usage,
               mem_request |-> p.mem_request, mem_limit |-> p.mem_limit, mem_usage |-> p.mem_usage,
               oom_killed |-> FALSE, throttled |-> FALSE]
      BY <3>1, <3>2
    <3>4. p \in PodOnNode
      BY <3>2, <3>3 DEF PodOnNode
    <3> QED BY <3>1, <3>2, <3>4
  <2>3. /\ nodePods' \in Seq(PodOnNode) /\ Len(nodePods') = Len(nodePods) + 1 /\ DOMAIN nodePods' = 1..Len(nodePods')
        /\ \A i \in 1..Len(nodePods') : nodePods'[i] = p \/ (i \in 1..Len(nodePods) /\ nodePods'[i] = nodePods[i])
        /\ \A i \in 1..Len(nodePods) : i \in 1..Len(nodePods') /\ nodePods'[i] = nodePods[i]
    <3> DEFINE n == Len(nodePods)
    <3>1. /\ Append(nodePods, p) \in Seq(PodOnNode) /\ Len(Append(nodePods, p)) = n + 1 /\ n \in Nat
          /\ \A i \in 1..n : Append(nodePods, p)[i] = nodePods[i]
          /\ Append(nodePods, p)[n + 1] = p
      BY <1>1, <2>2
    <3> HIDE DEF n
    <3>2. \A i \in 1..(n + 1) : i \in 1..n \/ i = n + 1
      BY <3>1
    <3>3. DOMAIN nodePods' = 1..Len(nodePods')
      BY <2>1, <3>1
    <3> QED BY <2>1, <3>1, <3>2, <3>3 DEF n
  <2>4. SumOf(nodePods', "cpu_request") <= NodeCpu /\ SumOf(nodePods', "mem_request") <= NodeMemory
    <3>1. /\ SumOf(Append(nodePods, p), "cpu_request") = SumOf(nodePods, "cpu_request") + p["cpu_request"]
          /\ SumOf(Append(nodePods, p), "mem_request") = SumOf(nodePods, "mem_request") + p["mem_request"]
      BY <1>1, <2>2, SumOfAppended DEF Amounts
    <3> QED BY <2>1, <3>1
  <2>5. (\A i \in 1..Len(nodePods') : nodePods'[i].cpu_usage <= nodePods'[i].cpu_request) =>
           \A i \in 1..Len(nodePods') : ~nodePods'[i].throttled
    <3> HAVE \A i \in 1..Len(nodePods') : nodePods'[i].cpu_usage <= nodePods'[i].cpu_request
    <3>1. \A i \in 1..Len(nodePods) : nodePods[i].cpu_usage <= nodePods[i].cpu_request
      BY <2>3
    <3> QED BY <1>1, <2>2, <2>3, <3>1
  <2>6. /\ \A i \in 1..Len(nodePods') : nodePods'[i].mem_usage <= nodePods'[i].mem_request => ~nodePods'[i].oom_killed
        /\ \A i \in 1..Len(nodePods') : /\ nodePods'[i].cpu_request <= nodePods'[i].cpu_limit
                                        /\ nodePods'[i].mem_request <= nodePods'[i].mem_limit
    BY <1>1, <2>2, <2>3
  <2> QED BY <2>3, <2>4, <2>5, <2>6, Zenon DEF NodeInv, RequestsAreGuaranteed
<1>4. CASE RunTick
  <2> DEFINE After(q) == [q EXCEPT !.throttled = q.cpu_usage > q.cpu_limit \/ CpuUsed(nodePods) > NodeCpu,
                                   !.oom_killed = @ \/ q.mem_usage > q.mem_limit]
  <2>1. nodePods' = [i \in 1..Len(nodePods) |-> After(nodePods[i])]
    BY <1>1, <1>4 DEF RunTick
  <2>2. \A q \in PodOnNode :
          /\ After(q) \in PodOnNode
          /\ After(q).cpu_request = q.cpu_request /\ After(q).cpu_limit = q.cpu_limit /\ After(q).cpu_usage = q.cpu_usage
          /\ After(q).mem_request = q.mem_request /\ After(q).mem_limit = q.mem_limit /\ After(q).mem_usage = q.mem_usage
          /\ (After(q).throttled => q.cpu_usage > q.cpu_limit \/ CpuUsed(nodePods) > NodeCpu)
          /\ (After(q).oom_killed => q.oom_killed \/ q.mem_usage > q.mem_limit)
    BY DEF PodOnNode
  <2> HIDE DEF After
  <2>3. /\ nodePods' \in Seq(PodOnNode) /\ DOMAIN nodePods' = 1..Len(nodePods) /\ Len(nodePods') = Len(nodePods)
        /\ \A i \in 1..Len(nodePods) : nodePods[i] \in PodOnNode /\ nodePods'[i] = After(nodePods[i])
    <3>1. \A i \in 1..Len(nodePods) : nodePods[i] \in PodOnNode /\ After(nodePods[i]) \in PodOnNode
      BY <1>1, <2>2
    <3> QED BY <1>1, <2>1, <3>1
  <2>4. SumOf(nodePods', "cpu_request") <= NodeCpu /\ SumOf(nodePods', "mem_request") <= NodeMemory
    <3>1. /\ [i \in DOMAIN nodePods' |-> nodePods'[i]["cpu_request"]] = [i \in DOMAIN nodePods |-> nodePods[i]["cpu_request"]]
          /\ [i \in DOMAIN nodePods' |-> nodePods'[i]["mem_request"]] = [i \in DOMAIN nodePods |-> nodePods[i]["mem_request"]]
      BY <1>1, <2>2, <2>3
    <3>2. SumOf(nodePods', "cpu_request") = SumOf(nodePods, "cpu_request") /\ SumOf(nodePods', "mem_request") = SumOf(nodePods, "mem_request")
      BY <3>1, Zenon DEF SumOf
    <3> QED BY <1>1, <3>2
  <2>5. ASSUME \A i \in 1..Len(nodePods) : nodePods[i].cpu_usage <= nodePods[i].cpu_request
        PROVE  CpuUsed(nodePods) <= NodeCpu
    <3> DEFINE f == [i \in DOMAIN nodePods |-> nodePods[i]["cpu_usage"]]
               g == [i \in DOMAIN nodePods |-> nodePods[i]["cpu_request"]]
               D == 1..Len(nodePods)
    <3>1. f \in [D -> Nat] /\ g \in [D -> Nat] /\ IsFiniteSet(D)
      BY <1>1, SumOfType DEF Amounts
    <3>2. \A i \in D : f[i] <= g[i]
      BY <1>1, <2>5
    <3>3. f \in [D -> Int] /\ g \in [D -> Int]
      <4> HIDE DEF f, g, D
      <4> QED BY <3>1
    <3>4. SumFunction(f) <= SumFunction(g)
      <4> HIDE DEF f, g, D
      <4> QED BY <3>1, <3>2, <3>3, SumGrows
    <3>5. SumFunction(g) <= NodeCpu
      BY <1>1, Zenon DEF SumOf
    <3>6. SumFunction(f) \in Int /\ SumFunction(g) \in Int /\ NodeCpu \in Int
      <4> HIDE DEF f, g, D
      <4> QED BY <3>1, <3>3, SumType, ClusterAssumption
    <3>7. CpuUsed(nodePods) = SumFunction(f)
      BY Zenon DEF CpuUsed, SumOf
    <3> HIDE DEF f, g, D
    <3> QED BY <3>4, <3>5, <3>6, <3>7
  <2>6. \A i \in 1..Len(nodePods) : \A q \in PodOnNode : nodePods[i] = q =>
           q.cpu_usage \in Nat /\ q.cpu_request \in Nat /\ q.cpu_limit \in Nat /\ q.mem_usage \in Nat /\ q.mem_request \in Nat /\ q.mem_limit \in Nat
    BY DEF PodOnNode
  <2>7. (\A i \in 1..Len(nodePods') : nodePods'[i].cpu_usage <= nodePods'[i].cpu_request) =>
           \A i \in 1..Len(nodePods') : ~nodePods'[i].throttled
    <3> HAVE \A i \in 1..Len(nodePods') : nodePods'[i].cpu_usage <= nodePods'[i].cpu_request
    <3>1. \A i \in 1..Len(nodePods) : nodePods[i].cpu_usage <= nodePods[i].cpu_request
      BY <2>2, <2>3
    <3>2. CpuUsed(nodePods) <= NodeCpu /\ CpuUsed(nodePods) \in Int /\ NodeCpu \in Int
      BY <1>1, <2>5, <3>1, SumOfType, ClusterAssumption DEF CpuUsed, Amounts
    <3> TAKE i \in 1..Len(nodePods')
    <3> DEFINE q == nodePods[i]
    <3>3. /\ q \in PodOnNode /\ nodePods'[i] = After(q) /\ q.cpu_usage <= q.cpu_request /\ q.cpu_request <= q.cpu_limit
          /\ q.cpu_usage \in Nat /\ q.cpu_request \in Nat /\ q.cpu_limit \in Nat
      BY <1>1, <2>3, <2>6, <3>1
    <3> HIDE DEF q
    <3>4. ~(q.cpu_usage > q.cpu_limit \/ CpuUsed(nodePods) > NodeCpu)
      BY <3>2, <3>3
    <3> QED BY <2>2, <3>3, <3>4
  <2>8. \A i \in 1..Len(nodePods') : nodePods'[i].mem_usage <= nodePods'[i].mem_request => ~nodePods'[i].oom_killed
    <3> TAKE i \in 1..Len(nodePods')
    <3> DEFINE q == nodePods[i]
    <3>1. /\ q \in PodOnNode /\ nodePods'[i] = After(q) /\ q.mem_request <= q.mem_limit /\ (q.mem_usage <= q.mem_request => ~q.oom_killed)
          /\ q.mem_usage \in Nat /\ q.mem_request \in Nat /\ q.mem_limit \in Nat
      BY <1>1, <2>3, <2>6
    <3> HIDE DEF q
    <3> QED BY <2>2, <3>1
  <2>9. \A i \in 1..Len(nodePods') : /\ nodePods'[i].cpu_request <= nodePods'[i].cpu_limit
                                     /\ nodePods'[i].mem_request <= nodePods'[i].mem_limit
    BY <1>1, <2>2, <2>3
  <2>10. DOMAIN nodePods' = 1..Len(nodePods')
    BY <2>3
  <2> QED BY <2>3, <2>4, <2>7, <2>8, <2>9, <2>10, Zenon DEF NodeInv, RequestsAreGuaranteed
<1> QED BY <1>2, <1>3, <1>4

\* NodeInv holds of an empty node.
LEMMA NodeInitially == ASSUME nodePods = <<>> PROVE NodeInv
<1>1. SumOf(nodePods, "cpu_request") = 0 /\ SumOf(nodePods, "mem_request") = 0
  <2> DEFINE f == [i \in {} |-> <<>>[i]["cpu_request"]]
             g == [i \in {} |-> <<>>[i]["mem_request"]]
  <2>1. f \in [{} -> Int] /\ DOMAIN f = {} /\ g \in [{} -> Int] /\ DOMAIN g = {}
    OBVIOUS
  <2>2. DOMAIN nodePods = {}
    OBVIOUS
  <2> HIDE DEF f, g
  <2>3. SumFunction(f) = 0 /\ SumFunction(g) = 0
    BY <2>1, SumOfNothing
  <2> QED BY <2>2, <2>3 DEF f, g, SumOf
<1>2. 0 <= NodeCpu /\ 0 <= NodeMemory
  BY ClusterAssumption
<1> QED BY <1>1, <1>2 DEF NodeInv, RequestsAreGuaranteed

----------------------------------------------------------------------------
(* The ingress *)

\* The remainder of a multiple and something less.
LEMMA RemainderIs == ASSUME NEW k \in Nat \ {0}, NEW j \in Nat, NEW f \in Nat, f < k PROVE (k * j + f) % k = f
<1> DEFINE n == k * j + f
           q == n \div k
           r == n % k
<1>1. n \in Nat
  OBVIOUS
<1> HIDE DEF n
<1>2. q \in Nat /\ r \in Nat /\ r < k /\ n = k * q + r
  <2>1. n \div k \in Int /\ n \div k >= 0 /\ 0 <= n % k /\ n % k < k /\ n = k * (n \div k) + (n % k)
    BY <1>1, Division
  <2>2. n % k \in Int
    BY <1>1
  <2> QED BY <2>1, <2>2
<1> HIDE DEF q, r
<1>3. n = k * j + f
  BY DEF n
<1>4. ASSUME NEW a \in Nat, NEW b \in Nat, a > b PROVE k * a >= k * b + k
  <2> DEFINE m == a - (b + 1)
  <2>1. m \in Nat /\ a = (b + 1) + m
    BY <1>4
  <2> HIDE DEF m
  <2>2. k * a = k * b + k + k * m /\ k * m \in Nat /\ k * b \in Nat
    BY <2>1
  <2> QED BY <2>2
<1>5. k * q \in Nat /\ k * j \in Nat
  BY <1>2
<1>6. ~(q > j) /\ ~(j > q)
  <2>1. q > j => k * q >= k * j + k
    BY <1>2, <1>4
  <2>2. j > q => k * j >= k * q + k
    BY <1>2, <1>4
  <2> DEFINE x == k * q
             y == k * j
  <2>3. x \in Nat /\ y \in Nat /\ n = y + f /\ n = x + r /\ (q > j => x >= y + k) /\ (j > q => y >= x + k)
    BY <1>2, <1>3, <1>5, <2>1, <2>2
  <2> HIDE DEF x, y
  <2> QED BY <1>2, <2>3
<1>7. q = j
  BY <1>2, <1>6
<1>8. r = f
  <2> DEFINE y == k * j
  <2>1. y \in Nat /\ n = y + f /\ n = y + r
    BY <1>2, <1>3, <1>5, <1>7
  <2> HIDE DEF y
  <2> QED BY <1>2, <2>1
<1> QED BY <1>8 DEF n, r

\* The share of an endpoint.
ClientsOf(e) == {c \in ClientIp : Hashed(c) = e}

\* The hash gives no endpoint more than one client more than another.
LEMMA SharesAreEven == ASSUME NEW e \in Endpoint, NEW f \in Endpoint PROVE Cardinality(ClientsOf(e)) <= Cardinality(ClientsOf(f)) + 1
<1> DEFINE k == NumEndpoints
           N == NumClientIps
           g == [c \in ClientsOf(e) \ {e} |-> c - e + f - k]
<1>1. k \in Nat \ {0} /\ N \in Nat /\ e \in Nat /\ f \in Nat /\ e < k /\ f < k
  BY ClusterAssumption DEF Endpoint
<1>2. IsFiniteSet(ClientsOf(e)) /\ IsFiniteSet(ClientsOf(f))
  <2>1. IsFiniteSet(ClientIp)
    BY <1>1, FS_Interval DEF ClientIp
  <2> QED BY <2>1, FS_Subset DEF ClientsOf
<1>3. ASSUME NEW c \in ClientsOf(e) \ {e} PROVE c \in Int /\ c - e + f - k \in ClientsOf(f)
  <2>1. c \in Nat /\ c < N /\ c % k = e /\ c # e
    BY <1>1 DEF ClientsOf, ClientIp, Hashed
  <2> DEFINE q == c \div k
  <2>2. q \in Nat /\ c = k * q + e
    <3>1. c \div k \in Int /\ c \div k >= 0 /\ c = k * (c \div k) + (c % k)
      BY <1>1, <2>1, Division
    <3> QED BY <2>1, <3>1
  <2> HIDE DEF q
  <2>3. q # 0
    <3>1. k * 0 + e = e
      BY <1>1
    <3> QED BY <2>1, <2>2, <3>1
  <2> DEFINE j == q - 1
  <2>4. j \in Nat /\ k * q = k * j + k
    BY <1>1, <2>2, <2>3
  <2>5. k * j \in Nat
    BY <1>1, <2>4
  <2> HIDE DEF j
  <2> DEFINE y == k * j
  <2>6. y \in Nat /\ c = y + k + e /\ (y + f) % k = f
    <3>1. (k * j + f) % k = f
      BY <1>1, <2>4, RemainderIs
    <3> QED BY <1>1, <2>2, <2>4, <2>5, <3>1
  <2> HIDE DEF y
  <2>7. c - e + f - k = y + f /\ y + f \in 0..(N - 1)
    BY <1>1, <2>1, <2>6
  <2> QED BY <2>1, <2>6, <2>7 DEF ClientsOf, ClientIp, Hashed
<1>4. g \in Injection(ClientsOf(e) \ {e}, ClientsOf(f))
  <2>1. g \in [ClientsOf(e) \ {e} -> ClientsOf(f)]
    BY <1>3
  <2>2. \A a, b \in ClientsOf(e) \ {e} : g[a] = g[b] => a = b
    BY <1>1, <1>3
  <2> QED BY <2>1, <2>2 DEF Injection, IsInjective
<1> HIDE DEF g
<1>5. Cardinality(ClientsOf(e) \ {e}) <= Cardinality(ClientsOf(f))
  BY <1>2, <1>4, FS_Injection
<1>6. Cardinality(ClientsOf(e)) \in Nat /\ Cardinality(ClientsOf(f)) \in Nat
  BY <1>2, FS_CardinalityType
<1>7. CASE e \in ClientsOf(e)
  <2>1. Cardinality(ClientsOf(e) \ {e}) = Cardinality(ClientsOf(e)) - 1
    BY <1>2, <1>7, FS_RemoveElement
  <2> QED BY <1>5, <1>6, <2>1
<1>8. CASE e \notin ClientsOf(e)
  <2>1. ClientsOf(e) \ {e} = ClientsOf(e)
    BY <1>8
  <2>2. Cardinality(ClientsOf(e)) <= Cardinality(ClientsOf(f))
    BY <1>5, <2>1, Zenon
  <2> QED BY <1>6, <2>2
<1> QED BY <1>7, <1>8

\* The names a resolver tries end with the absolute one, none of them twice.
LEMMA LookupsAreRight ==
  \A dots, ndots \in 0..5 : /\ Last(Lookups(dots, ndots)) = 0 /\ IsInjective(Lookups(dots, ndots))
                            /\ Len(Lookups(dots + 1, ndots)) <= Len(Lookups(dots, ndots))
<1>1. /\ Last(<<0>>) = 0 /\ IsInjective(<<0>>) /\ Len(<<0>>) = 1
  BY DEF Last, IsInjective
<1>2. /\ Last(<<1, 2, 3, 0>>) = 0 /\ IsInjective(<<1, 2, 3, 0>>) /\ Len(<<1, 2, 3, 0>>) = 4
  BY DEF Last, IsInjective
<1> SUFFICES ASSUME NEW dots \in 0..5, NEW ndots \in 0..5
             PROVE  /\ Last(Lookups(dots, ndots)) = 0 /\ IsInjective(Lookups(dots, ndots))
                    /\ Len(Lookups(dots + 1, ndots)) <= Len(Lookups(dots, ndots))
  OBVIOUS
<1>3. CASE dots >= ndots
  <2>1. Lookups(dots, ndots) = <<0>> /\ Lookups(dots + 1, ndots) = <<0>>
    BY <1>3 DEF Lookups
  <2>2. /\ Last(Lookups(dots, ndots)) = 0 /\ IsInjective(Lookups(dots, ndots))
        /\ Len(Lookups(dots + 1, ndots)) = 1 /\ Len(Lookups(dots, ndots)) = 1
    BY <1>1, <2>1, Zenon
  <2>3. Len(Lookups(dots + 1, ndots)) <= Len(Lookups(dots, ndots))
    <3>1. \A x, y \in {1, 4} : (x = 1 \/ y = 4) => x <= y
      OBVIOUS
    <3> QED BY <2>2, <3>1
  <2> QED BY <2>2, <2>3, Zenon
<1>4. CASE ~(dots >= ndots)
  <2>1. Lookups(dots, ndots) = <<1, 2, 3, 0>> /\ Lookups(dots + 1, ndots) \in {<<0>>, <<1, 2, 3, 0>>}
    BY <1>4 DEF Lookups
  <2>2. /\ Last(Lookups(dots, ndots)) = 0 /\ IsInjective(Lookups(dots, ndots)) /\ Len(Lookups(dots, ndots)) = 4
        /\ Len(Lookups(dots + 1, ndots)) \in {1, 4}
    BY <1>1, <1>2, <2>1, Zenon
  <2>3. Len(Lookups(dots + 1, ndots)) <= Len(Lookups(dots, ndots))
    <3>1. \A x, y \in {1, 4} : (x = 1 \/ y = 4) => x <= y
      OBVIOUS
    <3> QED BY <2>2, <3>1
  <2> QED BY <2>2, <2>3, Zenon
<1> QED BY <1>3, <1>4

IngressInv ==
  /\ counts \in [{"iptables", "ipvs"} -> [Endpoint -> Nat]]
  /\ routedTo \in [ClientIp -> SUBSET Endpoint] /\ podsOn \in [IngressNode -> Nat]
  /\ succeeded \in Nat /\ blackholed \in Nat
  /\ \A c \in ClientIp : routedTo[c] \subseteq {Hashed(c)}
  /\ \A e \in Endpoint : counts["ipvs"][e] > 0 <=> \E c \in ClientIp : e \in routedTo[c]
  /\ blackholed > 0 => \E n \in IngressNode : podsOn[n] = 0
  /\ succeeded > 0 => \E n \in IngressNode : podsOn[n] > 0

\* IngressInv holds before the first request.
LEMMA IngressInitially == IngressInit => IngressInv
  BY DEF IngressInit, IngressInv

\* IngressInv survives a request and a new pod.
LEMMA IngressStep ==
  ASSUME IngressInv, IptablesRandom \/ IpvsSh \/ PlacePod \/ RouteLocally \/ UNCHANGED ingressVars
  PROVE  IngressInv'
<1>1. CASE UNCHANGED ingressVars
  BY <1>1 DEF ingressVars, IngressInv
<1>2. CASE IptablesRandom
  <2>1. PICK e \in Endpoint : counts' = [counts EXCEPT !["iptables"] = Plus(@, e)]
    BY <1>2 DEF IptablesRandom
  <2>2. counts' \in [{"iptables", "ipvs"} -> [Endpoint -> Nat]] /\ counts'["ipvs"] = counts["ipvs"]
    BY <2>1 DEF IngressInv, Plus
  <2> QED BY <1>2, <2>2 DEF IptablesRandom, IngressInv
<1>3. CASE IpvsSh
  <2>1. PICK c \in ClientIp : /\ counts' = [counts EXCEPT !["ipvs"] = Plus(@, Hashed(c))]
                              /\ routedTo' = [routedTo EXCEPT ![c] = @ \cup {Hashed(c)}]
    BY <1>3 DEF IpvsSh
  <2>2. Hashed(c) \in Endpoint
    <3>1. c \in Nat /\ NumEndpoints \in Nat \ {0}
      BY ClusterAssumption DEF ClientIp
    <3> QED BY <3>1 DEF Hashed, Endpoint
  <2>3. /\ counts' \in [{"iptables", "ipvs"} -> [Endpoint -> Nat]]
        /\ \A e \in Endpoint : counts'["ipvs"][e] = IF e = Hashed(c) THEN counts["ipvs"][e] + 1 ELSE counts["ipvs"][e]
        /\ \A e \in Endpoint : counts["ipvs"][e] \in Nat
    BY <2>1, <2>2 DEF IngressInv, Plus
  <2>4. /\ routedTo' \in [ClientIp -> SUBSET Endpoint]
        /\ \A d \in ClientIp : routedTo'[d] = IF d = c THEN routedTo[d] \cup {Hashed(c)} ELSE routedTo[d]
    BY <2>1, <2>2 DEF IngressInv
  <2>5. \A d \in ClientIp : routedTo'[d] \subseteq {Hashed(d)}
    BY <2>4 DEF IngressInv
  <2>6. \A e \in Endpoint : counts'["ipvs"][e] > 0 <=> \E d \in ClientIp : e \in routedTo'[d]
    BY <2>3, <2>4 DEF IngressInv
  <2> QED BY <1>3, <2>3, <2>4, <2>5, <2>6 DEF IpvsSh, IngressInv
<1>4. CASE PlacePod
  BY <1>4 DEF PlacePod, IngressInv, Plus
<1>5. CASE RouteLocally
  BY <1>5 DEF RouteLocally, IngressInv
<1> QED BY <1>1, <1>2, <1>3, <1>4, <1>5

\* Of IngressInv it follows that traffic is routed.
LEMMA IngressRoutes == ASSUME IngressInv PROVE TrafficIsRouted
<1>1. \A c \in ClientIp : Cardinality(routedTo[c]) <= 1
  <2> TAKE c \in ClientIp
  <2>1. routedTo[c] \subseteq {Hashed(c)} /\ IsFiniteSet({Hashed(c)}) /\ Cardinality({Hashed(c)}) = 1
    BY FS_Singleton DEF IngressInv
  <2> QED BY <2>1, FS_Subset
<1>2. \A e, f \in Endpoint : Cardinality({c \in ClientIp : Hashed(c) = e}) <= Cardinality({c \in ClientIp : Hashed(c) = f}) + 1
  BY SharesAreEven DEF ClientsOf
<1> QED BY <1>1, <1>2, LookupsAreRight DEF IngressInv, TrafficIsRouted

----------------------------------------------------------------------------
(* The error budget and the requests of a connection *)

\* A Boolean as 1 or 0.
LEMMA Bits == Bit(TRUE) = 1 /\ Bit(FALSE) = 0 /\ \A b \in BOOLEAN : (b => Bit(b) = 1 /\ Bit(~b) = 0) /\ (~b => Bit(b) = 0 /\ Bit(~b) = 1)
  BY Zenon DEF Bit

\* The least of two integers.
LEMMA LeastOfTwo == ASSUME NEW a \in Int, NEW b \in Int PROVE Min({a, b}) = IF a <= b THEN a ELSE b
  BY DEF Min

\* The errors of a log are no more than its requests.
LEMMA ErrorsAre ==
  ASSUME NEW log \in Seq(BOOLEAN)
  PROVE  /\ IsFiniteSet({i \in 1..Len(log) : ~log[i]}) /\ ErrorsIn(log) = Cardinality({i \in 1..Len(log) : ~log[i]})
         /\ ErrorsIn(log) \in 0..Len(log)
<1>1. DOMAIN log = 1..Len(log) /\ Len(log) \in Nat
  OBVIOUS
<1>2. IsFiniteSet(1..Len(log)) /\ Cardinality(1..Len(log)) = Len(log)
  BY <1>1, FS_Interval
<1> DEFINE E == {i \in 1..Len(log) : ~log[i]}
<1>3. ErrorsIn(log) = Cardinality(E)
  BY <1>1 DEF ErrorsIn
<1>4. E \subseteq 1..Len(log)
  OBVIOUS
<1> HIDE DEF E
<1>5. IsFiniteSet(E) /\ Cardinality(E) <= Len(log) /\ Cardinality(E) \in Nat
  <2>1. IsFiniteSet(E) /\ Cardinality(E) <= Cardinality(1..Len(log))
    BY <1>2, <1>4, FS_Subset, Zenon
  <2>2. Cardinality(E) \in Nat
    BY <2>1, FS_CardinalityType
  <2> QED BY <1>2, <2>1, <2>2, Zenon
<1>6. ErrorsIn(log) \in 0..Len(log)
  BY <1>1, <1>3, <1>5
<1> QED BY <1>3, <1>5, <1>6 DEF E

\* One more request is one more error or none.
LEMMA ErrorsAppended ==
  ASSUME NEW log \in Seq(BOOLEAN), NEW s \in BOOLEAN
  PROVE  ErrorsIn(Append(log, s)) = ErrorsIn(log) + Bit(~s)
<1> DEFINE more == Append(log, s)
           n == Len(log)
           E == {i \in 1..n : ~log[i]}
           F == {i \in 1..Len(more) : ~more[i]}
<1>1. more \in Seq(BOOLEAN) /\ Len(more) = n + 1 /\ n \in Nat /\ more[n + 1] = s /\ \A i \in 1..n : more[i] = log[i]
  OBVIOUS
<1>2. /\ IsFiniteSet(E) /\ ErrorsIn(log) = Cardinality(E) /\ ErrorsIn(more) = Cardinality(F) /\ Cardinality(E) \in Nat
  <2>1. IsFiniteSet(E) /\ ErrorsIn(log) = Cardinality(E)
    BY ErrorsAre
  <2>2. \A l \in Seq(BOOLEAN) : ErrorsIn(l) = Cardinality({i \in 1..Len(l) : ~l[i]})
    BY ErrorsAre
  <2> HIDE DEF more
  <2> QED BY <1>1, <2>1, <2>2, FS_CardinalityType
<1>3. n + 1 \notin E
  BY <1>1
<1>4. CASE s
  <2>1. F = E
    BY <1>1, <1>4
  <2>2. Bit(~s) = 0
    BY <1>4, Bits, Zenon
  <2>3. ErrorsIn(more) = ErrorsIn(log)
    BY <1>2, <2>1, Zenon
  <2>4. ErrorsIn(log) \in Int
    BY <1>2
  <2>5. ErrorsIn(log) = ErrorsIn(log) + 0
    <3> HIDE DEF more, E, n
    <3> QED BY <2>4
  <2> QED BY <2>2, <2>3, <2>5, Zenon
<1>5. CASE ~s
  <2>1. F = E \cup {n + 1}
    BY <1>1, <1>5
  <2> HIDE DEF E, F, n
  <2>2. Cardinality(F) = Cardinality(E) + 1
    BY <1>2, <1>3, <2>1, FS_AddElement
  <2>3. Bit(~s) = 1
    BY <1>5, Bits, Zenon
  <2> QED BY <1>2, <2>2, <2>3
<1> QED BY <1>4, <1>5

\* One request less at the front is one error less or none.
LEMMA ErrorsWithoutFirst ==
  ASSUME NEW log \in Seq(BOOLEAN), log # <<>>
  PROVE  ErrorsIn(Tail(log)) = ErrorsIn(log) - Bit(~Head(log))
<1> DEFINE less == Tail(log)
           n == Len(log)
           E == {i \in 1..n : ~log[i]}
           F == {i \in 1..Len(less) : ~less[i]}
           g == [i \in F |-> i + 1]
<1>1. less \in Seq(BOOLEAN) /\ Len(less) = n - 1 /\ n \in Nat \ {0} /\ Head(log) = log[1]
  OBVIOUS
<1>2. \A i \in 1..(n - 1) : less[i] = log[i + 1]
  OBVIOUS
<1>3. /\ IsFiniteSet(E) /\ ErrorsIn(log) = Cardinality(E) /\ IsFiniteSet(F) /\ ErrorsIn(less) = Cardinality(F)
      /\ Cardinality(E) \in Nat /\ Cardinality(F) \in Nat
  <2>1. IsFiniteSet(E) /\ ErrorsIn(log) = Cardinality(E)
    BY ErrorsAre
  <2>2. \A l \in Seq(BOOLEAN) : IsFiniteSet({i \in 1..Len(l) : ~l[i]}) /\ ErrorsIn(l) = Cardinality({i \in 1..Len(l) : ~l[i]})
    BY ErrorsAre
  <2> HIDE DEF less
  <2> QED BY <1>1, <2>1, <2>2, FS_CardinalityType
<1> HIDE DEF less, n
<1>4. g \in Bijection(F, E \ {1})
  <2>1. g \in [F -> E \ {1}]
    BY <1>1, <1>2
  <2>2. \A a, b \in F : g[a] = g[b] => a = b
    OBVIOUS
  <2>3. \A y \in E \ {1} : \E x \in F : g[x] = y
    <3> TAKE y \in E \ {1}
    <3>1. y - 1 \in 1..(n - 1) /\ (y - 1) + 1 = y
      BY <1>1
    <3>2. y - 1 \in F
      BY <1>1, <1>2, <3>1
    <3> QED BY <3>1, <3>2
  <2> HIDE DEF g, E, F
  <2> QED BY <2>1, <2>2, <2>3 DEF Bijection, Injection, Surjection, IsInjective
<1>5. Cardinality(F) = Cardinality(E \ {1})
  <2> HIDE DEF g, E, F
  <2>1. ExistsBijection(F, E \ {1})
    BY <1>4, Zenon DEF ExistsBijection
  <2> QED BY <1>3, <2>1, FS_Bijection, Zenon
<1>6. CASE Head(log)
  <2>1. E \ {1} = E
    BY <1>1, <1>6
  <2>2. ErrorsIn(less) = ErrorsIn(log)
    BY <1>3, <1>5, <2>1, Zenon
  <2>3. Bit(~Head(log)) = 0
    BY <1>6, Zenon DEF Bit
  <2>4. ErrorsIn(log) \in Int
    BY <1>3
  <2>5. ErrorsIn(log) = ErrorsIn(log) - 0
    <3> HIDE DEF E, F
    <3> QED BY <2>4
  <2> HIDE DEF E, F
  <2> QED BY <2>2, <2>3, <2>5, Zenon DEF less
<1>7. CASE ~Head(log)
  <2>1. 1 \in E
    <3>1. 1 \in 1..n
      BY <1>1
    <3>2. ~log[1]
      BY <1>1, <1>7, Zenon
    <3> QED BY <3>1, <3>2
  <2>2. Cardinality(E \ {1}) = Cardinality(E) - 1
    <3> HIDE DEF E
    <3> QED BY <1>3, <2>1, FS_RemoveElement
  <2> HIDE DEF E, F
  <2>3. Bit(~Head(log)) = 1
    BY <1>7, Zenon DEF Bit
  <2> QED BY <1>3, <1>5, <2>2, <2>3 DEF less
<1> QED BY <1>6, <1>7

\* The window is the end of the log, the counters are those of the window.
SloInv ==
  /\ sloTarget \in Nat /\ requestLog \in Seq(BOOLEAN) /\ sloHistory \in Seq(BOOLEAN)
  /\ Len(requestLog) <= SloWindow => Len(sloHistory) = Len(requestLog)
  /\ Len(requestLog) > SloWindow => Len(sloHistory) = SloWindow
  /\ \A i \in 1..Len(sloHistory) : sloHistory[i] = requestLog[Len(requestLog) - Len(sloHistory) + i]
  /\ sloTotal = Len(sloHistory) /\ sloErrors = ErrorsIn(sloHistory)

\* SloInv holds before the first request.
LEMMA SloInitially == SloInit => SloInv
<1> SUFFICES ASSUME SloInit PROVE SloInv
  OBVIOUS
<1>1. sloHistory = <<>> /\ requestLog = <<>> /\ sloErrors = 0 /\ sloTotal = 0 /\ sloTarget \in Nat
  BY ClusterAssumption DEF SloInit
<1>2. ErrorsIn(sloHistory) = 0
  <2>1. sloHistory \in Seq(BOOLEAN) /\ Len(sloHistory) = 0
    BY <1>1
  <2>2. ErrorsIn(sloHistory) \in 0..0
    BY <2>1, ErrorsAre
  <2> QED BY <2>2
<1> QED BY <1>1, <1>2, ClusterAssumption DEF SloInv

\* SloInv survives a request: the counters move with the window.
LEMMA SloStep == ASSUME SloInv, (\E s \in BOOLEAN : RecordRequest(s)) \/ UNCHANGED sloVars PROVE SloInv'
<1>1. CASE UNCHANGED sloVars
  BY <1>1 DEF sloVars, SloInv, ErrorsIn
<1>2. ASSUME NEW s \in BOOLEAN, RecordRequest(s) PROVE SloInv'
  <2> DEFINE history == Append(sloHistory, s)
             n == Len(requestLog)
             h == Len(sloHistory)
             w == SloWindow
             was == Bit(~Head(history))
  <2>1. /\ sloTarget \in Nat /\ requestLog \in Seq(BOOLEAN) /\ sloHistory \in Seq(BOOLEAN)
        /\ sloTotal = h /\ sloErrors = ErrorsIn(sloHistory)
        /\ \A i \in 1..h : sloHistory[i] = requestLog[n - h + i]
    BY DEF SloInv
  <2>2. n \in Nat /\ h \in Nat /\ w \in Nat \ {0} /\ (n <= w => h = n) /\ (n > w => h = w)
    <3>1. n \in Nat /\ h \in Nat
      BY <2>1
    <3>2. (n <= w => h = n) /\ (n > w => h = w)
      BY DEF SloInv
    <3> QED BY <3>1, <3>2, ClusterAssumption
  <2>3. /\ history \in Seq(BOOLEAN) /\ Len(history) = h + 1 /\ history # <<>>
        /\ history[h + 1] = s /\ \A i \in 1..h : history[i] = sloHistory[i]
    <3>1. \A q \in Seq(BOOLEAN) : /\ Append(q, s) \in Seq(BOOLEAN) /\ Len(Append(q, s)) = Len(q) + 1 /\ Append(q, s) # <<>>
                                  /\ Append(q, s)[Len(q) + 1] = s /\ \A i \in 1..Len(q) : Append(q, s)[i] = q[i]
      OBVIOUS
    <3> QED BY <2>1, <3>1, Zenon
  <2>4. requestLog' = Append(requestLog, s) /\ sloTarget' = sloTarget
    BY <1>2 DEF RecordRequest
  <2>5. /\ sloHistory' = IF h + 1 > w THEN Tail(history) ELSE history
        /\ sloErrors' = sloErrors + Bit(~s) - Bit(h + 1 > w /\ ~Head(history))
        /\ sloTotal' = sloTotal + 1 - Bit(h + 1 > w)
    <3>1. /\ sloHistory' = IF Len(history) > w THEN Tail(history) ELSE history
          /\ sloErrors' = sloErrors + Bit(~s) - Bit(Len(history) > w /\ ~Head(history))
          /\ sloTotal' = sloTotal + 1 - Bit(Len(history) > w)
      BY <1>2, Zenon DEF RecordRequest
    <3>2. Len(history) = h + 1
      BY <2>3
    <3> HIDE DEF history, w, h
    <3> QED BY <3>1, <3>2, Zenon
  <2>6. /\ requestLog' \in Seq(BOOLEAN) /\ Len(requestLog') = n + 1
        /\ requestLog'[n + 1] = s /\ \A i \in 1..n : requestLog'[i] = requestLog[i]
    <3>1. \A q \in Seq(BOOLEAN) : /\ Append(q, s) \in Seq(BOOLEAN) /\ Len(Append(q, s)) = Len(q) + 1
                                  /\ Append(q, s)[Len(q) + 1] = s /\ \A i \in 1..Len(q) : Append(q, s)[i] = q[i]
      OBVIOUS
    <3> QED BY <2>1, <2>4, <3>1, Zenon
  <2>7. ErrorsIn(history) = ErrorsIn(sloHistory) + Bit(~s) /\ ErrorsIn(sloHistory) \in Int /\ Bit(~s) \in Int
    <3>1. ErrorsIn(history) = ErrorsIn(sloHistory) + Bit(~s)
      BY <2>1, ErrorsAppended, Zenon
    <3>2. ErrorsIn(sloHistory) \in 0..h
      BY <2>1, ErrorsAre
    <3>3. Bit(~s) = 0 \/ Bit(~s) = 1
      BY Bits, Zenon
    <3> QED BY <2>2, <3>1, <3>2, <3>3
  <2>8. ErrorsIn(Tail(history)) = ErrorsIn(history) - was /\ was \in Int
    <3>1. ErrorsIn(Tail(history)) = ErrorsIn(history) - was
      BY <2>3, ErrorsWithoutFirst
    <3>2. was = 0 \/ was = 1
      BY Zenon DEF Bit
    <3> HIDE DEF was, history
    <3> QED BY <3>1, <3>2
  <2>9. /\ Tail(history) \in Seq(BOOLEAN) /\ Len(Tail(history)) = h
        /\ \A i \in 1..h : Tail(history)[i] = history[i + 1]
    <3>1. \A q \in Seq(BOOLEAN) : q # <<>> => /\ Tail(q) \in Seq(BOOLEAN) /\ Len(Tail(q)) = Len(q) - 1
                                              /\ \A i \in 1..(Len(q) - 1) : Tail(q)[i] = q[i + 1]
      OBVIOUS
    <3> HIDE DEF history, h
    <3>2. Tail(history) \in Seq(BOOLEAN) /\ Len(Tail(history)) = (h + 1) - 1 /\ \A i \in 1..((h + 1) - 1) : Tail(history)[i] = history[i + 1]
      BY <2>3, <3>1
    <3>3. (h + 1) - 1 = h
      BY <2>2
    <3> QED BY <3>2, <3>3, Zenon
  <2> HIDE DEF history, h, n, w, was
  <2>10. \A i \in 1..(h + 1) : history[i] = requestLog'[n - h + i]
    <3> TAKE i \in 1..(h + 1)
    <3>1. CASE i = h + 1
      <4>1. n - h + i = n + 1
        BY <2>2, <3>1
      <4> QED BY <2>3, <2>6, <3>1, <4>1
    <3>2. CASE i # h + 1
      <4>1. i \in 1..h /\ n - h + i \in 1..n
        BY <2>2, <3>2
      <4> QED BY <2>1, <2>3, <2>6, <4>1
    <3> QED BY <3>1, <3>2
  <2>11. CASE ~(h + 1 > w)
    <3>1. sloHistory' = history /\ Bit(h + 1 > w) = 0 /\ Bit(h + 1 > w /\ ~Head(history)) = 0
      BY <2>5, <2>11, Zenon DEF Bit
    <3>2. sloErrors' = ErrorsIn(history) /\ sloTotal' = h + 1
      <4>1. sloErrors' = ErrorsIn(sloHistory) + Bit(~s) - 0 /\ sloTotal' = h + 1 - 0
        BY <2>1, <2>5, <3>1, Zenon
      <4> DEFINE e == ErrorsIn(sloHistory)
                 b == Bit(~s)
      <4>2. ErrorsIn(history) = e + b /\ e \in Int /\ b \in Int /\ sloErrors' = e + b - 0
        BY <2>7, <4>1
      <4> HIDE DEF e, b
      <4> QED BY <2>2, <4>1, <4>2
    <3>3. (n + 1 <= w => h + 1 = n + 1) /\ (n + 1 > w => h + 1 = w) /\ n - h = (n + 1) - (h + 1)
      BY <2>2, <2>11
    <3>4. \A i \in 1..(h + 1) : history[i] = requestLog'[(n + 1) - (h + 1) + i]
      BY <2>10, <3>3
    <3> QED BY <2>1, <2>3, <2>4, <2>6, <3>1, <3>2, <3>3, <3>4 DEF SloInv, w
  <2>12. CASE h + 1 > w
    <3>1. /\ sloHistory' = Tail(history) /\ Bit(h + 1 > w) = 1 /\ Bit(h + 1 > w /\ ~Head(history)) = was
      BY <2>5, <2>12, Zenon DEF Bit, was
    <3>2. sloErrors' = ErrorsIn(Tail(history)) /\ sloTotal' = h /\ h = w
      <4>1. sloErrors' = ErrorsIn(sloHistory) + Bit(~s) - was /\ sloTotal' = h + 1 - 1
        BY <2>1, <2>5, <3>1, Zenon
      <4> DEFINE e == ErrorsIn(sloHistory)
                 b == Bit(~s)
                 t == ErrorsIn(Tail(history))
      <4>2. t = (e + b) - was /\ e \in Int /\ b \in Int /\ was \in Int /\ sloErrors' = e + b - was
        BY <2>7, <2>8, <4>1
      <4>3. h = w
        BY <2>2, <2>12
      <4> HIDE DEF e, b
      <4>4. sloErrors' = t /\ sloTotal' = h
        <5> HIDE DEF t
        <5> QED BY <2>2, <4>1, <4>2
      <4> QED BY <4>3, <4>4 DEF t
    <3>3. \A i \in 1..h : Tail(history)[i] = requestLog'[(n + 1) - h + i]
      <4> TAKE i \in 1..h
      <4>1. i + 1 \in 1..(h + 1) /\ n - h + (i + 1) = (n + 1) - h + i
        BY <2>2
      <4> QED BY <2>9, <2>10, <4>1
    <3>4. (n + 1 <= w => h = n + 1) /\ (n + 1 > w => h = w)
      BY <2>2, <2>12, <3>2
    <3> QED BY <2>1, <2>4, <2>6, <2>9, <3>1, <3>2, <3>3, <3>4 DEF SloInv, w
  <2> QED BY <2>11, <2>12
<1> QED BY <1>1, <1>2

\* The decision is strict in what is left of the budget.
LEMMA Decided ==
  ASSUME NEW a \in Int, NEW n \in Nat
  PROVE  /\ a < 0 => Decide(<<a, n>>) = 4
         /\ \A b \in Int : b <= a => Decide(<<a, n>>) <= Decide(<<b, n>>)
<1>1. \A c \in Int, t \in Int : More(<<c, n>>, t) <=> 10 * c > t * n
  BY DEF More
<1>2. /\ \A c \in Int : More(<<c, n>>, 5) <=> 10 * c > 5 * n
      /\ \A c \in Int : More(<<c, n>>, 3) <=> 10 * c > 3 * n
      /\ \A c \in Int : More(<<c, n>>, 1) <=> 10 * c > n
  BY <1>1
<1>3. \A c \in Int : Decide(<<c, n>>) = IF 10 * c > 5 * n THEN 1 ELSE IF 10 * c > 3 * n THEN 2 ELSE IF 10 * c > n THEN 3 ELSE 4
  BY <1>2, Zenon DEF Decide
<1> QED BY <1>3

\* Of SloInv it follows that the two ways to a burn rate agree.
LEMMA SloAgrees == ASSUME SloInv PROVE BurnRatesAgree
<1> DEFINE n == Len(requestLog)
           h == Len(sloHistory)
           w == SloWindow
           T == sloTarget
           E == ErrorsIn(requestLog)
           windows == WindowBurnRates(requestLog, SloWindow)
<1>1. /\ T \in Nat /\ requestLog \in Seq(BOOLEAN) /\ sloHistory \in Seq(BOOLEAN)
      /\ sloTotal = h /\ sloErrors = ErrorsIn(sloHistory)
      /\ \A i \in 1..h : sloHistory[i] = requestLog[n - h + i]
  BY DEF SloInv
<1>2. n \in Nat /\ h \in Nat /\ w \in Nat \ {0} /\ (n <= w => h = n) /\ (n > w => h = w)
  <2>1. n \in Nat /\ h \in Nat
    BY <1>1
  <2>2. (n <= w => h = n) /\ (n > w => h = w)
    BY DEF SloInv
  <2> QED BY <2>1, <2>2, ClusterAssumption
<1>3. E \in Nat /\ sloErrors \in Nat
  <2>1. E \in 0..n /\ sloErrors \in 0..h
    BY <1>1, ErrorsAre, Zenon
  <2> HIDE DEF n, h, E
  <2> QED BY <1>2, <2>1
<1>4. h = Min({n, w})
  <2> HIDE DEF n, h, w
  <2>1. Min({n, w}) = IF n <= w THEN n ELSE w
    BY <1>2, LeastOfTwo
  <2> QED BY <1>2, <2>1
<1>5. sloHistory = SubSeq(requestLog, n - h + 1, n)
  <2> DEFINE last == SubSeq(requestLog, n - h + 1, n)
  <2>1. last = [i \in 1..h |-> requestLog[n - h + i]]
    <3>1. last = [i \in 1..(1 + n - (n - h + 1)) |-> requestLog[i + (n - h + 1) - 1]]
      OBVIOUS
    <3>2. 1 + n - (n - h + 1) = h /\ \A i \in 1..h : i + (n - h + 1) - 1 = n - h + i
      BY <1>2
    <3> HIDE DEF last, n, h
    <3> QED BY <3>1, <3>2
  <2>2. sloHistory = [i \in 1..h |-> sloHistory[i]]
    BY <1>1
  <2> HIDE DEF last, n, h
  <2> QED BY <1>1, <2>1, <2>2 DEF last
<1>6. T # 0 /\ n >= w => Last(windows)[1] * SimulatorBurnRate[2] = Last(windows)[2] * SimulatorBurnRate[1]
  <2> SUFFICES ASSUME T # 0, n >= w PROVE Last(windows)[1] * SimulatorBurnRate[2] = Last(windows)[2] * SimulatorBurnRate[1]
    OBVIOUS
  <2>1. h = w /\ n - w + 1 \in Nat /\ n - w + 1 \in 1..(n - w + 1) /\ n - w + 1 + w - 1 = n
    BY <1>2
  <2>2. windows = [i \in 1..(n - w + 1) |-> BurnRate(ErrorsIn(SubSeq(requestLog, i, i + w - 1)), w)]
    BY DEF WindowBurnRates
  <2>3. Len(windows) = n - w + 1
    <3> HIDE DEF n, w, windows
    <3> QED BY <2>1, <2>2
  <2>4. Last(windows) = BurnRate(ErrorsIn(SubSeq(requestLog, n - w + 1, n)), w)
    <3>1. Last(windows) = windows[n - w + 1]
      BY <2>3, Zenon DEF Last
    <3> HIDE DEF windows, n, w
    <3> QED BY <2>1, <2>2, <3>1
  <2>5. Last(windows) = BurnRate(sloErrors, w)
    BY <1>1, <1>5, <2>1, <2>4, Zenon
  <2>6. BurnRate(sloErrors, w) = <<sloErrors * T, w>>
    BY <1>2 DEF BurnRate
  <2>7. SimulatorBurnRate = <<sloErrors * T, w>>
    BY <1>1, <1>2, <2>1 DEF SimulatorBurnRate
  <2> DEFINE x == sloErrors * T
  <2>8. x \in Int
    BY <1>1, <1>3
  <2>9. Last(windows)[1] = x /\ Last(windows)[2] = w /\ SimulatorBurnRate[1] = x /\ SimulatorBurnRate[2] = w
    <3> HIDE DEF w, windows
    <3> QED BY <2>5, <2>6, <2>7
  <2>10. x * w = w * x
    <3> HIDE DEF x, w
    <3> QED BY <1>2, <2>8
  <2> HIDE DEF x, windows, w
  <2> QED BY <2>9, <2>10, Zenon
<1>7. sloErrors = 0 => Status = 1
  <2> SUFFICES ASSUME sloErrors = 0 PROVE Status = 1
    OBVIOUS
  <2>1. PICK d \in Nat \ {0} : SimulatorBurnRate = <<0, d>>
    <3>1. CASE T = 0 \/ sloTotal = 0
      BY <3>1 DEF SimulatorBurnRate
    <3>2. CASE ~(T = 0 \/ sloTotal = 0)
      <4>1. SimulatorBurnRate = <<sloErrors * T, sloTotal>>
        BY <3>2 DEF SimulatorBurnRate
      <4>2. sloErrors * T = 0
        BY <1>1
      <4>3. sloTotal \in Nat \ {0}
        BY <1>1, <1>2, <3>2
      <4> QED BY <4>1, <4>2, <4>3
    <3> QED BY <3>1, <3>2
  <2>2. ~AtLeast(SimulatorBurnRate, 100) /\ ~AtLeast(SimulatorBurnRate, 10) /\ ~AtLeast(SimulatorBurnRate, 2)
    BY <2>1 DEF AtLeast
  <2> QED BY <2>2, Zenon DEF Status
<1>8. ASSUME T # 0, n > 0
      PROVE  /\ BurnRate(E, n)[1] > BurnRate(E, n)[2] <=> Remaining(E, n)[1] < 0
             /\ BurnRate(E, n)[1] > BurnRate(E, n)[2] => Decide(Remaining(E, n)) = 4
             /\ \A e \in 0..n - 1 : Decide(Remaining(e, n)) <= Decide(Remaining(e + 1, n))
  <2> DEFINE x == E * T
  <2>1. x \in Int
    BY <1>1, <1>3
  <2>2. BurnRate(E, n) = <<x, n>>
    BY <1>2, <1>8 DEF BurnRate
  <2>3. Remaining(E, n) = <<n - x, n>>
    BY DEF Remaining
  <2>4. BurnRate(E, n)[1] > BurnRate(E, n)[2] <=> n - x < 0
    <3> HIDE DEF x, n, E
    <3> QED BY <1>2, <2>1, <2>2
  <2>5. Remaining(E, n)[1] < 0 <=> n - x < 0
    <3> HIDE DEF x, n, E
    <3> QED BY <1>2, <2>1, <2>3
  <2>6. n - x < 0 => Decide(Remaining(E, n)) = 4
    <3> HIDE DEF x, n, E
    <3>1. n - x \in Int
      BY <1>2, <2>1
    <3> QED BY <1>2, <2>3, <3>1, Decided
  <2>7. ASSUME NEW e \in 0..n - 1 PROVE Decide(Remaining(e, n)) <= Decide(Remaining(e + 1, n))
    <3> DEFINE y == e * T
               z == (e + 1) * T
    <3>1. e \in Nat
      BY <1>2
    <3>2. z = y + T /\ y \in Int
      <4>1. \A a, b \in Nat : (a + 1) * b = a * b + b /\ a * b \in Int
        OBVIOUS
      <4>2. T \in Nat
        BY <1>1
      <4> HIDE DEF T
      <4> QED BY <3>1, <4>1, <4>2
    <3>3. Remaining(e, n) = <<n - y, n>> /\ Remaining(e + 1, n) = <<n - z, n>>
      BY DEF Remaining
    <3> HIDE DEF y, z, n, T
    <3>4. n - y \in Int /\ n - z \in Int /\ n - z <= n - y
      BY <1>1, <1>2, <3>2
    <3> QED BY <1>2, <3>3, <3>4, Decided
  <2> HIDE DEF n, E, x
  <2> QED BY <2>4, <2>5, <2>6, <2>7, Zenon
<1> HIDE DEF n, h, w, T, E, windows
<1> QED BY <1>1, <1>4, <1>5, <1>6, <1>7, <1>8, Zenon DEF BurnRatesAgree, n, h, w, T, E, windows

----------------------------------------------------------------------------
HttpInv ==
  /\ latencies \in Seq(Nat)
  /\ \A i \in 1..Len(latencies) : (i = 3 => latencies[i] = SlowLatency) /\ (i # 3 => latencies[i] \in Latencies)

\* HttpInv survives another request.
LEMMA HttpStep == ASSUME HttpInv, DrawLatency \/ UNCHANGED latencies PROVE HttpInv'
<1>1. CASE UNCHANGED latencies
  BY <1>1 DEF HttpInv
<1>2. CASE DrawLatency
  <2>1. PICK l \in Nat : latencies' = Append(latencies, l) /\ IF Len(latencies) = 2 THEN l = SlowLatency ELSE l \in Latencies
    <3>1. SlowLatency \in Nat /\ Latencies \subseteq Nat
      BY ClusterAssumption
    <3> QED BY <1>2, <3>1 DEF DrawLatency
  <2>2. latencies \in Seq(Nat) /\ Len(latencies) \in Nat
    BY DEF HttpInv
  <2>3. \A q \in Seq(Nat) : /\ Append(q, l) \in Seq(Nat) /\ Len(Append(q, l)) = Len(q) + 1
                            /\ Append(q, l)[Len(q) + 1] = l /\ \A i \in 1..Len(q) : Append(q, l)[i] = q[i]
    OBVIOUS
  <2>4. /\ latencies' \in Seq(Nat) /\ Len(latencies') = Len(latencies) + 1
        /\ latencies'[Len(latencies) + 1] = l /\ \A i \in 1..Len(latencies) : latencies'[i] = latencies[i]
    BY <2>1, <2>2, <2>3, Zenon
  <2>5. \A i \in 1..(Len(latencies) + 1) : i \in 1..Len(latencies) \/ i = Len(latencies) + 1
    BY <2>2
  <2>6. ASSUME NEW i \in 1..Len(latencies')
        PROVE  (i = 3 => latencies'[i] = SlowLatency) /\ (i # 3 => latencies'[i] \in Latencies)
    <3>1. CASE i \in 1..Len(latencies)
      BY <2>4, <3>1 DEF HttpInv
    <3>2. CASE i = Len(latencies) + 1
      <4>1. i = 3 <=> Len(latencies) = 2
        <5> DEFINE n == Len(latencies)
        <5>1. n \in Nat /\ i = n + 1
          BY <2>2, <3>2
        <5> HIDE DEF n
        <5>2. i = 3 <=> n = 2
          BY <5>1
        <5> QED BY <5>2 DEF n
      <4>2. latencies'[i] = l
        BY <2>4, <3>2, Zenon
      <4> QED BY <2>1, <4>1, <4>2, Zenon
    <3> QED BY <2>4, <2>5, <3>1, <3>2
  <2> QED BY <2>4, <2>6, Zenon DEF HttpInv
<1> QED BY <1>1, <1>2

\* Of HttpInv it follows that the slowest request decides.
LEMMA HttpSlowest == ASSUME HttpInv PROVE SlowestDecides
<1> SUFFICES ASSUME Len(latencies) > 2
    PROVE  /\ Http3 = SlowLatency /\ Http2(TRUE) = Http3 + LossPenalty /\ Http2(FALSE) = Http3
           /\ Http11 >= Http3 + (Len(latencies) - 1) * Min(Latencies)
  BY Zenon DEF SlowestDecides
<1> DEFINE n == Len(latencies)
           m == Min(Latencies)
           D == 1..n
<1>1. /\ latencies \in Seq(Nat) /\ n \in Nat
      /\ \A i \in 1..n : (i = 3 => latencies[i] = SlowLatency) /\ (i # 3 => latencies[i] \in Latencies)
  BY DEF HttpInv
<1>2. SlowLatency \in Nat /\ Latencies \in SUBSET Nat /\ Latencies # {} /\ \A l \in Latencies : l <= SlowLatency
  BY ClusterAssumption
<1>3. latencies \in [D -> Int] /\ 3 \in D
  <2>1. \A q \in Seq(Nat) : q \in [1..Len(q) -> Int]
    OBVIOUS
  <2> QED BY <1>1, <2>1
<1>4. IsFiniteSet(D) /\ Cardinality(D) = n
  <2>1. \A k \in Nat : IsFiniteSet(1..k) /\ Cardinality(1..k) = k
    <3> TAKE k \in Nat
    <3>1. 1 \in Int /\ k \in Int
      OBVIOUS
    <3>2. IsFiniteSet(1..k) /\ Cardinality(1..k) = IF 1 > k THEN 0 ELSE k - 1 + 1
      BY <3>1, FS_Interval, Zenon
    <3>3. (IF 1 > k THEN 0 ELSE k - 1 + 1) = k
      OBVIOUS
    <3> QED BY <3>2, <3>3
  <2> QED BY <1>1, <2>1, Zenon
<1>5. m \in Latencies /\ \A l \in Latencies : m <= l
  <2>1. PICK x \in Latencies : \A y \in Latencies : x <= y
    BY <1>2, LeastNumber, Zenon
  <2> QED BY <2>1, Zenon DEF Min
<1>6. m \in Nat
  BY <1>2, <1>5
<1>7. Http3 = SlowLatency
  <2> DEFINE S == ToSet(latencies)
  <2>1. S = {latencies[i] : i \in D}
    BY <1>3 DEF ToSet
  <2>2. SlowLatency \in S
    BY <1>1, <1>3, <2>1
  <2>3. \A x \in S : x \in Nat /\ x <= SlowLatency
    <3> TAKE x \in S
    <3>1. PICK i \in D : x = latencies[i]
      BY <2>1
    <3> QED BY <1>1, <1>2, <3>1
  <2>4. S \in SUBSET Nat /\ S # {}
    BY <2>2, <2>3, Zenon
  <2> HIDE DEF S
  <2>5. Max(S) \in S /\ \A y \in S : y <= Max(S)
    BY <1>2, <2>3, <2>4, LargestNumber
  <2>6. Max(S) <= SlowLatency /\ SlowLatency <= Max(S) /\ Max(S) \in Nat
    BY <2>2, <2>3, <2>5, Zenon
  <2>7. Max(S) = SlowLatency
    BY <1>2, <2>6
  <2> QED BY <2>7 DEF Http3, S
<1>8. Http2(TRUE) = Http3 + LossPenalty /\ Http2(FALSE) = Http3
  <2>1. Http2(TRUE) = Http3 + LossPenalty /\ Http2(FALSE) = Http3 + 0
    BY Zenon DEF Http2, Http3
  <2>2. Http3 + 0 = Http3
    <3> DEFINE t == Http3
    <3>1. t \in Int
      BY <1>2, <1>7
    <3> HIDE DEF t
    <3>2. t + 0 = t
      BY <3>1
    <3> QED BY <3>2 DEF t
  <2> QED BY <2>1, <2>2, Zenon
<1>9. Http11 >= SlowLatency + (n - 1) * m
  <2> DEFINE others == [y \in D \ {3} |-> latencies[y]]
  <2>1. SumFunction(latencies) = latencies[3] + SumFunction(others)
    <3> HIDE DEF D
    <3>1. \A x \in D : SumFunction(latencies) = latencies[x] + SumFunction([y \in D \ {x} |-> latencies[y]])
      BY <1>3, <1>4, SumsTakenOut, Zenon
    <3> QED BY <1>3, <3>1, Zenon
  <2>2. IsFiniteSet(D \ {3}) /\ Cardinality(D \ {3}) = n - 1
    <3>1. IsFiniteSet(D \ {3}) /\ Cardinality(D \ {3}) = Cardinality(D) - 1
      <4> HIDE DEF D
      <4> QED BY <1>3, <1>4, FS_RemoveElement
    <3> QED BY <1>4, <3>1
  <2>3. others \in [D \ {3} -> Int] /\ \A x \in D \ {3} : m <= others[x]
    <3>1. \A x \in D \ {3} : latencies[x] \in Latencies /\ latencies[x] \in Int
      BY <1>1, <1>2
    <3> QED BY <1>5, <3>1
  <2> HIDE DEF others, D, n, m
  <2>4. (n - 1) * m <= SumFunction(others)
    <3>1. m \in Int
      BY <1>6
    <3>2. Cardinality(D \ {3}) * m <= SumFunction(others)
      BY <2>2, <2>3, <3>1, SumAtLeast
    <3> QED BY <2>2, <3>2
  <2>5. SumFunction(others) \in Int
    BY <2>2, <2>3, SumType
  <2> DEFINE p == (n - 1) * m
  <2>6. p \in Int
    BY <1>1, <1>6
  <2>7. SumFunction(latencies) = SlowLatency + SumFunction(others) /\ p <= SumFunction(others)
    BY <1>1, <1>3, <2>1, <2>4 DEF D
  <2> HIDE DEF p
  <2>8. SumFunction(latencies) >= SlowLatency + p
    BY <1>2, <2>5, <2>6, <2>7
  <2> QED BY <2>8, Zenon DEF Http11, p
<1> QED BY <1>7, <1>8, <1>9, Zenon

----------------------------------------------------------------------------
(* The latency budget: what the loop adds is at least the sum of the groups' maxima. *)

\* The quotient is the greatest that times the divisor fits.
LEMMA QuotientBounds ==
  ASSUME NEW n \in Nat, NEW k \in Nat \ {0}
  PROVE  /\ n \div k \in Nat /\ (n \div k) * k \in Nat
         /\ (n \div k) * k <= n /\ n < (n \div k) * k + k
<1> DEFINE q == n \div k
<1>1. q \in Int /\ q >= 0 /\ 0 <= n % k /\ n % k < k /\ k * q \in Int /\ n = k * q + (n % k)
  BY Division
<1>2. q * k = k * q
  <2> HIDE DEF q
  <2> QED BY <1>1
<1>3. n % k \in Int
  OBVIOUS
<1> DEFINE x == k * q
           m == n % k
<1>4. x \in Int /\ m \in Int /\ 0 <= m /\ m < k /\ n = x + m
  BY <1>1, <1>3
<1> HIDE DEF x, m
<1>5. x <= n /\ n < x + k
  BY <1>4
<1>6. x >= 0
  <2> HIDE DEF q
  <2> QED BY <1>1 DEF x
<1> HIDE DEF q
<1>7. x \in Nat
  BY <1>4, <1>6
<1>8. q * k = x
  BY <1>2 DEF x
<1> QED BY <1>1, <1>5, <1>7, <1>8 DEF q

AddedAt(n) ==
  IF components[n].parallel /\ n > 1 THEN Added(components[n], components[n - 1]) ELSE components[n].p99

BudgetInv ==
  /\ components \in Seq(Component)
  /\ nextComponent \in 1..(Len(components) + 1)
  /\ results \in Seq(Nat) /\ Len(results) = nextComponent - 1
  /\ \A n \in 1..(nextComponent - 1) : results[n] = AddedAt(n)
  /\ totalP99 = SumFunction(results)
  /\ budget # <<>> => /\ nextComponent > Len(components) /\ components # <<>>
                      /\ budget = [bottlenecks |-> Bottlenecks, top |-> TopThree]

\* What a component adds is at most its own time.
LEMMA AddedIs ==
  ASSUME components \in Seq(Component), NEW n \in 1..Len(components)
  PROVE  /\ components[n].p99 \in Nat \ {0} /\ components[n].p99 <= MaxLatency /\ components[n].parallel \in BOOLEAN
         /\ AddedAt(n) \in Nat /\ (n = 1 => AddedAt(n) = components[n].p99)
         /\ ~components[n].parallel => AddedAt(n) = components[n].p99
         /\ n > 1 => components[n].p99 <= components[n - 1].p99 + AddedAt(n) /\ components[n - 1].p99 \in Nat
<1>1. \A m \in 1..Len(components) : components[m] \in Component
  OBVIOUS
<1>2. \A m \in 1..Len(components) : /\ components[m].p99 \in Nat \ {0} /\ components[m].p99 <= MaxLatency
                                    /\ components[m].parallel \in BOOLEAN
  BY <1>1, ReportsAssumption DEF Component
<1>3. n \in Nat /\ n >= 1 /\ (n > 1 => n - 1 \in 1..Len(components))
  OBVIOUS
<1>4. n = 1 \/ ~components[n].parallel => AddedAt(n) = components[n].p99
  BY <1>3 DEF AddedAt
<1>5. components[n].parallel /\ n > 1 => AddedAt(n) = IF components[n].p99 > components[n - 1].p99
                                                     THEN components[n].p99 - components[n - 1].p99 ELSE 0
  BY DEF AddedAt, Added
<1>6. n > 1 => components[n - 1].p99 \in Nat
  BY <1>2, <1>3
<1>7. AddedAt(n) \in Nat /\ (n > 1 => components[n].p99 <= components[n - 1].p99 + AddedAt(n))
  <2> DEFINE a == AddedAt(n)
             p == components[n].p99
             q == components[n - 1].p99
  <2>1. p \in Nat /\ (n > 1 => q \in Nat)
    BY <1>2, <1>6
  <2>2. CASE n = 1
    BY <1>4, <2>1, <2>2
  <2>3. CASE n # 1 /\ ~components[n].parallel
    <3>1. a = p /\ n > 1
      BY <1>3, <1>4, <2>3
    <3> HIDE DEF a, p, q
    <3>2. a \in Nat /\ p <= q + a
      BY <2>1, <3>1
    <3> QED BY <3>2 DEF a, p, q
  <2>4. CASE n # 1 /\ components[n].parallel
    <3>1. n > 1 /\ a = IF p > q THEN p - q ELSE 0
      BY <1>3, <1>5, <2>4
    <3> HIDE DEF a, p, q
    <3>2. a \in Nat /\ p <= q + a
      BY <2>1, <3>1
    <3> QED BY <3>2 DEF a, p, q
  <2> QED BY <2>2, <2>3, <2>4
<1> QED BY <1>2, <1>4, <1>6, <1>7

\* Within a group the additions up to a component reach what it takes.
LEMMA GroupReached ==
  ASSUME components \in Seq(Component), NEW n \in Firsts, NEW m \in Group(n)
  PROVE  components[m].p99 <= SumFunction([k \in n..m |-> AddedAt(k)])
<1> DEFINE N == Len(components)
           part(j) == [k \in n..(n + j) |-> AddedAt(k)]
           S == {j \in Nat : n + j <= m => components[n + j].p99 <= SumFunction(part(j))}
<1>1. N \in Nat /\ DOMAIN components = 1..N
  OBVIOUS
<1>2. n \in 1..N /\ m \in 1..N /\ n <= m /\ \A x \in (n + 1)..m : components[x].parallel
  BY <1>1 DEF Firsts, Group
<1>3. \A k \in n..m : k \in 1..N
  BY <1>1, <1>2
<1>4. \A k \in n..m : AddedAt(k) \in Nat
  BY <1>3, AddedIs
<1>5. 0 \in S
  <2>1. AddedAt(n) = components[n].p99 /\ components[n].p99 \in Nat
    BY <1>1, <1>2, AddedIs DEF Firsts
  <2> DEFINE one == [k \in n..n |-> AddedAt(k)]
             none == [k \in {} |-> AddedAt(k)]
  <2>2. n..n = {n}
    BY <1>2
  <2>3. IsFiniteSet({n}) /\ one \in [{n} -> Int] /\ one[n] = AddedAt(n)
    <3>1. one = [k \in {n} |-> AddedAt(k)]
      BY <2>2
    <3>2. IsFiniteSet({n})
      BY FS_Singleton, Zenon
    <3> HIDE DEF one
    <3> QED BY <2>1, <3>1, <3>2
  <2>4. [y \in {n} \ {n} |-> one[y]] = none
    OBVIOUS
  <2>5. SumFunction(none) = 0
    BY SumOfNothing
  <2>6. SumFunction(one) = one[n] + SumFunction([y \in {n} \ {n} |-> one[y]])
    <3> HIDE DEF one
    <3> QED BY <2>3, SumTakenOut
  <2>7. SumFunction(one) = AddedAt(n)
    <3> HIDE DEF one, none
    <3> QED BY <2>1, <2>3, <2>4, <2>5, <2>6
  <2>8. n + 0 = n
    BY <1>2
  <2>9. part(0) = one
    BY <2>8
  <2>10. components[n + 0].p99 <= SumFunction(part(0))
    <3> HIDE DEF one
    <3>1. components[n].p99 <= SumFunction(one)
      BY <2>1, <2>7
    <3> QED BY <2>8, <2>9, <3>1, Zenon
  <2> HIDE DEF one, none, part
  <2> QED BY <2>10
<1>6. ASSUME NEW j \in S PROVE j + 1 \in S
  <2> SUFFICES ASSUME n + (j + 1) <= m PROVE components[n + (j + 1)].p99 <= SumFunction(part(j + 1))
    BY DEF S
  <2>1. j \in Nat /\ n + j <= m /\ n + (j + 1) \in n..m /\ n + j \in n..m /\ n + (j + 1) \in (n + 1)..m
    BY <1>2
  <2>2. components[n + j].p99 <= SumFunction(part(j))
    BY <2>1
  <2> DEFINE z == n + (j + 1)
             D == n..(n + j)
             f == part(j)
             g == part(j + 1)
  <2>3. z \in 1..N /\ z > 1 /\ z - 1 = n + j
    BY <1>2, <1>3, <2>1
  <2>4. components[z].p99 <= components[n + j].p99 + AddedAt(z) /\ components[n + j].p99 \in Nat /\ components[z].p99 \in Nat
        /\ AddedAt(z) \in Nat
    <3> HIDE DEF z, N
    <3>1. components[z].p99 <= components[z - 1].p99 + AddedAt(z) /\ components[z - 1].p99 \in Nat /\ components[z].p99 \in Nat
          /\ AddedAt(z) \in Nat
      BY <2>3, AddedIs DEF N
    <3> QED BY <2>3, <3>1
  <2>5. IsFiniteSet(D) /\ z \notin D /\ D \cup {z} = n..z
    <3>1. n \in Int /\ n + j \in Int
      BY <1>2, <2>1
    <3>2. IsFiniteSet(n..(n + j))
      BY <3>1, FS_Interval
    <3>3. z \notin D /\ D \cup {z} = n..z
      BY <1>2, <2>1
    <3> QED BY <3>2, <3>3
  <2>6. f \in [D -> Int] /\ g \in [D \cup {z} -> Int] /\ g[z] = AddedAt(z) /\ \A y \in D : g[y] = f[y]
    <3>1. \A k \in n..z : AddedAt(k) \in Int /\ (k \in D => k \in n..m)
      BY <1>2, <1>4, <2>1
    <3>2. D \subseteq n..z /\ z \in n..z
      BY <1>2, <2>1
    <3> HIDE DEF D
    <3>3. f = [k \in D |-> AddedAt(k)] /\ g = [k \in n..z |-> AddedAt(k)]
      BY DEF D
    <3> HIDE DEF f, g, z
    <3> QED BY <2>5, <3>1, <3>2, <3>3
  <2> HIDE DEF f, g, D, z
  <2>7. SumFunction(g) = SumFunction(f) + g[z]
    <3>1. \A e \in [D -> Int], h \in [D \cup {z} -> Int] :
            (\A y \in D : h[y] = e[y]) => SumFunction(h) = SumFunction(e) + h[z]
      BY <2>5, SumExtended, Zenon
    <3> QED BY <2>6, <3>1, Zenon
  <2>8. SumFunction(f) \in Int
    BY <2>5, <2>6, SumType
  <2>9. components[n + j].p99 <= SumFunction(f)
    BY <2>2 DEF f
  <2>10. components[z].p99 <= SumFunction(g)
    <3> DEFINE a == components[z].p99
               b == components[n + j].p99
    <3> HIDE DEF a, b
    <3>1. a \in Nat /\ b \in Nat /\ a <= b + AddedAt(z) /\ AddedAt(z) \in Nat /\ b <= SumFunction(f)
          /\ SumFunction(g) = SumFunction(f) + AddedAt(z)
      BY <2>4, <2>6, <2>7, <2>9, Zenon DEF a, b
    <3>2. a <= SumFunction(g)
      BY <2>8, <3>1
    <3> QED BY <3>2 DEF a
  <2> QED BY <2>10 DEF z, g
<1>7. S = Nat
  <2> HIDE DEF S
  <2>1. S \in SUBSET Nat
    BY DEF S
  <2> QED BY <1>5, <1>6, <2>1, EveryNumber
<1> DEFINE d == m - n
<1>8. d \in Nat /\ n + d = m
  BY <1>2
<1>9. components[n + d].p99 <= SumFunction(part(d))
  <2>1. d \in S
    <3> HIDE DEF S, d
    <3> QED BY <1>7, <1>8
  <2> HIDE DEF d, part
  <2> QED BY <1>2, <1>8, <2>1
<1> HIDE DEF d
<1> QED BY <1>8, <1>9

\* What a group adds is at least the slowest of its components.
LEMMA GroupCovers ==
  ASSUME components \in Seq(Component), NEW n \in Firsts
  PROVE  /\ Group(n) \subseteq 1..Len(components) /\ IsFiniteSet(Group(n))
         /\ Max({components[m].p99 : m \in Group(n)}) \in Nat
         /\ Max({components[m].p99 : m \in Group(n)}) <= SumFunction([k \in Group(n) |-> AddedAt(k)])
<1> DEFINE N == Len(components)
           G == Group(n)
           V == {components[m].p99 : m \in G}
           f == [k \in G |-> AddedAt(k)]
<1>1. N \in Nat /\ DOMAIN components = 1..N /\ n \in 1..N
  BY DEF Firsts
<1>2. G \subseteq 1..N /\ n \in G
  BY <1>1 DEF Group
<1>3. IsFiniteSet(G)
  <2>1. IsFiniteSet(1..N)
    BY <1>1, FS_Interval
  <2> HIDE DEF G, N
  <2> QED BY <1>2, <2>1, FS_Subset, Zenon
<1>4. \A m \in G : components[m].p99 \in Nat /\ components[m].p99 <= MaxLatency /\ AddedAt(m) \in Nat
  BY <1>2, AddedIs
<1>5. f \in [G -> Nat]
  <2> HIDE DEF G
  <2> QED BY <1>4
<1>6. V \in SUBSET Nat /\ V # {} /\ \A v \in V : v <= MaxLatency
  <2> HIDE DEF G
  <2> QED BY <1>2, <1>4
<1>7. Max(V) \in V
  <2>1. MaxLatency \in Nat
    BY ReportsAssumption
  <2> HIDE DEF V
  <2> QED BY <1>6, <2>1, LargestNumber
<1>8. PICK m \in G : Max(V) = components[m].p99
  BY <1>7
<1>9. n \in Nat /\ m \in Nat /\ n <= m
  BY <1>1, <1>2 DEF Group
<1>10. n..m \subseteq G
  <2> SUFFICES ASSUME NEW k \in n..m PROVE k \in G
    BY Zenon
  <2>1. k \in 1..N /\ n <= k
    BY <1>1, <1>2, <1>9
  <2>2. \A x \in (n + 1)..k : x \in (n + 1)..m
    BY <1>9
  <2>3. \A x \in (n + 1)..m : components[x].parallel
    BY <1>8 DEF Group
  <2> QED BY <1>1, <2>1, <2>2, <2>3 DEF Group
<1>11. components[m].p99 <= SumFunction([k \in n..m |-> AddedAt(k)])
  BY <1>8, GroupReached
<1> DEFINE p == [k \in n..m |-> f[k]]
<1>12. p = [k \in n..m |-> AddedAt(k)]
  BY <1>10
<1>13. p \in [n..m -> Nat]
  <2> HIDE DEF f, G
  <2> QED BY <1>5, <1>10
<1>14. IsFiniteSet(n..m)
  <2> HIDE DEF G
  <2> QED BY <1>3, <1>10, FS_Subset, Zenon
<1>15. SumFunction(p) <= SumFunction(f)
  <2> HIDE DEF f, G
  <2> QED BY <1>3, <1>5, <1>10, SumOfLess
<1>16. SumFunction(p) \in Int /\ SumFunction(f) \in Int
  <2>1. p \in [n..m -> Int] /\ f \in [G -> Int]
    <3> HIDE DEF p, f, G
    <3> QED BY <1>5, <1>13
  <2> HIDE DEF p, f, G
  <2> QED BY <1>3, <1>14, <2>1, SumType
<1>17. Max(V) \in Nat /\ Max(V) <= SumFunction(p)
  <2> HIDE DEF p, V, G
  <2> QED BY <1>4, <1>8, <1>11, <1>12
<1>18. Max(V) <= SumFunction(f)
  <2> HIDE DEF p, V, f
  <2> QED BY <1>15, <1>16, <1>17
<1> HIDE DEF V
<1> QED BY <1>2, <1>3, <1>17, <1>18 DEF V

\* Different groups have no component in common.
LEMMA GroupsApart ==
  ASSUME components \in Seq(Component), NEW n \in Firsts, NEW m \in Firsts, n # m
  PROVE  Group(n) \cap Group(m) = {}
<1>1. \A a, b \in Firsts : \A k : a < b => ~(k \in Group(a) /\ k \in Group(b))
  <2> SUFFICES ASSUME NEW a \in Firsts, NEW b \in Firsts, NEW k, a < b, k \in Group(a), k \in Group(b) PROVE FALSE
    OBVIOUS
  <2>1. DOMAIN components = 1..Len(components)
    OBVIOUS
  <2>2. a \in Nat /\ b \in Nat /\ k \in Nat /\ a >= 1 /\ b <= k /\ (b = 1 \/ ~components[b].parallel)
    BY <2>1 DEF Firsts, Group
  <2>3. b \in (a + 1)..k
    BY <2>2
  <2>4. components[b].parallel
    BY <2>3 DEF Group
  <2> QED BY <2>2, <2>4
<1>2. n \in Nat /\ m \in Nat
  BY DEF Firsts
<1>3. n < m \/ m < n
  BY <1>2
<1> QED BY <1>1, <1>3

\* So the loop's total is at least the documented one.
LEMMA BudgetCovers ==
  ASSUME components \in Seq(Component)
  PROVE  Documented <= SumFunction([k \in 1..Len(components) |-> AddedAt(k)])
<1> DEFINE N == Len(components)
           D == 1..N
           a == [k \in D |-> AddedAt(k)]
           M(n) == Max({components[m].p99 : m \in Group(n)})
           g == [n \in Firsts |-> M(n)]
           Of(T) == UNION {Group(n) : n \in T}
           P == {T \in SUBSET Firsts : SumFunction([n \in T |-> M(n)]) <= SumFunction([k \in Of(T) |-> AddedAt(k)])}
<1>1. N \in Nat /\ DOMAIN components = D /\ IsFiniteSet(D)
  BY FS_Interval
<1>2. Firsts \subseteq D
  BY DEF Firsts
<1>3. IsFiniteSet(Firsts)
  <2> HIDE DEF D
  <2> QED BY <1>1, <1>2, FS_Subset, Zenon
<1>4. \A k \in D : AddedAt(k) \in Nat
  BY AddedIs
<1>5. a \in [D -> Nat]
  BY <1>4
<1>6. \A n \in Firsts : /\ Group(n) \subseteq D /\ IsFiniteSet(Group(n)) /\ M(n) \in Nat
                        /\ M(n) <= SumFunction([k \in Group(n) |-> AddedAt(k)])
  BY GroupCovers
<1> HIDE DEF M
<1>7. \A T \in SUBSET Firsts : Of(T) \subseteq D /\ IsFiniteSet(Of(T)) /\ IsFiniteSet(T)
  <2> TAKE T \in SUBSET Firsts
  <2>1. Of(T) \subseteq D
    <3> HIDE DEF D
    <3> QED BY <1>6
  <2> HIDE DEF D, Of
  <2> QED BY <1>1, <1>3, <2>1, FS_Subset, Zenon
<1>8. {} \in P
  <2>1. Of({}) = {}
    OBVIOUS
  <2>2. [n \in {} |-> M(n)] = [k \in {} |-> AddedAt(k)]
    OBVIOUS
  <2>3. SumFunction([k \in {} |-> AddedAt(k)]) = 0
    BY SumOfNothing
  <2>4. SumFunction([n \in {} |-> M(n)]) = 0 /\ SumFunction([k \in Of({}) |-> AddedAt(k)]) = 0
    BY <2>1, <2>2, <2>3, Zenon
  <2> HIDE DEF Of
  <2> QED BY <2>4
<1>9. ASSUME NEW T \in P, NEW x \in Firsts \ T PROVE T \cup {x} \in P
  <2> DEFINE A == Of(T)
             B == Group(x)
             U == T \cup {x}
             fT == [n \in T |-> M(n)]
             fU == [n \in U |-> M(n)]
             gA == [k \in A |-> AddedAt(k)]
             gB == [k \in B |-> AddedAt(k)]
             gU == [k \in A \cup B |-> AddedAt(k)]
  <2>1. T \in SUBSET Firsts /\ U \in SUBSET Firsts /\ SumFunction(fT) <= SumFunction(gA)
    OBVIOUS
  <2>2. Of(U) = A \cup B
    OBVIOUS
  <2>3. A \subseteq D /\ IsFiniteSet(A) /\ IsFiniteSet(T) /\ B \subseteq D /\ IsFiniteSet(B) /\ M(x) \in Nat
        /\ M(x) <= SumFunction(gB)
    <3> HIDE DEF D, Of
    <3> QED BY <1>6, <1>7, <2>1, Zenon
  <2>4. A \cap B = {}
    <3>1. \A n \in T : Group(n) \cap Group(x) = {}
      <4> TAKE n \in T
      <4>1. n \in Firsts /\ n # x
        BY <2>1
      <4> QED BY <4>1, GroupsApart, Zenon
    <3> QED BY <3>1
  <2>5. gA \in [A -> Int] /\ gB \in [B -> Int] /\ gU \in [A \cup B -> Int]
    <3> HIDE DEF A, B, D
    <3> QED BY <1>4, <2>3
  <2>6. gA = [k \in A |-> gU[k]] /\ gB = [k \in B |-> gU[k]]
    <3> HIDE DEF A, B
    <3> QED OBVIOUS
  <2>7. SumFunction(gU) = SumFunction(gA) + SumFunction(gB)
    <3>1. gA = PartOf(gU, A) /\ gB = PartOf(gU, B)
      BY <2>6 DEF PartOf
    <3> HIDE DEF A, B, gA, gB, gU, D
    <3>2. SumFunction(gU) = SumFunction(PartOf(gU, A)) + SumFunction(PartOf(gU, B))
      BY <2>3, <2>4, <2>5, SumOfTwoParts
    <3> QED BY <3>1, <3>2, Zenon
  <2>8. fT \in [T -> Int] /\ fU \in [U -> Int] /\ fU[x] = M(x) /\ \A y \in T : fU[y] = fT[y]
    <3>1. \A n \in U : M(n) \in Int
      <4> TAKE n \in U
      <4>1. n \in Firsts
        BY <2>1
      <4>2. M(n) \in Nat
        BY <1>6, <4>1, Zenon
      <4> QED BY <4>2
    <3> QED BY <3>1
  <2>9. SumFunction(fU) = SumFunction(fT) + fU[x]
    <3>1. x \notin T
      OBVIOUS
    <3> HIDE DEF fT, fU
    <3>2. \A e \in [T -> Int], h \in [T \cup {x} -> Int] :
            (\A y \in T : h[y] = e[y]) => SumFunction(h) = SumFunction(e) + h[x]
      BY <2>3, <3>1, SumExtended, Zenon
    <3> QED BY <2>8, <3>2, Zenon
  <2> HIDE DEF fT, fU, gA, gB, gU, A, B, D, M
  <2>10. SumFunction(fT) \in Int /\ SumFunction(gA) \in Int /\ SumFunction(gB) \in Int
    BY <2>3, <2>5, <2>8, SumType
  <2>11. SumFunction(fU) <= SumFunction(gU)
    BY <2>1, <2>3, <2>7, <2>8, <2>9, <2>10
  <2> QED BY <2>1, <2>2, <2>11, Zenon DEF fU, gU, P
<1>10. P \in SUBSET (SUBSET Firsts)
  OBVIOUS
<1>11. Firsts \in P
  <2> HIDE DEF P
  <2> QED BY <1>3, <1>8, <1>9, <1>10, SubsetInduction
<1> DEFINE c == [k \in Of(Firsts) |-> a[k]]
<1>12. SumFunction(c) <= SumFunction(a)
  <2>1. Of(Firsts) \subseteq D
    BY <1>7, Zenon
  <2> HIDE DEF a, D, Of
  <2> QED BY <1>1, <1>5, <2>1, SumOfLess
<1>13. c = [k \in Of(Firsts) |-> AddedAt(k)]
  <2>1. \A k \in Of(Firsts) : k \in D
    <3> HIDE DEF Of, D
    <3> QED BY <1>7
  <2> HIDE DEF Of, D
  <2> QED BY <2>1
<1>14. Documented <= SumFunction(c)
  <2>1. SumFunction([n \in Firsts |-> M(n)]) <= SumFunction(c)
    <3> HIDE DEF c, Of
    <3> QED BY <1>11, <1>13
  <2> QED BY <2>1, Zenon DEF Documented, M
<1>15. SumFunction(c) \in Int /\ SumFunction(a) \in Int /\ Documented \in Int
  <2>1. Of(Firsts) \subseteq D /\ IsFiniteSet(Of(Firsts))
    BY <1>7, Zenon
  <2>2. c \in [Of(Firsts) -> Int] /\ a \in [D -> Int]
    <3> HIDE DEF Of, D, a
    <3> QED BY <1>5, <2>1
  <2>3. g \in [Firsts -> Int]
    <3>1. \A n \in Firsts : M(n) \in Nat
      BY <1>6, Zenon
    <3> QED BY <3>1
  <2> HIDE DEF c, a, D, Of, g
  <2>4. SumFunction(c) \in Int /\ SumFunction(a) \in Int /\ SumFunction(g) \in Int
    BY <1>1, <1>3, <2>1, <2>2, <2>3, SumType
  <2> QED BY <2>4, Zenon DEF Documented, g, M
<1> HIDE DEF a, c
<1> QED BY <1>12, <1>14, <1>15 DEF a

\* BudgetInv holds before the first component.
LEMMA BudgetInitially == PerfInit => BudgetInv
<1> SUFFICES ASSUME PerfInit PROVE BudgetInv
  OBVIOUS
<1>1. nextComponent = 1 /\ results = <<>> /\ totalP99 = 0 /\ budget = <<>>
  BY DEF PerfInit
<1>2. components \in Seq(Component)
  <2>1. components \in BoundedSeq(Component, MaxComponents) \/ components = <<>>
    BY DEF PerfInit
  <2>2. MaxComponents \in Nat
    BY ReportsAssumption
  <2>3. BoundedSeq(Component, MaxComponents) \subseteq Seq(Component)
    BY <2>2 DEF BoundedSeq, SeqOf
  <2>4. <<>> \in Seq(Component)
    OBVIOUS
  <2> QED BY <2>1, <2>3, <2>4, Zenon
<1>3. SumFunction(results) = 0
  <2>1. DOMAIN results = {} /\ results \in [{} -> Int]
    BY <1>1
  <2> QED BY <2>1, SumOfNothing
<1> QED BY <1>1, <1>2, <1>3 DEF BudgetInv

\* The additions so far, as a function.
LEMMA ResultsAre ==
  ASSUME BudgetInv
  PROVE  /\ results \in [1..(nextComponent - 1) -> Nat] /\ DOMAIN results = 1..(nextComponent - 1)
         /\ IsFiniteSet(DOMAIN results) /\ totalP99 \in Nat
<1> DEFINE k == nextComponent - 1
<1>1. results \in Seq(Nat) /\ Len(results) = k /\ k \in Nat /\ totalP99 = SumFunction(results)
  BY DEF BudgetInv
<1> HIDE DEF k
<1>2. results \in [1..k -> Nat] /\ DOMAIN results = 1..k
  BY <1>1
<1>3. IsFiniteSet(1..k)
  BY <1>1, FS_Interval
<1>4. SumFunction(results) \in Nat
  BY <1>2, <1>3, SumIsNat
<1> QED BY <1>1, <1>2, <1>3, <1>4 DEF k

\* What the report says depends on the additions only.
LEMMA SameReport ==
  ASSUME UNCHANGED <<components, results, totalP99>>
  PROVE  Bottlenecks' = Bottlenecks /\ TopThree' = TopThree /\ \A n : AddedAt(n)' = AddedAt(n)
<1> DEFINE BottlenecksOf(r, t) == {n \in DOMAIN r : Rounded(1000 * r[n], t) > 200}
           Part(r, t, n) == Rounded(500 * r[n], t)
           SavesMore(r, t, n) == {m \in DOMAIN r : Part(r, t, m) > Part(r, t, n) \/ (Part(r, t, m) = Part(r, t, n) /\ m < n)}
           TopOf(r, t) == {n \in DOMAIN r : Cardinality(SavesMore(r, t, n)) < 3}
           AddedTo(c, n) == IF c[n].parallel /\ n > 1 THEN Added(c[n], c[n - 1]) ELSE c[n].p99
<1>1. Bottlenecks = BottlenecksOf(results, totalP99) /\ Bottlenecks' = BottlenecksOf(results', totalP99')
  BY DEF Bottlenecks, Share
<1>2. TopThree = TopOf(results, totalP99) /\ TopThree' = TopOf(results', totalP99')
  BY DEF TopThree, SortedBefore, Improvement
<1>3. \A n : AddedAt(n) = AddedTo(components, n) /\ AddedAt(n)' = AddedTo(components', n)
  BY DEF AddedAt
<1> HIDE DEF BottlenecksOf, TopOf, AddedTo
<1> QED BY <1>1, <1>2, <1>3

\* BudgetInv survives a turn of the loop and the report.
LEMMA BudgetStep == ASSUME BudgetInv, PerfNext \/ UNCHANGED perfVars PROVE BudgetInv'
<1> DEFINE N == Len(components)
           k == nextComponent
<1>0. N \in Nat /\ k \in 1..(N + 1) /\ components \in Seq(Component)
  BY DEF BudgetInv
<1>1. CASE UNCHANGED <<components, nextComponent, results, totalP99, budget>>
  BY <1>1, SameReport DEF BudgetInv
<1>2. CASE AddComponent
  <2> DEFINE added == AddedAt(k)
  <2>1. /\ k <= N /\ results' = Append(results, added) /\ totalP99' = totalP99 + added
        /\ nextComponent' = k + 1 /\ components' = components /\ budget' = budget
    BY <1>2 DEF AddComponent, AddedAt
  <2>2. k \in 1..N /\ added \in Nat
    <3>1. k \in 1..N
      BY <1>0, <2>1
    <3> QED BY <1>0, <3>1, AddedIs
  <2>3. results \in Seq(Nat) /\ Len(results) = k - 1 /\ \A n \in 1..(k - 1) : results[n] = AddedAt(n)
    BY DEF BudgetInv
  <2> HIDE DEF added, N
  <2>4. /\ results' \in Seq(Nat) /\ Len(results') = (k + 1) - 1 /\ results'[k] = added
        /\ \A n \in 1..(k - 1) : results'[n] = results[n]
    <3>1. \A q \in Seq(Nat) : /\ Append(q, added) \in Seq(Nat) /\ Len(Append(q, added)) = Len(q) + 1
                              /\ Append(q, added)[Len(q) + 1] = added
                              /\ \A i \in 1..Len(q) : Append(q, added)[i] = q[i]
      BY <2>2
    <3>2. (k - 1) + 1 = k /\ (k + 1) - 1 = k
      BY <2>2
    <3>3. /\ Append(results, added) \in Seq(Nat) /\ Len(Append(results, added)) = Len(results) + 1
          /\ Append(results, added)[Len(results) + 1] = added
          /\ \A i \in 1..Len(results) : Append(results, added)[i] = results[i]
      BY <2>3, <3>1, Zenon
    <3> QED BY <2>1, <2>3, <3>2, <3>3, Zenon
  <2>5. \A n \in 1..((k + 1) - 1) : results'[n] = AddedAt(n)
    <3> TAKE n \in 1..((k + 1) - 1)
    <3>1. n = k \/ n \in 1..(k - 1)
      BY <2>2
    <3> QED BY <2>3, <2>4, <3>1 DEF added
  <2>6. totalP99' = SumFunction(results')
    <3> DEFINE D == 1..(k - 1)
    <3>1. D \cup {k} = 1..((k + 1) - 1) /\ k \notin D /\ k - 1 \in Int
      BY <2>2
    <3>2. IsFiniteSet(D)
      BY <3>1, FS_Interval
    <3>3. results \in [D -> Int] /\ results' \in [D \cup {k} -> Int]
      <4>1. \A q \in Seq(Nat) : q \in [1..Len(q) -> Int]
        OBVIOUS
      <4>2. results \in [1..Len(results) -> Int] /\ results' \in [1..Len(results') -> Int]
        BY <2>3, <2>4, <4>1
      <4> QED BY <2>3, <2>4, <3>1, <4>2
    <3> HIDE DEF D
    <3>4. \A e \in [D -> Int], h \in [D \cup {k} -> Int] :
            (\A y \in D : h[y] = e[y]) => SumFunction(h) = SumFunction(e) + h[k]
      BY <3>1, <3>2, SumExtended, Zenon
    <3>5. SumFunction(results') = SumFunction(results) + added
      BY <2>4, <3>3, <3>4, Zenon DEF D
    <3>6. totalP99 = SumFunction(results)
      BY DEF BudgetInv
    <3> QED BY <2>1, <3>5, <3>6, Zenon
  <2>7. \A n \in 1..(nextComponent' - 1) : results'[n] = AddedAt(n)'
    <3>1. \A n : AddedAt(n)' = AddedAt(n)
      BY <2>1 DEF AddedAt
    <3> QED BY <2>1, <2>5, <3>1
  <2>8. budget = <<>>
    <3>1. budget # <<>> => nextComponent > Len(components)
      BY DEF BudgetInv
    <3> QED BY <1>0, <2>1, <3>1 DEF N
  <2>9. components' \in Seq(Component) /\ nextComponent' \in 1..(Len(components') + 1) /\ Len(results') = nextComponent' - 1
        /\ budget' = <<>>
    <3>1. k + 1 \in 1..(N + 1)
      BY <1>0, <2>2
    <3> QED BY <1>0, <2>1, <2>4, <2>8, <3>1 DEF N
  <2> QED BY <2>4, <2>6, <2>7, <2>9, Zenon DEF BudgetInv
<1>3. CASE FinishBudget
  <2>1. /\ nextComponent > Len(components) /\ components # <<>>
        /\ budget' = [bottlenecks |-> Bottlenecks, top |-> TopThree]
        /\ UNCHANGED <<components, nextComponent, results, totalP99>>
    BY <1>3 DEF FinishBudget
  <2>2. Bottlenecks' = Bottlenecks /\ TopThree' = TopThree /\ \A n : AddedAt(n)' = AddedAt(n)
    BY <2>1, SameReport
  <2>3. /\ components \in Seq(Component) /\ nextComponent \in 1..(Len(components) + 1)
        /\ results \in Seq(Nat) /\ Len(results) = nextComponent - 1
        /\ \A n \in 1..(nextComponent - 1) : results[n] = AddedAt(n)
        /\ totalP99 = SumFunction(results)
    BY DEF BudgetInv
  <2> QED BY <2>1, <2>2, <2>3 DEF BudgetInv
<1>4. CASE CalculateCapacity \/ BuildReport \/ UNCHANGED perfVars
  BY <1>1, <1>4 DEF CalculateCapacity, BuildReport, perfVars
<1> QED BY <1>2, <1>3, <1>4 DEF PerfNext

\* Two parts that round to the same, or the smaller to less, differ by less than the rounding.
LEMMA RoundedApart ==
  ASSUME NEW a \in Nat, NEW b \in Nat, NEW t \in Nat \ {0}, Rounded(a, t) <= Rounded(b, t)
  PROVE  a - b <= t
<1> DEFINE x == 2 * a + t
           y == 2 * b + t
           k == 2 * t
           p == x \div k
           q == y \div k
<1>1. x \in Nat /\ y \in Nat /\ k \in Nat \ {0}
  OBVIOUS
<1>2. p <= q
  BY DEF Rounded
<1>3. p \in Nat /\ x < p * k + k /\ p * k \in Nat
  <2> HIDE DEF x, y, k
  <2> QED BY <1>1, QuotientBounds
<1>4. q \in Nat /\ q * k <= y /\ q * k \in Nat
  <2> HIDE DEF x, y, k
  <2> QED BY <1>1, QuotientBounds
<1> DEFINE pk == p * k
           qk == q * k
<1>5. pk <= qk
  <2> HIDE DEF p, q, k
  <2>1. PICK d \in Nat : q = p + d
    <3>1. q - p \in Nat /\ q = p + (q - p)
      BY <1>2, <1>3, <1>4
    <3> QED BY <3>1
  <2>2. (p + d) * k = p * k + d * k /\ d * k \in Nat
    BY <1>1, <1>3, <2>1
  <2> QED BY <1>3, <2>1, <2>2
<1>6. pk \in Nat /\ qk \in Nat /\ x < pk + k /\ qk <= y
  BY <1>3, <1>4
<1> HIDE DEF pk, qk, p, q
<1> QED BY <1>5, <1>6

\* A product grows with its factor.
LEMMA ProductGrows == ASSUME NEW a \in Nat, NEW b \in Nat, a <= b, NEW c \in Nat PROVE a * c <= b * c /\ a * c \in Nat /\ b * c \in Nat
<1>1. PICK d \in Nat : b = a + d
  <2>1. b - a \in Nat /\ b = a + (b - a)
    OBVIOUS
  <2> QED BY <2>1
<1>2. (a + d) * c = a * c + d * c /\ d * c \in Nat /\ a * c \in Nat
  OBVIOUS
<1> QED BY <1>1, <1>2

\* Fewer than five components have more than a fifth of the total each.
LEMMA FewBottlenecks ==
  ASSUME BudgetInv, totalP99 > 0
  PROVE  Cardinality(Bottlenecks) < 5
<1> DEFINE B == Bottlenecks
           c == Cardinality(B)
           T == totalP99
<1>1. results \in [DOMAIN results -> Nat] /\ IsFiniteSet(DOMAIN results) /\ T \in Nat \ {0} /\ T = SumFunction(results)
  <2>1. T = SumFunction(results)
    BY DEF BudgetInv
  <2> QED BY <2>1, ResultsAre
<1>2. B \subseteq DOMAIN results /\ IsFiniteSet(B) /\ c \in Nat
  <2>1. B \subseteq DOMAIN results
    BY DEF Bottlenecks
  <2> HIDE DEF B
  <2> QED BY <1>1, <2>1, FS_Subset, FS_CardinalityType
<1>3. \A n \in B : 2000 * results[n] >= 401 * T
  <2> TAKE n \in B
  <2> DEFINE x == 2 * (1000 * results[n]) + T
             k == 2 * T
             q == x \div k
  <2>1. results[n] \in Nat
    BY <1>1, <1>2
  <2>2. q > 200
    <3>1. Share(n) > 200
      BY DEF Bottlenecks
    <3>2. Share(n) = q
      BY Zenon DEF Share, Rounded
    <3> QED BY <3>1, <3>2, Zenon
  <2>3. x \in Nat /\ k \in Nat \ {0}
    BY <1>1, <2>1
  <2>4. q \in Nat /\ q * k <= x /\ q * k \in Nat
    <3> HIDE DEF x, k
    <3> QED BY <2>3, QuotientBounds
  <2>5. 201 * k <= q * k
    <3> HIDE DEF q, k
    <3> QED BY <2>2, <2>3, <2>4, ProductGrows
  <2> DEFINE z == q * k
  <2>6. z \in Nat /\ 201 * k <= z /\ z <= x
    BY <2>4, <2>5
  <2> HIDE DEF q, z
  <2> QED BY <1>1, <2>1, <2>6
<1> HIDE DEF B
<1>4. ASSUME B = {} PROVE c < 5
  <2>1. c = 0
    BY <1>2, <1>4, FS_EmptySet
  <2> QED BY <2>1
<1>5. ASSUME B # {} PROVE c < 5
  <2> DEFINE h == [n \in B |-> results[n]]
  <2>1. h \in [B -> Int] /\ h \in [B -> Nat]
    BY <1>1, <1>2
  <2>2. PICK l \in B : \A m \in B : h[l] <= h[m]
    <3> HIDE DEF h
    <3> QED BY <1>2, <1>5, <2>1, LeastValue
  <2> DEFINE v == results[l]
  <2>3. h[l] = v /\ v \in Nat /\ 2000 * v >= 401 * T
    BY <1>1, <1>2, <1>3, <2>2
  <2>4. SumFunction(h) <= T
    <3>1. \A S \in SUBSET DOMAIN results : SumFunction([x \in S |-> results[x]]) <= SumFunction(results)
      BY <1>1, SumOfLess
    <3> QED BY <1>1, <1>2, <3>1, Zenon
  <2> HIDE DEF h, v
  <2>5. c * v <= SumFunction(h)
    <3>1. \A x \in B : v <= h[x]
      BY <2>2, <2>3
    <3>2. v \in Int
      BY <2>3
    <3> QED BY <1>2, <2>1, <3>1, <3>2, SumAtLeast
  <2>6. SumFunction(h) \in Int
    BY <1>2, <2>1, SumType
  <2>7. ASSUME c >= 5 PROVE FALSE
    <3> DEFINE p == c * v
    <3>1. 5 * v <= p /\ p \in Nat
      <4> HIDE DEF c
      <4> QED BY <1>2, <2>3, <2>7, ProductGrows
    <3> HIDE DEF p, T, c
    <3>2. p <= SumFunction(h)
      BY <2>5 DEF p, c
    <3> QED BY <1>1, <2>3, <2>4, <2>6, <3>1, <3>2
  <2> QED BY <1>2, <2>7
<1> QED BY <1>4, <1>5 DEF B

\* Of BudgetInv it follows that a budget is conservative.
LEMMA BudgetSound == ASSUME BudgetInv PROVE BudgetIsConservative
<1> DEFINE N == Len(components)
           T == totalP99
<1>1. /\ N \in Nat /\ components \in Seq(Component) /\ nextComponent \in 1..(N + 1)
      /\ \A n \in 1..(nextComponent - 1) : results[n] = AddedAt(n)
      /\ T = SumFunction(results)
  BY DEF BudgetInv
<1>2. /\ results \in [1..(nextComponent - 1) -> Nat] /\ DOMAIN results = 1..(nextComponent - 1)
      /\ IsFiniteSet(DOMAIN results) /\ T \in Nat
  BY ResultsAre
<1>3. ASSUME nextComponent > N PROVE T >= Documented
  <2>1. nextComponent - 1 = N
    BY <1>1, <1>3
  <2>2. results = [k \in 1..N |-> AddedAt(k)]
    <3> HIDE DEF N
    <3> QED BY <1>1, <1>2, <2>1
  <2>3. Documented <= SumFunction([k \in 1..N |-> AddedAt(k)])
    BY <1>1, BudgetCovers
  <2>4. Documented <= T
    <3> DEFINE sum == [k \in 1..N |-> AddedAt(k)]
    <3>1. results = sum /\ Documented <= SumFunction(sum)
      BY <2>2, <2>3, Zenon
    <3>0. T = SumFunction(results)
      BY <1>1, Zenon
    <3> HIDE DEF sum, T
    <3>2. Documented <= T
      BY <3>0, <3>1, Zenon
    <3> QED BY <3>2 DEF T
  <2> QED BY <2>4, Zenon
<1>4. ASSUME budget # <<>>
      PROVE  /\ SumFunction(results) = T /\ Cardinality(budget.bottlenecks) < 5
             /\ \A n \in budget.top, m \in DOMAIN results \ budget.top : 500 * (results[m] - results[n]) <= T
  <2>1. nextComponent > N /\ components # <<>> /\ budget = [bottlenecks |-> Bottlenecks, top |-> TopThree]
    BY <1>4 DEF BudgetInv
  <2>2. T > 0
    <3>1. 1 \in 1..N /\ 1 \in DOMAIN results
      BY <1>1, <1>2, <2>1
    <3>2. AddedAt(1) \in Nat \ {0}
      BY <1>1, <3>1, AddedIs
    <3>3. results[1] \in Nat \ {0}
      BY <1>1, <1>2, <3>1, <3>2
    <3>4. results[1] <= SumFunction(results)
      <4> DEFINE D == DOMAIN results
                 rest == [y \in D \ {1} |-> results[y]]
      <4>1. results \in [D -> Int] /\ IsFiniteSet(D)
        BY <1>2
      <4>2. SumFunction(results) = results[1] + SumFunction(rest)
        <5> HIDE DEF D
        <5> QED BY <3>1, <4>1, SumTakenOut DEF D
      <4>3. rest \in [D \ {1} -> Nat] /\ IsFiniteSet(D \ {1})
        <5>1. rest \in [D \ {1} -> Nat]
          BY <1>2
        <5> HIDE DEF rest, D
        <5> QED BY <4>1, <5>1, FS_RemoveElement
      <4>4. SumFunction(rest) \in Nat
        <5> HIDE DEF rest, D
        <5> QED BY <4>3, SumIsNat
      <4> HIDE DEF rest, D
      <4> QED BY <3>3, <4>2, <4>4
    <3>5. T \in Nat /\ T = SumFunction(results)
      BY <1>1, <1>2, Zenon
    <3> HIDE DEF T
    <3>6. T > 0
      BY <3>3, <3>4, <3>5
    <3> QED BY <3>6 DEF T
  <2>3. Cardinality(Bottlenecks) < 5
    BY <2>2, FewBottlenecks
  <2>4. ASSUME NEW n \in TopThree, NEW m \in DOMAIN results \ TopThree PROVE 500 * (results[m] - results[n]) <= T
    <3> DEFINE SavesMore(x) == {y \in DOMAIN results : SortedBefore(y, x)}
    <3>1. n \in DOMAIN results /\ Cardinality(SavesMore(n)) < 3 /\ ~(Cardinality(SavesMore(m)) < 3)
      BY DEF TopThree
    <3>2. results[n] \in Nat /\ results[m] \in Nat
      BY <1>2, <3>1
    <3>3. \A x \in DOMAIN results : Improvement(x) \in Nat /\ x \in Nat
      <4> TAKE x \in DOMAIN results
      <4>1. results[x] \in Nat /\ x \in Nat
        BY <1>2
      <4>2. 2 * (500 * results[x]) + T \in Nat /\ 2 * T \in Nat \ {0}
        BY <1>2, <2>2, <4>1
      <4>3. (2 * (500 * results[x]) + T) \div (2 * T) \in Nat
        BY <4>2, QuotientBounds
      <4> QED BY <4>1, <4>3 DEF Improvement, Rounded
    <3>4. ASSUME SortedBefore(m, n) PROVE FALSE
      <4>1. \A x, y, z \in DOMAIN results : SortedBefore(x, y) /\ SortedBefore(y, z) => SortedBefore(x, z)
        <5> TAKE x, y, z \in DOMAIN results
        <5>1. Improvement(x) \in Nat /\ Improvement(y) \in Nat /\ Improvement(z) \in Nat /\ x \in Nat /\ y \in Nat /\ z \in Nat
          BY <3>3
        <5> QED BY <5>1 DEF SortedBefore
      <4>2. SavesMore(m) \subseteq SavesMore(n) /\ SavesMore(n) \subseteq DOMAIN results
        BY <3>1, <3>4, <4>1
      <4> HIDE DEF SavesMore
      <4>3. IsFiniteSet(SavesMore(n))
        BY <1>2, <4>2, FS_Subset
      <4>4. Cardinality(SavesMore(m)) <= Cardinality(SavesMore(n)) /\ Cardinality(SavesMore(n)) \in Nat /\ Cardinality(SavesMore(m)) \in Nat
        BY <4>2, <4>3, FS_Subset, FS_CardinalityType
      <4> QED BY <3>1, <4>4
    <3>5. Improvement(m) <= Improvement(n)
      BY <3>1, <3>3, <3>4 DEF SortedBefore
    <3>6. Rounded(500 * results[m], T) <= Rounded(500 * results[n], T)
      BY <3>5, Zenon DEF Improvement
    <3>7. 500 * results[m] \in Nat /\ 500 * results[n] \in Nat /\ T \in Nat \ {0}
      BY <1>2, <2>2, <3>2
    <3>8. 500 * results[m] - 500 * results[n] <= T
      BY <3>6, <3>7, RoundedApart
    <3> QED BY <1>2, <3>2, <3>8
  <2>5. budget.bottlenecks = Bottlenecks /\ budget.top = TopThree
    BY <2>1
  <2>6. ASSUME NEW n \in budget.top, NEW m \in DOMAIN results \ budget.top
        PROVE  500 * (results[m] - results[n]) <= T
    <3>1. n \in TopThree /\ m \in DOMAIN results \ TopThree
      BY <2>5
    <3> QED BY <2>4, <3>1, Zenon
  <2>7. Cardinality(budget.bottlenecks) < 5
    BY <2>3, <2>5, Zenon
  <2>8. SumFunction(results) = T
    BY <1>1, Zenon
  <2> QED BY <2>6, <2>7, <2>8
<1> QED BY <1>3, <1>4, Zenon DEF BudgetIsConservative

----------------------------------------------------------------------------
(* The capacity plan: the quotient rounded up is the least multiple that reaches. *)

\* A positive factor can be cancelled.
LEMMA ProductFits == ASSUME NEW a \in Int, NEW b \in Int, NEW c \in Nat \ {0}, a * c <= b * c PROVE a <= b
<1> SUFFICES ASSUME a > b PROVE FALSE
  OBVIOUS
<1>1. PICK d \in Nat : a = (b + 1) + d
  <2>1. a - (b + 1) \in Nat /\ a = (b + 1) + (a - (b + 1))
    OBVIOUS
  <2> QED BY <2>1
<1>2. ((b + 1) + d) * c = b * c + c + d * c /\ d * c \in Nat /\ b * c \in Int
  OBVIOUS
<1> QED BY <1>1, <1>2

\* The quotient rounded up reaches the number and one less does not.
LEMMA CeilIs ==
  ASSUME NEW a \in Nat, NEW b \in Nat \ {0}
  PROVE  /\ CeilDiv(a, b) \in Nat /\ a <= CeilDiv(a, b) * b /\ (CeilDiv(a, b) - 1) * b < a
         /\ a > 0 => CeilDiv(a, b) >= 1
<1> DEFINE n == a + b - 1
           q == CeilDiv(a, b)
<1>1. n \in Nat
  OBVIOUS
<1>2. q = n \div b
  BY DEF CeilDiv
<1>3. q \in Nat /\ q * b \in Nat /\ q * b <= n /\ n < q * b + b
  <2> HIDE DEF n, q
  <2> QED BY <1>1, <1>2, QuotientBounds
<1>4. (q - 1) * b = q * b - b
  <2> HIDE DEF q
  <2> QED BY <1>3
<1> DEFINE x == q * b
<1>5. x \in Nat /\ x <= a + b - 1 /\ a + b - 1 < x + b /\ (q - 1) * b = x - b
  BY <1>3, <1>4
<1>6. q = 0 => x = 0
  <2> HIDE DEF q
  <2> QED BY <1>3
<1> HIDE DEF q, x
<1>7. a <= x /\ x - b < a /\ (a > 0 => q # 0)
  BY <1>5, <1>6
<1>8. a > 0 => q >= 1
  BY <1>3, <1>7
<1> QED BY <1>3, <1>5, <1>7, <1>8 DEF q, x

\* What suffices for the lesser of two ratios suffices for the other.
LEMMA LesserSuffices ==
  ASSUME NEW P \in Nat, NEW q \in Nat, NEW s \in Nat,
         NEW a \in Nat \ {0}, NEW b \in Nat \ {0}, NEW c \in Nat \ {0}, NEW d \in Nat \ {0},
         P * b <= q * (a * s), a * d <= c * b
  PROVE  P * d <= q * (c * s)
<1>1. /\ P * b \in Nat /\ q * (a * s) \in Nat /\ a * d \in Nat /\ c * b \in Nat /\ q * s \in Nat
      /\ P * d \in Nat /\ c * s \in Nat /\ q * (c * s) \in Nat
  <2>1. \A u, v \in Nat : u * v \in Nat
    OBVIOUS
  <2>2. a * s \in Nat /\ c * s \in Nat
    BY <2>1
  <2> QED BY <2>1, <2>2
<1>2. (P * b) * d <= (q * (a * s)) * d
  BY <1>1, ProductGrows
<1>3. (a * d) * (q * s) <= (c * b) * (q * s)
  BY <1>1, ProductGrows
<1>4. (P * b) * d = (P * d) * b
  OBVIOUS
<1>5. (q * (a * s)) * d = (a * d) * (q * s)
  OBVIOUS
<1>6. (c * b) * (q * s) = (q * (c * s)) * b
  OBVIOUS
<1>7. (P * d) * b <= (q * (c * s)) * b
  <2> DEFINE u == (P * b) * d
             v == (a * d) * (q * s)
             w == (c * b) * (q * s)
  <2>1. u \in Int /\ v \in Int /\ w \in Int
    BY <1>1
  <2>2. u <= v /\ v <= w
    BY <1>2, <1>3, <1>5
  <2>3. u <= w
    <3> HIDE DEF u, v, w
    <3> QED BY <2>1, <2>2
  <2> HIDE DEF u, w
  <2>4. (P * d) * b = u /\ (q * (c * s)) * b = w
    BY <1>4, <1>6 DEF u, w
  <2> QED BY <2>3, <2>4, Zenon
<1> DEFINE x == P * d
           y == q * (c * s)
<1>8. x \in Int /\ y \in Int /\ x * b <= y * b
  BY <1>1, <1>7
<1> HIDE DEF x, y
<1>9. x <= y
  BY <1>8, ProductFits
<1> QED BY <1>9 DEF x, y

PlanInv ==
  /\ plan.profile \in Profiles /\ plan.node \in NodeSpecs /\ plan.peak \in Nat /\ plan.safety \in Nat \ {0}
  /\ DOMAIN plan = {"profile", "node", "peak", "safety"} /\ plan = [f \in DOMAIN plan |-> plan[f]]
  /\ nodes > 0 => plan.peak > 0 /\ nodes = NodesFor(plan)

\* PlanInv holds before the calculation.
LEMMA PlanInitially == PerfInit => PlanInv
<1> SUFFICES ASSUME PerfInit PROVE PlanInv
  OBVIOUS
<1>1. nodes = NotYet /\ (plan = SomePlan \/ plan \in Plans)
  BY DEF PerfInit
<1>2. ~(nodes > 0)
  BY <1>1 DEF NotYet
<1>3. CASE plan = SomePlan
  BY <1>2, <1>3 DEF PlanInv, SomePlan, Profiles, NodeSpecs
<1>4. CASE plan \in Plans
  <2>1. plan.profile \in Profiles /\ plan.node \in NodeSpecs /\ plan.peak \in QpsInputs /\ plan.safety \in SafetyPercents
    BY <1>4 DEF Plans
  <2>2. DOMAIN plan = {"profile", "node", "peak", "safety"} /\ plan = [f \in DOMAIN plan |-> plan[f]]
    BY <1>4 DEF Plans
  <2>3. QpsInputs \subseteq Nat /\ SafetyPercents \subseteq Nat \ {0}
    BY ReportsAssumption
  <2> QED BY <1>2, <2>1, <2>2, <2>3 DEF PlanInv
<1> QED BY <1>1, <1>3, <1>4

\* PlanInv survives the calculation.
LEMMA PlanStep == ASSUME PlanInv, PerfNext \/ UNCHANGED perfVars PROVE PlanInv'
<1>1. plan' = plan
  BY DEF PerfNext, AddComponent, FinishBudget, CalculateCapacity, BuildReport, perfVars
<1>2. nodes' = nodes \/ nodes' = IF plan.peak = 0 THEN NoReport ELSE NodesFor(plan)
  BY DEF PerfNext, AddComponent, FinishBudget, CalculateCapacity, BuildReport, perfVars
<1>3. NodesFor(plan)' = NodesFor(plan)
  BY <1>1 DEF NodesFor, Capacity, CpuLimit, MemoryLimit, Lesser
<1>4. plan.peak \in Nat
  BY DEF PlanInv
<1>5. nodes' > 0 => plan.peak > 0 /\ nodes' = NodesFor(plan)
  <2>1. CASE nodes' = nodes
    BY <2>1 DEF PlanInv
  <2>2. CASE nodes' = IF plan.peak = 0 THEN NoReport ELSE NodesFor(plan)
    <3>1. ~(NoReport > 0)
      BY DEF NoReport
    <3> QED BY <1>4, <2>2, <3>1
  <2> QED BY <1>2, <2>1, <2>2
<1> QED BY <1>1, <1>3, <1>5 DEF PlanInv

\* The limits of a plan are positive ratios, and the capacity is the lesser of them.
Ratios(p) == {CpuLimit(p), MemoryLimit(p)}

\* The capacity of a node is the lesser of two positive fractions.
LEMMA CapacityIs ==
  ASSUME NEW p, p.profile \in Profiles, p.node \in NodeSpecs
  PROVE  /\ Capacity(p) \in Ratios(p)
         /\ \A r \in Ratios(p) : /\ r.num \in Nat \ {0} /\ r.den \in Nat \ {0}
                                 /\ Capacity(p).num * r.den <= r.num * Capacity(p).den
<1> DEFINE a == CpuLimit(p)
           b == MemoryLimit(p)
           c == Capacity(p)
<1>1. p.node[1] \in Nat \ {0} /\ p.node[2] \in Nat \ {0} /\ p.profile[1] \in Nat \ {0} /\ p.profile[2] \in Nat \ {0}
  BY DEF Profiles, NodeSpecs
<1>2. a.num = p.node[1] * 1200 /\ a.den = p.profile[1] /\ b.num = p.node[2] * 1024 /\ b.den = p.profile[2]
  BY DEF CpuLimit, MemoryLimit
<1>3. a.num \in Nat \ {0} /\ a.den \in Nat \ {0} /\ b.num \in Nat \ {0} /\ b.den \in Nat \ {0}
  BY <1>1, <1>2
<1>4. c = IF a.num * b.den <= b.num * a.den THEN a ELSE b
  BY DEF Capacity, Lesser
<1> HIDE DEF a, b, c
<1>5. a.num * b.den \in Int /\ b.num * a.den \in Int /\ a.num * a.den \in Int /\ b.num * b.den \in Int
  BY <1>3
<1>6. (c = a \/ c = b) /\ c.num * a.den <= a.num * c.den /\ c.num * b.den <= b.num * c.den
  <2>1. CASE a.num * b.den <= b.num * a.den
    <3>1. c = a
      BY <1>4, <2>1, Zenon
    <3> QED BY <1>5, <2>1, <3>1
  <2>2. CASE ~(a.num * b.den <= b.num * a.den)
    <3>1. c = b
      BY <1>4, <2>2, Zenon
    <3>2. b.num * a.den <= a.num * b.den
      BY <1>5, <2>2
    <3> QED BY <1>5, <3>1, <3>2
  <2> QED BY <2>1, <2>2
<1>7. \A r \in {a, b} : r.num \in Nat \ {0} /\ r.den \in Nat \ {0} /\ c.num * r.den <= r.num * c.den
  BY <1>3, <1>6
<1>8. c \in {a, b}
  BY <1>6
<1> QED BY <1>7, <1>8, Zenon DEF a, b, c, Ratios

\* The nodes of a plan: as many as its capacity needs, and not one more.
LEMMA NodesAre ==
  ASSUME NEW p, p.profile \in Profiles, p.node \in NodeSpecs, p.peak \in Nat, p.safety \in Nat \ {0}
  PROVE  /\ NodesFor(p) \in Nat /\ (p.peak > 0 => NodesFor(p) >= 1)
         /\ Capacity(p).num \in Nat \ {0} /\ Capacity(p).den \in Nat \ {0}
         /\ p.peak * 100 * Capacity(p).den <= NodesFor(p) * (Capacity(p).num * p.safety)
         /\ (NodesFor(p) - 1) * (Capacity(p).num * p.safety) < p.peak * 100 * Capacity(p).den
<1> DEFINE a == Capacity(p).num
           b == Capacity(p).den
           s == p.safety
           k == p.peak
<1>1. a \in Nat \ {0} /\ b \in Nat \ {0}
  BY CapacityIs, Zenon
<1>2. NodesFor(p) = CeilDiv(k * 100 * b, a * s)
  BY DEF NodesFor
<1> DEFINE x == k * 100 * b
           y == a * s
<1>3. x \in Nat /\ y \in Nat \ {0} /\ (k > 0 => x > 0)
  <2>1. s \in Nat \ {0} /\ k \in Nat
    OBVIOUS
  <2>2. \A u, v \in Nat \ {0} : u * v \in Nat \ {0}
    OBVIOUS
  <2>3. k * 100 \in Nat /\ (k > 0 => k * 100 \in Nat \ {0}) /\ (k = 0 => k * 100 = 0)
    BY <2>1
  <2> HIDE DEF a, b, s, k
  <2>4. y \in Nat \ {0}
    BY <1>1, <2>1, <2>2
  <2>5. x \in Nat /\ (k > 0 => x > 0)
    <3>1. CASE k = 0
      BY <1>1, <2>3, <3>1
    <3>2. CASE k # 0
      <4>1. k > 0 /\ k * 100 \in Nat \ {0}
        BY <2>1, <2>3, <3>2
      <4>2. x \in Nat \ {0}
        BY <1>1, <2>2, <4>1
      <4> QED BY <4>2
    <3> QED BY <3>1, <3>2
  <2> QED BY <2>4, <2>5
<1> HIDE DEF x, y, a, b, s, k
<1>4. NodesFor(p) = CeilDiv(x, y)
  BY <1>2 DEF x, y
<1>5. /\ CeilDiv(x, y) \in Nat /\ x <= CeilDiv(x, y) * y /\ (CeilDiv(x, y) - 1) * y < x
      /\ x > 0 => CeilDiv(x, y) >= 1
  BY <1>3, CeilIs
<1>6. NodesFor(p) \in Nat /\ x <= NodesFor(p) * y /\ (NodesFor(p) - 1) * y < x /\ (k > 0 => NodesFor(p) >= 1)
  BY <1>3, <1>4, <1>5
<1> QED BY <1>1, <1>6, Zenon DEF x, y, a, b, s, k

\* The nodes carry the load within the margin and one less does not.
LEMMA PlanCarries ==
  ASSUME PlanInv, nodes > 0
  PROVE  Carries(nodes) /\ ~Carries(nodes - 1) /\ (plan.safety < 99 => DelayIsFinite(plan))
<1> DEFINE C == Capacity(plan)
           a == C.num
           b == C.den
           s == plan.safety
           k == plan.peak
           q == nodes
<1>1. plan.profile \in Profiles /\ plan.node \in NodeSpecs /\ k \in Nat /\ s \in Nat \ {0} /\ k > 0 /\ q = NodesFor(plan)
  BY DEF PlanInv
<1>2. /\ q \in Nat /\ q >= 1 /\ a \in Nat \ {0} /\ b \in Nat \ {0}
      /\ k * 100 * b <= q * (a * s) /\ (q - 1) * (a * s) < k * 100 * b
  <2> HIDE DEF C
  <2> QED BY <1>1, NodesAre DEF C
<1>3. /\ C \in Ratios(plan)
      /\ \A r \in Ratios(plan) : r.num \in Nat \ {0} /\ r.den \in Nat \ {0} /\ a * r.den <= r.num * b
  BY <1>1, CapacityIs, Zenon
<1> DEFINE P == k * 100
<1>4. P \in Nat
  BY <1>1
<1> HIDE DEF C
<1>5. Carries(q)
  <2>1. ASSUME NEW r \in Ratios(plan) PROVE P * r.den <= q * r.num * s
    <3> DEFINE c == r.num
               d == r.den
    <3>1. c \in Nat \ {0} /\ d \in Nat \ {0} /\ a * d <= c * b
      BY <1>3
    <3>2. P * b <= q * (a * s)
      BY <1>2
    <3> HIDE DEF a, b, c, d, s, P, q, k
    <3>3. P * d <= q * (c * s)
      BY <1>1, <1>2, <1>4, <3>1, <3>2, LesserSuffices
    <3>4. q * (c * s) = q * c * s
      BY <1>1, <1>2, <3>1
    <3>5. P * d <= q * c * s
      BY <3>3, <3>4, Zenon
    <3> QED BY <3>5 DEF c, d
  <2> QED BY <2>1, Zenon DEF Carries, Ratios
<1>6. ~Carries(q - 1)
  <2> SUFFICES ASSUME Carries(q - 1) PROVE FALSE
    OBVIOUS
  <2>1. P * b <= (q - 1) * a * s
    <3>1. \A r \in Ratios(plan) : plan.peak * 100 * r.den <= (q - 1) * r.num * plan.safety
      BY Zenon DEF Carries, Ratios
    <3> QED BY <1>3, <3>1, Zenon
  <2>2. (q - 1) * (a * s) < P * b
    BY <1>2
  <2> HIDE DEF a, b, s, P, q, k
  <2>3. q - 1 \in Int
    BY <1>2
  <2>4. \A u \in Int, v, w \in Nat : u * v * w = u * (v * w) /\ u * (v * w) \in Int
    OBVIOUS
  <2>5. (q - 1) * a * s = (q - 1) * (a * s) /\ (q - 1) * (a * s) \in Int
    BY <1>1, <1>2, <2>3, <2>4
  <2>6. P * b \in Int
    BY <1>2, <1>4
  <2> DEFINE x == (q - 1) * (a * s)
             y == P * b
  <2>7. x \in Int /\ y \in Int /\ y <= x /\ x < y
    BY <2>1, <2>2, <2>5, <2>6
  <2> HIDE DEF x, y
  <2> QED BY <2>7
<1>7. ASSUME s < 99 PROVE DelayIsFinite(plan)
  <2> DEFINE u == k * b
             v == q * a
  <2>1. Rho(plan).num = u /\ Rho(plan).den = v
    BY <1>1 DEF Rho, C
  <2>2. k * 100 * b <= q * (a * s)
    BY <1>2
  <2> HIDE DEF a, b, s, q, k
  <2>3. k * 100 * b = 100 * u /\ q * (a * s) = v * s /\ u \in Nat
    BY <1>1, <1>2
  <2>4. v \in Nat \ {0}
    <3>1. \A m, n \in Nat \ {0} : m * n \in Nat \ {0}
      OBVIOUS
    <3>2. q \in Nat \ {0}
      BY <1>2
    <3> QED BY <1>2, <3>1, <3>2
  <2>5. v * s <= v * 98
    <3> HIDE DEF v
    <3>1. s <= 98 /\ s \in Nat /\ v \in Nat
      BY <1>1, <1>7, <2>4
    <3>2. s * v <= 98 * v
      BY <3>1, ProductGrows
    <3>3. s * v = v * s /\ 98 * v = v * 98
      BY <3>1
    <3> QED BY <3>2, <3>3, Zenon
  <2> DEFINE z == v * s
  <2>6. 100 * u <= z /\ z <= v * 98 /\ z \in Int
    <3>1. z \in Int
      <4> HIDE DEF v
      <4> QED BY <1>1, <2>4
    <3> QED BY <2>2, <2>3, <2>5, <3>1
  <2> HIDE DEF u, v, z
  <2>7. 1000 * u < 999 * v
    BY <2>3, <2>4, <2>6
  <2> QED BY <2>1, <2>7 DEF DelayIsFinite
<1> QED BY <1>5, <1>6, <1>7

\* Twice the node carries as much with half the nodes, rounded up.
LEMMA DoubledNode ==
  ASSUME NEW p, p.profile \in Profiles, p.node \in NodeSpecs, p.peak \in Nat, p.safety \in Nat \ {0},
         NEW r, r.profile = p.profile, r.peak = p.peak, r.safety = p.safety, r.node \in NodeSpecs,
         r.node[1] = 2 * p.node[1], r.node[2] = 2 * p.node[2]
  PROVE  NodesFor(p) <= 2 * NodesFor(r) /\ NodesFor(p) \in Nat /\ NodesFor(r) \in Nat
<1>1. p.node[1] \in Nat /\ p.node[2] \in Nat /\ p.profile[1] \in Nat /\ p.profile[2] \in Nat
  BY DEF NodeSpecs, Profiles
<1>2. Capacity(r).num = 2 * Capacity(p).num /\ Capacity(r).den = Capacity(p).den
  <2> DEFINE n1 == p.node[1] * 1200
             n2 == p.node[2] * 1024
             d1 == p.profile[1]
             d2 == p.profile[2]
  <2>1. n1 \in Nat /\ n2 \in Nat /\ d1 \in Nat /\ d2 \in Nat
    BY <1>1
  <2>2. CpuLimit(p) = [num |-> n1, den |-> d1] /\ MemoryLimit(p) = [num |-> n2, den |-> d2]
    BY DEF CpuLimit, MemoryLimit
  <2>3. r.node[1] * 1200 = 2 * n1 /\ r.node[2] * 1024 = 2 * n2 /\ r.profile[1] = d1 /\ r.profile[2] = d2
    BY <1>1
  <2>4. CpuLimit(r) = [num |-> 2 * n1, den |-> d1] /\ MemoryLimit(r) = [num |-> 2 * n2, den |-> d2]
    <3> HIDE DEF n1, n2, d1, d2
    <3> QED BY <2>3 DEF CpuLimit, MemoryLimit
  <2> HIDE DEF n1, n2, d1, d2
  <2>5. Capacity(p) = IF n1 * d2 <= n2 * d1 THEN [num |-> n1, den |-> d1] ELSE [num |-> n2, den |-> d2]
    BY <2>2 DEF Capacity, Lesser
  <2>6. Capacity(r) = IF (2 * n1) * d2 <= (2 * n2) * d1 THEN [num |-> 2 * n1, den |-> d1] ELSE [num |-> 2 * n2, den |-> d2]
    BY <2>4 DEF Capacity, Lesser
  <2>7. (2 * n1) * d2 <= (2 * n2) * d1 <=> n1 * d2 <= n2 * d1
    <3> DEFINE x == n1 * d2
               y == n2 * d1
    <3>1. (2 * n1) * d2 = 2 * x /\ (2 * n2) * d1 = 2 * y /\ x \in Nat /\ y \in Nat
      BY <2>1
    <3> HIDE DEF x, y
    <3>2. 2 * x <= 2 * y <=> x <= y
      BY <3>1
    <3> QED BY <3>1, <3>2 DEF x, y
  <2>8. CASE n1 * d2 <= n2 * d1
    BY <2>5, <2>6, <2>7, <2>8
  <2>9. CASE ~(n1 * d2 <= n2 * d1)
    BY <2>5, <2>6, <2>7, <2>9
  <2> QED BY <2>8, <2>9
<1> DEFINE a == Capacity(p).num
           b == Capacity(p).den
           s == p.safety
           q1 == NodesFor(p)
           q2 == NodesFor(r)
           x == p.peak * 100 * b
           y == a * s
<1>3. q1 \in Nat /\ a \in Nat \ {0} /\ b \in Nat \ {0} /\ (q1 - 1) * y < x
  BY NodesAre
<1>4. q2 \in Nat /\ x <= q2 * ((2 * a) * s)
  <2>1. /\ NodesFor(r) \in Nat
        /\ r.peak * 100 * Capacity(r).den <= NodesFor(r) * (Capacity(r).num * r.safety)
    <3>1. r.profile \in Profiles /\ r.peak \in Nat /\ r.safety \in Nat \ {0}
      OBVIOUS
    <3> QED BY <3>1, NodesAre
  <2> QED BY <1>2, <2>1, Zenon
<1>5. s \in Nat \ {0} /\ x \in Int
  <2>1. p.peak * 100 \in Nat /\ s \in Nat \ {0}
    OBVIOUS
  <2> HIDE DEF b
  <2> QED BY <1>3, <2>1
<1>6. y \in Nat \ {0}
  <2>1. \A u, v \in Nat \ {0} : u * v \in Nat \ {0}
    OBVIOUS
  <2> HIDE DEF a, s
  <2> QED BY <1>3, <1>5, <2>1
<1>7. q2 * ((2 * a) * s) = (2 * q2) * y
  <2> HIDE DEF q2, a, s
  <2> QED BY <1>3, <1>4, <1>5
<1> HIDE DEF a, b, s, q1, q2, x, y
<1>8. (q1 - 1) * y < (2 * q2) * y
  <2> DEFINE u == (q1 - 1) * y
             v == (2 * q2) * y
  <2>1. u \in Int /\ v \in Int
    BY <1>3, <1>4, <1>6
  <2>2. u < x /\ x <= v
    BY <1>3, <1>4, <1>7, Zenon
  <2> HIDE DEF u, v
  <2>3. u < v
    BY <1>5, <2>1, <2>2
  <2> QED BY <2>3 DEF u, v
<1>9. ASSUME q1 - 1 >= 2 * q2 PROVE FALSE
  <2>1. 2 * q2 \in Nat /\ q1 - 1 \in Nat /\ 2 * q2 <= q1 - 1
    BY <1>3, <1>4, <1>9
  <2>2. (2 * q2) * y <= (q1 - 1) * y /\ (2 * q2) * y \in Nat /\ (q1 - 1) * y \in Nat
    BY <1>6, <2>1, ProductGrows
  <2> QED BY <1>8, <2>2
<1>10. q1 <= 2 * q2
  BY <1>3, <1>4, <1>9
<1> QED BY <1>3, <1>4, <1>10 DEF q1, q2

\* The rows of the comparison never fall.
LEMMA LargerNodesCostMore ==
  ASSUME PlanInv, NEW n \in 1..3
  PROVE  Compared(plan)[n] <= Compared(plan)[n + 1]
<1> DEFINE SizedAs(m) == [plan EXCEPT !.node = Sizes[m]]
<1>1. /\ plan.profile \in Profiles /\ plan.peak \in Nat /\ plan.safety \in Nat \ {0}
      /\ DOMAIN plan = {"profile", "node", "peak", "safety"}
  BY DEF PlanInv
<1>2. \A m \in 1..4 : /\ SizedAs(m).node = Sizes[m] /\ SizedAs(m).profile = plan.profile
                      /\ SizedAs(m).peak = plan.peak /\ SizedAs(m).safety = plan.safety
  BY <1>1
<1>3. Sizes[1] = <<2, 4>> /\ Sizes[2] = <<4, 8>> /\ Sizes[3] = <<8, 16>> /\ Sizes[4] = <<16, 32>>
  BY DEF Sizes
<1>4. \A m \in 1..4 : Compared(plan)[m] = HourlyCents(SizedAs(m))
  BY DEF Compared
<1> HIDE DEF SizedAs
<1> DEFINE f(m) == NodesFor(SizedAs(m))
<1>5. /\ HourlyCents(SizedAs(1)) = f(1) * 5 /\ HourlyCents(SizedAs(2)) = f(2) * 10
      /\ HourlyCents(SizedAs(3)) = f(3) * 20 /\ HourlyCents(SizedAs(4)) = f(4) * 40
  <2> DEFINE cents(m) == IF Sizes[m] = <<8, 64>> THEN 150 ELSE (5 * Sizes[m][1]) \div 2
  <2>1. \A m \in 1..4 : HourlyCents(SizedAs(m)) = f(m) * cents(m)
    BY <1>2 DEF HourlyCents
  <2>2. cents(1) = 5 /\ cents(2) = 10 /\ cents(3) = 20 /\ cents(4) = 40
    BY <1>3
  <2> HIDE DEF f, cents
  <2>3. /\ HourlyCents(SizedAs(1)) = f(1) * cents(1) /\ HourlyCents(SizedAs(2)) = f(2) * cents(2)
        /\ HourlyCents(SizedAs(3)) = f(3) * cents(3) /\ HourlyCents(SizedAs(4)) = f(4) * cents(4)
    BY <2>1
  <2> QED BY <2>2, <2>3
<1>6. f(n) <= 2 * f(n + 1) /\ f(n) \in Nat /\ f(n + 1) \in Nat
  <2>1. /\ Sizes[n] \in NodeSpecs /\ Sizes[n + 1] \in NodeSpecs
        /\ Sizes[n + 1][1] = 2 * Sizes[n][1] /\ Sizes[n + 1][2] = 2 * Sizes[n][2]
    BY <1>3 DEF NodeSpecs
  <2>2. n \in 1..4 /\ n + 1 \in 1..4
    OBVIOUS
  <2>3. /\ SizedAs(n).profile \in Profiles /\ SizedAs(n).node \in NodeSpecs /\ SizedAs(n).peak \in Nat /\ SizedAs(n).safety \in Nat \ {0}
        /\ SizedAs(n + 1).profile = SizedAs(n).profile /\ SizedAs(n + 1).peak = SizedAs(n).peak /\ SizedAs(n + 1).safety = SizedAs(n).safety
        /\ SizedAs(n + 1).node \in NodeSpecs /\ SizedAs(n + 1).node[1] = 2 * SizedAs(n).node[1] /\ SizedAs(n + 1).node[2] = 2 * SizedAs(n).node[2]
    BY <1>1, <1>2, <2>1, <2>2
  <2> QED BY <2>3, DoubledNode
<1> HIDE DEF f
<1>7. n = 1 \/ n = 2 \/ n = 3
  OBVIOUS
<1>8. HourlyCents(SizedAs(n)) <= HourlyCents(SizedAs(n + 1))
  <2>1. CASE n = 1
    <3>1. f(1) \in Nat /\ f(2) \in Nat /\ f(1) <= 2 * f(2) /\ n + 1 = 2
      BY <1>6, <2>1
    <3>2. f(1) * 5 <= f(2) * 10
      BY <3>1
    <3> QED BY <1>5, <2>1, <3>1, <3>2
  <2>2. CASE n = 2
    <3>1. f(2) \in Nat /\ f(3) \in Nat /\ f(2) <= 2 * f(3) /\ n + 1 = 3
      BY <1>6, <2>2
    <3>2. f(2) * 10 <= f(3) * 20
      BY <3>1
    <3> QED BY <1>5, <2>2, <3>1, <3>2
  <2>3. CASE n = 3
    <3>1. f(3) \in Nat /\ f(4) \in Nat /\ f(3) <= 2 * f(4) /\ n + 1 = 4
      BY <1>6, <2>3
    <3>2. f(3) * 20 <= f(4) * 40
      BY <3>1
    <3> QED BY <1>5, <2>3, <3>1, <3>2
  <2> QED BY <1>7, <2>1, <2>2, <2>3
<1>9. n \in 1..4 /\ n + 1 \in 1..4
  OBVIOUS
<1> QED BY <1>4, <1>8, <1>9

\* Of PlanInv it follows that there are just enough nodes.
LEMMA PlanSound == ASSUME PlanInv PROVE JustEnoughNodes
BY PlanCarries, LargerNodesCostMore, Zenon DEF JustEnoughNodes

----------------------------------------------------------------------------
(* Percentiles: between two neighbours of sorted data *)

Scale == 1000

\* The factor of the percentiles.
LEMMA ScaleIs == Scale \in Nat \ {0}
  BY DEF Scale

Rises(times) == \A m, n \in 1..Len(times) : m <= n => times[m] <= times[n]
Mixed(a, b, u) == a * (Scale - u) + b * u
Between(times, f, u) ==
  IF f + 1 < Len(times) THEN Mixed(times[f + 1], times[f + 2], u) ELSE Scale * times[f + 1]

\* A weighted mean lies between its two values and rises with the weight of the greater.
LEMMA Weighted ==
  ASSUME NEW a \in Int, NEW b \in Int, a <= b, NEW u \in 0..Scale
  PROVE  /\ Mixed(a, b, u) \in Int /\ Scale * a <= Mixed(a, b, u) /\ Mixed(a, b, u) <= Scale * b
         /\ \A v \in 0..Scale : u <= v => Mixed(a, b, u) <= Mixed(a, b, v)
<1> DEFINE d == b - a
           x == d * u
<1>1. d \in Nat /\ b = a + d
  OBVIOUS
<1> HIDE DEF d
<1>2. \A v \in 0..Scale : Mixed(a, b, v) = Scale * a + d * v /\ d * v \in Nat
  <2> TAKE v \in 0..Scale
  <2>1. a * (Scale - v) + (a + d) * v = Scale * a + d * v /\ d * v \in Nat
    BY <1>1 DEF Scale
  <2> QED BY <1>1, <2>1, Zenon DEF Mixed
<1>3. \A v \in 0..Scale : u <= v => x <= d * v
  <2> TAKE v \in 0..Scale
  <2> SUFFICES ASSUME u <= v PROVE x <= d * v
    OBVIOUS
  <2>1. u * d <= v * d
    <3>1. u \in Nat /\ v \in Nat
      OBVIOUS
    <3> QED BY <1>1, <3>1, ProductGrows
  <2>2. u * d = d * u /\ v * d = d * v
    BY <1>1
  <2> QED BY <2>1, <2>2
<1>4. Mixed(a, b, u) = Scale * a + x /\ x \in Nat
  BY <1>2, Zenon
<1>5. x <= d * Scale
  <2>1. Scale \in 0..Scale /\ u <= Scale
    BY DEF Scale
  <2> QED BY <1>3, <2>1, Zenon
<1> HIDE DEF x
<1>6. Mixed(a, b, u) \in Int /\ Scale * a <= Mixed(a, b, u) /\ Mixed(a, b, u) <= Scale * b
  BY <1>1, <1>4, <1>5 DEF Scale
<1>7. ASSUME NEW v \in 0..Scale, u <= v PROVE Mixed(a, b, u) <= Mixed(a, b, v)
  <2> DEFINE y == d * v
  <2>1. Mixed(a, b, v) = Scale * a + y /\ y \in Nat /\ x <= y
    BY <1>2, <1>3, <1>7, Zenon
  <2> HIDE DEF y
  <2> QED BY <1>4, <2>1 DEF Scale
<1> QED BY <1>6, <1>7

\* A percentile is a weighted mean of two neighbours, or the last value.
LEMMA PercentileIs ==
  ASSUME NEW times \in Seq(Int), Len(times) # 0, NEW p \in 0..Scale
  PROVE  \E f \in 0..(Len(times) - 1), u \in 0..(Scale - 1) :
           /\ (Len(times) - 1) * p = Scale * f + u /\ Percentile(times, p) = Between(times, f, u)
           /\ f = Len(times) - 1 => u = 0
<1> DEFINE N == Len(times)
           k == (N - 1) * p
           f == k \div Scale
           u == k - Scale * f
<1>1. N \in Nat \ {0}
  OBVIOUS
<1>2. k \in Nat /\ k <= Scale * (N - 1)
  <2>1. N - 1 \in Nat /\ p \in Nat /\ p <= Scale
    BY <1>1
  <2> HIDE DEF N
  <2>2. p * (N - 1) <= Scale * (N - 1) /\ p * (N - 1) \in Nat
    BY <2>1, ProductGrows DEF Scale
  <2>3. (N - 1) * p = p * (N - 1)
    BY <2>1
  <2> QED BY <2>2, <2>3
<1>3. f \in Nat /\ f * Scale <= k /\ k < f * Scale + Scale
  <2> HIDE DEF k
  <2> QED BY <1>2, QuotientBounds DEF Scale
<1> HIDE DEF N
<1>4. Percentile(times, p) = IF f + 1 < N THEN times[f + 1] * (Scale * (f + 1) - k) + times[f + 2] * (k - Scale * f)
                                         ELSE Scale * times[f + 1]
  BY DEF Percentile, N, Scale
<1> HIDE DEF k, f
<1>5. f \in 0..(N - 1) /\ u \in 0..(Scale - 1) /\ k = Scale * f + u /\ (f = N - 1 => u = 0) /\ Scale * (f + 1) - k = Scale - u
  BY <1>1, <1>2, <1>3 DEF Scale
<1>6. Percentile(times, p) = Between(times, f, u)
  <2>1. k - Scale * f = u
    OBVIOUS
  <2> HIDE DEF u
  <2>2. Percentile(times, p) = IF f + 1 < N THEN times[f + 1] * (Scale - u) + times[f + 2] * u ELSE Scale * times[f + 1]
    BY <1>4, <1>5, <2>1, Zenon
  <2> QED BY <2>2, Zenon DEF Between, Mixed, N
<1> HIDE DEF u
<1>7. (N - 1) * p = Scale * f + u
  BY <1>5 DEF k
<1>8. f \in 0..(Len(times) - 1) /\ u \in 0..(Scale - 1) /\ (Len(times) - 1) * p = Scale * f + u /\ (f = Len(times) - 1 => u = 0)
  BY <1>5, <1>7, Zenon DEF N
<1> QED BY <1>6, <1>8, Zenon

\* Such a mean lies between its neighbours, so between the extremes.
LEMMA BetweenBounds ==
  ASSUME NEW times \in Seq(Int), Len(times) # 0, Rises(times),
         NEW f \in 0..(Len(times) - 1), NEW u \in 0..(Scale - 1)
  PROVE  /\ Between(times, f, u) \in Int /\ Scale * times[f + 1] <= Between(times, f, u)
         /\ \A j \in (f + 2)..Len(times) : Between(times, f, u) <= Scale * times[j]
         /\ Between(times, f, u) <= Scale * times[Len(times)]
         /\ Scale * times[1] <= Between(times, f, u)
<1> DEFINE N == Len(times)
           P == Between(times, f, u)
<1>1. N \in Nat \ {0} /\ \A n \in 1..N : times[n] \in Int
  OBVIOUS
<1>2. f + 1 \in 1..N /\ N \in 1..N /\ 1 \in 1..N /\ (f + 1 < N => f + 2 \in 1..N) /\ (~(f + 1 < N) => f + 1 = N)
      /\ f + 1 <= f + 2 /\ 1 <= f + 1 /\ f + 1 <= N /\ (f + 1 < N => f + 2 <= N)
  BY <1>1
<1> HIDE DEF N, P
<1>3. \A m, n \in 1..N : m <= n => times[m] <= times[n]
  BY DEF Rises, N
<1>4. CASE f + 1 < N
  <2>1. P = Mixed(times[f + 1], times[f + 2], u)
    BY <1>4 DEF P, N, Between
  <2>2. times[f + 1] \in Int /\ times[f + 2] \in Int /\ times[f + 1] <= times[f + 2]
    BY <1>1, <1>2, <1>3, <1>4
  <2>3. u \in 0..Scale
    BY DEF Scale
  <2>4. P \in Int /\ Scale * times[f + 1] <= P /\ P <= Scale * times[f + 2]
    BY <2>1, <2>2, <2>3, Weighted
  <2>5. \A j \in (f + 2)..N : P <= Scale * times[j]
    <3> TAKE j \in (f + 2)..N
    <3>1. j \in 1..N /\ f + 2 <= j
      BY <1>1
    <3>2. times[f + 2] <= times[j] /\ times[j] \in Int
      BY <1>1, <1>2, <1>3, <1>4, <3>1
    <3> QED BY <2>2, <2>4, <3>2 DEF Scale
  <2>6. times[1] <= times[f + 1] /\ times[1] \in Int /\ N \in (f + 2)..N
    BY <1>1, <1>2, <1>3, <1>4
  <2>7. Scale * times[1] <= P
    BY <2>2, <2>4, <2>6 DEF Scale
  <2> QED BY <2>4, <2>5, <2>6, <2>7 DEF P, N
<1>5. CASE ~(f + 1 < N)
  <2>1. P = Scale * times[f + 1] /\ f + 1 = N
    BY <1>2, <1>5 DEF P, N, Between
  <2>2. times[f + 1] \in Int /\ times[1] <= times[f + 1] /\ times[1] \in Int
    BY <1>1, <1>2, <1>3
  <2>3. P \in Int /\ Scale * times[f + 1] <= P /\ P <= Scale * times[N] /\ Scale * times[1] <= P
    BY <2>1, <2>2 DEF Scale
  <2>4. (f + 2)..N = {}
    BY <1>1, <2>1
  <2> QED BY <2>3, <2>4 DEF P, N
<1> QED BY <1>4, <1>5

\* A percentile rises with the rank and stays between the extremes.
LEMMA PercentilesRise ==
  ASSUME NEW times \in Seq(Int), Len(times) # 0, Rises(times), NEW p \in 0..Scale, NEW q \in 0..Scale, p <= q
  PROVE  /\ Percentile(times, p) \in Int /\ Percentile(times, p) <= Percentile(times, q)
         /\ Scale * times[1] <= Percentile(times, p) /\ Percentile(times, p) <= Scale * times[Len(times)]
<1> DEFINE N == Len(times)
<1>1. N \in Nat \ {0}
  OBVIOUS
<1>2. PICK f \in 0..(N - 1), u \in 0..(Scale - 1) :
        (N - 1) * p = Scale * f + u /\ Percentile(times, p) = Between(times, f, u) /\ (f = N - 1 => u = 0)
  BY PercentileIs, Zenon
<1>3. PICK g \in 0..(N - 1), v \in 0..(Scale - 1) :
        (N - 1) * q = Scale * g + v /\ Percentile(times, q) = Between(times, g, v) /\ (g = N - 1 => v = 0)
  BY PercentileIs, Zenon
<1>4. Scale * f + u <= Scale * g + v
  <2>1. p * (N - 1) <= q * (N - 1)
    <3>1. p \in Nat /\ q \in Nat /\ N - 1 \in Nat
      BY <1>1
    <3> HIDE DEF N
    <3> QED BY <3>1, ProductGrows
  <2>2. p * (N - 1) = (N - 1) * p /\ q * (N - 1) = (N - 1) * q
    <3>1. N - 1 \in Int /\ p \in Int /\ q \in Int
      BY <1>1
    <3> HIDE DEF N
    <3> QED BY <3>1
  <2> DEFINE x == (N - 1) * p
             y == (N - 1) * q
  <2>3. x <= y
    BY <2>1, <2>2, Zenon
  <2>4. x = Scale * f + u /\ y = Scale * g + v
    BY <1>2, <1>3, Zenon
  <2> HIDE DEF x, y
  <2> QED BY <2>3, <2>4, Zenon
<1>5. f <= g /\ (f = g => u <= v)
  <2> HIDE DEF N
  <2>1. f \in Int /\ g \in Int
    BY <1>1
  <2> QED BY <1>4, <2>1 DEF Scale
<1>6. \A n \in 1..N : times[n] \in Int
  OBVIOUS
<1>7. /\ Between(times, f, u) \in Int /\ Scale * times[f + 1] <= Between(times, f, u)
      /\ \A j \in (f + 2)..N : Between(times, f, u) <= Scale * times[j]
      /\ Between(times, f, u) <= Scale * times[N] /\ Scale * times[1] <= Between(times, f, u)
  BY BetweenBounds, Zenon
<1>8. Between(times, g, v) \in Int /\ Scale * times[g + 1] <= Between(times, g, v)
  BY BetweenBounds, Zenon
<1>9. Between(times, f, u) <= Between(times, g, v)
  <2>1. CASE f = g
    <3>1. CASE f + 1 < N
      <4>1. /\ Between(times, f, u) = Mixed(times[f + 1], times[f + 2], u)
            /\ Between(times, g, v) = Mixed(times[f + 1], times[f + 2], v)
        BY <2>1, <3>1 DEF Between
      <4>2. f + 1 \in 1..N /\ f + 2 \in 1..N /\ f + 1 <= f + 2
        BY <1>1, <3>1
      <4>3. times[f + 1] \in Int /\ times[f + 2] \in Int /\ times[f + 1] <= times[f + 2]
        BY <1>6, <4>2 DEF Rises
      <4>4. u \in 0..Scale /\ v \in 0..Scale /\ u <= v
        BY <1>5, <2>1 DEF Scale
      <4> HIDE DEF N
      <4> QED BY <4>1, <4>3, <4>4, Weighted
    <3>2. CASE ~(f + 1 < N)
      <4>1. Between(times, f, u) = Scale * times[f + 1] /\ Between(times, g, v) = Scale * times[f + 1]
        BY <2>1, <3>2 DEF Between
      <4> QED BY <1>7, <4>1
    <3> QED BY <3>1, <3>2
  <2>2. CASE f # g
    <3> HIDE DEF N
    <3>1. g + 1 \in (f + 2)..N /\ g + 1 \in 1..N
      BY <1>1, <1>5, <2>2
    <3>2. Between(times, f, u) <= Scale * times[g + 1] /\ times[g + 1] \in Int
      BY <1>6, <1>7, <3>1
    <3> QED BY <1>7, <1>8, <3>2 DEF Scale
  <2> QED BY <2>1, <2>2
<1> QED BY <1>2, <1>3, <1>7, <1>9, Zenon

\* A percentile rises with the values.
LEMMA PercentileGrows ==
  ASSUME NEW times \in Seq(Int), NEW more \in Seq(Int), Len(times) # 0, Len(more) = Len(times),
         \A n \in 1..Len(times) : times[n] <= more[n], NEW p \in 0..Scale
  PROVE  Percentile(times, p) <= Percentile(more, p)
<1> DEFINE N == Len(times)
           k == (N - 1) * p
           f == k \div Scale
           u == k - Scale * f
           w == Scale * (f + 1) - k
<1>0. N \in Nat \ {0} /\ Len(more) = N
  OBVIOUS
<1>1. k \in Nat /\ k <= Scale * (N - 1)
  <2>1. N - 1 \in Nat /\ p \in Nat /\ p <= Scale
    BY <1>0
  <2> HIDE DEF N
  <2>2. p * (N - 1) <= Scale * (N - 1) /\ p * (N - 1) \in Nat
    BY <2>1, ProductGrows DEF Scale
  <2>3. (N - 1) * p = p * (N - 1)
    BY <2>1
  <2> QED BY <2>2, <2>3
<1>2. f \in Nat /\ f * Scale <= k /\ k < f * Scale + Scale
  <2> HIDE DEF k
  <2> QED BY <1>1, QuotientBounds DEF Scale
<1>3. \A n \in 1..N : times[n] \in Int /\ more[n] \in Int /\ times[n] <= more[n]
  <2>1. \A n \in 1..Len(times) : times[n] \in Int
    OBVIOUS
  <2>2. \A n \in 1..Len(more) : more[n] \in Int
    OBVIOUS
  <2> QED BY <1>0, <2>1, <2>2
<1>4. /\ Percentile(times, p) = IF f + 1 < N THEN times[f + 1] * w + times[f + 2] * u ELSE Scale * times[f + 1]
      /\ Percentile(more, p) = IF f + 1 < N THEN more[f + 1] * w + more[f + 2] * u ELSE Scale * more[f + 1]
  <2> HIDE DEF N
  <2>1. Percentile(times, p) = IF f + 1 < N THEN times[f + 1] * w + times[f + 2] * u ELSE Scale * times[f + 1]
    BY DEF Percentile, N, Scale
  <2>2. Percentile(more, p) = IF f + 1 < N THEN more[f + 1] * w + more[f + 2] * u ELSE Scale * more[f + 1]
    BY <1>0 DEF Percentile, Scale
  <2> QED BY <2>1, <2>2
<1> HIDE DEF N, k, f
<1>5. f + 1 \in 1..N /\ (f + 1 < N => f + 2 \in 1..N) /\ u \in Nat /\ w \in Nat
  BY <1>0, <1>1, <1>2 DEF Scale
<1> HIDE DEF u, w
<1>6. \A a, b \in Int, c \in Nat : a <= b => a * c <= b * c /\ a * c \in Int /\ b * c \in Int
  <2> TAKE a, b \in Int, c \in Nat
  <2> SUFFICES ASSUME a <= b PROVE a * c <= b * c /\ a * c \in Int /\ b * c \in Int
    OBVIOUS
  <2>1. PICK d \in Nat : b = a + d
    <3>1. b - a \in Nat /\ b = a + (b - a)
      OBVIOUS
    <3> QED BY <3>1
  <2>2. (a + d) * c = a * c + d * c /\ d * c \in Nat /\ a * c \in Int
    OBVIOUS
  <2> QED BY <2>1, <2>2
<1>7. CASE f + 1 < N
  <2> DEFINE a1 == times[f + 1] * w
             a2 == times[f + 2] * u
             b1 == more[f + 1] * w
             b2 == more[f + 2] * u
  <2>1. a1 <= b1 /\ a1 \in Int /\ b1 \in Int
    BY <1>3, <1>5, <1>6
  <2>2. a2 <= b2 /\ a2 \in Int /\ b2 \in Int
    BY <1>3, <1>5, <1>6, <1>7
  <2>3. Percentile(times, p) = a1 + a2 /\ Percentile(more, p) = b1 + b2
    BY <1>4, <1>7
  <2> HIDE DEF a1, a2, b1, b2
  <2> QED BY <2>1, <2>2, <2>3
<1>8. CASE ~(f + 1 < N)
  <2>1. times[f + 1] \in Int /\ more[f + 1] \in Int /\ times[f + 1] <= more[f + 1]
    BY <1>3, <1>5
  <2>2. Percentile(times, p) = Scale * times[f + 1] /\ Percentile(more, p) = Scale * more[f + 1]
    BY <1>4, <1>8
  <2> QED BY <2>1, <2>2 DEF Scale
<1> QED BY <1>7, <1>8

\* Sorted values: as many, rising, and each of them a value.
LEMMA SortedIs ==
  ASSUME NEW D, IsFiniteSet(D), D # {}, NEW f \in [D -> Int]
  PROVE  /\ Sorted(f) \in Seq(Int) /\ Len(Sorted(f)) = Cardinality(D) /\ Cardinality(D) \in Nat \ {0}
         /\ Rises(Sorted(f)) /\ \A n \in 1..Cardinality(D) : Sorted(f)[n] = Smallest(f, n)
         /\ \A x \in D : Sorted(f)[1] <= f[x] /\ f[x] <= Sorted(f)[Cardinality(D)]
<1> DEFINE N == Cardinality(D)
           s == Sorted(f)
<1>1. N \in Nat \ {0}
  BY FS_CardinalityType, FS_EmptySet
<1>2. \A n \in 1..N : Smallest(f, n) \in Int
  BY SmallestType
<1>3. s = [n \in 1..N |-> Smallest(f, n)]
  BY DEF Sorted
<1> HIDE DEF N, s
<1>4. s \in Seq(Int) /\ Len(s) = N /\ \A n \in 1..N : s[n] = Smallest(f, n)
  <2>1. s \in [1..N -> Int]
    BY <1>2, <1>3
  <2> QED BY <1>1, <1>3, <2>1
<1>5. Rises(s)
  <2>1. ASSUME NEW m \in 1..N, NEW n \in 1..N, m <= n PROVE Smallest(f, m) <= Smallest(f, n)
    BY <2>1, SmallestRises DEF N
  <2> QED BY <1>4, <2>1 DEF Rises
<1>6. \A x \in D : s[1] <= f[x] /\ f[x] <= s[N]
  <2>1. 1 \in 1..N /\ N \in 1..N
    BY <1>1
  <2>2. \A x \in D : Smallest(f, 1) <= f[x] /\ f[x] <= Smallest(f, N)
    BY SmallestBounds DEF N
  <2> QED BY <1>4, <2>1, <2>2
<1> QED BY <1>1, <1>4, <1>5, <1>6 DEF N, s

----------------------------------------------------------------------------
(* The report of a load test *)

RawOf(r) == [n \in DOMAIN r |-> r[n].latency]
CorrectedOf(r) == [n \in DOMAIN r |-> Corrected(r[n])]
Reported(raw, corrected) ==
  [raw |-> [n \in 1..4 |-> Percentile(raw, Ranks[n])],
   min |-> 1000 * raw[1], max |-> 1000 * raw[Len(raw)],
   correctedP99 |-> Percentile(corrected, 990)]

ReportInv ==
  /\ records \in Seq(Record) /\ records # <<>>
  /\ report # <<>> => report = Reported(Sorted(RawOf(records)), Sorted(CorrectedOf(records)))

\* ReportInv holds before the report.
LEMMA ReportInitially == PerfInit => ReportInv
<1> SUFFICES ASSUME PerfInit PROVE ReportInv
  OBVIOUS
<1>1. report = <<>> /\ (records = SomeRecords \/ records \in BoundedSeq(Record, MaxRecords) \ {<<>>})
  BY DEF PerfInit
<1>2. CASE records = SomeRecords /\ SomeRecords \in Seq(Record)
  BY <1>1, <1>2 DEF ReportInv, SomeRecords
<1>3. CASE records \in BoundedSeq(Record, MaxRecords) \ {<<>>}
  <2>1. MaxRecords \in Nat
    BY ReportsAssumption
  <2>2. BoundedSeq(Record, MaxRecords) \subseteq Seq(Record)
    BY <2>1 DEF BoundedSeq, SeqOf
  <2>3. records \in Seq(Record) /\ records # <<>>
    BY <1>3, <2>2
  <2> QED BY <1>1, <2>3 DEF ReportInv
<1>4. SomeRecords \in Seq(Record)
  BY ReportsAssumption DEF SomeRecords, Record
<1> QED BY <1>1, <1>2, <1>3, <1>4

\* ReportInv survives the report.
LEMMA ReportStep == ASSUME ReportInv, PerfNext \/ UNCHANGED perfVars PROVE ReportInv'
<1>1. records' = records
  BY DEF PerfNext, AddComponent, FinishBudget, CalculateCapacity, BuildReport, perfVars
<1>2. report' = report \/ report' = Reported(Sorted(RawOf(records)), Sorted(CorrectedOf(records)))
  <2>1. CASE BuildReport
    BY <2>1 DEF BuildReport, Reported, RawOf, CorrectedOf
  <2>2. CASE UNCHANGED report
    BY <2>2
  <2> QED BY <2>1, <2>2 DEF PerfNext, AddComponent, FinishBudget, CalculateCapacity, perfVars
<1>3. CASE report' = report
  BY <1>1, <1>3, Zenon DEF ReportInv
<1>4. CASE report' = Reported(Sorted(RawOf(records)), Sorted(CorrectedOf(records)))
  BY <1>1, <1>4, Zenon DEF ReportInv
<1> QED BY <1>2, <1>3, <1>4

\* Of ReportInv it follows that the percentiles are in order.
LEMMA ReportSound == ASSUME ReportInv PROVE PercentilesOrdered
<1> SUFFICES ASSUME report # <<>>
             PROVE  /\ report.min <= report.raw[1] /\ report.raw[4] <= report.max
                    /\ \A n \in 1..3 : report.raw[n] <= report.raw[n + 1]
                    /\ report.raw[3] <= report.correctedP99
  BY Zenon DEF PercentilesOrdered
<1> DEFINE N == Len(records)
           D == 1..N
           f == RawOf(records)
           g == CorrectedOf(records)
           s == Sorted(f)
           t == Sorted(g)
<1>1. records \in Seq(Record) /\ N \in Nat \ {0} /\ DOMAIN records = D
  BY DEF ReportInv
<1>2. \A n \in D : records[n].latency \in Int /\ records[n].late \in Int
  <2>1. \A n \in D : records[n] \in Record
    BY <1>1
  <2> QED BY <2>1 DEF Record
<1>3. f \in [D -> Int] /\ g \in [D -> Int] /\ \A n \in D : f[n] <= g[n]
  <2>1. \A n \in D : Corrected(records[n]) \in Int /\ records[n].latency <= Corrected(records[n])
    BY <1>2 DEF Corrected
  <2>2. f = [n \in D |-> records[n].latency] /\ g = [n \in D |-> Corrected(records[n])]
    BY <1>1 DEF RawOf, CorrectedOf
  <2> HIDE DEF f, g, D
  <2> QED BY <1>2, <2>1, <2>2
<1>4. IsFiniteSet(D) /\ Cardinality(D) = N /\ D # {}
  <2>1. \A k \in Nat : IsFiniteSet(1..k) /\ Cardinality(1..k) = k
    <3> TAKE k \in Nat
    <3> QED BY FS_Interval
  <2>2. D # {}
    <3> HIDE DEF N
    <3>1. 1 \in D
      BY <1>1
    <3> QED BY <3>1
  <2> QED BY <1>1, <2>1, <2>2, Zenon
<1> HIDE DEF D, f, g
<1>5. s \in Seq(Int) /\ Len(s) = N /\ Rises(s) /\ \A n \in 1..N : s[n] = Smallest(f, n)
  <2>1. /\ Sorted(f) \in Seq(Int) /\ Len(Sorted(f)) = Cardinality(D) /\ Rises(Sorted(f))
        /\ \A n \in 1..Cardinality(D) : Sorted(f)[n] = Smallest(f, n)
    BY <1>3, <1>4, SortedIs, Zenon
  <2> QED BY <1>4, <2>1, Zenon
<1>6. t \in Seq(Int) /\ Len(t) = N /\ \A n \in 1..N : t[n] = Smallest(g, n)
  <2>1. /\ Sorted(g) \in Seq(Int) /\ Len(Sorted(g)) = Cardinality(D) /\ Rises(Sorted(g))
        /\ \A n \in 1..Cardinality(D) : Sorted(g)[n] = Smallest(g, n)
    BY <1>3, <1>4, SortedIs, Zenon
  <2> QED BY <1>4, <2>1, Zenon
<1>7. \A n \in 1..N : s[n] <= t[n]
  <2>1. \A n \in 1..N : Smallest(f, n) <= Smallest(g, n)
    <3> TAKE n \in 1..N
    <3>1. n \in 1..Cardinality(D)
      BY <1>4
    <3> QED BY <1>3, <1>4, <3>1, SmallestGrows
  <2> QED BY <1>5, <1>6, <2>1, Zenon
<1> HIDE DEF s, t, N
<1>8. Len(s) # 0 /\ Len(t) = Len(s) /\ \A n \in 1..Len(s) : s[n] <= t[n]
  BY <1>1, <1>5, <1>6, <1>7
<1>9. 500 \in 0..Scale /\ 900 \in 0..Scale /\ 990 \in 0..Scale /\ 999 \in 0..Scale
  BY DEF Scale
<1>10. report = Reported(s, t)
  BY Zenon DEF ReportInv, s, t, f, g
<1>11. /\ report.raw[1] = Percentile(s, 500) /\ report.raw[2] = Percentile(s, 900) /\ report.raw[3] = Percentile(s, 990)
       /\ report.raw[4] = Percentile(s, 999) /\ report.min = Scale * s[1] /\ report.max = Scale * s[Len(s)]
       /\ report.correctedP99 = Percentile(t, 990)
  BY <1>10 DEF Reported, Ranks, Scale
<1>12. \A p, q \in 0..Scale : p <= q => /\ Percentile(s, p) <= Percentile(s, q) /\ Scale * s[1] <= Percentile(s, p)
                                        /\ Percentile(s, p) <= Scale * s[Len(s)]
  BY <1>5, <1>8, PercentilesRise, Zenon
<1>13. \A p \in 0..Scale : Percentile(s, p) <= Percentile(t, p)
  BY <1>5, <1>6, <1>8, PercentileGrows, Zenon
<1>14. 500 <= 900 /\ 900 <= 990 /\ 990 <= 999 /\ 999 <= 999
  OBVIOUS
<1>15. /\ report.min <= report.raw[1] /\ report.raw[4] <= report.max
       /\ report.raw[1] <= report.raw[2] /\ report.raw[2] <= report.raw[3] /\ report.raw[3] <= report.raw[4]
       /\ report.raw[3] <= report.correctedP99
  <2>1. Percentile(s, 500) <= Percentile(s, 900) /\ Scale * s[1] <= Percentile(s, 500)
    BY <1>9, <1>12, <1>14
  <2>2. Percentile(s, 900) <= Percentile(s, 990) /\ Percentile(s, 990) <= Percentile(s, 999) /\ Percentile(s, 999) <= Scale * s[Len(s)]
    BY <1>9, <1>12, <1>14
  <2>3. Percentile(s, 990) <= Percentile(t, 990)
    BY <1>9, <1>13
  <2> QED BY <1>11, <2>1, <2>2, <2>3
<1>16. ASSUME NEW n \in 1..3 PROVE report.raw[n] <= report.raw[n + 1]
  <2>1. (n = 1 /\ n + 1 = 2) \/ (n = 2 /\ n + 1 = 3) \/ (n = 3 /\ n + 1 = 4)
    OBVIOUS
  <2> QED BY <1>15, <2>1
<1> QED BY <1>15, <1>16

----------------------------------------------------------------------------
(* The tracer of requests: the times of its events are in order where the report subtracts them. *)

TraceStates == {"new", "connecting", "resolving", "resolved", "waiting", "reading", "ended"}
Connected == {"waiting", "reading"}

TimingsInv ==
  /\ tracing \in TraceStates /\ traceNow \in Nat
  /\ \A e \in DOMAIN timings : timings[e] \in Nat /\ timings[e] <= traceNow
  /\ "ttfb" \in DOMAIN timings <=> tracing = "reading"
  /\ "ttfb" \in DOMAIN timings => \A e \in DOMAIN timings : timings[e] <= timings["ttfb"]
  /\ tracing \in TraceStates \ {"new", "ended"} => "tcp_start" \in DOMAIN timings
  /\ tracing \in Connected => "tcp_end" \in DOMAIN timings /\ timings["tcp_start"] <= timings["tcp_end"]

\* TimingsInv holds of a new request.
LEMMA TimingsInitially == TraceInit => TimingsInv
<1> SUFFICES ASSUME TraceInit PROVE TimingsInv
  OBVIOUS
<1>1. tracing = "new" /\ traceNow = 0 /\ timings = <<>>
  BY DEF TraceInit
<1>2. DOMAIN timings = {}
  BY <1>1
<1> QED BY <1>1, <1>2 DEF TimingsInv, TraceStates, Connected

\* An event at a time that is not before the others.
LEMMA MarkedIs ==
  ASSUME TimingsInv, NEW event, NEW t \in Nat, t >= traceNow
  PROVE  /\ DOMAIN Marked(event, t) = DOMAIN timings \cup {event} /\ Marked(event, t)[event] = t
         /\ \A e \in DOMAIN timings \ {event} : Marked(event, t)[e] = timings[e]
         /\ \A e \in DOMAIN Marked(event, t) : Marked(event, t)[e] \in Nat /\ Marked(event, t)[e] <= t
<1>1. /\ DOMAIN Marked(event, t) = DOMAIN timings \cup {event} /\ Marked(event, t)[event] = t
      /\ \A e \in DOMAIN timings \ {event} : Marked(event, t)[e] = timings[e]
  BY DEF Marked
<1>2. traceNow \in Nat /\ \A e \in DOMAIN timings : timings[e] \in Nat /\ timings[e] <= t
  <2>1. traceNow \in Nat /\ \A e \in DOMAIN timings : timings[e] \in Nat /\ timings[e] <= traceNow
    BY DEF TimingsInv
  <2> QED BY <2>1
<1> QED BY <1>1, <1>2

\* TimingsInv survives every event of a request.
LEMMA TimingsStep == ASSUME TimingsInv, TraceNext \/ UNCHANGED traceVars PROVE TimingsInv'
<1>1. CASE UNCHANGED <<tracing, traceNow, timings>>
  BY <1>1 DEF TimingsInv
<1>2. CASE EndSample
  <2>1. traceNow' = 0 /\ timings' = <<>> /\ tracing' \in {"new", "ended"}
    BY <1>2 DEF EndSample
  <2>2. DOMAIN timings' = {}
    BY <2>1
  <2> QED BY <2>1, <2>2 DEF TimingsInv, TraceStates, Connected
<1>3. CASE Elapses /\ TraceEvent
  <2> DEFINE t == traceNow'
  <2>1. t \in Nat /\ t >= traceNow /\ traceNow \in Nat /\ tracing \in TraceStates
    <3>1. traceNow \in Nat /\ tracing \in TraceStates /\ t \in traceNow..MaxTraceTime
      BY <1>3 DEF TimingsInv, Elapses
    <3> QED BY <3>1
  <2>2. \A e \in DOMAIN timings : timings[e] \in Nat /\ timings[e] <= t
    <3>1. \A e \in DOMAIN timings : timings[e] \in Nat /\ timings[e] <= traceNow
      BY DEF TimingsInv
    <3> QED BY <2>1, <3>1
  <2>3. \A event :
          /\ DOMAIN Marked(event, t) = DOMAIN timings \cup {event} /\ Marked(event, t)[event] = t
          /\ \A e \in DOMAIN timings \ {event} : Marked(event, t)[e] = timings[e]
          /\ \A e \in DOMAIN Marked(event, t) : Marked(event, t)[e] \in Nat /\ Marked(event, t)[e] <= t
    <3> HIDE DEF t
    <3> QED BY <2>1, MarkedIs
  <2>4. ASSUME NEW event \in {"tcp_start", "dns_start", "dns_end", "tcp_end"}, NEW from, NEW to \in TraceStates \ {"new", "ended", "reading"},
               On(event, from, to), from \subseteq TraceStates \ {"reading", "ended"},
               "new" \in from => event = "tcp_start",
               to = "waiting" <=> event = "tcp_end"
        PROVE  TimingsInv'
    <3>1. tracing \in from /\ tracing' = to /\ timings' = Marked(event, t)
      BY <2>4 DEF On
    <3> HIDE DEF t
    <3>2. tracing # "reading" /\ tracing # "ended" /\ "ttfb" \notin DOMAIN timings
      BY <2>4, <3>1 DEF TimingsInv
    <3>3. /\ DOMAIN timings' = DOMAIN timings \cup {event} /\ timings'[event] = t
          /\ \A e \in DOMAIN timings \ {event} : timings'[e] = timings[e]
          /\ \A e \in DOMAIN timings' : timings'[e] \in Nat /\ timings'[e] <= t
      BY <2>3, <3>1, Zenon
    <3>4. event # "ttfb" /\ "ttfb" \notin DOMAIN timings'
      BY <2>4, <3>2, <3>3
    <3>5. "tcp_start" \in DOMAIN timings'
      <4>1. CASE tracing = "new"
        BY <2>4, <3>1, <3>3, <4>1
      <4>2. CASE tracing # "new"
        <5>1. "tcp_start" \in DOMAIN timings
          BY <2>1, <3>2, <4>2 DEF TimingsInv
        <5> QED BY <3>3, <5>1
      <4> QED BY <4>1, <4>2
    <3>6. to \in Connected => "tcp_end" \in DOMAIN timings' /\ timings'["tcp_start"] <= timings'["tcp_end"]
      <4> SUFFICES ASSUME to \in Connected PROVE "tcp_end" \in DOMAIN timings' /\ timings'["tcp_start"] <= timings'["tcp_end"]
        OBVIOUS
      <4>1. to = "waiting" /\ event = "tcp_end"
        BY <2>4 DEF Connected
      <4> QED BY <3>3, <3>5, <4>1
    <3>7. tracing' \in TraceStates /\ tracing' # "reading" /\ traceNow' \in Nat
      BY <2>1, <3>1 DEF t
    <3> QED BY <3>1, <3>3, <3>4, <3>5, <3>6, <3>7 DEF TimingsInv, t
  <2>5. CASE OnChunk
    <3>1. tracing \in Connected /\ tracing' = "reading"
          /\ timings' = IF "ttfb" \in DOMAIN timings THEN timings ELSE Marked("ttfb", t)
      BY <2>5 DEF OnChunk, Connected
    <3> HIDE DEF t
    <3>2. /\ "tcp_start" \in DOMAIN timings /\ "tcp_end" \in DOMAIN timings /\ timings["tcp_start"] <= timings["tcp_end"]
      BY <3>1 DEF TimingsInv, Connected, TraceStates
    <3>3. CASE "ttfb" \in DOMAIN timings
      <4>1. timings' = timings
        BY <3>1, <3>3
      <4>2. \A e \in DOMAIN timings : timings[e] <= timings["ttfb"]
        BY <3>3 DEF TimingsInv
      <4> QED BY <2>1, <2>2, <3>1, <3>2, <3>3, <4>1, <4>2 DEF TimingsInv, TraceStates, Connected, t
    <3>4. CASE "ttfb" \notin DOMAIN timings
      <4>1. timings' = Marked("ttfb", t)
        BY <3>1, <3>4
      <4>2. /\ DOMAIN timings' = DOMAIN timings \cup {"ttfb"} /\ timings'["ttfb"] = t
            /\ \A e \in DOMAIN timings \ {"ttfb"} : timings'[e] = timings[e]
            /\ \A e \in DOMAIN timings' : timings'[e] \in Nat /\ timings'[e] <= t
        BY <2>3, <4>1, Zenon
      <4> QED BY <2>1, <3>1, <3>2, <4>2 DEF TimingsInv, TraceStates, Connected, t
    <3> QED BY <3>3, <3>4
  <2>6. CASE OnRedirect
    <3>1. tracing = "waiting"
          /\ \/ tracing' = "new" /\ timings' = timings
             \/ timings' = Marked("reused", t) /\ tracing' = tracing
      BY <2>6 DEF OnRedirect
    <3> HIDE DEF t
    <3>2. /\ "tcp_start" \in DOMAIN timings /\ "tcp_end" \in DOMAIN timings /\ timings["tcp_start"] <= timings["tcp_end"]
          /\ "ttfb" \notin DOMAIN timings
      BY <3>1 DEF TimingsInv, Connected, TraceStates
    <3>3. CASE tracing' = "new" /\ timings' = timings
      BY <2>1, <2>2, <3>2, <3>3 DEF TimingsInv, TraceStates, Connected, t
    <3>4. CASE timings' = Marked("reused", t) /\ tracing' = tracing
      <4>1. /\ DOMAIN timings' = DOMAIN timings \cup {"reused"} /\ timings'["reused"] = t
            /\ \A e \in DOMAIN timings \ {"reused"} : timings'[e] = timings[e]
            /\ \A e \in DOMAIN timings' : timings'[e] \in Nat /\ timings'[e] <= t
        BY <2>3, <3>4, Zenon
      <4> QED BY <2>1, <3>1, <3>2, <3>4, <4>1 DEF TimingsInv, TraceStates, Connected, t
    <3> QED BY <3>1, <3>3, <3>4
  <2> HIDE DEF t
  <2>7. CASE On("tcp_start", {"new"}, "connecting")
    <3>1. {"new"} \subseteq TraceStates \ {"reading", "ended"} /\ "connecting" \in TraceStates \ {"new", "ended", "reading"}
      BY DEF TraceStates
    <3> QED BY <2>4, <2>7, <3>1
  <2>8. CASE On("dns_start", {"connecting"}, "resolving")
    <3>1. {"connecting"} \subseteq TraceStates \ {"reading", "ended"} /\ "resolving" \in TraceStates \ {"new", "ended", "reading"}
      BY DEF TraceStates
    <3> QED BY <2>4, <2>8, <3>1
  <2>9. CASE On("dns_end", {"resolving"}, "resolved")
    <3>1. {"resolving"} \subseteq TraceStates \ {"reading", "ended"} /\ "resolved" \in TraceStates \ {"new", "ended", "reading"}
      BY DEF TraceStates
    <3> QED BY <2>4, <2>9, <3>1
  <2>10. CASE On("tcp_end", {"connecting", "resolved"}, "waiting")
    <3>1. {"connecting", "resolved"} \subseteq TraceStates \ {"reading", "ended"} /\ "waiting" \in TraceStates \ {"new", "ended", "reading"}
      BY DEF TraceStates
    <3> QED BY <2>4, <2>10, <3>1
  <2> QED BY <1>3, <2>5, <2>6, <2>7, <2>8, <2>9, <2>10 DEF TraceEvent
<1>4. CASE BuildSummary \/ UNCHANGED traceVars
  BY <1>1, <1>4 DEF BuildSummary, traceVars
<1> QED BY <1>2, <1>3, <1>4 DEF TraceNext

\* What a sample is made of, and that its parts fit.
Time == Nat \cup {NoTime}
Sample == [ok : BOOLEAN, total : Nat, dns : Time, connect : Time, ttfb : Time, receive : Time]

\* A failed request is a sample.
LEMMA FailedIs == ASSUME NEW t \in Nat PROVE Failed(t) \in Sample /\ ~Failed(t).ok
BY DEF Failed, Sample, Time

\* A request that was answered is a sample whose parts fit in it.
LEMMA MeasuredIs ==
  ASSUME TimingsInv, tracing \in Connected
  PROVE  Measured(traceNow) \in Sample /\ PartsFit(Measured(traceNow))
<1> DEFINE T == traceNow
           E == DOMAIN timings
           x == Measured(traceNow)
           Has(t) == IF t = NoTime THEN 0 ELSE t
<1>1. /\ T \in Nat /\ \A e \in E : timings[e] \in Nat /\ timings[e] <= T
      /\ "ttfb" \in E => \A e \in E : timings[e] <= timings["ttfb"]
      /\ "tcp_start" \in E /\ "tcp_end" \in E /\ timings["tcp_start"] <= timings["tcp_end"]
  BY DEF TimingsInv, Connected, TraceStates
<1>2. \A a, b \in E : NonNegative(timings[b] - timings[a]) \in Nat
                      /\ (timings[a] <= timings[b] => NonNegative(timings[b] - timings[a]) = timings[b] - timings[a])
  BY <1>1 DEF NonNegative
<1>3. \A a, b : /\ {a, b} \subseteq E => DiffMs(a, b) = NonNegative(timings[b] - timings[a])
                /\ ~({a, b} \subseteq E) => DiffMs(a, b) = NoTime
  BY DEF DiffMs
<1>4. \A a, b : DiffMs(a, b) \in Time
  <2> TAKE a, b
  <2>1. CASE {a, b} \subseteq E
    BY <1>2, <1>3, <2>1 DEF Time
  <2>2. CASE ~({a, b} \subseteq E)
    BY <1>3, <2>2 DEF Time
  <2> QED BY <2>1, <2>2
<1>5. x = [ok |-> TRUE, total |-> T, dns |-> DiffMs("dns_start", "dns_end"),
           connect |-> IF "reused" \in E THEN 0 ELSE DiffMs("tcp_start", "tcp_end"),
           ttfb |-> DiffMs(IF "reused" \in E THEN "dns_end" ELSE "tcp_end", "ttfb"),
           receive |-> IF "ttfb" \in E THEN NonNegative(T - timings["ttfb"]) ELSE NoTime]
  BY DEF Measured
<1>6. "ttfb" \in E => NonNegative(T - timings["ttfb"]) = T - timings["ttfb"] /\ T - timings["ttfb"] \in Nat
  BY <1>1 DEF NonNegative
<1> HIDE DEF E, T, x
<1>7. x \in Sample
  <2>1. (IF "reused" \in E THEN 0 ELSE DiffMs("tcp_start", "tcp_end")) \in Time
    BY <1>4 DEF Time
  <2>2. (IF "ttfb" \in E THEN NonNegative(T - timings["ttfb"]) ELSE NoTime) \in Time
    BY <1>6 DEF Time
  <2> QED BY <1>1, <1>4, <1>5, <2>1, <2>2 DEF Sample
<1>8. NoTime \notin Nat /\ \A n \in Nat : Has(n) = n
  BY DEF NoTime
<1>9. x.ttfb # NoTime => x.receive # NoTime
  <2>1. x.ttfb # NoTime => "ttfb" \in E
    BY <1>3, <1>5
  <2>2. "ttfb" \in E => x.receive \in Nat
    BY <1>5, <1>6
  <2> QED BY <1>8, <2>1, <2>2
<1>10. Has(x.connect) + Has(x.ttfb) + Has(x.receive) <= x.total
  <2>1. x.total = T /\ Has(NoTime) = 0
    BY <1>5
  <2>2. \A a, b \in E : timings[a] <= timings[b] => DiffMs(a, b) = timings[b] - timings[a] /\ DiffMs(a, b) \in Nat
    <3> TAKE a, b \in E
    <3>1. DiffMs(a, b) = NonNegative(timings[b] - timings[a])
      BY <1>3
    <3> QED BY <1>2, <3>1
  <2>3. CASE "ttfb" \notin E
    <3>1. x.ttfb = NoTime /\ x.receive = NoTime
      BY <1>3, <1>5, <2>3
    <3>2. x.connect \in Nat /\ x.connect <= T
      <4>1. CASE "reused" \in E
        BY <1>1, <1>5, <4>1
      <4>2. CASE "reused" \notin E
        <5>1. x.connect = timings["tcp_end"] - timings["tcp_start"] /\ x.connect \in Nat
          BY <1>1, <1>5, <2>2, <4>2
        <5> QED BY <1>1, <5>1
      <4> QED BY <4>1, <4>2
    <3>3. Has(x.connect) = x.connect /\ Has(x.ttfb) = 0 /\ Has(x.receive) = 0
      BY <1>8, <2>1, <3>1, <3>2
    <3> QED BY <1>1, <2>1, <3>2, <3>3
  <2>4. CASE "ttfb" \in E
    <3> DEFINE f == timings["ttfb"]
    <3>1. x.receive = T - f /\ x.receive \in Nat /\ f \in Nat /\ f <= T
      BY <1>1, <1>5, <1>6, <2>4
    <3>2. CASE "reused" \in E
      <4>1. x.connect = 0 /\ x.ttfb = DiffMs("dns_end", "ttfb")
        BY <1>5, <3>2
      <4>2. CASE "dns_end" \in E
        <5>1. x.ttfb = f - timings["dns_end"] /\ x.ttfb \in Nat /\ timings["dns_end"] \in Nat
          BY <1>1, <2>2, <2>4, <4>1, <4>2
        <5>2. Has(x.connect) = 0 /\ Has(x.ttfb) = x.ttfb /\ Has(x.receive) = x.receive
          BY <1>8, <3>1, <4>1, <5>1
        <5> HIDE DEF f, Has
        <5> QED BY <1>1, <2>1, <3>1, <5>1, <5>2
      <4>3. CASE "dns_end" \notin E
        <5>1. x.ttfb = NoTime
          BY <1>3, <4>1, <4>3
        <5>2. Has(x.connect) = 0 /\ Has(x.ttfb) = 0 /\ Has(x.receive) = x.receive
          BY <1>8, <2>1, <3>1, <4>1, <5>1
        <5> HIDE DEF f, Has
        <5> QED BY <1>1, <2>1, <3>1, <5>2
      <4> QED BY <4>2, <4>3
    <3>3. CASE "reused" \notin E
      <4>1. x.connect = DiffMs("tcp_start", "tcp_end") /\ x.ttfb = DiffMs("tcp_end", "ttfb")
        BY <1>5, <3>3
      <4>2. /\ x.connect = timings["tcp_end"] - timings["tcp_start"] /\ x.connect \in Nat
            /\ x.ttfb = f - timings["tcp_end"] /\ x.ttfb \in Nat
        BY <1>1, <2>2, <2>4, <4>1
      <4>3. timings["tcp_start"] \in Nat /\ timings["tcp_end"] \in Nat
        BY <1>1
      <4>4. Has(x.connect) = x.connect /\ Has(x.ttfb) = x.ttfb /\ Has(x.receive) = x.receive
        BY <1>8, <3>1, <4>2
      <4> HIDE DEF f, Has
      <4> QED BY <1>1, <2>1, <3>1, <4>2, <4>3, <4>4
    <3> QED BY <3>2, <3>3
  <2> QED BY <2>3, <2>4
<1>11. PartsFit(x)
  BY <1>9, <1>10, Zenon DEF PartsFit
<1> QED BY <1>7, <1>11 DEF x

----------------------------------------------------------------------------
(* The samples of the tracer, and their summary *)

OkOf(s) == {n \in DOMAIN s : s[n].ok}
FailedOf(s) == {n \in DOMAIN s : ~s[n].ok}
HavingOf(s, part) == {n \in DOMAIN s : s[n].ok /\ s[n][part] # NoTime}
ValuesOf(s, part) == [n \in HavingOf(s, part) |-> s[n][part]]
SummaryOf(s) ==
  [success |-> Cardinality(OkOf(s)), errors |-> Cardinality(FailedOf(s)),
   parts |-> [part \in Parts |-> Stats(ValuesOf(s, part))]]

SamplesInv ==
  /\ samples \in Seq(Sample) /\ Len(samples) <= MaxSamples
  /\ tracing = "ended" => Len(samples) = MaxSamples
  /\ tracing # "ended" => Len(samples) < MaxSamples
  /\ \A n \in 1..Len(samples) : samples[n].ok => PartsFit(samples[n])
  /\ summary # <<>> => tracing = "ended" /\ summary = SummaryOf(samples)

\* SamplesInv holds before the first request.
LEMMA SamplesInitially == TraceInit => SamplesInv
<1> SUFFICES ASSUME TraceInit PROVE SamplesInv
  OBVIOUS
<1>1. tracing = "new" /\ samples = <<>> /\ summary = <<>>
  BY DEF TraceInit
<1>2. MaxSamples \in Nat \ {0}
  BY SamplesAssumption
<1>3. samples \in Seq(Sample) /\ Len(samples) = 0
  BY <1>1
<1>4. \A n \in 1..Len(samples) : FALSE
  BY <1>3
<1>5. tracing # "ended"
  BY <1>1
<1>6. Len(samples) <= MaxSamples /\ Len(samples) < MaxSamples
  BY <1>2, <1>3
<1> QED BY <1>1, <1>3, <1>4, <1>5, <1>6, Zenon DEF SamplesInv

\* SamplesInv survives every event, the end of a request and the summary.
LEMMA SamplesStep == ASSUME TimingsInv, SamplesInv, TraceNext \/ UNCHANGED traceVars PROVE SamplesInv'
<1> DEFINE N == Len(samples)
<1>0. /\ samples \in Seq(Sample) /\ N \in Nat /\ N <= MaxSamples /\ MaxSamples \in Nat \ {0}
      /\ tracing = "ended" => N = MaxSamples
      /\ tracing # "ended" => N < MaxSamples
      /\ \A n \in 1..N : samples[n].ok => PartsFit(samples[n])
      /\ summary # <<>> => tracing = "ended" /\ summary = SummaryOf(samples)
  BY SamplesAssumption DEF SamplesInv
<1>1. CASE EndSample
  <2>1. /\ tracing # "ended" /\ summary' = summary
        /\ tracing' = IF Len(samples') < MaxSamples THEN "new" ELSE "ended"
        /\ \/ tracing \in Connected /\ samples' = Append(samples, Measured(traceNow))
           \/ samples' = Append(samples, Failed(traceNow))
    BY <1>1, Zenon DEF EndSample, Connected
  <2>2. PICK x \in Sample : samples' = Append(samples, x) /\ (x.ok => PartsFit(x))
    <3>1. CASE tracing \in Connected /\ samples' = Append(samples, Measured(traceNow))
      BY <3>1, MeasuredIs, Zenon
    <3>2. CASE samples' = Append(samples, Failed(traceNow))
      <4>1. traceNow \in Nat
        BY DEF TimingsInv
      <4> QED BY <3>2, <4>1, FailedIs, Zenon
    <3> QED BY <2>1, <3>1, <3>2
  <2>3. \A s \in Seq(Sample) : /\ Append(s, x) \in Seq(Sample) /\ Len(Append(s, x)) = Len(s) + 1
                               /\ \A n \in 1..Len(s) : Append(s, x)[n] = s[n]
                               /\ Append(s, x)[Len(s) + 1] = x
    OBVIOUS
  <2>4. /\ samples' \in Seq(Sample) /\ Len(samples') = N + 1 /\ \A n \in 1..N : samples'[n] = samples[n]
        /\ samples'[N + 1] = x
    BY <1>0, <2>2, <2>3, Zenon
  <2> HIDE DEF N
  <2>5. Len(samples') <= MaxSamples /\ (tracing' = "ended" => Len(samples') = MaxSamples)
        /\ (tracing' # "ended" => Len(samples') < MaxSamples)
    BY <1>0, <2>1, <2>4
  <2>6. \A n \in 1..Len(samples') : samples'[n].ok => PartsFit(samples'[n])
    <3> TAKE n \in 1..Len(samples')
    <3>1. n \in 1..N \/ n = N + 1
      BY <1>0, <2>4
    <3> QED BY <1>0, <2>2, <2>4, <3>1, Zenon
  <2>7. summary' = <<>>
    BY <1>0, <2>1, Zenon
  <2> QED BY <2>4, <2>5, <2>6, <2>7, Zenon DEF SamplesInv
<1>2. CASE BuildSummary
  <2>1. tracing = "ended" /\ tracing' = tracing /\ samples' = samples
    BY <1>2 DEF BuildSummary
  <2>2. summary' = SummaryOf(samples)
    BY <1>2, Zenon DEF BuildSummary, SummaryOf, OkOf, FailedOf, ValuesOf, HavingOf, Values, Having
  <2>3. samples' \in Seq(Sample) /\ Len(samples') <= MaxSamples /\ Len(samples') = MaxSamples
        /\ tracing' = "ended" /\ summary' = SummaryOf(samples')
    BY <1>0, <2>1, <2>2, Zenon
  <2>4. \A n \in 1..Len(samples') : samples'[n].ok => PartsFit(samples'[n])
    BY <1>0, <2>1, Zenon
  <2> QED BY <2>3, <2>4, Zenon DEF SamplesInv
<1>3. ASSUME UNCHANGED <<samples, summary>>, tracing' = "ended" <=> tracing = "ended" PROVE SamplesInv'
  <2>1. samples' = samples /\ summary' = summary
    BY <1>3
  <2> QED BY <1>0, <1>3, <2>1, Zenon DEF SamplesInv
<1>4. CASE Elapses /\ TraceEvent
  <2>1. tracing # "ended" /\ tracing' # "ended" /\ UNCHANGED <<samples, summary>>
    BY <1>4 DEF TraceEvent, On, OnChunk, OnRedirect
  <2> QED BY <1>3, <2>1
<1>5. CASE UNCHANGED traceVars
  BY <1>3, <1>5 DEF traceVars
<1> QED BY <1>1, <1>2, <1>4, <1>5 DEF TraceNext

\* The statistics of a part: percentiles between the extremes, and so is the mean.
LEMMA StatsAre ==
  ASSUME NEW D, IsFiniteSet(D), D # {}, NEW f \in [D -> Nat]
  PROVE  LET s == Stats(f) IN
           /\ s.n = Cardinality(D) /\ s.n \in Nat \ {0} /\ s.sum = SumFunction(f) /\ s.sum \in Nat
           /\ s.min <= s.p[1] /\ s.p[1] <= s.p[2] /\ s.p[2] <= s.p[3] /\ s.p[3] <= s.max
           /\ s.min * s.n <= 1000 * s.sum /\ 1000 * s.sum <= s.max * s.n
<1> DEFINE N == Cardinality(D)
           t == Sorted(f)
           S == SumFunction(f)
           r == Stats(f)
<1>1. f \in [D -> Int] /\ DOMAIN f = D
  OBVIOUS
<1>2. /\ t \in Seq(Int) /\ Len(t) = N /\ N \in Nat \ {0} /\ Rises(t)
      /\ \A x \in D : t[1] <= f[x] /\ f[x] <= t[N]
  BY <1>1, SortedIs, Zenon
<1>3. r = [p |-> [n \in 1..3 |-> Percentile(t, Ranks[n])], n |-> Len(t), sum |-> S,
           min |-> 1000 * t[1], max |-> 1000 * t[Len(t)]]
  BY <1>1 DEF Stats
<1>4. t[1] \in Int /\ t[N] \in Int
  BY <1>2
<1>5. S \in Nat /\ N * t[1] <= S /\ S <= N * t[N]
  <2>1. S \in Nat
    BY SumIsNat
  <2> HIDE DEF t
  <2>2. N * t[1] <= S
    BY <1>1, <1>2, <1>4, SumAtLeast
  <2>3. S <= N * t[N]
    BY <1>1, <1>2, <1>4, SumAtMost
  <2> QED BY <2>1, <2>2, <2>3
<1> HIDE DEF N, t, S, r
<1>6. /\ r.p[1] = Percentile(t, 500) /\ r.p[2] = Percentile(t, 900) /\ r.p[3] = Percentile(t, 990)
      /\ r.n = N /\ r.sum = S /\ r.min = Scale * t[1] /\ r.max = Scale * t[N]
  BY <1>2, <1>3 DEF Ranks, Scale
<1>7. 500 \in 0..Scale /\ 900 \in 0..Scale /\ 990 \in 0..Scale /\ 500 <= 900 /\ 900 <= 990 /\ 990 <= 990
  BY DEF Scale
<1>8. Len(t) # 0
  BY <1>2
<1>9. \A p, q \in 0..Scale : p <= q => /\ Percentile(t, p) \in Int /\ Percentile(t, p) <= Percentile(t, q)
                                       /\ Scale * t[1] <= Percentile(t, p) /\ Percentile(t, p) <= Scale * t[Len(t)]
  BY <1>2, <1>8, PercentilesRise, Zenon
<1>10. /\ Scale * t[1] <= Percentile(t, 500) /\ Percentile(t, 500) <= Percentile(t, 900)
       /\ Percentile(t, 900) <= Percentile(t, 990) /\ Percentile(t, 990) <= Scale * t[N]
  BY <1>2, <1>7, <1>9
<1>11. (Scale * t[1]) * N <= 1000 * S /\ 1000 * S <= (Scale * t[N]) * N
  <2> DEFINE a == t[1]
             b == t[N]
             x == N * a
             y == N * b
  <2>1. a \in Int /\ b \in Int /\ x <= S /\ S <= y
    BY <1>4, <1>5
  <2>2. (1000 * a) * N = 1000 * x /\ (1000 * b) * N = 1000 * y /\ x \in Int /\ y \in Int
    <3> HIDE DEF a, b
    <3> QED BY <1>2, <2>1
  <2> HIDE DEF x, y, a, b
  <2>3. (1000 * a) * N <= 1000 * S /\ 1000 * S <= (1000 * b) * N
    BY <1>5, <2>1, <2>2
  <2> QED BY <2>3 DEF Scale, a, b
<1>12. /\ r.min <= r.p[1] /\ r.p[1] <= r.p[2] /\ r.p[2] <= r.p[3] /\ r.p[3] <= r.max
       /\ r.min * r.n <= 1000 * r.sum /\ 1000 * r.sum <= r.max * r.n
  BY <1>6, <1>10, <1>11
<1>13. r.n = N /\ r.n \in Nat \ {0} /\ r.sum = S /\ r.sum \in Nat
  BY <1>2, <1>5, <1>6
<1> QED BY <1>12, <1>13 DEF N, S, r

\* The times of a part are natural numbers, of samples that were answered.
LEMMA PartTimes ==
  ASSUME SamplesInv, NEW part \in Parts
  PROVE  /\ IsFiniteSet(HavingOf(samples, part)) /\ HavingOf(samples, part) \subseteq OkOf(samples)
         /\ ValuesOf(samples, part) \in [HavingOf(samples, part) -> Nat]
<1> DEFINE N == Len(samples)
           H == HavingOf(samples, part)
<1>1. N \in Nat /\ DOMAIN samples = 1..N /\ \A n \in 1..N : samples[n] \in Sample
  BY DEF SamplesInv
<1>2. \A k \in Nat : IsFiniteSet(1..k)
  <2> TAKE k \in Nat
  <2> QED BY FS_Interval
<1>3. H \subseteq OkOf(samples) /\ H \subseteq 1..N
  BY <1>1 DEF HavingOf, OkOf
<1>4. IsFiniteSet(H)
  BY <1>1, <1>2, <1>3, FS_Subset
<1>5. \A x \in Sample : x[part] \in Time
  <2> TAKE x \in Sample
  <2>1. x["total"] \in Time /\ x["dns"] \in Time /\ x["connect"] \in Time /\ x["ttfb"] \in Time /\ x["receive"] \in Time
    BY DEF Sample, Time
  <2>2. part = "total" \/ part = "dns" \/ part = "connect" \/ part = "ttfb" \/ part = "receive"
    BY DEF Parts
  <2> QED BY <2>1, <2>2, Zenon
<1>6. \A n \in H : samples[n][part] \in Nat
  <2> TAKE n \in H
  <2>1. n \in 1..N /\ samples[n][part] # NoTime
    BY <1>1, Zenon DEF HavingOf
  <2>2. samples[n][part] \in Time
    BY <1>1, <1>5, <2>1, Zenon
  <2> QED BY <2>1, <2>2 DEF Time
<1>7. ValuesOf(samples, part) = [n \in H |-> samples[n][part]]
  BY Zenon DEF ValuesOf
<1> HIDE DEF H
<1>8. ValuesOf(samples, part) \in [H -> Nat]
  BY <1>6, <1>7, Zenon
<1> QED BY <1>3, <1>4, <1>8 DEF H

\* Every sample counts once.
LEMMA SamplesCounted ==
  ASSUME SamplesInv
  PROVE  /\ IsFiniteSet(OkOf(samples)) /\ Cardinality(OkOf(samples)) \in Nat
         /\ Cardinality(OkOf(samples)) + Cardinality(FailedOf(samples)) = Len(samples)
<1> DEFINE N == Len(samples)
           A == OkOf(samples)
           B == FailedOf(samples)
<1>1. N \in Nat /\ DOMAIN samples = 1..N /\ \A n \in 1..N : samples[n] \in Sample
  BY DEF SamplesInv
<1>2. A \cup B = 1..N /\ A \cap B = {} /\ A \subseteq 1..N /\ B \subseteq 1..N
  <2>1. \A n \in 1..N : samples[n].ok \in BOOLEAN
    BY <1>1 DEF Sample
  <2>2. A = {n \in 1..N : samples[n].ok} /\ B = {n \in 1..N : ~samples[n].ok}
    BY <1>1, Zenon DEF OkOf, FailedOf
  <2> HIDE DEF N, A, B
  <2> QED BY <2>1, <2>2
<1>3. \A k \in Nat : IsFiniteSet(1..k) /\ Cardinality(1..k) = k
  <2> TAKE k \in Nat
  <2> QED BY FS_Interval
<1>4. IsFiniteSet(A) /\ IsFiniteSet(B) /\ Cardinality(A \cup B) = N
  <2>1. IsFiniteSet(1..N) /\ Cardinality(1..N) = N
    BY <1>1, <1>3, Zenon
  <2> HIDE DEF N, A, B
  <2> QED BY <1>2, <2>1, FS_Subset
<1> HIDE DEF N, A, B
<1>5. Cardinality(A \cup B) = Cardinality(A) + Cardinality(B) - Cardinality(A \cap B)
  BY <1>4, FS_Union
<1>6. Cardinality(A) \in Nat /\ Cardinality(B) \in Nat /\ Cardinality(A \cap B) = 0
  BY <1>2, <1>4, FS_CardinalityType, FS_EmptySet
<1> QED BY <1>4, <1>5, <1>6 DEF A, B, N

\* A ratio of at most one, rounded.
LEMMA RoundedShare ==
  ASSUME NEW a \in Nat, NEW b \in Nat \ {0}, a <= b
  PROVE  Rounded(1000 * a, b) <= 1000
<1> DEFINE m == 2 * (1000 * a) + b
           k == 2 * b
           q == m \div k
<1>1. m \in Nat /\ k \in Nat \ {0} /\ m < 1001 * k
  OBVIOUS
<1>2. Rounded(1000 * a, b) = q
  BY DEF Rounded
<1> HIDE DEF m, k
<1>3. q \in Nat /\ q * k \in Nat /\ q * k <= m
  BY <1>1, QuotientBounds
<1> HIDE DEF q
<1>4. q < 1001
  <2> SUFFICES ASSUME q >= 1001 PROVE FALSE
    BY <1>3
  <2>1. 1001 * k <= q * k
    BY <1>1, <1>3, ProductGrows
  <2> QED BY <1>1, <1>3, <2>1
<1> QED BY <1>2, <1>3, <1>4

\* The first byte comes within the whole request, so its share is one at most.
LEMMA FirstByteShare ==
  ASSUME SamplesInv, summary # <<>>, Cardinality(Having("ttfb")) = summary.success,
         summary.success > 0, summary.parts["total"].sum > 0
  PROVE  MeanShare("ttfb") <= 1000
<1> DEFINE D == OkOf(samples)
           f == ValuesOf(samples, "ttfb")
           g == ValuesOf(samples, "total")
           H(part) == HavingOf(samples, part)
           s == Stats(f)
           t == Stats(g)
<1>1. "ttfb" \in Parts /\ "total" \in Parts
  BY DEF Parts
<1>2. summary.success = Cardinality(D) /\ summary.parts["ttfb"] = s /\ summary.parts["total"] = t
  <2>1. summary = SummaryOf(samples)
    BY Zenon DEF SamplesInv
  <2>2. summary.parts = [part \in Parts |-> Stats(ValuesOf(samples, part))] /\ summary.success = Cardinality(D)
    BY <2>1 DEF SummaryOf
  <2> QED BY <1>1, <2>2, Zenon
<1>3. IsFiniteSet(D) /\ Cardinality(D) \in Nat
  BY SamplesCounted
<1>4. /\ H("ttfb") \subseteq D /\ H("total") \subseteq D
      /\ f \in [H("ttfb") -> Nat] /\ g \in [H("total") -> Nat]
  BY <1>1, PartTimes, Zenon
<1>5. /\ Len(samples) \in Nat /\ DOMAIN samples = 1..Len(samples) /\ \A n \in 1..Len(samples) : samples[n] \in Sample
      /\ \A n \in 1..Len(samples) : samples[n].ok => PartsFit(samples[n])
  BY DEF SamplesInv
<1>6. H("ttfb") = D
  <2>1. Having("ttfb") = H("ttfb")
    BY Zenon DEF Having, HavingOf
  <2>2. Cardinality(H("ttfb")) = Cardinality(D)
    BY <1>2, <2>1, Zenon
  <2> HIDE DEF H, D
  <2> QED BY <1>3, <1>4, <2>2, FS_Subset
<1>7. H("total") = D
  <2>1. \A n \in D : n \in 1..Len(samples) /\ samples[n].ok /\ samples[n].total # NoTime
    <3> TAKE n \in D
    <3>1. n \in 1..Len(samples) /\ samples[n].ok
      BY <1>5, Zenon DEF OkOf
    <3>2. samples[n].total \in Nat
      BY <1>5, <3>1 DEF Sample
    <3> QED BY <3>1, <3>2 DEF NoTime
  <2> QED BY <1>4, <1>5, <2>1, Zenon DEF HavingOf
<1>8. f \in [D -> Nat] /\ g \in [D -> Nat]
  BY <1>4, <1>6, <1>7, Zenon
<1>9. \A n \in D : f[n] <= g[n]
  <2> TAKE n \in D
  <2>1. n \in 1..Len(samples) /\ samples[n].ok
    BY <1>5, Zenon DEF OkOf
  <2> DEFINE x == samples[n]
  <2>2. x \in Sample /\ PartsFit(x)
    BY <1>5, <2>1, Zenon
  <2>3. f[n] = x.ttfb /\ g[n] = x.total
    BY <1>6, <1>7, Zenon DEF ValuesOf
  <2>4. x.ttfb \in Nat
    BY <1>8, <2>3, Zenon
  <2> HIDE DEF x
  <2>5. x.ttfb <= x.total
    <3> DEFINE Has(v) == IF v = NoTime THEN 0 ELSE v
    <3>1. Has(x.connect) + Has(x.ttfb) + Has(x.receive) <= x.total
      BY <2>2, Zenon DEF PartsFit
    <3>2. x.connect \in Time /\ x.receive \in Time /\ x.total \in Nat
      BY <2>2 DEF Sample
    <3>3. Has(x.connect) \in Nat /\ Has(x.receive) \in Nat /\ Has(x.ttfb) = x.ttfb
      BY <2>4, <3>2 DEF Time, NoTime
    <3> HIDE DEF Has
    <3> QED BY <2>4, <3>1, <3>2, <3>3
  <2> QED BY <2>3, <2>5
<1>10. D # {}
  <2> HIDE DEF D
  <2> QED BY <1>2, <1>3, FS_EmptySet
<1> HIDE DEF D, f, g, H
<1>11. /\ s.n = Cardinality(D) /\ s.n \in Nat \ {0} /\ s.sum = SumFunction(f) /\ s.sum \in Nat
       /\ t.n = Cardinality(D) /\ t.sum = SumFunction(g) /\ t.sum \in Nat
  <2>1. \A e \in [D -> Nat] : LET r == Stats(e) IN r.n = Cardinality(D) /\ r.n \in Nat \ {0} /\ r.sum = SumFunction(e) /\ r.sum \in Nat
    <3> TAKE e \in [D -> Nat]
    <3> QED BY <1>3, <1>10, StatsAre
  <2> QED BY <1>8, <2>1
<1>12. SumFunction(f) <= SumFunction(g)
  <2>1. f \in [D -> Int] /\ g \in [D -> Int]
    BY <1>8
  <2> QED BY <1>3, <1>9, <2>1, SumGrows
<1> DEFINE a == s.sum
           b == t.sum
           n == s.n
<1>13. a \in Nat /\ b \in Nat \ {0} /\ n \in Nat \ {0} /\ a <= b /\ t.n = n
  <2>1. t.sum > 0
    BY <1>2, Zenon
  <2> HIDE DEF s, t
  <2> QED BY <1>11, <1>12, <2>1
<1>14. MeanShare("ttfb") = IF s = <<>> THEN 0 ELSE Rounded(1000 * a * n, b * n)
  <2>1. MeanShare("ttfb") = IF s = <<>> THEN 0 ELSE Rounded(1000 * s.sum * t.n, t.sum * s.n)
    <3> HIDE DEF s, t
    <3> QED BY <1>2 DEF MeanShare
  <2> HIDE DEF s, t
  <2> QED BY <1>13, <2>1
<1> HIDE DEF s, t, a, b, n
<1>15. a * n \in Nat /\ b * n \in Nat \ {0} /\ a * n <= b * n /\ 1000 * a * n = 1000 * (a * n)
  <2>1. a * n \in Nat /\ b * n \in Nat /\ a * n <= b * n
    BY <1>13, ProductGrows
  <2>2. b * n # 0 /\ 1000 * a * n = 1000 * (a * n)
    BY <1>13
  <2> QED BY <2>1, <2>2
<1>16. Rounded(1000 * (a * n), b * n) <= 1000
  BY <1>15, RoundedShare
<1> QED BY <1>14, <1>15, <1>16

\* Of SamplesInv it follows that the trace adds up.
LEMMA TraceSound == ASSUME SamplesInv PROVE TraceAddsUp
<1>1. \A n \in DOMAIN samples : samples[n].ok => PartsFit(samples[n])
  <2>1. DOMAIN samples = 1..Len(samples)
    BY DEF SamplesInv
  <2> QED BY <2>1, Zenon DEF SamplesInv
<1>2. ASSUME summary # <<>>
      PROVE  /\ summary.success + summary.errors = MaxSamples
             /\ \A part \in Parts : summary.parts[part] = Stats(ValuesOf(samples, part))
  <2>1. summary = SummaryOf(samples) /\ tracing = "ended" /\ Len(samples) = MaxSamples
    BY <1>2, Zenon DEF SamplesInv
  <2>2. /\ summary.parts = [part \in Parts |-> Stats(ValuesOf(samples, part))]
        /\ summary.success = Cardinality(OkOf(samples)) /\ summary.errors = Cardinality(FailedOf(samples))
    BY <2>1 DEF SummaryOf
  <2>3. summary.success + summary.errors = MaxSamples
    BY <2>1, <2>2, SamplesCounted, Zenon
  <2> QED BY <2>2, <2>3, Zenon
<1>3. ASSUME summary # <<>>, NEW part \in Parts, summary.parts[part] # <<>>
      PROVE  LET s == summary.parts[part] IN
               /\ s.min <= s.p[1] /\ s.p[1] <= s.p[2] /\ s.p[2] <= s.p[3] /\ s.p[3] <= s.max
               /\ s.min * s.n <= 1000 * s.sum /\ 1000 * s.sum <= s.max * s.n
  <2> DEFINE D == HavingOf(samples, part)
             f == ValuesOf(samples, part)
  <2>1. IsFiniteSet(D) /\ f \in [D -> Nat]
    BY PartTimes, Zenon
  <2>2. summary.parts[part] = Stats(f)
    BY <1>2, <1>3, Zenon
  <2> HIDE DEF D, f
  <2>3. D # {}
    <3> SUFFICES ASSUME D = {} PROVE FALSE
      OBVIOUS
    <3>1. DOMAIN f = {}
      BY <2>1
    <3>2. Stats(f) = <<>>
      BY <3>1 DEF Stats
    <3> QED BY <1>3, <2>2, <3>2
  <2>4. LET s == Stats(f) IN
           /\ s.n = Cardinality(D) /\ s.n \in Nat \ {0} /\ s.sum = SumFunction(f) /\ s.sum \in Nat
           /\ s.min <= s.p[1] /\ s.p[1] <= s.p[2] /\ s.p[2] <= s.p[3] /\ s.p[3] <= s.max
           /\ s.min * s.n <= 1000 * s.sum /\ 1000 * s.sum <= s.max * s.n
    BY <2>1, <2>3, StatsAre
  <2> QED BY <2>2, <2>4
<1>4. ASSUME summary # <<>>, Cardinality(Having("ttfb")) = summary.success, summary.success > 0,
             summary.parts["total"].sum > 0
      PROVE  MeanShare("ttfb") <= 1000
  BY <1>4, FirstByteShare
<1> QED BY <1>1, <1>2, <1>3, <1>4 DEF TraceAddsUp

----------------------------------------------------------------------------
(* All the measuring labs together *)

\* What each lab keeps.
MeasuresInv ==
  /\ SimInv /\ TestInv /\ PingInv /\ CountInv
  /\ BudgetInv /\ PlanInv /\ ReportInv /\ TimingsInv /\ SamplesInv
  /\ PodInv /\ NodeInv /\ IngressInv /\ SloInv /\ HttpInv

\* HttpInv holds before the first request.
LEMMA HttpInitially == ASSUME latencies = <<>> PROVE HttpInv
BY DEF HttpInv

\* All of it holds initially.
LEMMA MeasuresInitially == LabsInit => MeasuresInv
<1> SUFFICES ASSUME LabsInit PROVE MeasuresInv
  OBVIOUS
<1>1. SimInit /\ TestInit /\ PingInit /\ CountInit /\ PerfInit /\ TraceInit /\ ClusterInit
  BY Zenon DEF LabsInit
<1>2. SimInv /\ TestInv /\ PingInv /\ CountInv
  BY <1>1, SimInitially, TestInitially, PingInitially, CountInitially, Zenon
<1>3. BudgetInv /\ PlanInv /\ ReportInv /\ TimingsInv /\ SamplesInv
  BY <1>1, BudgetInitially, PlanInitially, ReportInitially, TimingsInitially, SamplesInitially, Zenon
<1>4. PodInv /\ IngressInv /\ SloInv
  BY <1>1, PodInitially, IngressInitially, SloInitially, Zenon DEF ClusterInit
<1>5. NodeInv /\ HttpInv
  <2>1. nodePods = <<>> /\ latencies = <<>>
    BY <1>1, Zenon DEF ClusterInit
  <2> QED BY <2>1, NodeInitially, HttpInitially, Zenon
<1> QED BY <1>2, <1>3, <1>4, <1>5, Zenon DEF MeasuresInv

\* In every step each lab takes one of its own or stands still.
LEMMA ClusterSteps ==
  ASSUME [LabsNext]_labsVars
  PROVE  /\ PodTick \/ UNCHANGED podVars
         /\ (\E p \in PodSpecs : SchedulePod(p)) \/ RunTick \/ UNCHANGED nodePods
         /\ IptablesRandom \/ IpvsSh \/ PlacePod \/ RouteLocally \/ UNCHANGED ingressVars
         /\ (\E s \in BOOLEAN : RecordRequest(s)) \/ UNCHANGED sloVars
         /\ DrawLatency \/ UNCHANGED latencies
<1>1. ClusterNext(lab) \/ UNCHANGED clusterVars
  <2>1. CASE LabsNext
    <3>1. MeasureNext \/ UNCHANGED measureVars
      BY <2>1, Zenon DEF LabsNext
    <3> QED BY <3>1, Zenon DEF MeasureNext, measureVars
  <2>2. CASE UNCHANGED labsVars
    BY <2>2, Zenon DEF labsVars, measureVars
  <2> QED BY <2>1, <2>2, Zenon
<1>2. CASE ClusterNext(lab)
  BY <1>2, Zenon DEF ClusterNext
<1>3. CASE UNCHANGED clusterVars
  BY <1>3, Zenon DEF clusterVars
<1> QED BY <1>1, <1>2, <1>3, Zenon

\* The same of the simulators and the benchmarks.
LEMMA MeasureSteps ==
  ASSUME [LabsNext]_labsVars
  PROVE  /\ SimNext \/ UNCHANGED simVars
         /\ TestNext \/ UNCHANGED testVars
         /\ PerfNext \/ UNCHANGED perfVars
         /\ PingNext \/ UNCHANGED pingVars
         /\ CountNext \/ UNCHANGED countVars
         /\ TraceNext \/ UNCHANGED traceVars
<1>1. MeasureNext \/ UNCHANGED measureVars
  <2>1. CASE LabsNext
    BY <2>1, Zenon DEF LabsNext
  <2>2. CASE UNCHANGED labsVars
    BY <2>2, Zenon DEF labsVars
  <2> QED BY <2>1, <2>2, Zenon
<1>2. CASE MeasureNext
  BY <1>2, Zenon DEF MeasureNext, BenchNext, benchVars
<1>3. CASE UNCHANGED measureVars
  BY <1>3, Zenon DEF measureVars, benchVars
<1> QED BY <1>1, <1>2, <1>3, Zenon

\* Every step keeps what each lab keeps.
LEMMA MeasuresStep == ASSUME MeasuresInv, [LabsNext]_labsVars PROVE MeasuresInv'
<1>1. SimInv'
  <2>1. SimInv /\ (SimNext \/ UNCHANGED simVars)
    BY MeasureSteps, Zenon DEF MeasuresInv
  <2> QED BY <2>1, SimStep, SimStutter, Zenon
<1>2. TestInv' /\ PingInv' /\ CountInv'
  BY MeasureSteps, TestStep, PingStep, CountStep, Zenon DEF MeasuresInv
<1>3. BudgetInv' /\ PlanInv' /\ ReportInv'
  BY MeasureSteps, BudgetStep, PlanStep, ReportStep, Zenon DEF MeasuresInv
<1>4. TimingsInv' /\ SamplesInv'
  BY MeasureSteps, TimingsStep, SamplesStep, Zenon DEF MeasuresInv
<1>5. PodInv' /\ NodeInv' /\ IngressInv' /\ SloInv' /\ HttpInv'
  BY ClusterSteps, PodStep, NodeStep, IngressStep, SloStep, HttpStep, Zenon DEF MeasuresInv
<1> QED BY <1>1, <1>2, <1>3, <1>4, <1>5, Zenon DEF MeasuresInv

\* The numbers are right, whatever the latencies, limits, workers, rounds and requests: Little's law
\* holds of the simulator's areas at every event and its queue is served in order, the load tester's
\* report counts every request once, the budget, the plan, the percentiles and the trace are sound,
\* turns alternate, no count is lost, and the cluster and reliability labs measure what they say.
THEOREM MeasuresAreRight == LabsSpec => []NumbersAreRight
<1>1. LabsInit => MeasuresInv
  BY MeasuresInitially
<1>2. MeasuresInv /\ [LabsNext]_labsVars => MeasuresInv'
  BY MeasuresStep
<1>3. MeasuresInv => NumbersAreRight
  <2> SUFFICES ASSUME MeasuresInv PROVE NumbersAreRight
    OBVIOUS
  <2>1. LittlesLaw /\ FirstComeFirstServedQueue /\ ResultAddsUp
    BY SimLittlesLaw, SimFirstCome, SimAddsUp, Zenon DEF MeasuresInv
  <2>2. ReportIsComplete /\ TurnsAlternate /\ NoCountIsLost
    BY TestReport, PingTurns, Zenon DEF MeasuresInv, CountInv
  <2>3. ReportsAreSound
    BY BudgetSound, PlanSound, ReportSound, TraceSound, Zenon DEF MeasuresInv, ReportsAreSound
  <2>4. ClusterLabsAreRight
    BY PodProbes, IngressRoutes, SloAgrees, HttpSlowest, Zenon DEF MeasuresInv, NodeInv, ClusterLabsAreRight
  <2> QED BY <2>1, <2>2, <2>3, <2>4, Zenon DEF NumbersAreRight
<1> QED BY <1>1, <1>2, <1>3, PTL DEF LabsSpec
=============================================================================
