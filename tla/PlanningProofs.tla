---------------------------- MODULE PlanningProofs ----------------------------
(***************************************************************************)
(* Of a plan's generation: that a month is overspent by no more than what  *)
(* was due when the last generation was let in, and no cent is lost, for   *)
(* any number of runs, slots and models, any prices and any limit; that a  *)
(* draft is reviewed when it should be and never lost to that, for any     *)
(* roadmaps; and that the modules fill the plan and each item has a day of *)
(* its module, for any plans.                                              *)
(***************************************************************************)
EXTENDS MonthlyBudget, FunctionTheorems, FiniteSetTheorems, SequenceTheorems,
        WellFoundedInduction, TLAPS

CONSTANTS
  FirstDay, LastDays, MaxModules, MaxItems,            \* of RoadmapSchedule
  PlannedItems, Periods, Cadences, MaxDrafted, MaxIssues  \* of RoadmapReview

VARIABLES
  ends, size, placed, before, module, dates, days,     \* of RoadmapSchedule
  evalEnabled, classes, stage, context, transaction,   \* of RoadmapReview
  attempts, roadmap, reviewed, calls

Calendar == INSTANCE RoadmapSchedule

Reviewing == INSTANCE RoadmapReview WITH MaxModules <- MaxDrafted

-----------------------------------------------------------------------------
(* Sums over finite sets.  The fold is a recursive function that CHOOSEs   *)
(* the next element: there is one (AddsExists), and it does not matter     *)
(* which element it takes (SumStep).  Both by induction, as an argument    *)
(* about the least counterexample.                                         *)

LEMMA LeastNumber ==
  ASSUME NEW T, T \subseteq Nat, T # {}
  PROVE  \E n \in T : \A m \in T : n <= m
<1>1. \E n \in T : \A m \in T : ~(<< m, n >> \in OpToRel(<, Nat))
  BY Zenon, NatLessThanWellFounded, WFMin
<1>2. PICK n \in T : \A m \in T : << m, n >> \notin OpToRel(<, Nat)
  BY Zenon, <1>1
<1>3. ASSUME NEW m \in T PROVE n <= m
  <2>1. ~(m < n)
    BY <1>2 DEF OpToRel
  <2> QED
    BY <2>1
<1> QED
  BY <1>3

\* A collection that has a set whenever it has its proper subsets.
LEMMA SubsetsFirst ==
  ASSUME NEW S, IsFiniteSet(S), NEW C,
         \A T \in SUBSET S : (\A R \in SUBSET T : R # T => R \in C) => T \in C
  PROVE  S \in C
<1> DEFINE Sizes == {n \in Nat : \E T \in SUBSET S : T \notin C /\ Cardinality(T) = n}
<1>1. ASSUME NEW T \in SUBSET S PROVE IsFiniteSet(T) /\ Cardinality(T) \in Nat
  BY FS_Subset, FS_CardinalityType
<1>2. CASE Sizes # {}
  <2>1. PICK n \in Sizes : \A m \in Sizes : n <= m
    BY <1>2, LeastNumber
  <2>2. PICK T \in SUBSET S : T \notin C /\ Cardinality(T) = n
    BY <2>1
  <2>3. ASSUME NEW R \in SUBSET T, R # T PROVE R \in C
    <3>1. IsFiniteSet(T) /\ R \in SUBSET S
      BY <1>1
    <3>2. Cardinality(R) < Cardinality(T) /\ Cardinality(R) \in Nat
      BY <1>1, <2>3, <3>1, FS_Subset, FS_CardinalityType
    <3>3. ~(n <= Cardinality(R))
      BY <2>1, <2>2, <3>2
    <3> QED
      BY <2>1, <3>1, <3>2, <3>3
  <2> QED
    BY <2>2, <2>3
<1>3. CASE Sizes = {}
  <2>1. Cardinality(S) \in Nat
    BY <1>1
  <2> QED
    BY <1>3, <2>1
<1> QED
  BY <1>2, <1>3

\* A collection that grows by any element.
LEMMA OneMore ==
  ASSUME NEW S, IsFiniteSet(S), NEW C, {} \in C,
         \A T \in SUBSET S : \A x \in T : T \ {x} \in C => T \in C
  PROVE  S \in C
<1>1. ASSUME NEW T \in SUBSET S, \A R \in SUBSET T : R # T => R \in C
      PROVE  T \in C
  <2>1. CASE T = {}
    BY <2>1
  <2>2. CASE T # {}
    <3>1. PICK x \in T : TRUE
      BY <2>2
    <3>2. T \ {x} \in C
      BY <1>1, <3>1
    <3> QED
      BY <3>1, <3>2
  <2> QED
    BY <2>1, <2>2
<1> QED
  BY <1>1, SubsetsFirst

Adds(g, f, S) ==
  g = [s \in SUBSET S |-> IF s = {} THEN 0
                          ELSE f[CHOOSE x \in s : TRUE] + g[s \ {CHOOSE x \in s : TRUE}]]

LEMMA SumIsFold ==
  ASSUME NEW f, NEW S
  PROVE  SumOf(f, S) = (CHOOSE g : Adds(g, f, S))[S]
  BY DEF SumOf, MapThenSumSet, MapThenFoldSet, Adds

\* Two such functions agree wherever both are defined.
LEMMA AddsAgree ==
  ASSUME NEW f, NEW S, IsFiniteSet(S), NEW U, NEW V, NEW g, NEW h, Adds(g, f, U), Adds(h, f, V),
         S \subseteq U, S \subseteq V
  PROVE  g[S] = h[S]
<1> DEFINE C == {s \in SUBSET S : g[s] = h[s]}
<1>1. ASSUME NEW T \in SUBSET S, \A R \in SUBSET T : R # T => R \in C
      PROVE  T \in C
  <2> DEFINE x == CHOOSE y \in T : TRUE
  <2>1. CASE T = {}
    BY <2>1 DEF Adds
  <2>2. CASE T # {}
    <3>1. x \in T
      BY <2>2
    <3>2. g[T \ {x}] = h[T \ {x}]
      BY <1>1, <3>1
    <3>3. g[T] = f[x] + g[T \ {x}] /\ h[T] = f[x] + h[T \ {x}]
      BY <2>2 DEF Adds
    <3> QED
      BY <3>2, <3>3
  <2> QED
    BY <2>1, <2>2
<1> HIDE DEF C
<1>2. S \in C
  BY <1>1, SubsetsFirst
<1> QED
  BY <1>2 DEF C

\* There is one for every finite set.
LEMMA AddsExists ==
  ASSUME NEW f, NEW S, IsFiniteSet(S)
  PROVE  \E g : Adds(g, f, S)
<1> DEFINE C == {s \in SUBSET S : \E g : Adds(g, f, s)}
           of(s) == CHOOSE g : Adds(g, f, s)
<1>1. ASSUME NEW T \in SUBSET S, \A R \in SUBSET T : R # T => R \in C
      PROVE  T \in C
  <2> DEFINE pick(s) == CHOOSE y \in s : TRUE
             sum == [s \in SUBSET T |->
                     IF s = {} THEN 0 ELSE f[pick(s)] + of(s \ {pick(s)})[s \ {pick(s)}]]
  <2>1. ASSUME NEW R \in SUBSET T, R # T
        PROVE  Adds(of(R), f, R)
    BY <1>1, <2>1
  <2>2. ASSUME NEW s \in SUBSET T, s # {}
        PROVE  sum[s \ {pick(s)}] = of(s \ {pick(s)})[s \ {pick(s)}]
    <3> DEFINE R == s \ {pick(s)}
    <3>1. pick(s) \in s /\ R \in SUBSET T /\ R # T
      BY <2>2
    <3>2. Adds(of(R), f, R)
      BY <2>1, <3>1
    <3>3. CASE R = {}
      <4>1. of(R)[R] = 0
        BY <3>2, <3>3 DEF Adds
      <4> QED
        BY <3>1, <3>3, <4>1
    <3>4. CASE R # {}
      <4> DEFINE Q == R \ {pick(R)}
      <4>1. pick(R) \in R /\ Q \in SUBSET T /\ Q # T
        BY <3>1, <3>4
      <4>2. Adds(of(Q), f, Q)
        BY <2>1, <4>1
      <4>3. IsFiniteSet(Q)
        BY <4>1, FS_Subset
      <4>4. of(R)[Q] = of(Q)[Q]
        <5>1. Q \subseteq R /\ Q \subseteq Q
          OBVIOUS
        <5> HIDE DEF of, Q, R
        <5> QED
          BY <3>2, <4>2, <4>3, <5>1, AddsAgree
      <4>5. of(R)[R] = f[pick(R)] + of(R)[Q]
        BY <3>2, <3>4 DEF Adds
      <4>6. sum[R] = f[pick(R)] + of(Q)[Q]
        BY <3>1, <3>4
      <4> QED
        BY <4>4, <4>5, <4>6
    <3> QED
      BY <3>3, <3>4
  <2>3. Adds(sum, f, T)
    <3>1. \A s \in SUBSET T :
            sum[s] = IF s = {} THEN 0 ELSE f[pick(s)] + sum[s \ {pick(s)}]
      <4> SUFFICES ASSUME NEW s \in SUBSET T
                   PROVE  sum[s] = IF s = {} THEN 0 ELSE f[pick(s)] + sum[s \ {pick(s)}]
        OBVIOUS
      <4>1. CASE s = {}
        BY <4>1
      <4>2. CASE s # {}
        <5>1. sum[s] = f[pick(s)] + of(s \ {pick(s)})[s \ {pick(s)}]
          BY <4>2
        <5>2. sum[s \ {pick(s)}] = of(s \ {pick(s)})[s \ {pick(s)}]
          BY <2>2, <4>2
        <5> HIDE DEF sum, of, pick
        <5> QED
          BY <4>2, <5>1, <5>2
      <4> QED
        BY <4>1, <4>2
    <3>2. sum = [s \in SUBSET T |-> sum[s]]
      OBVIOUS
    <3> HIDE DEF sum
    <3>3. sum = [s \in SUBSET T |-> IF s = {} THEN 0 ELSE f[pick(s)] + sum[s \ {pick(s)}]]
      BY <3>1, <3>2
    <3> QED
      BY <3>3 DEF Adds
  <2> QED
    BY <2>3
<1> HIDE DEF C
<1>2. S \in C
  BY <1>1, SubsetsFirst
<1> QED
  BY <1>2 DEF C

LEMMA SumOfNone ==
  ASSUME NEW f
  PROVE  SumOf(f, {}) = 0
<1>1. \E g : Adds(g, f, {})
  BY AddsExists, FS_EmptySet
<1>2. Adds(CHOOSE g : Adds(g, f, {}), f, {})
  BY <1>1
<1> DEFINE h == CHOOSE g : Adds(g, f, {})
<1>3. h[{}] = 0
  BY <1>2 DEF Adds
<1> QED
  BY <1>3, SumIsFold

LEMMA SumOfSome ==
  ASSUME NEW f, NEW S, IsFiniteSet(S), S # {}
  PROVE  LET x == CHOOSE y \in S : TRUE IN
         x \in S /\ SumOf(f, S) = f[x] + SumOf(f, S \ {x})
<1> DEFINE x == CHOOSE y \in S : TRUE
           R == S \ {x}
           g == CHOOSE k : Adds(k, f, S)
           h == CHOOSE k : Adds(k, f, R)
<1>1. x \in S /\ R \subseteq S /\ R \subseteq R /\ IsFiniteSet(R)
  BY FS_Subset
<1>2. Adds(g, f, S) /\ Adds(h, f, R)
  BY <1>1, AddsExists
<1>3. g[R] = h[R]
  <2> HIDE DEF g, h, R
  <2> QED
    BY <1>1, <1>2, AddsAgree
<1>4. g[S] = f[x] + g[R]
  <2> HIDE DEF g
  <2> QED
    BY <1>2 DEF Adds
<1> QED
  BY <1>1, <1>3, <1>4, SumIsFold

\* A sum of naturals is one, and it does not matter which of them is added last.
LEMMA SumStep ==
  ASSUME NEW f, NEW S, IsFiniteSet(S), \A x \in S : f[x] \in Nat
  PROVE  SumOf(f, S) \in Nat /\ \A x \in S : SumOf(f, S) = f[x] + SumOf(f, S \ {x})
<1> DEFINE Good(T) == SumOf(f, T) \in Nat
                      /\ \A x \in T : SumOf(f, T) = f[x] + SumOf(f, T \ {x})
           C == {T \in SUBSET S : Good(T)}
<1>1. ASSUME NEW T \in SUBSET S, \A R \in SUBSET T : R # T => R \in C
      PROVE  T \in C
  <2>1. CASE T = {}
    BY <2>1, SumOfNone
  <2>2. CASE T # {}
    <3>1. PICK x \in T : SumOf(f, T) = f[x] + SumOf(f, T \ {x})
      BY <2>2, SumOfSome, FS_Subset
    <3>2. Good(T \ {x})
      BY <1>1, <3>1
    <3>3. SumOf(f, T) \in Nat
      BY <3>1, <3>2
    <3>4. ASSUME NEW y \in T PROVE SumOf(f, T) = f[y] + SumOf(f, T \ {y})
      <4>1. CASE y = x
        BY <3>1, <4>1
      <4>2. CASE y # x
        <5>1. Good(T \ {y})
          BY <1>1
        <5>2. (T \ {x}) \ {y} = (T \ {y}) \ {x}
          OBVIOUS
        <5>3. SumOf(f, T \ {x}) = f[y] + SumOf(f, (T \ {x}) \ {y})
          BY <3>2, <4>2
        <5>4. SumOf(f, T \ {y}) = f[x] + SumOf(f, (T \ {x}) \ {y})
          BY <4>2, <5>1, <5>2
        <5>5. Good((T \ {x}) \ {y})
          BY <1>1
        <5>6. /\ f[x] \in Nat /\ f[y] \in Nat /\ SumOf(f, (T \ {x}) \ {y}) \in Nat
              /\ SumOf(f, T \ {x}) \in Nat /\ SumOf(f, T \ {y}) \in Nat
          BY <3>2, <5>1, <5>5
        <5> QED
          BY <3>1, <5>3, <5>4, <5>6
      <4> QED
        BY <4>1, <4>2
    <3> QED
      BY <3>3, <3>4
  <2> QED
    BY <2>1, <2>2
<1> HIDE DEF C
<1>2. S \in C
  BY <1>1, SubsetsFirst
<1> QED
  BY <1>2 DEF C

LEMMA SumType ==
  ASSUME NEW f, NEW S, IsFiniteSet(S), \A x \in S : f[x] \in Nat
  PROVE  SumOf(f, S) \in Nat
  BY SumStep

\* Sums over two sets that differ in terms that are zero.
LEMMA SumSame ==
  ASSUME NEW f, NEW g, NEW S, IsFiniteSet(S), NEW T, T \subseteq S,
         \A x \in S : f[x] \in Nat, \A x \in T : g[x] = f[x], \A x \in S \ T : f[x] = 0
  PROVE  SumOf(g, T) = SumOf(f, S)
<1> DEFINE C == {U \in SUBSET S : SumOf(g, T \cap U) = SumOf(f, U)}
<1>1. {} \in C
  <2>1. T \cap {} = {}
    OBVIOUS
  <2> QED
    BY <2>1, SumOfNone
<1>2. ASSUME NEW U \in SUBSET S, NEW x \in U, U \ {x} \in C PROVE U \in C
  <2>1. IsFiniteSet(U) /\ IsFiniteSet(T \cap U)
    BY FS_Subset
  <2>2. SumOf(f, U) = f[x] + SumOf(f, U \ {x}) /\ SumOf(f, U \ {x}) \in Nat
    BY <2>1, SumStep, SumType, FS_Subset
  <2>3. CASE x \in T
    <3>1. SumOf(g, T \cap U) = g[x] + SumOf(g, (T \cap U) \ {x})
      BY <2>1, <2>3, SumStep
    <3>2. (T \cap U) \ {x} = T \cap (U \ {x})
      OBVIOUS
    <3> QED
      BY <1>2, <2>2, <2>3, <3>1, <3>2
  <2>4. CASE x \notin T
    <3>1. T \cap U = T \cap (U \ {x})
      BY <2>4
    <3>2. f[x] = 0
      BY <2>4
    <3>3. SumOf(f, U) = SumOf(f, U \ {x})
      BY <2>2, <3>2
    <3>4. SumOf(g, T \cap (U \ {x})) = SumOf(f, U \ {x})
      BY <1>2
    <3> QED
      BY <3>1, <3>3, <3>4
  <2> QED
    BY <2>3, <2>4
<1> HIDE DEF C
<1>3. S \in C
  BY <1>1, <1>2, OneMore
<1>4. T \cap S = T
  OBVIOUS
<1> QED
  BY <1>3, <1>4 DEF C

\* One term changes.
LEMMA SumUpdate ==
  ASSUME NEW f, NEW g, NEW S, IsFiniteSet(S), NEW x \in S,
         \A y \in S : f[y] \in Nat /\ g[y] \in Nat, \A y \in S \ {x} : g[y] = f[y]
  PROVE  SumOf(g, S) + f[x] = SumOf(f, S) + g[x]
<1> DEFINE R == S \ {x}
<1>1. IsFiniteSet(R) /\ R \subseteq R
  BY FS_Subset
<1>2. SumOf(f, S) = f[x] + SumOf(f, R) /\ SumOf(g, S) = g[x] + SumOf(g, R)
  BY SumStep
<1>3. SumOf(g, R) = SumOf(f, R)
  <2> HIDE DEF R
  <2>1. (\A y \in R : f[y] \in Nat /\ g[y] = f[y]) /\ (\A y \in R \ R : f[y] = 0)
    BY DEF R
  <2> QED
    BY <1>1, <2>1, SumSame
<1>4. SumOf(f, R) \in Nat
  BY <1>1, SumType
<1> HIDE DEF R
<1> QED
  BY <1>2, <1>3, <1>4

LEMMA SumPlus ==
  ASSUME NEW f, NEW g, NEW h, NEW S, IsFiniteSet(S),
         \A x \in S : f[x] \in Nat /\ g[x] \in Nat /\ h[x] = f[x] + g[x]
  PROVE  SumOf(h, S) = SumOf(f, S) + SumOf(g, S)
<1> DEFINE C == {U \in SUBSET S : SumOf(h, U) = SumOf(f, U) + SumOf(g, U)}
<1>1. {} \in C
  BY SumOfNone
<1>2. ASSUME NEW U \in SUBSET S, NEW x \in U, U \ {x} \in C PROVE U \in C
  <2> DEFINE R == U \ {x}
  <2>1. IsFiniteSet(U) /\ IsFiniteSet(R)
    BY FS_Subset
  <2>2. /\ SumOf(f, U) = f[x] + SumOf(f, R) /\ SumOf(f, R) \in Nat
        /\ SumOf(g, U) = g[x] + SumOf(g, R) /\ SumOf(g, R) \in Nat
        /\ SumOf(h, U) = h[x] + SumOf(h, R)
    BY <2>1, SumStep, SumType
  <2>3. SumOf(h, R) = SumOf(f, R) + SumOf(g, R)
    BY <1>2
  <2>4. f[x] \in Nat /\ g[x] \in Nat /\ h[x] = f[x] + g[x]
    OBVIOUS
  <2> HIDE DEF R
  <2> QED
    BY <2>2, <2>3, <2>4
<1> HIDE DEF C
<1>3. S \in C
  BY <1>1, <1>2, OneMore
<1> QED
  BY <1>3 DEF C

\* The same multiple of each.
LEMMA SumTimes ==
  ASSUME NEW f, NEW h, NEW S, IsFiniteSet(S), NEW n \in Nat,
         \A x \in S : f[x] \in Nat /\ h[x] = f[x] * n
  PROVE  SumOf(h, S) = SumOf(f, S) * n
<1> DEFINE C == {U \in SUBSET S : SumOf(h, U) = SumOf(f, U) * n}
<1>1. {} \in C
  BY SumOfNone
<1>2. ASSUME NEW U \in SUBSET S, NEW x \in U, U \ {x} \in C PROVE U \in C
  <2> DEFINE R == U \ {x}
  <2>1. IsFiniteSet(U) /\ IsFiniteSet(R)
    BY FS_Subset
  <2>2. /\ SumOf(f, U) = f[x] + SumOf(f, R) /\ SumOf(f, R) \in Nat
        /\ SumOf(h, U) = h[x] + SumOf(h, R)
    <3>1. \A y \in U : f[y] \in Nat /\ h[y] \in Nat
      OBVIOUS
    <3> QED
      BY <2>1, <3>1, SumStep, SumType
  <2>3. SumOf(h, R) = SumOf(f, R) * n
    BY <1>2
  <2>4. f[x] \in Nat /\ h[x] = f[x] * n
    OBVIOUS
  <2> DEFINE a == f[x]
             b == SumOf(f, R)
  <2>5. (a + b) * n = a * n + b * n
    <3>1. a \in Nat /\ b \in Nat
      BY <2>2
    <3> HIDE DEF a, b
    <3> QED
      BY <3>1
  <2> QED
    BY <2>2, <2>3, <2>4, <2>5
<1> HIDE DEF C
<1>3. S \in C
  BY <1>1, <1>2, OneMore
<1> QED
  BY <1>3 DEF C

\* At most n each.
LEMMA SumBound ==
  ASSUME NEW f, NEW S, IsFiniteSet(S), NEW n \in Nat, \A x \in S : f[x] \in 0 .. n
  PROVE  SumOf(f, S) <= Cardinality(S) * n
<1> DEFINE C == {U \in SUBSET S : SumOf(f, U) <= Cardinality(U) * n}
<1>1. {} \in C
  BY SumOfNone, FS_EmptySet
<1>2. ASSUME NEW U \in SUBSET S, NEW x \in U, U \ {x} \in C PROVE U \in C
  <2> DEFINE R == U \ {x}
  <2>1. IsFiniteSet(U) /\ IsFiniteSet(R)
    BY FS_Subset
  <2>2. SumOf(f, U) = f[x] + SumOf(f, R) /\ SumOf(f, R) \in Nat
    BY <2>1, SumStep, SumType
  <2>3. Cardinality(U) \in Nat /\ Cardinality(R) = Cardinality(U) - 1
        /\ Cardinality(R) \in Nat
    BY <2>1, FS_RemoveElement, FS_CardinalityType
  <2>4. SumOf(f, R) <= Cardinality(R) * n
    BY <1>2
  <2>5. Cardinality(U) * n = Cardinality(R) * n + n
    <3> HIDE DEF R
    <3> QED
      BY <2>3
  <2>6. f[x] \in 0 .. n
    OBVIOUS
  <2>7. Cardinality(R) * n \in Nat
    <3> HIDE DEF R
    <3> QED
      BY <2>3
  <2> HIDE DEF R
  <2>8. SumOf(f, U) <= Cardinality(U) * n
    BY <2>2, <2>4, <2>5, <2>6, <2>7
  <2> QED
    BY <2>8
<1> HIDE DEF C
<1>3. S \in C
  BY <1>1, <1>2, OneMore
<1> QED
  BY <1>3 DEF C

LEMMA SumOfZeros ==
  ASSUME NEW f, NEW S, IsFiniteSet(S), \A x \in S : f[x] = 0
  PROVE  SumOf(f, S) = 0
<1>1. \A x \in S : f[x] \in 0 .. 0 /\ f[x] \in Nat
  OBVIOUS
<1>2. SumOf(f, S) <= Cardinality(S) * 0 /\ SumOf(f, S) \in Nat
  BY <1>1, SumBound, SumType
<1>3. Cardinality(S) \in Nat
  BY FS_CardinalityType
<1>4. Cardinality(S) * 0 = 0
  BY <1>3
<1> QED
  BY <1>2, <1>4

LEMMA TimesMonotone ==
  ASSUME NEW m \in Nat, NEW n \in Nat, NEW d \in Nat, m <= n
  PROVE  m * d <= n * d /\ m * d \in Nat /\ n * d \in Nat
<1> DEFINE k == n - m
<1>1. k \in Nat /\ n = m + k
  OBVIOUS
<1> HIDE DEF k
<1>2. n * d = m * d + k * d
  BY <1>1
<1>3. k * d \in Nat /\ m * d \in Nat
  BY <1>1
<1> QED
  BY <1>2, <1>3

-----------------------------------------------------------------------------
(* The dearest call, and what a ledger adds up to.                         *)

LEMMA Greatest ==
  ASSUME NEW f, NEW S, IsFiniteSet(S), S # {}, \A x \in S : f[x] \in Nat
  PROVE  \E n \in S : \A m \in S : f[n] >= f[m]
<1> DEFINE C == {T \in SUBSET S : T # {} => \E n \in T : \A m \in T : f[n] >= f[m]}
<1>1. {} \in C
  OBVIOUS
<1>2. ASSUME NEW T \in SUBSET S, NEW x \in T, T \ {x} \in C PROVE T \in C
  <2>1. CASE T \ {x} = {}
    <3>1. T = {x} /\ f[x] >= f[x]
      BY <2>1
    <3> QED
      BY <3>1
  <2>2. CASE T \ {x} # {}
    <3>1. PICK n \in T \ {x} : \A m \in T \ {x} : f[n] >= f[m]
      BY <1>2, <2>2
    <3>2. f[n] \in Nat /\ f[x] \in Nat /\ \A m \in T : f[m] \in Nat
      OBVIOUS
    <3>3. CASE f[n] >= f[x]
      BY <3>1, <3>3
    <3>4. CASE f[x] >= f[n]
      <4>1. \A m \in T \ {x} : f[x] >= f[m]
        BY <3>1, <3>2, <3>4
      <4>2. f[x] >= f[x]
        BY <3>2
      <4> QED
        BY <4>1, <4>2
    <3> QED
      BY <3>2, <3>3, <3>4
  <2> QED
    BY <2>1, <2>2
<1> HIDE DEF C
<1>3. S \in C
  BY <1>1, <1>2, OneMore
<1> QED
  BY <1>3 DEF C

LEMMA DearestType ==
  ASSUME ConstantsAssumption
  PROVE  DearestCall \in Nat /\ \A m \in Models : Price[m] \in 0 .. DearestCall
<1> DEFINE P == {Price[m] : m \in Models}
<1>1. \A m \in Models : Price[m] \in Nat
  BY DEF ConstantsAssumption
<1>2. \E n \in Models : \A m \in Models : Price[n] >= Price[m]
  BY <1>1, Greatest DEF ConstantsAssumption
<1>3. \E n \in P : \A m \in P : n >= m
  BY <1>2
<1>4. DearestCall \in P /\ \A m \in P : DearestCall >= m
  BY <1>3 DEF DearestCall, Max
<1> QED
  BY <1>1, <1>4

Ledgers == [Models -> Nat]

LEMMA NoCostType ==
  ASSUME ConstantsAssumption
  PROVE  NoCost \in Ledgers /\ Total(NoCost) = 0
<1>1. NoCost \in Ledgers /\ \A m \in Models : NoCost[m] = 0
  BY DEF NoCost, Ledgers
<1> QED
  BY <1>1, SumOfZeros DEF Total, ConstantsAssumption

LEMMA TotalType ==
  ASSUME ConstantsAssumption, NEW ledger \in Ledgers
  PROVE  Total(ledger) \in Nat
  BY SumType DEF Total, ConstantsAssumption, Ledgers

LEMMA AnswersType ==
  ASSUME ConstantsAssumption, NEW ledger \in Ledgers, NEW next \in Answers(ledger)
  PROVE  /\ next \in Ledgers
         /\ Total(next) <= Total(ledger) + DearestCall
<1>1. PICK m \in Models : \E c \in Costs(m) : next = [ledger EXCEPT ![m] = @ + c]
  BY DEF Answers
<1>2. PICK c \in Costs(m) : next = [ledger EXCEPT ![m] = @ + c]
  BY <1>1
<1>3. c \in Nat /\ c <= DearestCall /\ DearestCall \in Nat
  BY DearestType DEF Costs
<1>4. next \in Ledgers
  BY <1>3, <1>2 DEF Ledgers
<1>5. Total(next) + ledger[m] = Total(ledger) + next[m]
  <2>1. \A x \in Models : ledger[x] \in Nat /\ next[x] \in Nat
    BY <1>4 DEF Ledgers
  <2>2. \A x \in Models \ {m} : next[x] = ledger[x]
    BY <1>2 DEF Ledgers
  <2> QED
    BY <2>1, <2>2, SumUpdate DEF Total, ConstantsAssumption
<1>6. next[m] = ledger[m] + c /\ ledger[m] \in Nat
  BY <1>2 DEF Ledgers
<1>7. Total(next) \in Nat /\ Total(ledger) \in Nat
  BY <1>4, TotalType
<1> QED
  BY <1>3, <1>4, <1>5, <1>6, <1>7

LEMMA UsageAdds ==
  ASSUME ConstantsAssumption, NEW a \in Ledgers, NEW b \in Ledgers
  PROVE  LET sum == [m \in Models |-> a[m] + b[m]] IN
         sum \in Ledgers /\ Total(sum) = Total(a) + Total(b)
<1> DEFINE sum == [m \in Models |-> a[m] + b[m]]
<1>1. sum \in Ledgers
  BY DEF Ledgers
<1>2. IsFiniteSet(Models)
  BY DEF ConstantsAssumption
<1>3. \A m \in Models : a[m] \in Nat /\ b[m] \in Nat /\ sum[m] = a[m] + b[m]
  BY DEF Ledgers
<1> HIDE DEF sum
<1>4. Total(sum) = Total(a) + Total(b)
  BY <1>2, <1>3, SumPlus DEF Total
<1> QED
  BY <1>1, <1>4 DEF sum

-----------------------------------------------------------------------------
(* What a slot has in hand, and the calls it has made.                     *)

InHand(x) == IF x.pc \in {"unbooked", "torn", "answered"} THEN Total(x.ledger) ELSE 0

Hands(w) == SumOf([s \in Slots |-> InHand(w[s])], Slots)

Calls(w) == SumOf([s \in Slots |-> CallsDue(w[s])], Slots)

Spending == Drafting \cup {"unbooked", "answered"}

CallsMade(x) ==
  CASE x.pc = "drafting"  -> x.draft
    [] x.pc = "judging"   -> MaxDrafts
    [] x.pc = "repairing" -> MaxDrafts + 1
    [] x.pc = "answered"  -> 1
    [] OTHER              -> MaxDrafts + 2

\* A ledger holds no more than so many calls, each as dear as the dearest.
Within(ledger, n) == Total(ledger) <= n * DearestCall

SlotFits(x) ==
  /\ x.pc = "free" => x = Free
  /\ x.pc = "drafting" => x.draft <= MaxDrafts
  /\ x.pc \in Drafting => x.job # "item"
  /\ x.pc \in {"unbooked", "torn"} => x.job = "request"
  /\ x.pc = "answered" => x.job = "item"
  /\ x.pc \in Spending => Within(x.ledger, CallsMade(x))

\* Nothing of a run is queued or on record before its door is open, and a request that
\* drafts is alone with it.
Opening(x) == x.job = "request" /\ x.pc \in Drafting \cup {"unbooked", "torn"}

Early(w, c, d, q) ==
  /\ d # "open" => c = 0 /\ q["plan"] = 0 /\ q["item"] = 0 /\ \A s \in Slots : w[s].pc = "free"
  /\ \A s \in Slots : Opening(w[s]) =>
       /\ c = 0 /\ q["plan"] = 0 /\ q["item"] = 0
       /\ \A t \in Slots \ {s} : w[t].pc = "free"

RunFits(w, c, sh, p, d, q) ==
  /\ \A s \in Slots : SlotFits(w[s])
  /\ c = Total(sh) /\ p = c + Hands(w)
  /\ Early(w, c, d, q)

RunsFit ==
  \A r \in Runs :
    RunFits(work[r], cost[r], share[r], paid[r], door[r], queue[r]) /\ born[r] <= month

\* What a run has spent of this month, and what it may still.
Spent(r) == IF born[r] = month THEN cost[r] ELSE 0

Load(r) == Spent(r) + Due(r) * DearestCall

\* The strengthening of the first half of BudgetHolds: what is due counts as if it had been
\* spent already.
LoadIsBounded == SumOf([r \in Runs |-> Load(r)], Runs) < Limit + atDoor * DearestCall

IInv == TypeOK /\ RunsFit /\ LoadIsBounded

LEMMA CallsType ==
  ASSUME ConstantsAssumption
  PROVE  /\ PlanCalls \in Nat /\ PlanCalls = MaxDrafts + 2 + MaxActivities
         /\ MaxDrafts \in Nat /\ MaxActivities \in Nat /\ MaxDrafts > 0
         /\ \A j \in Jobs : CallsOf(j) \in Nat /\ CallsOf(j) <= PlanCalls
         /\ \A x : CallsDue(x) \in Nat
  BY DEF ConstantsAssumption, PlanCalls, CallsOf, CallsDue, Jobs, Drafting

LEMMA InHandType ==
  ASSUME ConstantsAssumption, NEW x \in Task
  PROVE  InHand(x) \in Nat /\ Total(x.ledger) \in Nat /\ x.ledger \in Ledgers
<1>1. x.ledger \in Ledgers
  BY DEF Task, Ledgers
<1> QED
  BY <1>1, TotalType DEF InHand

LEMMA HandsType ==
  ASSUME ConstantsAssumption, NEW w \in [Slots -> Task]
  PROVE  Hands(w) \in Nat /\ Calls(w) \in Nat
<1> DEFINE f == [s \in Slots |-> InHand(w[s])]
           g == [s \in Slots |-> CallsDue(w[s])]
<1>1. (\A s \in Slots : f[s] \in Nat) /\ \A s \in Slots : g[s] \in Nat
  BY InHandType, CallsType
<1> HIDE DEF f, g
<1>2. SumOf(f, Slots) \in Nat /\ SumOf(g, Slots) \in Nat
  BY <1>1, SumType DEF ConstantsAssumption
<1> QED
  BY <1>2 DEF f, g, Hands, Calls

\* One slot changes.
LEMMA SlotChanges ==
  ASSUME ConstantsAssumption, NEW w \in [Slots -> Task], NEW v \in [Slots -> Task],
         NEW s \in Slots, \A t \in Slots \ {s} : v[t] = w[t]
  PROVE  /\ Hands(v) + InHand(w[s]) = Hands(w) + InHand(v[s])
         /\ Calls(v) + CallsDue(w[s]) = Calls(w) + CallsDue(v[s])
<1> DEFINE f == [t \in Slots |-> InHand(w[t])]
           g == [t \in Slots |-> InHand(v[t])]
           h == [t \in Slots |-> CallsDue(w[t])]
           k == [t \in Slots |-> CallsDue(v[t])]
<1>1. /\ \A t \in Slots : f[t] \in Nat /\ g[t] \in Nat /\ h[t] \in Nat /\ k[t] \in Nat
      /\ \A t \in Slots \ {s} : g[t] = f[t] /\ k[t] = h[t]
      /\ f[s] = InHand(w[s]) /\ g[s] = InHand(v[s])
      /\ h[s] = CallsDue(w[s]) /\ k[s] = CallsDue(v[s])
  BY InHandType, CallsType
<1>2. Hands(w) = SumOf(f, Slots) /\ Hands(v) = SumOf(g, Slots)
      /\ Calls(w) = SumOf(h, Slots) /\ Calls(v) = SumOf(k, Slots)
  BY DEF Hands, Calls
<1> HIDE DEF f, g, h, k
<1>3. IsFiniteSet(Slots)
  BY DEF ConstantsAssumption
<1>4. SumOf(g, Slots) + f[s] = SumOf(f, Slots) + g[s]
  BY <1>1, <1>3, SumUpdate
<1>5. SumOf(k, Slots) + h[s] = SumOf(h, Slots) + k[s]
  BY <1>1, <1>3, SumUpdate
<1> QED
  BY <1>1, <1>2, <1>4, <1>5

LEMMA WithinMore ==
  ASSUME ConstantsAssumption, NEW ledger \in Ledgers, NEW m \in Nat, NEW n \in Nat, m <= n,
         Within(ledger, m)
  PROVE  Within(ledger, n)
<1>1. m * DearestCall <= n * DearestCall /\ m * DearestCall \in Nat /\ n * DearestCall \in Nat
  BY DearestType, TimesMonotone
<1>2. Total(ledger) \in Nat /\ Total(ledger) <= m * DearestCall
  BY TotalType DEF Within
<1> QED
  BY <1>1, <1>2 DEF Within

LEMMA NothingDone ==
  ASSUME ConstantsAssumption, NEW w, \A s \in Slots : w[s].pc = "free"
  PROVE  Hands(w) = 0 /\ Calls(w) = 0
<1> DEFINE f == [s \in Slots |-> InHand(w[s])]
           g == [s \in Slots |-> CallsDue(w[s])]
<1>1. (\A s \in Slots : f[s] = 0) /\ \A s \in Slots : g[s] = 0
  BY DEF InHand, CallsDue, Drafting
<1> HIDE DEF f, g
<1>2. SumOf(f, Slots) = 0 /\ SumOf(g, Slots) = 0
  BY <1>1, SumOfZeros DEF ConstantsAssumption
<1> QED
  BY <1>2 DEF f, g, Hands, Calls

\* Another call, at most as dear as the dearest.
LEMMA OneMoreCall ==
  ASSUME ConstantsAssumption, NEW ledger \in Ledgers, NEW n \in Nat,
         Within(ledger, n), NEW next \in Answers(ledger)
  PROVE  next \in Ledgers /\ Within(next, n + 1)
<1>1. next \in Ledgers /\ Total(next) <= Total(ledger) + DearestCall
  BY AnswersType
<1>2. DearestCall \in Nat /\ Total(ledger) \in Nat /\ Total(next) \in Nat
  BY <1>1, DearestType, TotalType
<1>3. (n + 1) * DearestCall = n * DearestCall + DearestCall /\ n * DearestCall \in Nat
  BY <1>2
<1> QED
  BY <1>1, <1>2, <1>3 DEF Within

-----------------------------------------------------------------------------
(* What is due.                                                            *)

Queued(d, q) ==
  (IF d = "admitted" THEN PlanCalls ELSE 0) + q["plan"] * PlanCalls + q["item"]

LEMMA QueuedType ==
  ASSUME ConstantsAssumption, NEW d, NEW q \in [Jobs -> Nat]
  PROVE  /\ Queued(d, q) \in Nat
         /\ d # "admitted" => /\ Queued("admitted", q) = Queued(d, q) + PlanCalls
                              /\ Queued("open", q) = Queued(d, q)
<1> DEFINE e == q["plan"] * PlanCalls
           c == IF d = "admitted" THEN PlanCalls ELSE 0
<1>1. q["plan"] \in Nat /\ q["item"] \in Nat /\ PlanCalls \in Nat
  BY CallsType DEF Jobs
<1>2. e \in Nat
  <2> DEFINE a == q["plan"]
  <2>1. a \in Nat
    BY <1>1
  <2> HIDE DEF a
  <2>2. a * PlanCalls \in Nat
    BY <1>1, <2>1
  <2> QED
    BY <2>2 DEF a
<1>3. /\ Queued(d, q) = c + e + q["item"]
      /\ Queued("admitted", q) = PlanCalls + e + q["item"] /\ Queued("open", q) = 0 + e + q["item"]
  BY DEF Queued
<1> HIDE DEF e
<1> QED
  BY <1>1, <1>2, <1>3

\* Messages come and go.
LEMMA QueuedMore ==
  ASSUME ConstantsAssumption, NEW d, NEW q \in [Jobs -> Nat], NEW u \in [Jobs -> Nat],
         NEW j \in Jobs, NEW n \in Nat, u[j] = q[j] + n, \A i \in Jobs \ {j} : u[i] = q[i]
  PROVE  /\ Queued(d, u) = Queued(d, q) + n * CallsOf(j)
         /\ n * CallsOf(j) \in Nat
<1> DEFINE a == q["plan"]
           b == q["item"]
           c == IF d = "admitted" THEN PlanCalls ELSE 0
           p == PlanCalls
<1>1. a \in Nat /\ b \in Nat /\ c \in Nat /\ p \in Nat
  BY CallsType DEF Jobs
<1>2. Queued(d, q) = c + a * p + b /\ Queued(d, u) = c + u["plan"] * p + u["item"]
  BY DEF Queued
<1>3. CASE j = "plan"
  <2>1. u["plan"] = a + n /\ u["item"] = b /\ CallsOf(j) = p
    BY <1>3 DEF CallsOf, Jobs
  <2> HIDE DEF a, b, c, p
  <2>2. (a + n) * p = a * p + n * p /\ n * p \in Nat /\ a * p \in Nat
    BY <1>1
  <2>3. Queued(d, u) = c + (a * p + n * p) + b
    BY <1>2, <2>1, <2>2
  <2>4. Queued(d, u) = Queued(d, q) + n * p
    <3> DEFINE x == a * p
               y == n * p
    <3>1. x \in Nat /\ y \in Nat /\ Queued(d, u) = c + (x + y) + b /\ Queued(d, q) = c + x + b
      BY <1>2, <2>2, <2>3
    <3> HIDE DEF x, y
    <3>2. Queued(d, u) = Queued(d, q) + y
      BY <1>1, <3>1
    <3> QED
      BY <3>2 DEF y
  <2> QED
    BY <2>1, <2>2, <2>4
<1>4. CASE j = "item"
  <2>1. u["plan"] = a /\ u["item"] = b + n /\ CallsOf(j) = 1
    BY <1>4 DEF CallsOf, Jobs
  <2> DEFINE x == a * p
  <2>2. x \in Nat
    <3> HIDE DEF a, p
    <3> QED
      BY <1>1
  <2>3. Queued(d, u) = c + x + (b + n) /\ Queued(d, q) = c + x + b
    BY <1>2, <2>1
  <2> HIDE DEF a, b, c, x
  <2>4. Queued(d, u) = Queued(d, q) + n
    BY <1>1, <2>2, <2>3
  <2> QED
    BY <2>1, <2>4
<1> QED
  BY <1>3, <1>4 DEF Jobs

LEMMA QueuedItems ==
  ASSUME ConstantsAssumption, NEW d, NEW q \in [Jobs -> Nat], NEW u \in [Jobs -> Nat],
         NEW n \in Nat, u["item"] = q["item"] + n, \A i \in Jobs \ {"item"} : u[i] = q[i]
  PROVE  Queued(d, u) = Queued(d, q) + n
<1>1. "item" \in Jobs /\ CallsOf("item") = 1 /\ n * 1 = n
  BY DEF Jobs, CallsOf
<1> QED
  BY <1>1, QueuedMore

LEMMA QueuedLess ==
  ASSUME ConstantsAssumption, NEW d, NEW q \in [Jobs -> Nat], NEW u \in [Jobs -> Nat],
         NEW j \in Jobs, q[j] > 0, u[j] = q[j] - 1, \A i \in Jobs \ {j} : u[i] = q[i]
  PROVE  Queued(d, u) + CallsOf(j) = Queued(d, q)
<1>1. q[j] = u[j] + 1 /\ 1 \in Nat /\ \A i \in Jobs \ {j} : q[i] = u[i]
  OBVIOUS
<1>2. Queued(d, q) = Queued(d, u) + 1 * CallsOf(j)
  BY <1>1, QueuedMore
<1>3. 1 * CallsOf(j) = CallsOf(j)
  BY CallsType
<1> QED
  BY <1>2, <1>3

LEMMA DueIs ==
  ASSUME NEW r
  PROVE  /\ Due(r) = Queued(door[r], queue[r]) + Calls(work[r])
         /\ Due(r)' = Queued(door'[r], queue'[r]) + Calls(work'[r])
<1>1. Due(r) = Queued(door[r], queue[r]) + Calls(work[r])
  BY DEF Due, Queued, Calls
<1>2. Due(r)' = Queued(door'[r], queue'[r]) + Calls(work'[r])
  BY DEF Due, Queued, Calls
<1> QED
  BY <1>1, <1>2

LEMMA LoadType ==
  ASSUME ConstantsAssumption, TypeOK, NEW r \in Runs
  PROVE  Due(r) \in Nat /\ Spent(r) \in Nat /\ Load(r) \in Nat /\ Due(r) * DearestCall \in Nat
<1>1. Due(r) \in Nat
  <2>1. queue[r] \in [Jobs -> Nat] /\ work[r] \in [Slots -> Task]
    BY DEF TypeOK
  <2>2. Queued(door[r], queue[r]) \in Nat /\ Calls(work[r]) \in Nat
    BY <2>1, QueuedType, HandsType
  <2> QED
    BY <2>2, DueIs
<1>2. DearestCall \in Nat
  BY DearestType
<1>3. Due(r) * DearestCall \in Nat
  BY <1>1, <1>2
<1>4. Spent(r) \in Nat
  BY DEF Spent, TypeOK
<1> QED
  BY <1>1, <1>3, <1>4 DEF Load

LEMMA SpendIsSpent ==
  ASSUME ConstantsAssumption, TypeOK
  PROVE  /\ SpendSince = SumOf([r \in Runs |-> Spent(r)], Runs)
         /\ SpendSince \in Nat
<1> DEFINE f == [r \in Runs |-> Spent(r)]
           T == {r \in Runs : born[r] = month}
<1>1. /\ \A r \in Runs : f[r] \in Nat
      /\ \A r \in T : cost[r] = f[r]
      /\ \A r \in Runs \ T : f[r] = 0
  BY DEF TypeOK, Spent
<1>2. T \subseteq Runs /\ IsFiniteSet(Runs)
  BY DEF ConstantsAssumption
<1>3. SpendSince = SumOf(cost, T)
  BY DEF SpendSince
<1> HIDE DEF f, T
<1> QED
  BY <1>1, <1>2, <1>3, SumSame, SumType DEF f

-----------------------------------------------------------------------------
(* One run moves.                                                          *)

\* What is added to the load, and to what is due.
LEMMA SumLoad ==
  ASSUME NEW S, IsFiniteSet(S), NEW n \in Nat, NEW f \in [S -> Nat], NEW g \in [S -> Nat], NEW h,
         \A x \in S : h[x] = f[x] + g[x] * n
  PROVE  /\ SumOf(h, S) = SumOf(f, S) + SumOf(g, S) * n
         /\ SumOf(f, S) \in Nat /\ SumOf(g, S) \in Nat /\ SumOf(g, S) * n \in Nat
<1> DEFINE k == [x \in S |-> g[x] * n]
<1>1. \A x \in S : k[x] = g[x] * n
  OBVIOUS
<1> HIDE DEF k
<1>2. \A x \in S : k[x] \in Nat
  <2> SUFFICES ASSUME NEW x \in S PROVE g[x] * n \in Nat
    BY <1>1
  <2>1. g[x] \in Nat
    OBVIOUS
  <2> QED
    BY <2>1
<1>3. SumOf(k, S) = SumOf(g, S) * n
  BY <1>1, SumTimes
<1>4. SumOf(h, S) = SumOf(f, S) + SumOf(k, S)
  <2>1. \A x \in S : f[x] \in Nat /\ k[x] \in Nat /\ h[x] = f[x] + k[x]
    BY <1>1, <1>2
  <2> QED
    BY <2>1, SumPlus
<1>5. SumOf(f, S) \in Nat /\ SumOf(g, S) \in Nat /\ SumOf(k, S) \in Nat
  BY <1>2, SumType
<1> QED
  BY <1>3, <1>4, <1>5

LEMMA LoadMoves ==
  ASSUME NEW D \in Nat, NEW due \in Nat, NEW k \in Nat, NEW at \in Nat, NEW had \in Nat,
         NEW next \in Nat, due + k + at <= had + next
  PROVE  /\ due * D + k * D + at * D <= had * D + next * D
         /\ due * D \in Nat /\ k * D \in Nat /\ at * D \in Nat /\ had * D \in Nat /\ next * D \in Nat
<1>1. (due + k + at) * D <= (had + next) * D
  <2>1. due + k + at \in Nat /\ had + next \in Nat
    OBVIOUS
  <2> QED
    BY <2>1, TimesMonotone
<1>2. (due + k + at) * D = due * D + k * D + at * D /\ (had + next) * D = had * D + next * D
  OBVIOUS
<1>3. due * D \in Nat /\ k * D \in Nat /\ at * D \in Nat /\ had * D \in Nat /\ next * D \in Nat
  OBVIOUS
<1> QED
  BY <1>1, <1>2, <1>3

LEMMA BoundMoves ==
  ASSUME NEW a \in Nat, NEW b \in Nat, NEW f \in Nat, NEW g \in Nat, NEW x \in Nat, NEW y \in Nat,
         NEW limit \in Nat, b + f = a + g, g + x <= f + y, a < limit + x
  PROVE  b < limit + y
  OBVIOUS

OthersStay(r) ==
  \A x \in Runs \ {r} :
    /\ door'[x] = door[x] /\ queue'[x] = queue[x] /\ work'[x] = work[x] /\ cost'[x] = cost[x]
    /\ share'[x] = share[x] /\ born'[x] = born[x] /\ paid'[x] = paid[x]

Spends(r, k) == Spent(r)' <= Spent(r) + k * DearestCall

\* k calls may have gone on record; what is due has that many less, or was due again.
LEMMA RunStep ==
  ASSUME ConstantsAssumption, IInv, TypeOK', NEW r \in Runs, NEW k \in Nat,
         month' = month, OthersStay(r),
         RunFits(work'[r], cost'[r], share'[r], paid'[r], door'[r], queue'[r]),
         born'[r] <= month,
         Spends(r, k),
         Due(r)' + k + atDoor <= Due(r) + atDoor'
  PROVE  IInv'
<1> USE DEF IInv
<1>1. RunsFit'
  <2> SUFFICES ASSUME NEW x \in Runs
               PROVE  /\ RunFits(work'[x], cost'[x], share'[x], paid'[x], door'[x], queue'[x])
                      /\ born'[x] <= month'
    BY DEF RunsFit
  <2>1. CASE x = r
    BY <2>1
  <2>2. CASE x # r
    BY <2>2 DEF RunsFit, OthersStay
  <2> QED
    BY <2>1, <2>2
<1>2. LoadIsBounded'
  <2> DEFINE D == DearestCall
             f == [x \in Runs |-> Load(x)]
             g == [x \in Runs |-> Load(x)']
             due == Due(r)'
             had == Due(r)
             spent == Spent(r)
             spends == Spent(r)'
  <2>1. D \in Nat /\ IsFiniteSet(Runs) /\ atDoor \in Nat /\ atDoor' \in Nat /\ Limit \in Nat
    BY DearestType DEF ConstantsAssumption, TypeOK
  <2>2. had \in Nat /\ spent \in Nat /\ \A x \in Runs : f[x] \in Nat
    BY LoadType
  <2>3. due \in Nat /\ spends \in Nat
    <3>1. queue'[r] \in [Jobs -> Nat] /\ work'[r] \in [Slots -> Task] /\ cost'[r] \in Nat
      BY DEF TypeOK
    <3>2. Queued(door'[r], queue'[r]) \in Nat /\ Calls(work'[r]) \in Nat
      BY <3>1, QueuedType, HandsType
    <3> QED
      BY <3>1, <3>2, DueIs DEF Spent
  <2>4. ASSUME NEW x \in Runs \ {r} PROVE g[x] = f[x]
    <3>1. Due(x)' = Due(x)
      BY DueIs DEF OthersStay
    <3>2. Spent(x)' = Spent(x)
      BY DEF Spent, OthersStay
    <3> QED
      BY <3>1, <3>2 DEF Load
  <2>5. f[r] = spent + had * D /\ g[r] = spends + due * D
    BY DEF Load
  <2>6. spends <= spent + k * D /\ due + k + atDoor <= had + atDoor'
    BY DEF Spends
  <2>7. SumOf(f, Runs) < Limit + atDoor * D
    BY DEF LoadIsBounded
  <2>8. LoadIsBounded' = (SumOf(g, Runs) < Limit + atDoor' * D)
    BY DEF LoadIsBounded
  <2> HIDE DEF D, f, g, due, had, spent, spends
  <2>9. /\ due * D + k * D + atDoor * D <= had * D + atDoor' * D
        /\ due * D \in Nat /\ k * D \in Nat /\ atDoor * D \in Nat /\ had * D \in Nat
        /\ atDoor' * D \in Nat
    BY <2>1, <2>2, <2>3, <2>6, LoadMoves
  <2>10. g[r] + atDoor * D <= f[r] + atDoor' * D /\ g[r] \in Nat /\ f[r] \in Nat
    BY <2>2, <2>3, <2>5, <2>6, <2>9
  <2>11. \A x \in Runs : g[x] \in Nat
    BY <2>2, <2>4, <2>10
  <2>12. SumOf(g, Runs) + f[r] = SumOf(f, Runs) + g[r]
    BY <2>1, <2>2, <2>4, <2>11, SumUpdate
  <2>13. SumOf(g, Runs) \in Nat /\ SumOf(f, Runs) \in Nat
    BY <2>1, <2>2, <2>11, SumType
  <2>14. SumOf(g, Runs) < Limit + atDoor' * D
    BY <2>1, <2>7, <2>9, <2>10, <2>12, <2>13, BoundMoves
  <2> QED
    BY <2>8, <2>14
<1> QED
  BY <1>1, <1>2

SlotMoves(r, s) ==
  OthersStay(r) /\ \A t \in Slots \ {s} : work'[r][t] = work[r][t]

\* A slot of it changes, with its books.
LEMMA SlotStep ==
  ASSUME ConstantsAssumption, IInv, TypeOK', NEW r \in Runs, NEW s \in Slots, NEW k \in Nat,
         month' = month, door'[r] = door[r], SlotMoves(r, s),
         SlotFits(work'[r][s]), cost'[r] = Total(share'[r]), born'[r] <= month,
         paid'[r] + cost[r] + InHand(work[r][s]) = paid[r] + cost'[r] + InHand(work'[r][s]),
         Early(work'[r], cost'[r], door'[r], queue'[r]),
         Spends(r, k),
         Queued(door[r], queue'[r]) + CallsDue(work'[r][s]) + k + atDoor
           <= Queued(door[r], queue[r]) + CallsDue(work[r][s]) + atDoor'
  PROVE  IInv'
<1> DEFINE d == door[r]
           w == work'[r]
           x == w[s]
           v == work[r]
<1>1. /\ w \in [Slots -> Task] /\ v \in [Slots -> Task] /\ x \in Task /\ v[s] \in Task
      /\ queue[r] \in [Jobs -> Nat] /\ queue'[r] \in [Jobs -> Nat]
      /\ cost[r] \in Nat /\ paid[r] \in Nat /\ cost'[r] \in Nat /\ paid'[r] \in Nat
      /\ atDoor \in Nat /\ atDoor' \in Nat
  BY DEF IInv, TypeOK
<1>2. /\ Hands(w) \in Nat /\ Calls(w) \in Nat
      /\ Hands(w) + InHand(v[s]) = Hands(v) + InHand(x)
      /\ Calls(w) + CallsDue(v[s]) = Calls(v) + CallsDue(x)
  <2>1. Hands(w) \in Nat /\ Calls(w) \in Nat
    BY <1>1, HandsType
  <2>2. \A t \in Slots \ {s} : w[t] = v[t]
    BY DEF SlotMoves
  <2> HIDE DEF w, v
  <2> QED
    BY <1>1, <2>1, <2>2, SlotChanges
<1>3. /\ Hands(v) \in Nat /\ Calls(v) \in Nat /\ InHand(x) \in Nat
      /\ InHand(v[s]) \in Nat /\ CallsDue(x) \in Nat /\ CallsDue(v[s]) \in Nat
      /\ Queued(d, queue'[r]) \in Nat /\ Queued(d, queue[r]) \in Nat
  BY <1>1, HandsType, InHandType, CallsType, QueuedType
<1>4. RunFits(v, cost[r], share[r], paid[r], d, queue[r])
  BY DEF IInv, RunsFit
<1>5. paid'[r] = cost'[r] + Hands(w)
  <2>1. paid[r] = cost[r] + Hands(v)
    BY <1>4 DEF RunFits
  <2>2. paid'[r] + cost[r] + InHand(v[s]) = paid[r] + cost'[r] + InHand(x) /\ paid'[r] \in Int
    BY <1>1
  <2> HIDE DEF w, v, x
  <2> QED
    BY <1>1, <1>2, <1>3, <2>1, <2>2
<1>6. RunFits(w, cost'[r], share'[r], paid'[r], door'[r], queue'[r])
  <2>1. \A t \in Slots : SlotFits(w[t])
    BY <1>4 DEF RunFits, SlotMoves
  <2> QED
    BY <1>5, <2>1 DEF RunFits
<1>7. Due(r)' + k + atDoor <= Due(r) + atDoor'
  <2>1. Due(r) = Queued(d, queue[r]) + Calls(v) /\ Due(r)' = Queued(d, queue'[r]) + Calls(w)
    BY DueIs
  <2>2. Queued(d, queue'[r]) + CallsDue(x) + k + atDoor
          <= Queued(d, queue[r]) + CallsDue(v[s]) + atDoor'
    OBVIOUS
  <2> HIDE DEF w, v, x, d
  <2> QED
    BY <1>1, <1>2, <1>3, <2>1, <2>2
<1> QED
  BY <1>6, <1>7, RunStep DEF SlotMoves

\* A slot that is at work goes on.
LEMMA EarlyBusy ==
  ASSUME NEW w, NEW v, NEW c, NEW e, NEW d, NEW q, NEW u, NEW s \in Slots,
         \A t \in Slots \ {s} : v[t] = w[t],
         Early(w, c, d, q), w[s].pc # "free",
         Opening(v[s]) => Opening(w[s]) /\ e = c /\ u = q
  PROVE  d = "open" /\ Early(v, e, d, u)
  BY DEF Early

LEMMA FreeSlot ==
  ASSUME ConstantsAssumption
  PROVE  /\ Free \in Task /\ SlotFits(Free) /\ InHand(Free) = 0 /\ CallsDue(Free) = 0
         /\ ~Opening(Free) /\ Free.pc = "free" /\ Free.ledger \in Ledgers
  BY NoCostType DEF Free, Task, SlotFits, InHand, CallsDue, Opening, Drafting, Spending, Ledgers

LEMMA AllDueType ==
  ASSUME ConstantsAssumption, TypeOK
  PROVE  AllDue \in Nat
<1> DEFINE f == [x \in Runs |-> Due(x)]
<1>1. \A x \in Runs : f[x] \in Nat
  BY LoadType
<1> HIDE DEF f
<1>2. SumOf(f, Runs) \in Nat
  BY <1>1, SumType DEF ConstantsAssumption
<1> QED
  BY <1>2 DEF f, AllDue

\* A generation is let in, with its calls to come.
LEMMA DoorStep ==
  ASSUME ConstantsAssumption, IInv, TypeOK', NEW r \in Runs, MayStart,
         UNCHANGED << month, queue, cost, share, paid >>,
         \A x \in Runs \ {r} : door'[x] = door[x] /\ work'[x] = work[x] /\ born'[x] = born[x],
         born'[r] = born[r] \/ (cost[r] = 0 /\ born'[r] <= month),
         RunFits(work'[r], cost[r], share[r], paid[r], door'[r], queue[r]),
         Queued(door'[r], queue[r]) + Calls(work'[r])
           = Queued(door[r], queue[r]) + Calls(work[r]) + PlanCalls,
         atDoor' = AllDue + PlanCalls
  PROVE  IInv'
<1> USE DEF IInv
<1>1. RunsFit'
  <2> SUFFICES ASSUME NEW x \in Runs
               PROVE  /\ RunFits(work'[x], cost'[x], share'[x], paid'[x], door'[x], queue'[x])
                      /\ born'[x] <= month'
    BY DEF RunsFit
  <2>1. CASE x = r
    BY <2>1 DEF RunsFit
  <2>2. CASE x # r
    BY <2>2 DEF RunsFit
  <2> QED
    BY <2>1, <2>2
<1>2. LoadIsBounded'
  <2> DEFINE D == DearestCall
             f == [x \in Runs |-> Spent(x)]
             g == [x \in Runs |-> Due(x)]
             h == [x \in Runs |-> Due(x)']
             k == [x \in Runs |-> Load(x)']
  <2>1. D \in Nat /\ IsFiniteSet(Runs) /\ Limit \in Nat /\ PlanCalls \in Nat
    BY DearestType, CallsType DEF ConstantsAssumption
  <2>2. \A x \in Runs : f[x] \in Nat /\ g[x] \in Nat
    BY LoadType
  <2>3. ASSUME NEW x \in Runs \ {r} PROVE h[x] = g[x]
    BY DueIs
  <2>4. h[r] = g[r] + PlanCalls
    <3>1. Due(r)' = Due(r) + PlanCalls
      BY DueIs
    <3> QED
      BY <3>1
  <2>5. ASSUME NEW x \in Runs PROVE k[x] = f[x] + h[x] * D
    <3>1. Spent(x)' = Spent(x)
      BY DEF Spent
    <3> QED
      BY <3>1 DEF Load
  <2>6. SumOf(f, Runs) < Limit /\ SumOf(g, Runs) = AllDue
    BY SpendIsSpent DEF MayStart, AllDue
  <2>7. LoadIsBounded' = (SumOf(k, Runs) < Limit + atDoor' * D)
    BY DEF LoadIsBounded
  <2> HIDE DEF D, f, g, h, k
  <2>8. \A x \in Runs : h[x] \in Nat
    BY <2>1, <2>2, <2>3, <2>4
  <2>9. SumOf(h, Runs) + g[r] = SumOf(g, Runs) + h[r]
    BY <2>1, <2>2, <2>3, <2>8, SumUpdate
  <2>10. SumOf(h, Runs) \in Nat /\ SumOf(g, Runs) \in Nat
    BY <2>1, <2>2, <2>8, SumType
  <2>11. SumOf(h, Runs) = atDoor'
    BY <2>1, <2>2, <2>4, <2>6, <2>9, <2>10
  <2>12. SumOf(k, Runs) = SumOf(f, Runs) + SumOf(h, Runs) * D
         /\ SumOf(f, Runs) \in Nat /\ SumOf(h, Runs) * D \in Nat
    <3>1. f \in [Runs -> Nat] /\ h \in [Runs -> Nat]
      BY <2>2, <2>8 DEF f, h
    <3> QED
      BY <2>1, <2>5, <3>1, SumLoad
  <2>13. SumOf(k, Runs) < Limit + SumOf(h, Runs) * D
    <3> DEFINE y == SumOf(h, Runs) * D
    <3>1. SumOf(k, Runs) = SumOf(f, Runs) + y /\ y \in Nat
      BY <2>12
    <3> HIDE DEF y
    <3>2. SumOf(k, Runs) < Limit + y
      BY <2>1, <2>6, <2>12, <3>1
    <3> QED
      BY <3>2 DEF y
  <2> QED
    BY <2>7, <2>11, <2>13
<1> QED
  BY <1>1, <1>2

-----------------------------------------------------------------------------
(* The actions, one by one.                                                *)

LEMMA InitInv ==
  ASSUME ConstantsAssumption, Init
  PROVE  IInv
<1>1. TypeOK
  BY NoCostType, FreeSlot DEF Init, TypeOK, Ledgers
<1>2. ASSUME NEW r \in Runs
      PROVE  /\ RunFits(work[r], cost[r], share[r], paid[r], door[r], queue[r])
             /\ born[r] <= month /\ Load(r) = 0
  <2>1. /\ work[r] = [s \in Slots |-> Free] /\ cost[r] = 0 /\ share[r] = NoCost
        /\ paid[r] = 0 /\ door[r] = "idle" /\ queue[r] = [j \in Jobs |-> 0] /\ born[r] = 0
        /\ month = 1
    BY DEF Init
  <2>2. /\ Hands(work[r]) = 0 /\ Calls(work[r]) = 0
        /\ \A s \in Slots : SlotFits(work[r][s])
        /\ \A s \in Slots : work[r][s].pc = "free" /\ ~Opening(work[r][s])
    BY <2>1, FreeSlot, NothingDone
  <2>3. Total(share[r]) = 0
    BY <2>1, NoCostType
  <2>4. Due(r) = 0
    <3>1. queue[r]["plan"] = 0 /\ queue[r]["item"] = 0
      BY <2>1 DEF Jobs
    <3>2. 0 * PlanCalls = 0
      BY CallsType
    <3>3. Queued(door[r], queue[r]) = 0
      BY <2>1, <3>1, <3>2 DEF Queued
    <3> QED
      BY <2>2, <3>3, DueIs
  <2>5. Load(r) = 0
    <3>1. 0 * DearestCall = 0
      BY DearestType
    <3> QED
      BY <2>1, <2>4, <3>1 DEF Load, Spent
  <2>6. Early(work[r], cost[r], door[r], queue[r])
    BY <2>1, <2>2 DEF Early, Jobs
  <2> QED
    BY <2>1, <2>2, <2>3, <2>5, <2>6 DEF RunFits
<1>3. LoadIsBounded
  <2> DEFINE f == [r \in Runs |-> Load(r)]
  <2>1. \A r \in Runs : f[r] = 0
    BY <1>2
  <2> HIDE DEF f
  <2>2. SumOf(f, Runs) = 0
    BY <2>1, SumOfZeros DEF ConstantsAssumption
  <2>3. atDoor * DearestCall = 0 /\ Limit \in Nat /\ Limit > 0
    BY DearestType DEF Init, ConstantsAssumption
  <2>4. SumOf(f, Runs) < Limit + 0
    BY <2>2, <2>3
  <2> QED
    BY <2>3, <2>4 DEF LoadIsBounded, f
<1> QED
  BY <1>1, <1>2, <1>3 DEF IInv, RunsFit

LEMMA RefuseStep ==
  ASSUME ConstantsAssumption, IInv, NEW r \in Runs, Refuse(r)
  PROVE  IInv'
<1>1. TypeOK' /\ OthersStay(r) /\ born'[r] <= month
  BY DEF IInv, TypeOK, Refuse, OthersStay, books, RunsFit
<1>2. RunFits(work'[r], cost'[r], share'[r], paid'[r], door'[r], queue'[r])
  BY DEF IInv, TypeOK, RunsFit, RunFits, Early, Refuse, books
<1>3. Due(r)' = Due(r) /\ Due(r) \in Nat /\ Spent(r)' = Spent(r) /\ Spent(r) \in Nat
  BY DueIs, LoadType DEF IInv, TypeOK, Refuse, Queued, Spent, books
<1>4. Spends(r, 0)
  <2>1. 0 * DearestCall = 0
    BY DearestType
  <2> QED
    BY <1>3, <2>1 DEF Spends
<1>5. Due(r)' + 0 + atDoor <= Due(r) + atDoor' /\ month' = month
  BY <1>3 DEF IInv, TypeOK, Refuse
<1> QED
  BY <1>1, <1>2, <1>4, <1>5, RunStep

LEMMA AskCreateStep ==
  ASSUME ConstantsAssumption, IInv, NEW r \in Runs, AskCreate(r)
  PROVE  IInv'
<1>1. AllDue \in Nat
  BY AllDueType DEF IInv
<1>2. TypeOK'
  BY <1>1, CallsType DEF IInv, TypeOK, AskCreate, books
<1>3. /\ \A x \in Runs \ {r} : door'[x] = door[x] /\ work'[x] = work[x] /\ born'[x] = born[x]
      /\ born'[r] = born[r] /\ UNCHANGED << cost, share >>
  BY DEF IInv, TypeOK, AskCreate, books
<1>4. RunFits(work'[r], cost[r], share[r], paid[r], door'[r], queue[r])
  BY DEF IInv, TypeOK, RunsFit, RunFits, Early, AskCreate
<1>5. Queued(door'[r], queue[r]) = Queued(door[r], queue[r]) + PlanCalls
  <2>1. door'[r] = "admitted" /\ door[r] = "idle" /\ queue[r] \in [Jobs -> Nat]
    BY DEF IInv, TypeOK, AskCreate
  <2> QED
    BY <2>1, QueuedType, CallsType
<1>6. Queued(door'[r], queue[r]) + Calls(work'[r])
        = Queued(door[r], queue[r]) + Calls(work[r]) + PlanCalls
  <2>1. /\ Queued(door[r], queue[r]) \in Nat /\ Calls(work[r]) \in Nat /\ PlanCalls \in Nat
        /\ work' = work
    BY QueuedType, HandsType, CallsType DEF IInv, TypeOK, AskCreate
  <2> QED
    BY <1>5, <2>1
<1> QED
  BY <1>2, <1>3, <1>4, <1>6, DoorStep DEF AskCreate

LEMMA SlotBecomes ==
  ASSUME TypeOK, NEW r \in Runs, NEW s \in Slots, NEW x \in Task, Becomes(r, s, x)
  PROVE  /\ work' \in [Runs -> [Slots -> Task]] /\ work'[r][s] = x
         /\ \A y \in Runs \ {r} : work'[y] = work[y]
         /\ \A t \in Slots \ {s} : work'[r][t] = work[r][t]
  BY DEF TypeOK, Becomes

\* The task that a pc replaces.
LEMMA SlotGoes ==
  ASSUME ConstantsAssumption, IInv, NEW r \in Runs, NEW s \in Slots
  PROVE  /\ work[r] \in [Slots -> Task] /\ work[r][s] \in Task /\ SlotFits(work[r][s])
         /\ Early(work[r], cost[r], door[r], queue[r]) /\ cost[r] = Total(share[r])
         /\ paid[r] = cost[r] + Hands(work[r])
         /\ queue[r] \in [Jobs -> Nat] /\ queue[r]["plan"] \in Nat /\ queue[r]["item"] \in Nat
         /\ cost[r] \in Nat /\ paid[r] \in Nat /\ born[r] \in Nat /\ born[r] <= month
         /\ share[r] \in Ledgers /\ atDoor \in Nat /\ repeats \in Nat /\ month \in Nat
         /\ Total(work[r][s].ledger) \in Nat /\ work[r][s].ledger \in Ledgers
         /\ InHand(work[r][s]) \in Nat /\ CallsDue(work[r][s]) \in Nat
         /\ Queued(door[r], queue[r]) \in Nat
<1>1. /\ work[r] \in [Slots -> Task] /\ work[r][s] \in Task
      /\ queue[r] \in [Jobs -> Nat] /\ queue[r]["plan"] \in Nat /\ queue[r]["item"] \in Nat
      /\ cost[r] \in Nat /\ paid[r] \in Nat /\ born[r] \in Nat
      /\ share[r] \in Ledgers /\ atDoor \in Nat /\ repeats \in Nat /\ month \in Nat
  BY DEF IInv, TypeOK, Jobs, Ledgers
<1>2. /\ SlotFits(work[r][s]) /\ Early(work[r], cost[r], door[r], queue[r])
      /\ cost[r] = Total(share[r]) /\ paid[r] = cost[r] + Hands(work[r]) /\ born[r] <= month
  BY DEF IInv, RunsFit, RunFits
<1> QED
  BY <1>1, <1>2, InHandType, CallsType, QueuedType

LEMMA SpendsNothing ==
  ASSUME ConstantsAssumption, TypeOK, NEW r \in Runs, month' = month, cost'[r] = cost[r],
         born'[r] = born[r] \/ cost[r] = 0
  PROVE  Spends(r, 0)
<1>1. 0 * DearestCall = 0
  BY DearestType
<1>2. Spent(r)' <= Spent(r)
  BY DEF TypeOK, Spent
<1>3. Spent(r) \in Nat
  BY LoadType
<1> QED
  BY <1>1, <1>2, <1>3 DEF Spends

\* A ledger goes on record.
LEMMA SpendsUsage ==
  ASSUME ConstantsAssumption, IInv, NEW r \in Runs, NEW ledger \in Ledgers, NEW k \in Nat,
         month' = month, born' = born, AddUsage(r, ledger), Within(ledger, k)
  PROVE  /\ Spends(r, k)
         /\ cost' \in [Runs -> Nat] /\ share' \in [Runs -> [Models -> Nat]]
         /\ cost'[r] = cost[r] + Total(ledger) /\ cost'[r] = Total(share'[r])
         /\ \A x \in Runs \ {r} : cost'[x] = cost[x] /\ share'[x] = share[x]
<1> DEFINE add == Total(ledger)
           row == [m \in Models |-> share[r][m] + ledger[m]]
<1>1. add \in Nat /\ share[r] \in Ledgers /\ cost \in [Runs -> Nat]
      /\ share \in [Runs -> Ledgers] /\ cost[r] = Total(share[r])
  BY TotalType DEF IInv, TypeOK, Ledgers, RunsFit, RunFits
<1>2. row \in Ledgers /\ Total(row) = Total(share[r]) + add
  BY <1>1, UsageAdds
<1>3. cost' = [cost EXCEPT ![r] = @ + add] /\ share' = [share EXCEPT ![r] = row]
  BY DEF AddUsage
<1> HIDE DEF add, row
<1>4. /\ cost' \in [Runs -> Nat] /\ share' \in [Runs -> Ledgers]
      /\ cost'[r] = cost[r] + add /\ share'[r] = row
      /\ \A x \in Runs \ {r} : cost'[x] = cost[x] /\ share'[x] = share[x]
  BY <1>1, <1>2, <1>3
<1>5. Spends(r, k)
  <2> DEFINE most == k * DearestCall
  <2>1. most \in Nat /\ add <= most
    BY DearestType DEF add, Within
  <2>2. Spent(r)' = (IF born[r] = month THEN cost[r] + add ELSE 0)
        /\ Spent(r) = (IF born[r] = month THEN cost[r] ELSE 0)
    BY <1>4 DEF Spent
  <2>3. cost[r] \in Nat
    BY <1>1
  <2> HIDE DEF most
  <2>4. Spent(r)' <= Spent(r) + most
    BY <1>1, <2>1, <2>2, <2>3
  <2> QED
    BY <2>4 DEF Spends, most
<1> QED
  BY <1>1, <1>2, <1>4, <1>5 DEF add, Ledgers

LEMMA AskRetriggerStep ==
  ASSUME ConstantsAssumption, IInv, NEW r \in Runs, NEW s \in Slots, AskRetrigger(r, s)
  PROVE  IInv'
<1> DEFINE x == [Free EXCEPT !.pc = "drafting"]
<1>1. /\ door[r] = "idle" /\ MayStart /\ UNCHANGED << month, queue, cost, share, paid >>
      /\ born' = [born EXCEPT ![r] = month]
      /\ atDoor' = AllDue + PlanCalls /\ door' = [door EXCEPT ![r] = "open"] /\ repeats' = repeats
      /\ Goto(r, s, "drafting") /\ work[r][s].pc = "free"
  BY DEF AskRetrigger, At
<1>2. work[r][s] = Free /\ Becomes(r, s, x)
  BY <1>1, SlotGoes DEF SlotFits, Goto
<1>3. /\ x \in Task /\ SlotFits(x) /\ InHand(x) = 0 /\ CallsDue(x) = PlanCalls
      /\ x.pc = "drafting" /\ x.job = "request"
  <2>1. 0 * DearestCall = 0
    BY DearestType
  <2>2. x \in Task /\ x.pc = "drafting" /\ x.job = "request" /\ x.draft = 0 /\ x.ledger = NoCost
    BY FreeSlot DEF Free, Task, Drafting
  <2> HIDE DEF x
  <2> QED
    BY <2>1, <2>2, NoCostType, CallsType
    DEF SlotFits, Spending, Drafting, CallsMade, InHand, CallsDue, Within
<1> HIDE DEF x
<1>4. /\ work' \in [Runs -> [Slots -> Task]] /\ work'[r][s] = x
      /\ \A y \in Runs \ {r} : work'[y] = work[y]
      /\ \A t \in Slots \ {s} : work'[r][t] = work[r][t]
  BY <1>2, <1>3, SlotBecomes DEF IInv
<1>5. TypeOK'
  <2>1. AllDue + PlanCalls \in Nat
    BY AllDueType, CallsType DEF IInv
  <2> QED
    BY <1>1, <1>4, <2>1 DEF IInv, TypeOK, books
<1>6. /\ cost[r] = 0 /\ queue[r]["plan"] = 0 /\ queue[r]["item"] = 0
      /\ \A t \in Slots : work[r][t].pc = "free"
  BY <1>1, SlotGoes DEF Early
<1>7. Hands(work[r]) = 0 /\ Calls(work[r]) = 0 /\ InHand(work[r][s]) = 0 /\ CallsDue(work[r][s]) = 0
  BY <1>2, <1>6, FreeSlot, NothingDone
<1>8. Hands(work'[r]) = 0 /\ Calls(work'[r]) = PlanCalls
  <2>1. work'[r] \in [Slots -> Task] /\ work[r] \in [Slots -> Task]
    BY <1>4, SlotGoes
  <2>2. /\ Hands(work'[r]) + InHand(work[r][s]) = Hands(work[r]) + InHand(work'[r][s])
        /\ Calls(work'[r]) + CallsDue(work[r][s]) = Calls(work[r]) + CallsDue(work'[r][s])
        /\ Hands(work'[r]) \in Nat /\ Calls(work'[r]) \in Nat
    BY <1>4, <2>1, SlotChanges, HandsType
  <2> QED
    BY <1>3, <1>4, <1>7, <2>2, CallsType
<1>9. /\ door'[r] = "open" /\ born'[r] <= month
      /\ \A y \in Runs \ {r} : door'[y] = door[y] /\ born'[y] = born[y]
  BY <1>1 DEF IInv, TypeOK
<1>10. RunFits(work'[r], cost[r], share[r], paid[r], door'[r], queue[r])
  <2>1. \A t \in Slots : SlotFits(work'[r][t])
    BY <1>3, <1>4, SlotGoes
  <2>2. Early(work'[r], cost[r], door'[r], queue[r])
    BY <1>3, <1>4, <1>6, <1>9 DEF Early, Opening, Drafting
  <2> QED
    BY <1>7, <1>8, <2>1, <2>2, SlotGoes DEF RunFits
<1>11. Queued(door'[r], queue[r]) + Calls(work'[r])
         = Queued(door[r], queue[r]) + Calls(work[r]) + PlanCalls
  <2>1. Queued(door'[r], queue[r]) = Queued(door[r], queue[r]) /\ Queued(door[r], queue[r]) \in Nat
    BY <1>1, <1>9, QueuedType, SlotGoes
  <2> QED
    BY <1>7, <1>8, <2>1, CallsType
<1> QED
  BY <1>1, <1>4, <1>5, <1>6, <1>9, <1>10, <1>11, DoorStep

\* A slot goes on, and nothing else moves.
LEMMA SlotWorks ==
  ASSUME ConstantsAssumption, IInv, NEW r \in Runs, NEW s \in Slots, NEW x \in Task,
         Becomes(r, s, x), UNCHANGED << month, door, queue, books, paid, atDoor, repeats >>,
         work[r][s].pc # "free", SlotFits(x), InHand(x) = InHand(work[r][s]),
         CallsDue(x) <= CallsDue(work[r][s]), Opening(x) => Opening(work[r][s])
  PROVE  IInv'
<1>1. /\ work' \in [Runs -> [Slots -> Task]] /\ work'[r][s] = x
      /\ \A y \in Runs \ {r} : work'[y] = work[y]
      /\ \A t \in Slots \ {s} : work'[r][t] = work[r][t]
  BY SlotBecomes DEF IInv
<1>2. TypeOK'
  BY <1>1 DEF IInv, TypeOK, books
<1>3. SlotMoves(r, s)
  BY <1>1 DEF SlotMoves, OthersStay, books
<1>4. Early(work'[r], cost'[r], door'[r], queue'[r])
  <2>1. Early(work[r], cost[r], door[r], queue[r])
    BY SlotGoes
  <2>2. Early(work'[r], cost[r], door[r], queue[r])
    BY <1>1, <2>1, EarlyBusy
  <2> QED
    BY <2>2 DEF books
<1>5. Spends(r, 0)
  BY SpendsNothing DEF IInv, books
<1>6. Queued(door[r], queue'[r]) + CallsDue(work'[r][s]) + 0 + atDoor
        <= Queued(door[r], queue[r]) + CallsDue(work[r][s]) + atDoor'
  BY <1>1, SlotGoes, CallsType
<1>7. paid'[r] + cost[r] + InHand(work[r][s]) = paid[r] + cost'[r] + InHand(work'[r][s])
  BY <1>1, SlotGoes DEF books
<1> QED
  BY <1>1, <1>2, <1>3, <1>4, <1>5, <1>6, <1>7, SlotGoes, SlotStep DEF books

LEMMA DraftStep ==
  ASSUME ConstantsAssumption, IInv, NEW r \in Runs, NEW s \in Slots, Draft(r, s)
  PROVE  IInv'
<1> DEFINE y == work[r][s]
<1>1. y \in Task /\ y.pc = "drafting" /\ y.draft < MaxDrafts /\ SlotFits(y) /\ y.draft \in Nat
  BY SlotGoes DEF Draft, At, Task
<1>2. PICK ledger \in Answers(y.ledger), next \in {"drafting", "planned", "judging"} :
        Becomes(r, s, [y EXCEPT !.pc = next, !.draft = @ + 1, !.ledger = ledger])
  BY DEF Draft
<1> DEFINE x == [y EXCEPT !.pc = next, !.draft = @ + 1, !.ledger = ledger]
<1>3. ledger \in Ledgers /\ Within(ledger, y.draft + 1)
  <2>1. y.ledger \in Ledgers /\ Within(y.ledger, y.draft)
    BY <1>1, SlotGoes DEF SlotFits, Spending, Drafting, CallsMade
  <2> HIDE DEF y
  <2> QED
    BY <1>1, <2>1, OneMoreCall
<1>4. /\ x \in Task /\ x.pc = next /\ x.job = y.job /\ x.draft = y.draft + 1 /\ x.ledger = ledger
  <2> DEFINE a == [y EXCEPT !.pc = next]
             b == [a EXCEPT !.draft = y.draft + 1]
  <2>1. x = [b EXCEPT !.ledger = ledger]
    OBVIOUS
  <2> HIDE DEF x, y
  <2>2. y.draft \in Nat /\ a \in Task /\ a.pc = next /\ a.job = y.job /\ a.draft = y.draft
    BY <1>1 DEF Task, Drafting
  <2> HIDE DEF a
  <2>3. b \in Task /\ b.pc = next /\ b.job = y.job /\ b.draft = y.draft + 1
    BY <2>2 DEF Task
  <2> HIDE DEF b
  <2> QED
    BY <1>3, <2>1, <2>3 DEF Task, Ledgers
<1>5. Becomes(r, s, x)
  BY <1>2
<1> HIDE DEF x, y
<1>6. Within(ledger, CallsMade(x))
  <2>1. CallsMade(x) \in Nat /\ y.draft + 1 <= CallsMade(x)
    BY <1>1, <1>4, CallsType DEF CallsMade
  <2> QED
    BY <1>1, <1>3, <2>1, WithinMore
<1>7. SlotFits(x)
  BY <1>1, <1>4, <1>6, CallsType DEF SlotFits, Drafting, Spending
<1>8. InHand(x) = InHand(y) /\ CallsDue(x) <= CallsDue(y) /\ (Opening(x) => Opening(y))
  BY <1>1, <1>4, CallsType DEF InHand, CallsDue, Opening, Drafting
<1> QED
  BY <1>1, <1>4, <1>5, <1>7, <1>8, SlotWorks DEF Draft, y

LEMMA ReviewStep ==
  ASSUME ConstantsAssumption, IInv, NEW r \in Runs, NEW s \in Slots, Review(r, s)
  PROVE  IInv'
<1> DEFINE y == work[r][s]
<1>1. y \in Task /\ y.pc \in {"judging", "repairing"} /\ SlotFits(y) /\ y.ledger \in Ledgers
      /\ Within(y.ledger, CallsMade(y)) /\ CallsMade(y) \in Nat
  <2>1. y \in Task /\ SlotFits(y) /\ y.ledger \in Ledgers
    BY SlotGoes
  <2>2. y.pc \in {"judging", "repairing"}
    BY Zenon DEF Review
  <2> HIDE DEF y
  <2>3. Within(y.ledger, CallsMade(y))
    BY <2>1, <2>2 DEF SlotFits, Spending, Drafting
  <2>4. CallsMade(y) \in Nat
    BY <2>2, CallsType DEF CallsMade
  <2> QED
    BY <2>1, <2>2, <2>3, <2>4
<1>2. ASSUME NEW ledger \in Ledgers, NEW next \in {"planned", "repairing"},
             next = "repairing" => y.pc = "judging", NEW n \in Nat, Within(ledger, n),
             n <= CallsMade(y) + 1,
             Becomes(r, s, [y EXCEPT !.pc = next, !.ledger = ledger])
      PROVE  IInv'
  <2> DEFINE x == [y EXCEPT !.pc = next, !.ledger = ledger]
  <2>1. x \in Task /\ x.pc = next /\ x.job = y.job /\ x.ledger = ledger
    BY <1>1 DEF Task, Ledgers, Drafting
  <2>2. Becomes(r, s, x)
    BY <1>2
  <2> HIDE DEF x, y
  <2>3. Within(ledger, CallsMade(x))
    <3>1. CallsMade(x) \in Nat /\ n <= CallsMade(x)
      BY <1>1, <1>2, <2>1, CallsType DEF CallsMade
    <3> QED
      BY <1>2, <3>1, WithinMore
  <2>4. SlotFits(x)
    BY <1>1, <2>1, <2>3 DEF SlotFits, Drafting, Spending
  <2>5. InHand(x) = InHand(y) /\ CallsDue(x) <= CallsDue(y) /\ (Opening(x) => Opening(y))
    BY <1>1, <2>1, CallsType DEF InHand, CallsDue, Opening, Drafting
  <2> QED
    BY <1>1, <2>1, <2>2, <2>4, <2>5, SlotWorks, Zenon DEF Review, y
<1>3. CASE Goto(r, s, "planned")
  <2>1. [y EXCEPT !.pc = "planned", !.ledger = y.ledger] = [y EXCEPT !.pc = "planned"]
    BY <1>1 DEF Task
  <2>2. Becomes(r, s, [y EXCEPT !.pc = "planned", !.ledger = y.ledger])
    BY <1>3, <2>1 DEF Goto
  <2> HIDE DEF y
  <2>3. CallsMade(y) \in Nat /\ CallsMade(y) <= CallsMade(y) + 1
    BY <1>1
  <2> QED
    BY <1>1, <1>2, <2>2, <2>3, Zenon
<1>4. ASSUME NEW ledger \in Answers(y.ledger),
             NEW next \in {"planned"} \cup (IF At(r, s, "judging") THEN {"repairing"} ELSE {}),
             Becomes(r, s, [y EXCEPT !.pc = next, !.ledger = ledger])
      PROVE  IInv'
  <2>1. next \in {"planned", "repairing"} /\ (next = "repairing" => y.pc = "judging")
    BY DEF At
  <2> HIDE DEF y
  <2>2. ledger \in Ledgers /\ Within(ledger, CallsMade(y) + 1)
    BY <1>1, OneMoreCall
  <2>3. CallsMade(y) + 1 \in Nat /\ CallsMade(y) + 1 <= CallsMade(y) + 1
    BY <1>1
  <2> QED
    BY <1>2, <1>4, <2>1, <2>2, <2>3, Zenon
<1> QED
  BY <1>3, <1>4, Zenon DEF Review

LEMMA EndStep ==
  ASSUME ConstantsAssumption, IInv, NEW r \in Runs, NEW s \in Slots, End(r, s)
  PROVE  IInv'
<1>1. InHand(Free) = InHand(work[r][s]) /\ work[r][s].pc # "free"
  BY FreeSlot DEF End, At, InHand
<1>2. CallsDue(Free) <= CallsDue(work[r][s])
  BY FreeSlot, SlotGoes
<1> QED
  BY <1>1, <1>2, FreeSlot, SlotWorks DEF End

LEMMA BreakOffStep ==
  ASSUME ConstantsAssumption, IInv, NEW r \in Runs, NEW s \in Slots, BreakOff(r, s)
  PROVE  IInv'
<1>1. CASE work[r][s].pc \in Drafting \cup {"fanning", "ending"} /\ Becomes(r, s, Free)
  <2>1. InHand(Free) = InHand(work[r][s]) /\ work[r][s].pc # "free"
    BY <1>1, FreeSlot DEF InHand, Drafting
  <2>2. CallsDue(Free) <= CallsDue(work[r][s])
    BY FreeSlot, SlotGoes
  <2> QED
    BY <1>1, <2>1, <2>2, FreeSlot, SlotWorks DEF BreakOff
<1>2. CASE At(r, s, "unbooked") /\ Goto(r, s, "torn")
  <2> DEFINE y == work[r][s]
             x == [y EXCEPT !.pc = "torn"]
  <2>1. y \in Task /\ y.pc = "unbooked" /\ SlotFits(y) /\ Becomes(r, s, x)
    BY <1>2, SlotGoes DEF At, Goto
  <2>2. x \in Task /\ x.pc = "torn" /\ x.job = y.job /\ x.ledger = y.ledger
    BY <2>1 DEF Task
  <2> HIDE DEF x, y
  <2>3. SlotFits(x)
    BY <2>1, <2>2 DEF SlotFits, Drafting, Spending
  <2>4. InHand(x) = InHand(y) /\ CallsDue(x) <= CallsDue(y) /\ (Opening(x) => Opening(y))
    BY <2>1, <2>2, CallsType DEF InHand, CallsDue, Opening, Drafting
  <2> QED
    BY <2>1, <2>2, <2>3, <2>4, SlotWorks DEF BreakOff, y
<1> QED
  BY <1>1, <1>2 DEF BreakOff

LEMMA TakePlanStep ==
  ASSUME ConstantsAssumption, IInv, NEW r \in Runs, NEW s \in Slots, TakePlan(r, s)
  PROVE  IInv'
<1> DEFINE x == [Free EXCEPT !.pc = "drafting", !.job = "plan"]
<1>1. /\ queue[r]["plan"] > 0 /\ work[r][s].pc = "free"
      /\ queue' = [queue EXCEPT ![r]["plan"] = @ - 1] /\ Becomes(r, s, x)
      /\ UNCHANGED << month, door, books, paid, atDoor, repeats >>
  BY DEF TakePlan, At
<1>2. /\ x \in Task /\ x.pc = "drafting" /\ x.job = "plan" /\ x.draft = 0 /\ x.ledger = NoCost
  BY FreeSlot DEF Free, Task, Drafting, Jobs
<1> HIDE DEF x
<1>3. /\ SlotFits(x) /\ InHand(x) = 0 /\ CallsDue(x) = PlanCalls /\ ~Opening(x)
  <2>1. 0 * DearestCall = 0
    BY DearestType
  <2> QED
    BY <1>2, <2>1, NoCostType, CallsType
    DEF SlotFits, Spending, Drafting, CallsMade, InHand, CallsDue, Within, Opening
<1>4. InHand(work[r][s]) = 0 /\ CallsDue(work[r][s]) = 0 /\ ~Opening(work[r][s])
  BY <1>1, SlotGoes, FreeSlot DEF SlotFits
<1>5. /\ work' \in [Runs -> [Slots -> Task]] /\ work'[r][s] = x
      /\ \A y \in Runs \ {r} : work'[y] = work[y]
      /\ \A t \in Slots \ {s} : work'[r][t] = work[r][t]
  BY <1>1, <1>2, SlotBecomes DEF IInv
<1>6. /\ queue' \in [Runs -> [Jobs -> Nat]] /\ \A y \in Runs \ {r} : queue'[y] = queue[y]
      /\ queue'[r] \in [Jobs -> Nat] /\ queue'[r]["plan"] = queue[r]["plan"] - 1
      /\ \A j \in Jobs \ {"plan"} : queue'[r][j] = queue[r][j]
  BY <1>1 DEF IInv, TypeOK, Jobs
<1>7. TypeOK'
  BY <1>1, <1>5, <1>6 DEF IInv, TypeOK, books
<1>8. SlotMoves(r, s)
  BY <1>1, <1>5, <1>6 DEF SlotMoves, OthersStay, books
<1>9. Early(work'[r], cost'[r], door'[r], queue'[r])
  <2>1. Early(work'[r], cost[r], door[r], queue'[r])
    <3>1. Early(work[r], cost[r], door[r], queue[r]) /\ queue[r]["plan"] # 0
      BY <1>1, SlotGoes
    <3>2. ~Opening(work'[r][s])
      BY <1>3, <1>5
    <3> QED
      BY <1>5, <3>1, <3>2 DEF Early
  <2> QED
    BY <1>1, <2>1 DEF books
<1>10. Spends(r, 0)
  BY <1>1, SpendsNothing DEF IInv, books
<1>11. Queued(door[r], queue'[r]) + CallsDue(work'[r][s]) + 0 + atDoor
         <= Queued(door[r], queue[r]) + CallsDue(work[r][s]) + atDoor'
  <2>1. Queued(door[r], queue'[r]) + CallsOf("plan") = Queued(door[r], queue[r])
    <3> DEFINE q == queue[r]
               u == queue'[r]
    <3>1. q \in [Jobs -> Nat] /\ "plan" \in Jobs
      BY SlotGoes DEF Jobs
    <3>2. u \in [Jobs -> Nat] /\ q["plan"] > 0 /\ u["plan"] = q["plan"] - 1
          /\ \A i \in Jobs \ {"plan"} : u[i] = q[i]
      BY <1>1, <1>6
    <3> HIDE DEF q, u
    <3>3. Queued(door[r], u) + CallsOf("plan") = Queued(door[r], q)
      BY <3>1, <3>2, QueuedLess
    <3> QED
      BY <3>3 DEF q, u
  <2>2. CallsOf("plan") = PlanCalls
    BY DEF CallsOf
  <2>3. Queued(door[r], queue'[r]) \in Nat /\ atDoor \in Nat /\ atDoor' = atDoor
    BY <1>1, <1>6, QueuedType, SlotGoes
  <2> QED
    BY <1>3, <1>4, <1>5, <2>1, <2>2, <2>3, CallsType
<1>12. paid'[r] + cost[r] + InHand(work[r][s]) = paid[r] + cost'[r] + InHand(work'[r][s])
  BY <1>1, <1>3, <1>4, <1>5, SlotGoes DEF books
<1>13. /\ month' = month /\ door'[r] = door[r] /\ cost'[r] = Total(share'[r])
       /\ born'[r] <= month /\ SlotFits(work'[r][s])
  BY <1>1, <1>3, <1>5, SlotGoes DEF books
<1> QED
  BY <1>7, <1>8, <1>9, <1>10, <1>11, <1>12, <1>13, SlotStep

LEMMA CallItemStep ==
  ASSUME ConstantsAssumption, IInv, NEW r \in Runs, NEW s \in Slots, CallItem(r, s)
  PROVE  IInv'
<1>1. PICK ledger \in Answers(NoCost) :
        /\ Becomes(r, s, [Free EXCEPT !.pc = "answered", !.job = "item", !.ledger = ledger])
        /\ paid' = [paid EXCEPT ![r] = @ + Total(ledger)]
  BY Zenon DEF CallItem
<1> DEFINE x == [Free EXCEPT !.pc = "answered", !.job = "item", !.ledger = ledger]
<1>2. /\ queue[r]["item"] > 0 /\ work[r][s].pc = "free"
      /\ queue' = [queue EXCEPT ![r]["item"] = @ - 1] /\ Becomes(r, s, x)
      /\ paid' = [paid EXCEPT ![r] = @ + Total(ledger)]
      /\ UNCHANGED << month, door, books, atDoor, repeats >>
  BY <1>1 DEF CallItem, At
<1>3. ledger \in Ledgers /\ Within(ledger, 1) /\ Total(ledger) \in Nat
  <2>1. NoCost \in Ledgers /\ Within(NoCost, 0)
    BY NoCostType, DearestType DEF Within
  <2>2. ledger \in Ledgers /\ Within(ledger, 0 + 1)
    BY <2>1, OneMoreCall
  <2> QED
    BY <2>2, TotalType
<1>4. /\ x \in Task /\ x.pc = "answered" /\ x.job = "item" /\ x.ledger = ledger
  BY <1>3, FreeSlot DEF Free, Task, Drafting, Jobs, Ledgers
<1> HIDE DEF x
<1>5. /\ SlotFits(x) /\ InHand(x) = Total(ledger) /\ CallsDue(x) = 1 /\ ~Opening(x)
  BY <1>3, <1>4 DEF SlotFits, Spending, Drafting, CallsMade, InHand, CallsDue, Opening
<1>6. InHand(work[r][s]) = 0 /\ CallsDue(work[r][s]) = 0 /\ ~Opening(work[r][s])
  BY <1>2, SlotGoes, FreeSlot DEF SlotFits
<1>7. /\ work' \in [Runs -> [Slots -> Task]] /\ work'[r][s] = x
      /\ \A y \in Runs \ {r} : work'[y] = work[y]
      /\ \A t \in Slots \ {s} : work'[r][t] = work[r][t]
  BY <1>2, <1>4, SlotBecomes DEF IInv
<1>8. /\ queue' \in [Runs -> [Jobs -> Nat]] /\ \A y \in Runs \ {r} : queue'[y] = queue[y]
      /\ queue'[r] \in [Jobs -> Nat] /\ queue'[r]["item"] = queue[r]["item"] - 1
      /\ \A j \in Jobs \ {"item"} : queue'[r][j] = queue[r][j]
  BY <1>2 DEF IInv, TypeOK, Jobs
<1>9. /\ paid' \in [Runs -> Nat] /\ paid'[r] = paid[r] + Total(ledger)
      /\ \A y \in Runs \ {r} : paid'[y] = paid[y]
  BY <1>2, <1>3 DEF IInv, TypeOK
<1>10. TypeOK'
  BY <1>2, <1>7, <1>8, <1>9 DEF IInv, TypeOK, books
<1>11. SlotMoves(r, s)
  BY <1>2, <1>7, <1>8, <1>9 DEF SlotMoves, OthersStay, books
<1>12. Early(work'[r], cost'[r], door'[r], queue'[r])
  <2>1. Early(work'[r], cost[r], door[r], queue'[r])
    <3>1. Early(work[r], cost[r], door[r], queue[r]) /\ queue[r]["item"] # 0
      BY <1>2, SlotGoes
    <3>2. ~Opening(work'[r][s])
      BY <1>5, <1>7
    <3> QED
      BY <1>7, <3>1, <3>2 DEF Early
  <2> QED
    BY <1>2, <2>1 DEF books
<1>13. Spends(r, 0)
  BY <1>2, SpendsNothing DEF IInv, books
<1>14. Queued(door[r], queue'[r]) + CallsDue(work'[r][s]) + 0 + atDoor
         <= Queued(door[r], queue[r]) + CallsDue(work[r][s]) + atDoor'
  <2>1. Queued(door[r], queue'[r]) + CallsOf("item") = Queued(door[r], queue[r])
    <3> DEFINE q == queue[r]
               u == queue'[r]
    <3>1. q \in [Jobs -> Nat] /\ "item" \in Jobs
      BY SlotGoes DEF Jobs
    <3>2. u \in [Jobs -> Nat] /\ q["item"] > 0 /\ u["item"] = q["item"] - 1
          /\ \A i \in Jobs \ {"item"} : u[i] = q[i]
      BY <1>2, <1>8
    <3> HIDE DEF q, u
    <3>3. Queued(door[r], u) + CallsOf("item") = Queued(door[r], q)
      BY <3>1, <3>2, QueuedLess
    <3> QED
      BY <3>3 DEF q, u
  <2>2. CallsOf("item") = 1
    BY DEF CallsOf
  <2>3. Queued(door[r], queue'[r]) \in Nat /\ atDoor \in Nat /\ atDoor' = atDoor
    BY <1>2, <1>8, QueuedType, SlotGoes
  <2> QED
    BY <1>5, <1>6, <1>7, <2>1, <2>2, <2>3
<1>15. paid'[r] + cost[r] + InHand(work[r][s]) = paid[r] + cost'[r] + InHand(work'[r][s])
  BY <1>2, <1>3, <1>5, <1>6, <1>7, <1>9, SlotGoes DEF books
<1>16. /\ month' = month /\ door'[r] = door[r] /\ cost'[r] = Total(share'[r])
       /\ born'[r] <= month /\ SlotFits(work'[r][s])
  BY <1>2, <1>5, <1>7, SlotGoes DEF books
<1> QED
  BY <1>10, <1>11, <1>12, <1>13, <1>14, <1>15, <1>16, SlotStep

\* What was in hand goes on record.
LEMMA BooksStep ==
  ASSUME ConstantsAssumption, IInv, NEW r \in Runs, NEW s \in Slots, NEW x \in Task, NEW k \in Nat,
         UNCHANGED << month, door, queue, born, atDoor, repeats >>, Becomes(r, s, x),
         AddUsage(r, work[r][s].ledger), Within(work[r][s].ledger, k),
         paid' = [paid EXCEPT ![r] = @ + Total(work[r][s].ledger) - InHand(work[r][s])],
         InHand(work[r][s]) \in {0, Total(work[r][s].ledger)},
         SlotFits(x), InHand(x) = 0, ~Opening(x), work[r][s].pc # "free",
         CallsDue(x) + k <= CallsDue(work[r][s])
  PROVE  IInv'
<1> DEFINE add == Total(work[r][s].ledger)
           had == InHand(work[r][s])
<1>1. add \in Nat /\ had \in {0, add}
  BY SlotGoes
<1>2. /\ work' \in [Runs -> [Slots -> Task]] /\ work'[r][s] = x
      /\ \A y \in Runs \ {r} : work'[y] = work[y]
      /\ \A t \in Slots \ {s} : work'[r][t] = work[r][t]
  BY SlotBecomes DEF IInv
<1>3. /\ Spends(r, k)
      /\ cost' \in [Runs -> Nat] /\ share' \in [Runs -> [Models -> Nat]]
      /\ cost'[r] = cost[r] + add /\ cost'[r] = Total(share'[r])
      /\ \A y \in Runs \ {r} : cost'[y] = cost[y] /\ share'[y] = share[y]
  BY SlotGoes, SpendsUsage
<1>4. paid' = [paid EXCEPT ![r] = @ + add - had]
  OBVIOUS
<1> HIDE DEF add, had
<1>5. /\ paid' \in [Runs -> Nat] /\ paid'[r] = paid[r] + add - had
      /\ \A y \in Runs \ {r} : paid'[y] = paid[y]
  BY <1>1, <1>4 DEF IInv, TypeOK
<1>6. TypeOK'
  BY <1>2, <1>3, <1>5 DEF IInv, TypeOK
<1>7. SlotMoves(r, s)
  BY <1>2, <1>3, <1>5 DEF SlotMoves, OthersStay
<1>8. Early(work'[r], cost'[r], door'[r], queue'[r])
  <2>1. Early(work[r], cost[r], door[r], queue[r])
    BY SlotGoes
  <2> QED
    BY <1>2, <2>1, EarlyBusy
<1>9. Queued(door[r], queue'[r]) + CallsDue(work'[r][s]) + k + atDoor
        <= Queued(door[r], queue[r]) + CallsDue(work[r][s]) + atDoor'
  BY <1>2, SlotGoes, CallsType
<1>10. paid'[r] + cost[r] + had = paid[r] + cost'[r] + InHand(work'[r][s])
  BY <1>1, <1>2, <1>3, <1>5, SlotGoes
<1> QED
  BY <1>2, <1>3, <1>6, <1>7, <1>8, <1>9, <1>10, SlotGoes, SlotStep DEF had

LEMMA BookDraftStep ==
  ASSUME ConstantsAssumption, IInv, NEW r \in Runs, NEW s \in Slots, BookDraft(r, s)
  PROVE  IInv'
<1> DEFINE y == work[r][s]
           x == [y EXCEPT !.pc = "fanning"]
<1>1. /\ y \in Task /\ y.pc = "unbooked" /\ SlotFits(y) /\ Becomes(r, s, x)
      /\ paid \in [Runs -> Nat] /\ Total(y.ledger) \in Nat
  BY SlotGoes DEF BookDraft, At, Goto, IInv, TypeOK
<1>2. x \in Task /\ x.pc = "fanning"
  BY <1>1 DEF Task
<1>3. SlotFits(x) /\ InHand(x) = 0 /\ ~Opening(x) /\ CallsDue(x) = MaxActivities
  BY <1>2 DEF SlotFits, Spending, Drafting, InHand, Opening, CallsDue
<1> HIDE DEF x, y
<1>4. Within(y.ledger, MaxDrafts + 2) /\ InHand(y) = Total(y.ledger) /\ CallsDue(y) = PlanCalls
  BY <1>1 DEF SlotFits, Spending, Drafting, CallsMade, InHand, CallsDue
<1>5. paid' = [paid EXCEPT ![r] = @ + Total(y.ledger) - InHand(y)]
  BY <1>1, <1>4 DEF BookDraft
<1>6. CallsDue(x) + (MaxDrafts + 2) <= CallsDue(y) /\ MaxDrafts + 2 \in Nat
  BY <1>3, <1>4, CallsType
<1> QED
  BY <1>1, <1>2, <1>3, <1>4, <1>5, <1>6, BooksStep DEF BookDraft, y

LEMMA CommitItemStep ==
  ASSUME ConstantsAssumption, IInv, NEW r \in Runs, NEW s \in Slots, CommitItem(r, s)
  PROVE  IInv'
<1> DEFINE y == work[r][s]
           x == [y EXCEPT !.pc = "ending"]
<1>1. /\ y \in Task /\ y.pc = "answered" /\ SlotFits(y) /\ Becomes(r, s, x)
      /\ paid \in [Runs -> Nat] /\ Total(y.ledger) \in Nat
  BY SlotGoes DEF CommitItem, At, Goto, IInv, TypeOK
<1>2. x \in Task /\ x.pc = "ending"
  BY <1>1 DEF Task
<1>3. SlotFits(x) /\ InHand(x) = 0 /\ ~Opening(x) /\ CallsDue(x) = 0
  BY <1>2 DEF SlotFits, Spending, Drafting, InHand, Opening, CallsDue
<1> HIDE DEF x, y
<1>4. Within(y.ledger, 1) /\ InHand(y) = Total(y.ledger) /\ CallsDue(y) = 1
  BY <1>1 DEF SlotFits, Spending, Drafting, CallsMade, InHand, CallsDue
<1>5. paid' = [paid EXCEPT ![r] = @ + Total(y.ledger) - InHand(y)]
  BY <1>1, <1>4 DEF CommitItem
<1>6. CallsDue(x) + 1 <= CallsDue(y)
  BY <1>3, <1>4
<1> QED
  BY <1>1, <1>2, <1>3, <1>4, <1>5, <1>6, BooksStep DEF CommitItem, y

LEMMA MaterializeStep ==
  ASSUME ConstantsAssumption, IInv, NEW r \in Runs, NEW s \in Slots, Materialize(r, s)
  PROVE  IInv'
<1> DEFINE y == work[r][s]
<1>1. /\ y \in Task /\ y.pc = "planned" /\ SlotFits(y) /\ Total(y.ledger) \in Nat
      /\ paid' = [paid EXCEPT ![r] = @ + Total(y.ledger)]
      /\ UNCHANGED << month, door, queue, born, atDoor, repeats >>
  BY SlotGoes DEF Materialize, At
<1>2. CASE y.job = "plan"
  <2> DEFINE x == [y EXCEPT !.pc = "fanning"]
  <2>1. Becomes(r, s, x) /\ AddUsage(r, y.ledger)
    BY <1>2 DEF Materialize, Goto
  <2>2. x \in Task /\ x.pc = "fanning"
    BY <1>1 DEF Task
  <2>3. SlotFits(x) /\ InHand(x) = 0 /\ ~Opening(x) /\ CallsDue(x) = MaxActivities
    BY <2>2 DEF SlotFits, Spending, Drafting, InHand, Opening, CallsDue
  <2> HIDE DEF x, y
  <2>4. Within(y.ledger, MaxDrafts + 2) /\ InHand(y) = 0 /\ CallsDue(y) = PlanCalls
    BY <1>1 DEF SlotFits, Spending, Drafting, CallsMade, InHand, CallsDue
  <2>5. paid' = [paid EXCEPT ![r] = @ + Total(y.ledger) - InHand(y)]
    <3>1. paid[r] + Total(y.ledger) - InHand(y) = paid[r] + Total(y.ledger)
      BY <1>1, <2>4, SlotGoes
    <3> QED
      BY <1>1, <3>1
  <2>6. CallsDue(x) + (MaxDrafts + 2) <= CallsDue(y) /\ MaxDrafts + 2 \in Nat
    BY <2>3, <2>4, CallsType
  <2> QED
    BY <1>1, <2>1, <2>2, <2>3, <2>4, <2>5, <2>6, BooksStep DEF y
<1>3. CASE y.job # "plan"
  <2> DEFINE x == [y EXCEPT !.pc = "unbooked"]
  <2>1. /\ Becomes(r, s, x) /\ UNCHANGED << cost, share >>
        /\ y.job = "request"
    BY <1>1, <1>3 DEF Materialize, Goto, SlotFits, Drafting, Task, Jobs
  <2>2. x \in Task /\ x.pc = "unbooked" /\ x.job = y.job /\ x.ledger = y.ledger
    BY <1>1 DEF Task
  <2> HIDE DEF x, y
  <2>3. SlotFits(x) /\ InHand(x) = Total(y.ledger) /\ Opening(y) /\ CallsDue(x) = CallsDue(y)
        /\ InHand(y) = 0
    BY <1>1, <2>1, <2>2
    DEF SlotFits, Spending, Drafting, InHand, Opening, CallsDue, CallsMade
  <2>4. /\ work' \in [Runs -> [Slots -> Task]] /\ work'[r][s] = x
        /\ \A z \in Runs \ {r} : work'[z] = work[z]
        /\ \A t \in Slots \ {s} : work'[r][t] = work[r][t]
    BY <2>1, <2>2, SlotBecomes DEF IInv
  <2>5. /\ paid' \in [Runs -> Nat] /\ paid'[r] = paid[r] + Total(y.ledger)
        /\ \A z \in Runs \ {r} : paid'[z] = paid[z]
    BY <1>1 DEF IInv, TypeOK
  <2>6. TypeOK'
    BY <1>1, <2>1, <2>4, <2>5 DEF IInv, TypeOK
  <2>7. SlotMoves(r, s)
    BY <1>1, <2>1, <2>4, <2>5 DEF SlotMoves, OthersStay
  <2>8. Early(work'[r], cost'[r], door'[r], queue'[r]) /\ cost[r] = 0
    <3>1. Early(work[r], cost[r], door[r], queue[r]) /\ Opening(work[r][s])
      BY <2>3, SlotGoes DEF y
    <3>2. Early(work'[r], cost[r], door[r], queue[r])
      BY <1>1, <2>4, <3>1, EarlyBusy DEF y
    <3>3. cost[r] = 0
      BY <3>1 DEF Early
    <3> QED
      BY <1>1, <2>1, <3>2, <3>3
  <2>9. Spends(r, 0)
    BY <1>1, <2>1, <2>8, SpendsNothing DEF IInv
  <2>10. Queued(door[r], queue'[r]) + CallsDue(work'[r][s]) + 0 + atDoor
           <= Queued(door[r], queue[r]) + CallsDue(work[r][s]) + atDoor'
    BY <1>1, <2>3, <2>4, SlotGoes DEF y
  <2>11. paid'[r] + cost[r] + InHand(work[r][s]) = paid[r] + cost'[r] + InHand(work'[r][s])
    BY <1>1, <2>1, <2>3, <2>4, <2>5, SlotGoes DEF y
  <2>12. /\ month' = month /\ door'[r] = door[r] /\ cost'[r] = Total(share'[r])
         /\ born'[r] <= month /\ SlotFits(work'[r][s])
    BY <1>1, <2>1, <2>3, <2>4, <2>5, SlotGoes
  <2> QED
    BY <2>6, <2>7, <2>8, <2>9, <2>10, <2>11, <2>12, SlotStep
<1> QED
  BY <1>2, <1>3

LEMMA FanOutStep ==
  ASSUME ConstantsAssumption, IInv, NEW r \in Runs, NEW s \in Slots, FanOut(r, s)
  PROVE  IInv'
<1> DEFINE y == work[r][s]
           x == [y EXCEPT !.pc = "ending"]
<1>1. PICK n \in 0 .. MaxActivities : queue' = [queue EXCEPT ![r]["item"] = @ + n]
  BY DEF FanOut
<1>2. /\ y \in Task /\ y.pc = "fanning" /\ Becomes(r, s, x) /\ n \in Nat /\ n <= MaxActivities
      /\ UNCHANGED << month, door, books, paid, atDoor, repeats >>
  BY SlotGoes, CallsType DEF FanOut, At, Goto
<1>3. x \in Task /\ x.pc = "ending"
  BY <1>2 DEF Task
<1>4. SlotFits(x) /\ InHand(x) = 0 /\ ~Opening(x) /\ CallsDue(x) = 0
  BY <1>3 DEF SlotFits, Spending, Drafting, InHand, Opening, CallsDue
<1> HIDE DEF x, y
<1>5. InHand(y) = 0 /\ CallsDue(y) = MaxActivities
  BY <1>2 DEF InHand, CallsDue, Drafting
<1>6. /\ work' \in [Runs -> [Slots -> Task]] /\ work'[r][s] = x
      /\ \A z \in Runs \ {r} : work'[z] = work[z]
      /\ \A t \in Slots \ {s} : work'[r][t] = work[r][t]
  BY <1>2, <1>3, SlotBecomes DEF IInv
<1>7. /\ queue' \in [Runs -> [Jobs -> Nat]] /\ \A z \in Runs \ {r} : queue'[z] = queue[z]
      /\ queue'[r] \in [Jobs -> Nat] /\ queue'[r]["item"] = queue[r]["item"] + n
      /\ \A j \in Jobs \ {"item"} : queue'[r][j] = queue[r][j]
  BY <1>1, <1>2 DEF IInv, TypeOK, Jobs
<1>8. TypeOK'
  BY <1>2, <1>6, <1>7 DEF IInv, TypeOK, books
<1>9. SlotMoves(r, s)
  BY <1>2, <1>6, <1>7 DEF SlotMoves, OthersStay, books
<1>10. Early(work'[r], cost'[r], door'[r], queue'[r])
  <2>1. Early(work[r], cost[r], door[r], queue[r]) /\ work[r][s].pc # "free"
    BY <1>2, SlotGoes DEF y
  <2>2. Early(work'[r], cost[r], door[r], queue'[r])
    BY <1>4, <1>6, <2>1, EarlyBusy
  <2> QED
    BY <1>2, <2>2 DEF books
<1>11. Spends(r, 0)
  BY <1>2, SpendsNothing DEF IInv, books
<1>12. Queued(door[r], queue'[r]) + CallsDue(work'[r][s]) + 0 + atDoor
         <= Queued(door[r], queue[r]) + CallsDue(work[r][s]) + atDoor'
  <2>1. Queued(door[r], queue'[r]) = Queued(door[r], queue[r]) + n
    <3> DEFINE q == queue[r]
               u == queue'[r]
    <3>1. q \in [Jobs -> Nat]
      BY SlotGoes
    <3>2. u \in [Jobs -> Nat] /\ u["item"] = q["item"] + n
          /\ \A i \in Jobs \ {"item"} : u[i] = q[i]
      BY <1>7
    <3> HIDE DEF q, u
    <3>3. Queued(door[r], u) = Queued(door[r], q) + n
      BY <1>2, <3>1, <3>2, QueuedItems
    <3> QED
      BY <3>3 DEF q, u
  <2> QED
    BY <1>2, <1>4, <1>5, <1>6, <2>1, SlotGoes, CallsType DEF y
<1>13. paid'[r] + cost[r] + InHand(work[r][s]) = paid[r] + cost'[r] + InHand(work'[r][s])
  BY <1>2, <1>4, <1>5, <1>6, SlotGoes DEF books, y
<1>14. /\ month' = month /\ door'[r] = door[r] /\ cost'[r] = Total(share'[r])
       /\ born'[r] <= month /\ SlotFits(work'[r][s])
  BY <1>2, <1>4, <1>6, SlotGoes DEF books
<1> QED
  BY <1>8, <1>9, <1>10, <1>11, <1>12, <1>13, <1>14, SlotStep

LEMMA SkipItemStep ==
  ASSUME ConstantsAssumption, IInv, NEW r \in Runs, SkipItem(r)
  PROVE  IInv'
<1>1. /\ queue[r]["item"] > 0 /\ queue' = [queue EXCEPT ![r]["item"] = @ - 1]
      /\ UNCHANGED << month, door, work, books, paid, atDoor, repeats >>
  BY DEF SkipItem
<1>2. /\ queue' \in [Runs -> [Jobs -> Nat]] /\ \A z \in Runs \ {r} : queue'[z] = queue[z]
      /\ queue'[r] \in [Jobs -> Nat] /\ queue'[r]["item"] = queue[r]["item"] - 1
      /\ \A j \in Jobs \ {"item"} : queue'[r][j] = queue[r][j]
  BY <1>1 DEF IInv, TypeOK, Jobs
<1>3. TypeOK' /\ OthersStay(r) /\ born'[r] <= month /\ month' = month
  BY <1>1, <1>2 DEF IInv, TypeOK, OthersStay, books, RunsFit
<1>4. RunFits(work'[r], cost'[r], share'[r], paid'[r], door'[r], queue'[r])
  <2>1. RunFits(work[r], cost[r], share[r], paid[r], door[r], queue[r])
    BY DEF IInv, RunsFit
  <2>2. Early(work[r], cost[r], door[r], queue'[r])
    <3>1. queue[r]["item"] # 0
      BY <1>1 DEF IInv, TypeOK
    <3> QED
      BY <2>1, <3>1 DEF RunFits, Early
  <2> QED
    BY <1>1, <2>1, <2>2 DEF RunFits, books
<1>5. Due(r)' <= Due(r) /\ Due(r)' \in Nat /\ Due(r) \in Nat
  <2> DEFINE q == queue[r]
             u == queue'[r]
  <2>1. q \in [Jobs -> Nat] /\ "item" \in Jobs
    BY DEF IInv, TypeOK, Jobs
  <2>2. u \in [Jobs -> Nat] /\ q["item"] > 0 /\ u["item"] = q["item"] - 1
        /\ \A i \in Jobs \ {"item"} : u[i] = q[i]
    BY <1>1, <1>2
  <2> HIDE DEF q, u
  <2>3. Queued(door[r], u) + CallsOf("item") = Queued(door[r], q)
    BY <2>1, <2>2, QueuedLess
  <2>4. CallsOf("item") = 1 /\ Queued(door[r], u) \in Nat
    BY <2>2, QueuedType DEF CallsOf
  <2>5. Calls(work[r]) \in Nat
    BY HandsType DEF IInv, TypeOK
  <2>6. Due(r) = Queued(door[r], q) + Calls(work[r])
        /\ Due(r)' = Queued(door[r], u) + Calls(work[r])
    BY <1>1, DueIs DEF q, u
  <2> QED
    BY <2>3, <2>4, <2>5, <2>6
<1>6. Spends(r, 0)
  BY <1>1, SpendsNothing DEF IInv, books
<1>7. Due(r)' + 0 + atDoor <= Due(r) + atDoor'
  BY <1>1, <1>5 DEF IInv, TypeOK
<1> QED
  BY <1>3, <1>4, <1>6, <1>7, RunStep

LEMMA BeginStep ==
  ASSUME ConstantsAssumption, IInv, NEW r \in Runs, Begin(r)
  PROVE  IInv'
<1>1. /\ door[r] = "admitted" /\ door' = [door EXCEPT ![r] = "open"]
      /\ born' = [born EXCEPT ![r] = month] /\ queue' = [queue EXCEPT ![r]["plan"] = @ + 1]
      /\ UNCHANGED << month, work, cost, share, paid, atDoor, repeats >>
  BY DEF Begin
<1>2. /\ queue' \in [Runs -> [Jobs -> Nat]] /\ \A z \in Runs \ {r} : queue'[z] = queue[z]
      /\ queue'[r] \in [Jobs -> Nat] /\ queue'[r]["plan"] = queue[r]["plan"] + 1
      /\ \A j \in Jobs \ {"plan"} : queue'[r][j] = queue[r][j]
  BY <1>1 DEF IInv, TypeOK, Jobs
<1>3. TypeOK' /\ OthersStay(r) /\ born'[r] = month /\ month' = month /\ door'[r] = "open"
      /\ born'[r] <= month
  BY <1>1, <1>2 DEF IInv, TypeOK, OthersStay
<1>4. RunFits(work[r], cost[r], share[r], paid[r], door[r], queue[r])
  BY DEF IInv, RunsFit
<1>5. RunFits(work'[r], cost'[r], share'[r], paid'[r], door'[r], queue'[r]) /\ cost[r] = 0
  BY <1>1, <1>3, <1>4 DEF RunFits, Early, Opening, Drafting
<1>6. Due(r)' = Due(r) /\ Due(r) \in Nat
  <2> DEFINE q == queue[r]
             u == queue'[r]
             n == 1
  <2>1. q \in [Jobs -> Nat] /\ "plan" \in Jobs /\ n \in Nat /\ n * CallsOf("plan") = PlanCalls
    BY CallsType DEF IInv, TypeOK, Jobs, CallsOf
  <2>2. u \in [Jobs -> Nat] /\ u["plan"] = q["plan"] + n
        /\ \A i \in Jobs \ {"plan"} : u[i] = q[i]
    BY <1>2
  <2> HIDE DEF q, u, n
  <2>3. Queued("open", u) = Queued("open", q) + n * CallsOf("plan")
    BY <2>1, <2>2, QueuedMore
  <2>4. Queued("admitted", q) = Queued("open", q) + PlanCalls
    BY <2>1, QueuedType
  <2>5. Due(r) = Queued("admitted", q) + Calls(work[r])
        /\ Due(r)' = Queued("open", u) + Calls(work[r])
    BY <1>1, <1>3, DueIs DEF q, u
  <2>6. Due(r) \in Nat
    BY LoadType DEF IInv
  <2> QED
    BY <2>1, <2>3, <2>4, <2>5, <2>6
<1>7. Spends(r, 0)
  BY <1>1, <1>5, SpendsNothing DEF IInv
<1>8. Due(r)' + 0 + atDoor <= Due(r) + atDoor'
  BY <1>1, <1>6 DEF IInv, TypeOK
<1> QED
  BY <1>3, <1>5, <1>7, <1>8, RunStep

LEMMA BreakStep ==
  ASSUME ConstantsAssumption, IInv, NEW r \in Runs, NEW s \in Slots, Break(r, s)
  PROVE  IInv'
<1> DEFINE y == work[r][s]
           j == y.job
           lost == IF y.pc = "answered" THEN Total(y.ledger) ELSE 0
<1>1. PICK left \in 0 .. 2 :
        LET again == IF Undone(y) /\ left > 0 THEN left - 1 ELSE left IN
        /\ repeats' = repeats + again
        /\ atDoor' = atDoor + again * CallsOf(j)
        /\ queue' = [queue EXCEPT ![r][j] = @ + left]
  BY Zenon DEF Break
<1> DEFINE again == IF Undone(y) /\ left > 0 THEN left - 1 ELSE left
<1>2. /\ y \in Task /\ y.pc # "free" /\ j \in Jobs /\ SlotFits(y)
      /\ left \in Nat /\ again \in Nat /\ Becomes(r, s, Free)
      /\ repeats' = repeats + again /\ atDoor' = atDoor + again * CallsOf(j)
      /\ queue' = [queue EXCEPT ![r][j] = @ + left]
      /\ paid' = [paid EXCEPT ![r] = @ - lost]
      /\ UNCHANGED << month, door, books >>
  <2>1. y.pc # "free" /\ j \in Jobs /\ Becomes(r, s, Free)
        /\ paid' = [paid EXCEPT ![r] = @ - lost] /\ UNCHANGED << month, door, books >>
    BY Zenon DEF Break
  <2>2. y \in Task /\ SlotFits(y)
    BY SlotGoes
  <2>3. left \in Nat /\ again \in Nat
    OBVIOUS
  <2>4. repeats' = repeats + again /\ atDoor' = atDoor + again * CallsOf(j)
        /\ queue' = [queue EXCEPT ![r][j] = @ + left]
    BY <1>1, Zenon
  <2> HIDE DEF y, j, lost, again
  <2> QED
    BY <2>1, <2>2, <2>3, <2>4
<1>3. /\ lost = InHand(y) /\ lost \in Nat
      /\ Undone(y) => CallsDue(y) = CallsOf(j)
  <2>1. Total(y.ledger) \in Nat
    BY SlotGoes
  <2> HIDE DEF y
  <2> QED
    BY <1>2, <2>1 DEF SlotFits, InHand, CallsDue, CallsOf, Undone, Drafting, Jobs
<1>4. (Undone(y) /\ left > 0 /\ left = again + 1) \/ left = again \/ (left = 0 /\ again = 0)
  BY <1>2
<1> DEFINE more == again * CallsOf(j)
<1> HIDE DEF y, lost, again, j
<1>5. /\ work' \in [Runs -> [Slots -> Task]] /\ work'[r][s] = Free
      /\ \A z \in Runs \ {r} : work'[z] = work[z]
      /\ \A t \in Slots \ {s} : work'[r][t] = work[r][t]
  BY <1>2, FreeSlot, SlotBecomes DEF IInv
<1>6. /\ queue' \in [Runs -> [Jobs -> Nat]] /\ \A z \in Runs \ {r} : queue'[z] = queue[z]
      /\ queue'[r] \in [Jobs -> Nat] /\ queue'[r][j] = queue[r][j] + left
      /\ \A i \in Jobs \ {j} : queue'[r][i] = queue[r][i]
  BY <1>2 DEF IInv, TypeOK
<1>7. lost <= paid[r]
  <2>1. work[r] \in [Slots -> Task] /\ work'[r] \in [Slots -> Task]
    BY <1>5, SlotGoes
  <2>2. /\ Hands(work'[r]) + InHand(work[r][s]) = Hands(work[r]) + InHand(work'[r][s])
        /\ Hands(work'[r]) \in Nat /\ Hands(work[r]) \in Nat
    BY <1>5, <2>1, SlotChanges, HandsType
  <2>3. InHand(work'[r][s]) = 0 /\ paid[r] = cost[r] + Hands(work[r]) /\ cost[r] \in Nat
    BY <1>5, FreeSlot, SlotGoes
  <2> QED
    BY <1>3, <2>2, <2>3 DEF y
<1>8. /\ paid' \in [Runs -> Nat] /\ paid'[r] = paid[r] - lost
      /\ \A z \in Runs \ {r} : paid'[z] = paid[z]
  BY <1>2, <1>3, <1>7 DEF IInv, TypeOK
<1>9. more \in Nat /\ atDoor' = atDoor + more
  <2>1. CallsOf(j) \in Nat
    BY <1>2, CallsType
  <2> QED
    BY <1>2, <2>1
<1> HIDE DEF more
<1>10. TypeOK'
  BY <1>2, <1>5, <1>6, <1>8, <1>9 DEF IInv, TypeOK, books
<1>11. SlotMoves(r, s)
  BY <1>2, <1>5, <1>6, <1>8 DEF SlotMoves, OthersStay, books
<1>12. Early(work'[r], cost'[r], door'[r], queue'[r])
  <2>1. Early(work[r], cost[r], door[r], queue[r]) /\ work[r][s].pc # "free"
    BY <1>2, SlotGoes DEF y
  <2>2. Early(work'[r], cost[r], door[r], queue'[r])
    BY <1>5, <2>1, FreeSlot, EarlyBusy
  <2> QED
    BY <1>2, <2>2 DEF books
<1>13. Spends(r, 0)
  BY <1>2, SpendsNothing DEF IInv, books
<1>14. Queued(door[r], queue'[r]) + CallsDue(work'[r][s]) + 0 + atDoor
         <= Queued(door[r], queue[r]) + CallsDue(work[r][s]) + atDoor'
  <2> DEFINE q == queue[r]
             u == queue'[r]
             c == CallsOf(j)
  <2>1. q \in [Jobs -> Nat] /\ c \in Nat
    BY <1>2, SlotGoes, CallsType
  <2>2. u \in [Jobs -> Nat] /\ u[j] = q[j] + left /\ \A i \in Jobs \ {j} : u[i] = q[i]
    BY <1>6
  <2> HIDE DEF q, u
  <2>3. Queued(door[r], u) = Queued(door[r], q) + left * c /\ left * c \in Nat
    BY <1>2, <2>1, <2>2, QueuedMore
  <2>4. left * c <= CallsDue(y) + more
    <3>1. CASE Undone(y) /\ left = again + 1
      <4>1. CallsDue(y) = c
        BY <1>3, <3>1
      <4> HIDE DEF c
      <4>2. left * c = again * c + c
        BY <1>2, <2>1, <3>1
      <4>3. again * c \in Nat
        BY <1>2, <2>1
      <4> QED
        BY <2>1, <4>1, <4>2, <4>3 DEF more, c
    <3>2. CASE left = again
      <4>1. left * c = more
        BY <3>2 DEF more
      <4> QED
        BY <1>9, <4>1, CallsType
    <3> QED
      BY <1>4, <3>1, <3>2
  <2>5. /\ Queued(door[r], q) \in Nat /\ CallsDue(y) \in Nat /\ atDoor \in Nat
        /\ CallsDue(work'[r][s]) = 0
    BY <1>5, FreeSlot, SlotGoes DEF q, y
  <2> DEFINE e == left * c
  <2>6. e \in Nat /\ e <= CallsDue(y) + more /\ Queued(door[r], u) = Queued(door[r], q) + e
    BY <2>3, <2>4
  <2> HIDE DEF e
  <2>7. Queued(door[r], u) + CallsDue(work'[r][s]) + 0 + atDoor
          <= Queued(door[r], q) + CallsDue(y) + atDoor'
    BY <1>9, <2>5, <2>6
  <2> QED
    BY <2>7 DEF q, u, y
<1>15. paid'[r] + cost[r] + InHand(work[r][s]) = paid[r] + cost'[r] + InHand(work'[r][s])
  BY <1>2, <1>3, <1>5, <1>7, <1>8, FreeSlot, SlotGoes DEF books, y
<1>16. /\ month' = month /\ door'[r] = door[r] /\ cost'[r] = Total(share'[r])
       /\ born'[r] <= month /\ SlotFits(work'[r][s])
  BY <1>2, <1>5, FreeSlot, SlotGoes DEF books
<1> QED
  BY <1>10, <1>11, <1>12, <1>13, <1>14, <1>15, <1>16, SlotStep

LEMMA NextMonthStep ==
  ASSUME ConstantsAssumption, IInv, NextMonth
  PROVE  IInv'
<1>1. month' = month + 1 /\ atDoor' = AllDue /\ UNCHANGED << door, queue, work, books, paid, repeats >>
  BY DEF NextMonth
<1>2. TypeOK'
  BY <1>1, AllDueType DEF IInv, TypeOK, books
<1>3. RunsFit'
  <2> SUFFICES ASSUME NEW x \in Runs
               PROVE  /\ RunFits(work'[x], cost'[x], share'[x], paid'[x], door'[x], queue'[x])
                      /\ born'[x] <= month'
    BY DEF RunsFit
  <2>1. RunFits(work[x], cost[x], share[x], paid[x], door[x], queue[x]) /\ born[x] <= month
    BY DEF IInv, RunsFit
  <2>2. born[x] \in Nat /\ month \in Nat
    BY DEF IInv, TypeOK
  <2> QED
    BY <1>1, <2>1, <2>2 DEF books
<1>4. LoadIsBounded'
  <2> DEFINE D == DearestCall
             f == [x \in Runs |-> Due(x)]
             g == [x \in Runs |-> Load(x)']
  <2>1. D \in Nat /\ IsFiniteSet(Runs) /\ Limit \in Nat /\ Limit > 0
    BY DearestType DEF ConstantsAssumption
  <2>2. ASSUME NEW x \in Runs PROVE f[x] \in Nat /\ g[x] = f[x] * D
    <3>1. Due(x)' = Due(x) /\ Due(x) \in Nat
      BY <1>1, DueIs, LoadType DEF IInv
    <3>2. Spent(x)' = 0
      <4>1. born[x] <= month /\ born[x] \in Nat /\ month \in Nat
        BY DEF IInv, TypeOK, RunsFit
      <4>2. born'[x] # month'
        BY <1>1, <4>1 DEF books
      <4> QED
        BY <4>2 DEF Spent
    <3>3. Due(x) * D \in Nat
      BY LoadType DEF IInv
    <3> QED
      BY <3>1, <3>2, <3>3 DEF Load
  <2>3. SumOf(f, Runs) = AllDue
    BY DEF AllDue
  <2> HIDE DEF D, f, g
  <2>4. SumOf(g, Runs) = SumOf(f, Runs) * D
    BY <2>1, <2>2, SumTimes
  <2>5. SumOf(f, Runs) \in Nat
    BY <2>1, <2>2, SumType
  <2>6. SumOf(f, Runs) * D \in Nat
    BY <2>1, <2>5
  <2>7. SumOf(g, Runs) < Limit + atDoor' * D
    BY <1>1, <2>1, <2>3, <2>4, <2>6
  <2> QED
    BY <2>7 DEF LoadIsBounded, D, g
<1> QED
  BY <1>2, <1>3, <1>4 DEF IInv

LEMMA Inductive ==
  ASSUME ConstantsAssumption, IInv, [Next]_vars
  PROVE  IInv'
<1>1. CASE UNCHANGED vars
  <2>1. TypeOK' /\ RunsFit'
    BY <1>1 DEF IInv, TypeOK, RunsFit, vars, books
  <2>2. LoadIsBounded'
    <3>1. ASSUME NEW x \in Runs PROVE Load(x)' = Load(x)
      <4>1. Due(x)' = Due(x)
        BY <1>1, DueIs DEF vars
      <4> QED
        BY <1>1, <4>1 DEF Load, Spent, vars, books
    <3>2. [x \in Runs |-> Load(x)'] = [x \in Runs |-> Load(x)]
      BY <3>1
    <3>3. SumOf([x \in Runs |-> Load(x)'], Runs) < Limit + atDoor' * DearestCall
      BY <1>1, <3>2 DEF IInv, LoadIsBounded, vars
    <3> QED
      BY <3>3 DEF LoadIsBounded
  <2> QED
    BY <2>1, <2>2 DEF IInv
<1>2. CASE NextMonth
  BY <1>2, NextMonthStep
<1>3. ASSUME NEW r \in Runs, Refuse(r) \/ AskCreate(r) \/ Begin(r) \/ SkipItem(r)
      PROVE  IInv'
  BY <1>3, RefuseStep, AskCreateStep, BeginStep, SkipItemStep
<1>4. ASSUME NEW r \in Runs, NEW s \in Slots,
             \/ AskRetrigger(r, s) \/ TakePlan(r, s) \/ Draft(r, s) \/ Review(r, s)
             \/ Materialize(r, s) \/ BookDraft(r, s) \/ FanOut(r, s)
      PROVE  IInv'
  BY <1>4, AskRetriggerStep, TakePlanStep, DraftStep, ReviewStep, MaterializeStep, BookDraftStep,
     FanOutStep
<1>5. ASSUME NEW r \in Runs, NEW s \in Slots,
             \/ CallItem(r, s) \/ CommitItem(r, s) \/ End(r, s) \/ Break(r, s) \/ BreakOff(r, s)
      PROVE  IInv'
  BY <1>5, CallItemStep, CommitItemStep, EndStep, BreakStep, BreakOffStep
<1> QED
  BY <1>1, <1>2, <1>3, <1>4, <1>5 DEF Next

LEMMA IInvHolds ==
  ASSUME ConstantsAssumption, IInv
  PROVE  BudgetHolds
<1>1. OvershootIsDue
  <2> DEFINE D == DearestCall
             f == [r \in Runs |-> Spent(r)]
             g == [r \in Runs |-> Due(r) * D]
             h == [r \in Runs |-> Load(r)]
             more == atDoor * D
  <2>1. D \in Nat /\ IsFiniteSet(Runs) /\ Limit \in Nat /\ atDoor \in Nat
    BY DearestType DEF ConstantsAssumption, IInv, TypeOK
  <2>2. \A r \in Runs : f[r] \in Nat /\ g[r] \in Nat /\ h[r] = f[r] + g[r]
    BY LoadType DEF IInv, Load
  <2>3. SpendSince = SumOf(f, Runs)
    BY SpendIsSpent DEF IInv
  <2>4. SumOf(h, Runs) < Limit + more
    BY DEF IInv, LoadIsBounded
  <2>5. more \in Nat
    <3> HIDE DEF D
    <3> QED
      BY <2>1
  <2> HIDE DEF f, g, h, more
  <2>6. SumOf(h, Runs) = SumOf(f, Runs) + SumOf(g, Runs)
        /\ SumOf(f, Runs) \in Nat /\ SumOf(g, Runs) \in Nat
    BY <2>1, <2>2, SumPlus, SumType
  <2>7. SumOf(f, Runs) < Limit + more
    BY <2>1, <2>4, <2>5, <2>6
  <2> QED
    BY <2>3, <2>7 DEF OvershootIsDue, more, D
<1>2. LedgersAddUp
  <2> SUFFICES ASSUME NEW r \in Runs
               PROVE  cost[r] = Total(share[r]) /\ (Settled(r) => cost[r] = paid[r])
    BY DEF LedgersAddUp
  <2>1. cost[r] = Total(share[r]) /\ paid[r] = cost[r] + Hands(work[r]) /\ cost[r] \in Nat
    BY DEF IInv, RunsFit, RunFits, TypeOK
  <2>2. ASSUME Settled(r) PROVE Hands(work[r]) = 0
    <3> DEFINE f == [s \in Slots |-> InHand(work[r][s])]
    <3>1. \A s \in Slots : f[s] = 0
      BY <2>2 DEF Settled, InHand
    <3> HIDE DEF f
    <3>2. SumOf(f, Slots) = 0
      BY <3>1, SumOfZeros DEF ConstantsAssumption
    <3> QED
      BY <3>2 DEF f, Hands
  <2> QED
    BY <2>1, <2>2
<1> QED
  BY <1>1, <1>2 DEF BudgetHolds

\* Type correctness of MonthlyBudget, for any number of runs, slots and models, any prices.
THEOREM TypeCorrect ==
  ASSUME ConstantsAssumption
  PROVE  Spec => []TypeOK
<1>1. Init => IInv
  BY InitInv
<1>2. IInv /\ [Next]_vars => IInv'
  BY Inductive
<1>3. IInv => TypeOK
  BY DEF IInv
<1> QED
  BY <1>1, <1>2, <1>3, PTL DEF Spec

\* "A run that has started finishes" (service.py, ensure_budget): the month is overspent by
\* the calls that were due when the last generation was let in, or the month turned, and
\* by those of the work that came back since, a dearest call each, and by no more; and what
\* was paid for the work of a run is on its record, by model, as soon as nothing of it is in
\* hand.  Whatever is redelivered, retried and replayed, dies, or is taken at the same time.
THEOREM BudgetIsKept ==
  ASSUME ConstantsAssumption
  PROVE  Spec => []BudgetHolds
<1>1. Init => IInv
  BY InitInv
<1>2. IInv /\ [Next]_vars => IInv'
  BY Inductive
<1>3. IInv => BudgetHolds
  BY IInvHolds
<1> QED
  BY <1>1, <1>2, <1>3, PTL DEF Spec

-----------------------------------------------------------------------------
(* The calendar.                                                           *)

LEMMA CalendarCounts ==
  /\ \A S : Calendar!Cardinality(S) = Cardinality(S)
  /\ \A S : Calendar!IsFiniteSet(S) <=> IsFiniteSet(S)
<1>1. \A S : Calendar!IsFiniteSet(S) <=> IsFiniteSet(S)
  BY DEF IsFiniteSet, Calendar!IsFiniteSet
<1>2. \A S : Calendar!Cardinality(S) = Cardinality(S)
  BY DEF Cardinality, Calendar!Cardinality
<1>3. QED
  BY <1>1, <1>2

LEMMA DivisionSplits ==
  ASSUME NEW a \in Int, NEW b \in Int, b > 0, a >= 0
  PROVE  a = b * (a \div b) + (a % b)
  OBVIOUS

LEMMA Division ==
  ASSUME NEW a \in Nat, NEW b \in Nat \ {0}
  PROVE  a \div b \in Nat /\ a % b \in 0 .. b - 1 /\ a = b * (a \div b) + (a % b)
<1>1. a \in Int /\ b \in Int /\ b > 0 /\ a >= 0
  OBVIOUS
<1>2. a \div b \in Int /\ a \div b >= 0
  BY <1>1
<1>3. a % b \in 0 .. b - 1
  BY <1>1
<1>4. a = b * (a \div b) + (a % b)
  BY <1>1, DivisionSplits
<1>5. QED
  BY <1>2, <1>3, <1>4

LEMMA TimesAtLeast ==
  ASSUME NEW a \in Nat, NEW b \in Nat, NEW c \in Nat, a <= b
  PROVE  c * a \in Nat /\ c * b \in Nat /\ c * a <= c * b
  OBVIOUS

\* A rounded quotient does not exceed a whole that the quotient does not.
LEMMA RoundedWithin ==
  ASSUME NEW s \in Nat, NEW b \in Nat \ {0}, NEW a \in Nat, a <= b * s
  PROVE  Calendar!Rounded(a, b) \in 0 .. s
<1> DEFINE q == a \div b
           m == a % b
<1>1. q \in Nat /\ m \in 0 .. b - 1 /\ a = b * q + m
  BY Division
<1>2. Calendar!Rounded(a, b) = IF 2 * m < b \/ (2 * m = b /\ q % 2 = 0) THEN q ELSE q + 1
  BY DEF Calendar!Rounded
<1> HIDE DEF q, m
<1>3. q <= s
  <2>1. SUFFICES ASSUME s + 1 <= q PROVE FALSE
    BY <1>1
  <2>2. b * (s + 1) <= b * q
    BY <1>1, <2>1, TimesAtLeast
  <2>3. b * (s + 1) = b * s + b
    OBVIOUS
  <2>4. b * s \in Nat /\ b * q \in Nat
    BY <1>1
  <2>5. QED
    BY <1>1, <2>2, <2>3, <2>4
<1>4. q = s => m = 0
  <2>1. SUFFICES ASSUME q = s PROVE m = 0
    OBVIOUS
  <2>2. b * s \in Nat /\ a = b * s + m
    BY <1>1, <2>1
  <2>3. QED
    BY <1>1, <2>2
<1>5. CASE q = s
  BY <1>1, <1>2, <1>4, <1>5
<1>6. CASE q # s
  <2>1. q \in 0 .. s /\ q + 1 \in 0 .. s
    BY <1>1, <1>3, <1>6
  <2>2. QED
    BY <1>2, <2>1
<1>7. QED
  BY <1>5, <1>6

Whole(m) == m.first \in Int /\ m.last \in Int

\* The computed days lie in their module.
LEMMA SpreadWithin ==
  ASSUME NEW m, Whole(m), m.first <= m.last, NEW count \in Nat, NEW i \in 1 .. count
  PROVE  Calendar!Spread(m, count)[i] \in m.first .. m.last
<1>1. Calendar!Spread(m, count)[i] =
        IF count = 1 \/ m.last <= m.first THEN m.first
        ELSE m.first + Calendar!Rounded((m.last - m.first) * (i - 1), count - 1)
  BY DEF Calendar!Spread
<1>2. m.first \in Int /\ m.last \in Int
  BY DEF Whole
<1>3. CASE count = 1 \/ m.last <= m.first
  BY <1>1, <1>2, <1>3
<1>4. CASE ~(count = 1 \/ m.last <= m.first)
  <2> DEFINE s == m.last - m.first
             b == count - 1
             a == s * (i - 1)
  <2>1. s \in Nat /\ b \in Nat \ {0} /\ i - 1 \in Nat /\ i - 1 <= b
    BY <1>2, <1>4
  <2> DEFINE k == i - 1
  <2> HIDE DEF s, b, k
  <2>2. s * k \in Nat /\ s * k <= s * b /\ s * b = b * s
    BY <2>1, TimesAtLeast DEF k
  <2>3. a = s * k
    BY DEF k
  <2> HIDE DEF a
  <2>4. Calendar!Rounded(a, b) \in 0 .. s
    BY <2>1, <2>2, <2>3, RoundedWithin
  <2>5. Calendar!Spread(m, count)[i] = m.first + Calendar!Rounded(a, b)
    BY <1>1, <1>4 DEF a, b, s
  <2>6. QED
    BY <1>2, <2>4, <2>5 DEF s
<1>5. QED
  BY <1>3, <1>4

LEMMA ResolvedWithin ==
  ASSUME NEW m, Whole(m), m.first <= m.last, NEW planned \in Seq(Int)
  PROVE  /\ DOMAIN Calendar!Resolved(m, planned) = 1 .. Len(planned)
         /\ \A i \in 1 .. Len(planned) :
              /\ Calendar!Resolved(m, planned)[i] \in m.first .. m.last
              /\ planned[i] \in m.first .. m.last => Calendar!Resolved(m, planned)[i] = planned[i]
<1>1. Calendar!Resolved(m, planned) =
        [i \in 1 .. Len(planned) |->
           IF Calendar!Usable(m, planned[i]) THEN planned[i]
           ELSE Calendar!Spread(m, Len(planned))[i]]
  BY DEF Calendar!Resolved
<1>2. m.first \in Int /\ m.last \in Int /\ Len(planned) \in Nat
  BY DEF Whole
<1>3. ASSUME NEW i \in 1 .. Len(planned)
      PROVE  /\ Calendar!Resolved(m, planned)[i] \in m.first .. m.last
             /\ planned[i] \in m.first .. m.last => Calendar!Resolved(m, planned)[i] = planned[i]
  <2>1. planned[i] \in Int
    OBVIOUS
  <2>2. Calendar!Usable(m, planned[i]) <=> planned[i] \in m.first .. m.last
    BY <1>2, <2>1 DEF Calendar!Usable
  <2>3. Calendar!Spread(m, Len(planned))[i] \in m.first .. m.last
    BY <1>2, SpreadWithin
  <2>4. QED
    BY <1>1, <2>2, <2>3
<1>4. QED
  BY <1>1, <1>3

\* The items of a module are in order, each on a day of it, and where the planner put it if it
\* could be.
LEMMA ScheduleIsRight ==
  ASSUME NEW m, Whole(m), m.first <= m.last, NEW planned \in Seq(Int),
         NEW s \in Calendar!Schedule(m, planned)
  PROVE  /\ s \in Seq(Int) /\ Len(s) = Len(planned)
         /\ \A i \in DOMAIN s : s[i] \in m.first .. m.last
         /\ \A i \in 1 .. Len(s) - 1 : s[i] <= s[i + 1]
         /\ \A d \in m.first .. m.last : Calendar!Times(d, planned) <= Calendar!Times(d, s)
<1> DEFINE resolved == Calendar!Resolved(m, planned)
           n == Len(planned)
<1>1. /\ DOMAIN resolved = 1 .. n
      /\ \A i \in 1 .. n :
              /\ resolved[i] \in m.first .. m.last
              /\ planned[i] \in m.first .. m.last => resolved[i] = planned[i]
  BY ResolvedWithin
<1>2. s \in Calendar!Sorted(resolved)
  BY DEF Calendar!Schedule
<1>3. n \in Nat /\ DOMAIN planned = 1 .. n
  OBVIOUS
<1> HIDE DEF resolved, n
<1>4. /\ s \in [1 .. n -> Calendar!ToSet(resolved)]
      /\ \A d \in Calendar!ToSet(resolved) : Calendar!Times(d, s) = Calendar!Times(d, resolved)
      /\ \A i, j \in DOMAIN s : i < j => s[i] <= s[j]
  BY <1>1, <1>2 DEF Calendar!Sorted
<1>5. m.first .. m.last \subseteq Int
  BY DEF Whole
<1>6. Calendar!ToSet(resolved) \subseteq m.first .. m.last
  BY <1>1 DEF Calendar!ToSet
<1>7. s \in [1 .. n -> Int] /\ \A i \in 1 .. n : s[i] \in m.first .. m.last
  BY <1>4, <1>5, <1>6
<1>8. s \in Seq(Int) /\ Len(s) = n /\ DOMAIN s = 1 .. n
  BY <1>3, <1>7, SeqDef, LenProperties
<1>9. \A i \in 1 .. n - 1 : s[i] <= s[i + 1]
  BY <1>3, <1>4, <1>8
<1>10. ASSUME NEW d \in m.first .. m.last PROVE Calendar!Times(d, planned) <= Calendar!Times(d, s)
  <2> DEFINE P == {i \in 1 .. n : planned[i] = d}
             R == {i \in 1 .. n : resolved[i] = d}
             D == {i \in 1 .. n : s[i] = d}
  <2>1. /\ Calendar!Times(d, planned) = Cardinality(P)
        /\ Calendar!Times(d, resolved) = Cardinality(R)
        /\ Calendar!Times(d, s) = Cardinality(D)
    BY <1>1, <1>3, <1>8, CalendarCounts DEF Calendar!Times
  <2>2. IsFiniteSet(1 .. n)
    BY <1>3, FS_Interval
  <2>3. IsFiniteSet(R) /\ IsFiniteSet(D) /\ Cardinality(D) \in Nat
    BY <2>2, FS_Subset, FS_CardinalityType
  <2>4. P \subseteq R
    BY <1>1
  <2> HIDE DEF P, R, D
  <2>5. CASE d \in Calendar!ToSet(resolved)
    <3>1. Cardinality(P) <= Cardinality(R)
      BY <2>3, <2>4, FS_Subset
    <3>2. QED
      BY <1>4, <2>1, <2>5, <3>1
  <2>6. CASE d \notin Calendar!ToSet(resolved)
    <3>1. R = {}
      BY <1>1, <2>6 DEF R, Calendar!ToSet
    <3>2. Cardinality(P) = 0
      BY <2>4, <3>1, FS_EmptySet
    <3>3. QED
      BY <2>1, <2>3, <3>2
  <2>7. QED
    BY <2>5, <2>6
<1>11. QED
  BY <1>7, <1>8, <1>9, <1>10 DEF n

\* The length of all modules but the last.
Slice == Calendar!Step + 1

\* The last day of the k-th module, unless the plan is over before it or the module is the last.
EndOf(k) == FirstDay + k * Slice - 1

CalendarShape ==
  /\ ends \in LastDays /\ size \in 1 .. MaxModules /\ placed \in 0 .. size
  /\ before \in Calendar!Period /\ module \in Calendar!Period
  /\ dates \in Seq(Calendar!Days) /\ Len(dates) \in 0 .. MaxItems
  /\ days \in Seq(Calendar!Days)

CalendarInv ==
  /\ CalendarShape
  /\ 0 < placed /\ placed < size =>
       module.last = IF ends < EndOf(placed) THEN ends ELSE EndOf(placed)
  /\ Calendar!EveryItemHasItsDay

LEMMA SliceType ==
  ASSUME Calendar!ConstantsAssumption, CalendarShape
  PROVE  /\ FirstDay \in Int /\ ends \in Int /\ size \in Nat \ {0} /\ placed \in Nat
         /\ Slice \in Nat \ {0} /\ Calendar!Step = Slice - 1
<1>1. /\ FirstDay \in Int /\ ends \in Int /\ size \in Nat \ {0} /\ placed \in Nat
      /\ MaxModules \in Nat
  BY DEF Calendar!ConstantsAssumption, CalendarShape
<1> DEFINE a == Calendar!Later(ends - FirstDay, 0) + 1
<1>2. a \in Nat
  BY <1>1 DEF Calendar!Later
<1> HIDE DEF a
<1>3. a \div size \in Nat
  BY <1>1, <1>2, Division
<1>4. Calendar!Step = (IF 1 < a \div size THEN a \div size ELSE 1) - 1
  BY DEF Calendar!Step, Calendar!Later, a
<1>5. QED
  BY <1>1, <1>3, <1>4 DEF Slice

\* The modules before the last one leave a day over, if there are not more modules than days.
LEMMA LastModuleHasADay ==
  ASSUME Calendar!ConstantsAssumption, CalendarShape, FirstDay <= ends,
         NEW k \in Nat, k < size, size <= ends - FirstDay + 1
  PROVE  EndOf(k) < ends
<1>1. /\ FirstDay \in Int /\ ends \in Int /\ size \in Nat \ {0}
      /\ Slice \in Nat \ {0} /\ Calendar!Step = Slice - 1
  BY SliceType
<1> DEFINE a == ends - FirstDay + 1
           q == a \div size
<1>2. a \in Nat /\ Calendar!Later(ends - FirstDay, 0) + 1 = a
  BY <1>1 DEF Calendar!Later
<1>3. q \in Nat /\ a % size \in 0 .. size - 1 /\ a = size * q + (a % size)
  BY <1>1, <1>2, Division
<1>4. Slice = IF 1 < q THEN q ELSE 1
  BY <1>1, <1>2 DEF Slice, Calendar!Step, Calendar!Later
<1> HIDE DEF q
<1>5. q >= 1
  <2>1. q = 0 => size * q = 0
    BY <1>1
  <2>2. QED
    BY <1>1, <1>2, <1>3, <2>1
<1>6. Slice = q
  BY <1>3, <1>4, <1>5
<1>7. q * (k + 1) <= q * size /\ q * size \in Nat /\ q * size = size * q
  BY <1>1, <1>3, TimesAtLeast
<1>8. q * (k + 1) = k * q + q
  BY <1>3
<1>9. k * q \in Nat /\ size * q <= a
  BY <1>1, <1>3
<1>10. EndOf(k) = FirstDay + k * q - 1
  BY <1>6 DEF EndOf
<1> HIDE DEF a
<1>11. k * q + 1 <= a
  BY <1>2, <1>3, <1>5, <1>7, <1>8, <1>9
<1>12. QED
  BY <1>1, <1>9, <1>10, <1>11 DEF a

LEMMA PeriodType ==
  ASSUME Calendar!ConstantsAssumption, CalendarShape, NEW a \in Int, NEW b \in Int,
         Calendar!Earlier(FirstDay, ends) - 1 <= a, a <= Calendar!Later(FirstDay, ends) + 1,
         Calendar!Earlier(FirstDay, ends) - 1 <= b, b <= Calendar!Later(FirstDay, ends) + 1
  PROVE  [first |-> a, last |-> b] \in Calendar!Period
<1>1. FirstDay \in Int /\ ends \in LastDays /\ ends \in Int
  BY DEF Calendar!ConstantsAssumption, CalendarShape
<1>2. a \in Calendar!Earlier(FirstDay, ends) - 1 .. Calendar!Later(FirstDay, ends) + 1
  BY <1>1 DEF Calendar!Earlier, Calendar!Later
<1>3. b \in Calendar!Earlier(FirstDay, ends) - 1 .. Calendar!Later(FirstDay, ends) + 1
  BY <1>1 DEF Calendar!Earlier, Calendar!Later
<1>4. a \in Calendar!Days /\ b \in Calendar!Days
  BY <1>1, <1>2, <1>3 DEF Calendar!Days
<1>5. QED
  BY <1>4 DEF Calendar!Period

LEMMA DaysAreNumbers ==
  ASSUME Calendar!ConstantsAssumption
  PROVE  Calendar!Days \subseteq Int
<1>1. SUFFICES ASSUME NEW last \in LastDays,
                      NEW d \in Calendar!Earlier(FirstDay, last) - 1 ..
                                  Calendar!Later(FirstDay, last) + 1
               PROVE  d \in Int
  BY DEF Calendar!Days
<1>2. FirstDay \in Int /\ last \in Int
  BY DEF Calendar!ConstantsAssumption
<1>3. QED
  BY <1>2 DEF Calendar!Earlier, Calendar!Later

\* The next period.
LEMMA SplitIsRight ==
  ASSUME Calendar!ConstantsAssumption, CalendarInv, placed < size,
         NEW m, m = Calendar!Split(placed + 1, module)
  PROVE  /\ m.first \in Calendar!Start .. ends /\ m.last \in m.first .. ends
         /\ placed = 0 => m.first = Calendar!Start
         /\ placed + 1 = size => m.last = ends
         /\ placed > 0 => \/ m.first = module.last + 1
                          \/ m.first = ends /\ size > ends - Calendar!Start + 1
         /\ placed + 1 < size =>
              m.last = IF ends < EndOf(placed + 1) THEN ends ELSE EndOf(placed + 1)
<1> DEFINE k == placed + 1
           start == Calendar!Start
           cursor == IF k = 1 THEN FirstDay ELSE Calendar!Earlier(ends, module.last + 1)
           first  == Calendar!Earlier(cursor, ends)
           last   == IF k = size THEN ends ELSE Calendar!Earlier(ends, cursor + Calendar!Step)
<1>1. /\ FirstDay \in Int /\ ends \in Int /\ size \in Nat \ {0} /\ placed \in Nat
      /\ Slice \in Nat \ {0} /\ Calendar!Step = Slice - 1
  BY SliceType DEF CalendarInv
<1>s. start = IF FirstDay <= ends THEN FirstDay ELSE ends
  BY <1>1 DEF Calendar!Start, Calendar!Earlier
<1>2. m = [first |-> first, last |-> Calendar!Later(first, last)]
  BY DEF Calendar!Split
<1>3. module.last \in Int
  BY DaysAreNumbers DEF CalendarInv, CalendarShape, Calendar!Period
<1>4. /\ EndOf(placed) \in Int /\ EndOf(k) \in Int /\ EndOf(k) = EndOf(placed) + Slice
      /\ EndOf(0) = FirstDay - 1
  <2>1. placed * Slice \in Nat /\ (placed + 1) * Slice = placed * Slice + Slice /\ 0 * Slice = 0
    BY <1>1
  <2>2. QED
    BY <1>1, <2>1 DEF EndOf
<1>5. placed > 0 =>
        /\ module.last = IF ends < EndOf(placed) THEN ends ELSE EndOf(placed)
        /\ start <= module.last /\ module.last <= ends
  <2>1. placed > 0 => start <= module.first /\ module.first <= module.last
                        /\ module.last <= ends
    BY DEF CalendarInv, Calendar!EveryItemHasItsDay
  <2>2. module.first \in Int
    BY DaysAreNumbers DEF CalendarInv, CalendarShape, Calendar!Period
  <2> HIDE DEF start
  <2>3. QED
    BY <1>1, <1>s, <1>3, <2>1, <2>2 DEF CalendarInv
<1> HIDE DEF start
<1>6. /\ cursor \in Int /\ first \in start .. ends
      /\ placed = 0 => cursor = FirstDay /\ first = start
      /\ placed > 0 =>
           /\ first = cursor
           /\ cursor = IF ends < EndOf(placed) + 1 THEN ends ELSE EndOf(placed) + 1
  BY <1>1, <1>s, <1>3, <1>4, <1>5 DEF Calendar!Earlier
<1>7. /\ last \in first .. ends /\ (k = size => last = ends)
      /\ k # size => last = IF ends < cursor + Slice - 1 THEN ends ELSE cursor + Slice - 1
  <2>1. first <= cursor /\ first <= ends
    BY <1>1, <1>6 DEF Calendar!Earlier
  <2> HIDE DEF cursor, first
  <2>2. QED
    BY <1>1, <1>s, <1>6, <2>1 DEF Calendar!Earlier
<1> HIDE DEF cursor, last, first
<1>8. m.first = first /\ m.last = last
  BY <1>1, <1>s, <1>2, <1>6, <1>7 DEF Calendar!Later
<1>9. placed > 0 => \/ first = module.last + 1
                    \/ first = ends /\ size > ends - start + 1
  <2>1. SUFFICES ASSUME placed > 0, first # module.last + 1
                 PROVE  first = ends /\ size > ends - start + 1
    OBVIOUS
  <2>2. first = ends /\ ~(EndOf(placed) < ends)
    BY <1>1, <1>4, <1>5, <1>6, <2>1
  <2>3. ~(FirstDay <= ends /\ size <= ends - FirstDay + 1)
    BY <1>1, <2>2, LastModuleHasADay DEF CalendarInv
  <2>4. QED
    BY <1>1, <1>s, <2>1, <2>2, <2>3
<1>10. k < size => last = IF ends < EndOf(k) THEN ends ELSE EndOf(k)
  BY <1>1, <1>4, <1>6, <1>7
<1>11. QED
  BY <1>1, <1>s, <1>6, <1>7, <1>8, <1>9, <1>10 DEF start

\* The days have no gap.
LEMMA DaysAreDense ==
  ASSUME Calendar!ConstantsAssumption, NEW d \in Calendar!Days, NEW e \in Calendar!Days,
         NEW x \in Int, d <= x, x <= e
  PROVE  x \in Calendar!Days
<1>1. PICK l1 \in LastDays :
        d \in Calendar!Earlier(FirstDay, l1) - 1 .. Calendar!Later(FirstDay, l1) + 1
  BY DEF Calendar!Days
<1>2. PICK l2 \in LastDays :
        e \in Calendar!Earlier(FirstDay, l2) - 1 .. Calendar!Later(FirstDay, l2) + 1
  BY DEF Calendar!Days
<1>3. FirstDay \in Int /\ l1 \in Int /\ l2 \in Int
  BY DEF Calendar!ConstantsAssumption
<1>4. CASE x <= FirstDay
  <2>1. x \in Calendar!Earlier(FirstDay, l1) - 1 .. Calendar!Later(FirstDay, l1) + 1
    BY <1>1, <1>3, <1>4 DEF Calendar!Earlier, Calendar!Later
  <2>2. QED
    BY <2>1 DEF Calendar!Days
<1>5. CASE ~(x <= FirstDay)
  <2>1. x \in Calendar!Earlier(FirstDay, l2) - 1 .. Calendar!Later(FirstDay, l2) + 1
    BY <1>2, <1>3, <1>5 DEF Calendar!Earlier, Calendar!Later
  <2>2. QED
    BY <2>1 DEF Calendar!Days
<1>6. QED
  BY <1>4, <1>5

LEMMA EndsAreDays ==
  ASSUME Calendar!ConstantsAssumption, NEW last \in LastDays
  PROVE  FirstDay \in Calendar!Days /\ last \in Calendar!Days
<1>1. FirstDay \in Int /\ last \in Int
  BY DEF Calendar!ConstantsAssumption
<1>2. /\ FirstDay \in Calendar!Earlier(FirstDay, last) - 1 .. Calendar!Later(FirstDay, last) + 1
      /\ last \in Calendar!Earlier(FirstDay, last) - 1 .. Calendar!Later(FirstDay, last) + 1
  BY <1>1 DEF Calendar!Earlier, Calendar!Later
<1>3. QED
  BY <1>2 DEF Calendar!Days

\* The next period, whatever the plan.
LEMMA SplitType ==
  ASSUME Calendar!ConstantsAssumption, CalendarShape, placed < size
  PROVE  /\ Calendar!Split(placed + 1, module) \in Calendar!Period
         /\ Calendar!Split(placed + 1, module).first <= Calendar!Split(placed + 1, module).last
<1> DEFINE k == placed + 1
           cursor == IF k = 1 THEN FirstDay ELSE Calendar!Earlier(ends, module.last + 1)
           first  == Calendar!Earlier(cursor, ends)
           last   == IF k = size THEN ends ELSE Calendar!Earlier(ends, cursor + Calendar!Step)
           low    == IF k = 1 THEN FirstDay ELSE module.last
<1>1. /\ FirstDay \in Int /\ ends \in Int /\ size \in Nat \ {0} /\ placed \in Nat
      /\ Slice \in Nat \ {0} /\ Calendar!Step = Slice - 1
  BY SliceType
<1>2. Calendar!Split(placed + 1, module) = [first |-> first, last |-> Calendar!Later(first, last)]
  BY DEF Calendar!Split
<1>3. /\ low \in Calendar!Days /\ ends \in Calendar!Days /\ module.last \in Calendar!Days
      /\ Calendar!Days \subseteq Int
  BY EndsAreDays, DaysAreNumbers DEF CalendarShape, Calendar!Period
<1>4. /\ cursor \in Int /\ first \in Int /\ first <= ends
      /\ first = ends \/ low <= first
  <2>1. module.last \in Int /\ low \in Int /\ ends \in Int /\ FirstDay \in Int
    BY <1>1, <1>3
  <2>2. cursor = IF k = 1 THEN low ELSE IF ends < low + 1 THEN ends ELSE low + 1
    BY DEF Calendar!Earlier
  <2> HIDE DEF cursor, low
  <2>3. QED
    BY <2>1, <2>2 DEF Calendar!Earlier
<1> HIDE DEF low
<1>5. last \in Int /\ last <= ends /\ (last = ends \/ first <= last)
  BY <1>1, <1>3, <1>4 DEF Calendar!Earlier
<1> HIDE DEF first, last
<1>6. first \in Calendar!Days
  BY <1>3, <1>4, DaysAreDense
<1>7. last \in Calendar!Days
  BY <1>3, <1>4, <1>5, <1>6, DaysAreDense
<1>8. Calendar!Later(first, last) \in {first, last} /\ first <= Calendar!Later(first, last)
  BY <1>4, <1>5 DEF Calendar!Later
<1>9. QED
  BY <1>2, <1>3, <1>6, <1>7, <1>8 DEF Calendar!Period

LEMMA CalendarInit ==
  ASSUME Calendar!ConstantsAssumption, Calendar!Init
  PROVE  CalendarInv
<1>1. ends \in LastDays /\ size \in 1 .. MaxModules /\ placed = 0 /\ dates = << >> /\ days = << >>
  BY DEF Calendar!Init
<1>2. before = [first |-> FirstDay, last |-> FirstDay] /\ module = before
  BY DEF Calendar!Init
<1>3. before \in Calendar!Period
  BY <1>1, <1>2, EndsAreDays DEF Calendar!Period
<1>4. MaxModules \in Nat /\ MaxItems \in Nat
  BY DEF Calendar!ConstantsAssumption
<1>5. CalendarShape
  BY <1>1, <1>2, <1>3, <1>4, EmptySeq DEF CalendarShape
<1>6. QED
  BY <1>1, <1>5 DEF CalendarInv, Calendar!EveryItemHasItsDay

\* What the loop does with the next module, and with its items.
LEMMA NextModuleStep ==
  ASSUME Calendar!ConstantsAssumption, CalendarInv, Calendar!Materialize
  PROVE  CalendarInv'
<1>1. /\ placed < size /\ placed' = placed + 1 /\ before' = module
      /\ dates' \in Calendar!Dates
      /\ UNCHANGED << ends, size >>
  BY DEF Calendar!Materialize
<1>2. PICK m : m = module'
  OBVIOUS
<1>3. PICK planned : planned = dates'
  OBVIOUS
<1>4. PICK s : s = days'
  OBVIOUS
<1>5. m = Calendar!Split(placed + 1, module) /\ s \in Calendar!Schedule(m, planned)
  BY <1>2, <1>3, <1>4 DEF Calendar!Materialize
<1>6. CalendarShape
  BY DEF CalendarInv
<1>7. m \in Calendar!Period /\ m.first <= m.last
  BY <1>1, <1>5, <1>6, SplitType
<1>8. m.first \in Calendar!Days /\ m.last \in Calendar!Days /\ Whole(m)
  BY <1>7, DaysAreNumbers DEF Calendar!Period, Whole
<1>9. /\ FirstDay \in Int /\ ends \in Int /\ size \in Nat /\ placed \in Nat
      /\ MaxItems \in Nat /\ MaxModules \in Nat
  BY <1>6, SliceType DEF Calendar!ConstantsAssumption
<1>10. PICK n \in 1 .. MaxItems : planned \in [1 .. n -> Calendar!Days]
  BY <1>1, <1>3 DEF Calendar!Dates
<1>11. planned \in Seq(Calendar!Days) /\ Len(planned) = n
  <2>1. n \in Nat
    BY <1>9
  <2>2. QED
    BY <1>10, <2>1, SeqDef, LenProperties
<1>12. planned \in Seq(Int)
  BY <1>11, DaysAreNumbers
<1>13. /\ s \in Seq(Int) /\ Len(s) = Len(planned)
       /\ \A i \in DOMAIN s : s[i] \in m.first .. m.last
       /\ \A i \in 1 .. Len(s) - 1 : s[i] <= s[i + 1]
       /\ \A d \in m.first .. m.last : Calendar!Times(d, planned) <= Calendar!Times(d, s)
  BY <1>5, <1>7, <1>8, <1>12, ScheduleIsRight
<1>14. s \in Seq(Calendar!Days)
  <2>1. \A i \in 1 .. Len(s) : s[i] \in Calendar!Days
    <3>1. SUFFICES ASSUME NEW i \in 1 .. Len(s) PROVE s[i] \in Calendar!Days
      OBVIOUS
    <3>2. s[i] \in m.first .. m.last
      BY <1>13
    <3>3. s[i] \in Int /\ m.first <= s[i] /\ s[i] <= m.last
      BY <1>8, <3>2 DEF Whole
    <3>4. QED
      BY <1>8, <3>3, DaysAreDense
  <2>2. QED
    BY <1>13, <2>1
<1>15. CalendarShape'
  <2>1. ends' \in LastDays /\ size' \in 1 .. MaxModules /\ placed' \in 0 .. size'
    BY <1>1, <1>6, <1>9 DEF CalendarShape
  <2>2. before' \in Calendar!Period
    BY <1>1, <1>6 DEF CalendarShape
  <2>3. (Calendar!Period)' = Calendar!Period /\ (Calendar!Days)' = Calendar!Days
    BY DEF Calendar!Period, Calendar!Days
  <2>4. dates' \in Seq(Calendar!Days) /\ Len(dates') \in 0 .. MaxItems
    BY <1>3, <1>9, <1>10, <1>11
  <2>5. QED
    BY <1>2, <1>4, <1>7, <1>14, <2>1, <2>2, <2>3, <2>4 DEF CalendarShape
<1>16. /\ m.first \in Calendar!Start .. ends /\ m.last \in m.first .. ends
       /\ placed = 0 => m.first = Calendar!Start
       /\ placed + 1 = size => m.last = ends
       /\ placed > 0 => \/ m.first = module.last + 1
                        \/ m.first = ends /\ size > ends - Calendar!Start + 1
       /\ placed + 1 < size =>
            m.last = IF ends < EndOf(placed + 1) THEN ends ELSE EndOf(placed + 1)
  BY <1>1, <1>5, SplitIsRight
<1>17. EndOf(placed)' = EndOf(placed + 1) /\ Calendar!Start' = Calendar!Start
  BY <1>1 DEF EndOf, Slice, Calendar!Step, Calendar!Start
<1>18. 0 < placed' /\ placed' < size' =>
         module'.last = IF ends' < EndOf(placed)' THEN ends' ELSE EndOf(placed)'
  BY <1>1, <1>2, <1>16, <1>17
<1>19. Calendar!EveryItemHasItsDay'
  <2>1. Calendar!Start \in Int
    BY <1>9 DEF Calendar!Start, Calendar!Earlier
  <2>2. /\ placed' = 1 => m.first = Calendar!Start
        /\ placed' = size' => m.last = ends'
        /\ Calendar!Start <= m.first /\ m.first <= m.last /\ m.last <= ends'
        /\ placed' > 1 => \/ m.first = before'.last + 1
                          \/ m.first = ends' /\ size' > ends' - Calendar!Start + 1
    BY <1>1, <1>8, <1>9, <1>16, <2>1 DEF Whole
  <2>3. \A d : Calendar!Times(d, dates)' = Calendar!Times(d, dates')
                /\ Calendar!Times(d, days)' = Calendar!Times(d, days')
    BY DEF Calendar!Times
  <2>4. QED
    BY <1>2, <1>3, <1>4, <1>13, <1>17, <2>2, <2>3 DEF Calendar!EveryItemHasItsDay
<1>20. QED
  BY <1>15, <1>18, <1>19 DEF CalendarInv

\* EveryItemHasItsDay, for every plan, also one that ends before it begins: the modules follow
\* each other from its first day to its last, and the items of each are in order on days of it,
\* the usable ones of the planner kept (split_period and schedule_items, scheduling.py).
THEOREM CalendarIsRight ==
  ASSUME Calendar!ConstantsAssumption
  PROVE  Calendar!Spec => [](Calendar!TypeOK /\ Calendar!EveryItemHasItsDay)
<1>1. Calendar!Init => CalendarInv
  BY CalendarInit
<1>2. CalendarInv /\ [Calendar!Next]_(Calendar!vars) => CalendarInv'
  <2>1. SUFFICES ASSUME CalendarInv, [Calendar!Next]_(Calendar!vars) PROVE CalendarInv'
    OBVIOUS
  <2>2. CASE Calendar!Materialize
    BY <2>1, <2>2, NextModuleStep
  <2>3. CASE UNCHANGED Calendar!vars
    BY <2>1, <2>3 DEF Calendar!vars, CalendarInv, CalendarShape, Calendar!EveryItemHasItsDay, EndOf,
         Slice, Calendar!Step, Calendar!Later, Calendar!Times, Calendar!Period, Calendar!Days,
         Calendar!Start, Calendar!Earlier
  <2>4. QED
    BY <2>1, <2>2, <2>3 DEF Calendar!Next
<1>3. CalendarInv => Calendar!TypeOK /\ Calendar!EveryItemHasItsDay
  BY DEF CalendarInv, CalendarShape, Calendar!TypeOK
<1>4. QED
  BY <1>1, <1>2, <1>3, PTL DEF Calendar!Spec

-----------------------------------------------------------------------------
(* The review of a draft.                                                  *)

LEMMA ReviewCounts ==
  /\ \A S : Reviewing!Cardinality(S) = Cardinality(S)
  /\ \A S : Reviewing!IsFiniteSet(S) <=> IsFiniteSet(S)
<1>1. \A S : Reviewing!IsFiniteSet(S) <=> IsFiniteSet(S)
  BY DEF IsFiniteSet, Reviewing!IsFiniteSet
<1>2. \A S : Reviewing!Cardinality(S) = Cardinality(S)
  BY DEF Cardinality, Reviewing!Cardinality
<1>3. QED
  BY <1>1, <1>2

\* A roadmap has finitely many items.
LEMMA PlacesOfRoadmap ==
  ASSUME Reviewing!ConstantsAssumption, NEW r \in Reviewing!Roadmaps
  PROVE  /\ IsFiniteSet(Reviewing!Places(r)) /\ Cardinality(Reviewing!Places(r)) \in Nat
         /\ \A p \in Reviewing!Places(r) : Reviewing!ItemAt(r, p).title \in Reviewing!Titles
<1>1. MaxDrafted \in Nat /\ MaxItems \in Nat
  BY DEF Reviewing!ConstantsAssumption
<1>2. PICK n \in 1 .. MaxDrafted : r.modules \in [1 .. n -> Reviewing!Modules]
  BY DEF Reviewing!Roadmaps
<1>3. ASSUME NEW m \in DOMAIN r.modules
      PROVE  \E k \in 1 .. MaxItems : r.modules[m] \in [1 .. k -> PlannedItems]
  <2>1. r.modules[m] \in Reviewing!Modules
    BY <1>2
  <2>2. QED
    BY <2>1 DEF Reviewing!Modules
<1>4. ASSUME NEW p \in Reviewing!Places(r)
      PROVE  /\ p \in (1 .. MaxDrafted) \X (1 .. MaxItems)
             /\ Reviewing!ItemAt(r, p).title \in Reviewing!Titles
  <2>1. PICK m \in DOMAIN r.modules : p \in {m} \X DOMAIN r.modules[m]
    BY DEF Reviewing!Places
  <2>2. PICK k \in 1 .. MaxItems : r.modules[m] \in [1 .. k -> PlannedItems]
    BY <1>3
  <2>3. m \in 1 .. MaxDrafted /\ \A i \in 1 .. k : i \in 1 .. MaxItems
    BY <1>1, <1>2
  <2>4. p[1] = m /\ p[2] \in 1 .. k /\ p \in {m} \X (1 .. k)
    BY <2>1, <2>2
  <2>5. r.modules[m][p[2]] \in PlannedItems
    BY <2>2, <2>4
  <2>6. QED
    BY <2>3, <2>4, <2>5 DEF Reviewing!ItemAt, Reviewing!Titles
<1>5. IsFiniteSet((1 .. MaxDrafted) \X (1 .. MaxItems))
  <2>1. IsFiniteSet(1 .. MaxDrafted) /\ IsFiniteSet(1 .. MaxItems)
    BY <1>1, FS_Interval
  <2> DEFINE M == 1 .. MaxDrafted
             I == 1 .. MaxItems
  <2> HIDE DEF M, I
  <2>2. IsFiniteSet(M \X I)
    BY <2>1, FS_Product DEF M, I
  <2>3. QED
    BY <2>2 DEF M, I
<1>6. Reviewing!Places(r) \in SUBSET ((1 .. MaxDrafted) \X (1 .. MaxItems))
  BY <1>4
<1>7. IsFiniteSet(Reviewing!Places(r))
  BY <1>5, <1>6, FS_Subset
<1>8. QED
  BY <1>4, <1>7, FS_CardinalityType

\* A title that is counted twice stands in two places, and only such a title.
LEMMA DuplicatesAreTwice ==
  ASSUME Reviewing!ConstantsAssumption, NEW r \in Reviewing!Roadmaps
  PROVE  Reviewing!Duplicates(r) = {} <=>
           \A p, q \in Reviewing!Places(r) :
             p # q => Reviewing!ItemAt(r, p).title # Reviewing!ItemAt(r, q).title
<1> DEFINE places == Reviewing!Places(r)
           title(p) == Reviewing!ItemAt(r, p).title
           at(t) == {p \in places : title(p) = t}
<1>1. IsFiniteSet(places) /\ \A p \in places : title(p) \in Reviewing!Titles
  BY PlacesOfRoadmap
<1>2. Reviewing!Duplicates(r) = {t \in Reviewing!Titles : Cardinality(at(t)) > 1}
  BY ReviewCounts DEF Reviewing!Duplicates, Reviewing!Seen
<1> HIDE DEF places, title
<1>3. ASSUME NEW t PROVE IsFiniteSet(at(t)) /\ Cardinality(at(t)) \in Nat
  <2>1. at(t) \in SUBSET places
    OBVIOUS
  <2>2. QED
    BY <1>1, <2>1, FS_Subset, FS_CardinalityType
<1>4. ASSUME NEW p \in places, NEW q \in places, p # q, title(p) = title(q)
      PROVE  Reviewing!Duplicates(r) # {}
  <2> DEFINE t == title(p)
             S == at(t)
  <2>1. IsFiniteSet(S) /\ Cardinality(S) \in Nat
    BY <1>3
  <2>2. {p, q} \in SUBSET S
    BY <1>4
  <2> HIDE DEF S
  <2>3. Cardinality({p}) = 1 /\ IsFiniteSet({p})
    BY FS_Singleton
  <2>4. Cardinality({p} \cup {q}) = 2
    BY <1>4, <2>3, FS_AddElement
  <2>5. {p} \cup {q} = {p, q}
    OBVIOUS
  <2>6. Cardinality({p, q}) = 2
    BY <2>4, <2>5
  <2>7. Cardinality({p, q}) <= Cardinality(S)
    BY <2>1, <2>2, FS_Subset
  <2>8. Cardinality(S) > 1
    BY <2>1, <2>6, <2>7
  <2>9. QED
    BY <1>1, <1>2, <2>8 DEF S
<1>5. ASSUME \A p, q \in places : p # q => title(p) # title(q)
      PROVE  Reviewing!Duplicates(r) = {}
  <2>1. SUFFICES ASSUME NEW t, Cardinality(at(t)) > 1 PROVE FALSE
    BY <1>2
  <2> DEFINE S == at(t)
  <2>2. IsFiniteSet(S) /\ \A p, q \in S : p = q
    BY <1>3, <1>5
  <2> HIDE DEF S
  <2>3. S # {}
    BY <2>1, FS_EmptySet DEF S
  <2>4. PICK p : p \in S
    BY <2>3
  <2>5. S = {p}
    BY <2>2, <2>4
  <2>6. Cardinality(S) = 1
    BY <2>5, FS_Singleton
  <2>7. QED
    BY <2>1, <2>6 DEF S
<1>6. QED
  BY <1>4, <1>5 DEF places, title

LEMMA Thirds ==
  ASSUME NEW c \in Nat, NEW n \in Nat
  PROVE  /\ (2 * c + 2) \div 3 \in Int
         /\ (2 * c + 2) \div 3 <= n <=> 2 * c <= 3 * n
<1> DEFINE a == 2 * c + 2
           q == a \div 3
           m == a % 3
<1>1. a \in Nat /\ 3 \in Nat \ {0}
  OBVIOUS
<1> HIDE DEF a
<1>2. q \in Nat /\ m \in 0 .. 2 /\ a = 3 * q + m
  BY <1>1, Division
<1> HIDE DEF q, m
<1>3. q <= n <=> 2 * c <= 3 * n
  BY <1>2 DEF a
<1>4. QED
  BY <1>2, <1>3 DEF a, q

\* What the code finds nothing in is what a teacher would call sane.
LEMMA CheckFindsAll ==
  ASSUME Reviewing!ConstantsAssumption, NEW r \in Reviewing!Roadmaps, classes \in Nat
  PROVE  Reviewing!CheckRoadmap(r, classes) = {} <=> Reviewing!Sane(r)
<1> DEFINE places == Reviewing!Places(r)
           c == Cardinality(places)
           Short == {p \in places : Reviewing!ItemAt(r, p).short}
           Prompts == {<< "prompt", Reviewing!ItemAt(r, p).title >> : p \in Short}
           Summary == IF r.summary = "short" THEN {<< "summary" >>} ELSE {}
           Twice == IF Reviewing!Duplicates(r) # {} THEN {<< "duplicates" >>} ELSE {}
           Size == Reviewing!SizeIssues(c, classes)
<1>1. c \in Nat
  BY PlacesOfRoadmap
<1>2. Reviewing!CheckRoadmap(r, classes) = UNION {Summary, Prompts, Twice, Size}
  BY ReviewCounts DEF Reviewing!CheckRoadmap
<1>3. Prompts = {} <=> \A p \in places : ~Reviewing!ItemAt(r, p).short
  OBVIOUS
<1>4. Summary = {} <=> r.summary = "long"
  <2>1. r.summary \in {"short", "long"}
    BY DEF Reviewing!Roadmaps
  <2>2. QED
    BY <2>1
<1>5. Twice = {} <=> \A p, q \in places :
                        p # q => Reviewing!ItemAt(r, p).title # Reviewing!ItemAt(r, q).title
  BY DuplicatesAreTwice
<1> HIDE DEF c
<1>6. Size = {} <=> classes \in (2 * c + 2) \div 3 .. 4 * c
  <2>1. (2 * c + 2) \div 3 \in Int /\ ((2 * c + 2) \div 3 <= classes <=> 2 * c <= 3 * classes)
    BY <1>1, Thirds
  <2> DEFINE low == (2 * c + 2) \div 3
  <2> HIDE DEF low
  <2>2. classes \in low .. 4 * c <=> ~(4 * c < classes) /\ ~(2 * c > 3 * classes)
    BY <1>1, <2>1 DEF low
  <2>3. Size = {} <=> ~(4 * c < classes) /\ ~(2 * c > 3 * classes)
    BY DEF Reviewing!SizeIssues
  <2>4. QED
    BY <2>2, <2>3 DEF low
<1>7. Reviewing!Sane(r) <=>
        /\ Twice = {} /\ Prompts = {} /\ Summary = {} /\ Size = {}
  BY <1>3, <1>4, <1>5, <1>6, ReviewCounts DEF Reviewing!Sane, c
<1> HIDE DEF Twice, Prompts, Summary, Size
<1>8. QED
  BY <1>2, <1>7

\* What has been spent and found when an attempt is so far.
ReviewInv ==
  /\ evalEnabled \in BOOLEAN
  /\ classes \in Nat \ {0}
  /\ stage \in Reviewing!Stages
  /\ context \in {"none", "close", "weak"}
  /\ transaction \in {"open", "aborted"}
  /\ attempts \in 0 .. MaxDrafts
  /\ roadmap = << >> \/ \E r \in Reviewing!Roadmaps : roadmap = << r >>
  /\ reviewed \in {"no", "approved", "unusable", "rejected", "repaired"}
  /\ calls \in Nat
  /\ stage \in {"retrieving", "drafting"} => roadmap = << >> /\ attempts < MaxDrafts
  /\ stage \in {"evaluating", "judging", "repairing", "planned", "stored"} => roadmap # << >>
  /\ stage \in {"retrieving", "drafting", "evaluating", "judging"} =>
       reviewed = "no" /\ calls = attempts
  /\ stage = "judging" => evalEnabled /\ (~Reviewing!Sane(roadmap[1]) \/ ~Reviewing!Grounded)
  /\ stage = "repairing" => reviewed = "rejected" /\ calls <= attempts + 1
  /\ Reviewing!ReviewHolds

LEMMA ReviewInit ==
  ASSUME Reviewing!ConstantsAssumption, Reviewing!Init
  PROVE  ReviewInv
<1>1. PICK d \in Periods, c \in Cadences : classes = Reviewing!ExpectedClasses(d, c)
  BY DEF Reviewing!Init
<1>2. d \in Nat /\ c \in Nat /\ MaxDrafts \in Nat \ {0}
  BY DEF Reviewing!ConstantsAssumption
<1> DEFINE a == 2 * d * c + 7
<1>3. a \in Nat /\ 14 \in Nat \ {0}
  <2>1. 2 * d \in Nat
    BY <1>2
  <2>2. (2 * d) * c \in Nat
    BY <1>2, <2>1
  <2>3. QED
    BY <2>2
<1>4. classes = IF a \div 14 = 0 THEN 1 ELSE a \div 14
  BY <1>1 DEF Reviewing!ExpectedClasses
<1> HIDE DEF a
<1>5. a \div 14 \in Nat
  BY <1>3, Division
<1>6. classes \in Nat \ {0}
  BY <1>4, <1>5
<1>7. QED
  BY <1>2, <1>6 DEF Reviewing!Init, ReviewInv, Reviewing!ReviewHolds, Reviewing!Stages

\* A draft stays as sane as it was.
LEMMA SaneStays ==
  ASSUME UNCHANGED << classes, roadmap, context >>
  PROVE  /\ Reviewing!Sane(roadmap[1])' <=> Reviewing!Sane(roadmap[1])
         /\ Reviewing!Grounded' <=> Reviewing!Grounded
  BY DEF Reviewing!Sane, Reviewing!Grounded, Reviewing!Places, Reviewing!ItemAt

LEMMA ReviewingStep ==
  ASSUME Reviewing!ConstantsAssumption, ReviewInv, Reviewing!Next
  PROVE  ReviewInv'
<1>1. MaxDrafts \in Nat \ {0} /\ MaxIssues \in Nat
  BY DEF Reviewing!ConstantsAssumption
<1>2. CASE Reviewing!Retrieve
  BY <1>1, <1>2 DEF Reviewing!Retrieve, ReviewInv, Reviewing!ReviewHolds, Reviewing!Stages
<1>3. CASE Reviewing!Draft
  <2>1. /\ stage = "drafting" /\ attempts' = attempts + 1 /\ calls' = calls + 1
        /\ UNCHANGED << evalEnabled, classes, context, transaction, reviewed >>
    BY <1>3 DEF Reviewing!Draft
  <2>2. /\ roadmap = << >> /\ reviewed = "no" /\ calls = attempts /\ attempts < MaxDrafts
        /\ attempts \in Nat /\ calls \in Nat
    BY <2>1 DEF ReviewInv
  <2>3. attempts' \in 0 .. MaxDrafts
    BY <1>1, <2>1, <2>2
  <2>4. CASE stage' = "evaluating" /\ \E r \in Reviewing!Roadmaps : roadmap' = << r >>
    <3>1. roadmap' # << >>
      BY <2>4
    <3>2. QED
      BY <1>1, <2>1, <2>2, <2>3, <2>4, <3>1 DEF ReviewInv, Reviewing!ReviewHolds, Reviewing!Stages
  <2>5. CASE /\ stage' = IF attempts' < MaxDrafts THEN "drafting" ELSE "failed"
             /\ roadmap' = roadmap
    BY <1>1, <2>1, <2>2, <2>3, <2>5 DEF ReviewInv, Reviewing!ReviewHolds, Reviewing!Stages
  <2>6. QED
    BY <1>3, <2>4, <2>5 DEF Reviewing!Draft
<1>4. CASE Reviewing!NoProvider
  BY <1>1, <1>4 DEF Reviewing!NoProvider, ReviewInv, Reviewing!ReviewHolds, Reviewing!Stages
<1>5. CASE Reviewing!Evaluate
  <2>1. /\ stage = "evaluating" /\ reviewed = "no"
        /\ stage' \in {"judging", "planned"}
        /\ UNCHANGED << evalEnabled, classes, context, transaction, attempts, roadmap, reviewed,
                        calls >>
    BY <1>5 DEF Reviewing!Evaluate, ReviewInv
  <2>2. PICK r \in Reviewing!Roadmaps : roadmap = << r >>
    BY <2>1 DEF ReviewInv
  <2>3. roadmap[1] = r
    BY <2>2
  <2>4. Reviewing!CheckRoadmap(roadmap[1], classes) = {} <=> Reviewing!Sane(roadmap[1])
    BY <2>3, CheckFindsAll DEF ReviewInv
  <2>5. stage' = "judging" <=> evalEnabled /\ (~Reviewing!Sane(roadmap[1]) \/ ~Reviewing!Grounded)
    BY <1>5, <2>4 DEF Reviewing!Evaluate, Reviewing!Grounded
  <2>6. /\ Reviewing!Sane(roadmap[1])' <=> Reviewing!Sane(roadmap[1])
        /\ Reviewing!Grounded' <=> Reviewing!Grounded
    BY <2>1, SaneStays
  <2>7. QED
    BY <2>1, <2>5, <2>6 DEF ReviewInv, Reviewing!ReviewHolds, Reviewing!Stages
<1>6. CASE Reviewing!Judge
  <2>1. /\ stage = "judging" /\ reviewed = "no" /\ calls = attempts
        /\ evalEnabled /\ (~Reviewing!Sane(roadmap[1]) \/ ~Reviewing!Grounded)
        /\ reviewed' \in {"approved", "unusable", "rejected"}
        /\ calls' \in {calls, calls + 1}
        /\ stage' = IF reviewed' = "rejected" THEN "repairing" ELSE "planned"
        /\ UNCHANGED << evalEnabled, classes, context, transaction, attempts, roadmap >>
    BY <1>6 DEF Reviewing!Judge, ReviewInv
  <2>2. /\ Reviewing!Sane(roadmap[1])' <=> Reviewing!Sane(roadmap[1])
        /\ Reviewing!Grounded' <=> Reviewing!Grounded
    BY <2>1, SaneStays
  <2>3. attempts \in Nat /\ calls' \in Nat /\ calls' <= attempts' + 1
    BY <1>1, <2>1 DEF ReviewInv
  <2>4. QED
    BY <2>1, <2>2, <2>3 DEF ReviewInv, Reviewing!ReviewHolds, Reviewing!Stages
<1>7. CASE Reviewing!Repair
  <2>1. /\ stage = "repairing" /\ stage' = "planned" /\ reviewed = "rejected"
        /\ reviewed' \in {"repaired", "rejected"}
        /\ calls' \in {calls, calls + 1} /\ calls <= attempts + 1
        /\ UNCHANGED << evalEnabled, classes, context, transaction, attempts >>
    BY <1>7 DEF Reviewing!Repair, ReviewInv
  <2>2. attempts \in Nat /\ calls' \in Nat /\ calls' <= attempts' + 2
    BY <1>1, <2>1 DEF ReviewInv
  <2>3. CASE reviewed' = "repaired" /\ \E r \in Reviewing!Roadmaps : roadmap' = << r >>
    <3>1. roadmap' # << >>
      BY <2>3
    <3>2. QED
      BY <2>1, <2>2, <2>3, <3>1 DEF ReviewInv, Reviewing!ReviewHolds, Reviewing!Stages
  <2>4. CASE UNCHANGED << roadmap, reviewed >>
    <3>1. /\ Reviewing!Sane(roadmap[1])' <=> Reviewing!Sane(roadmap[1])
          /\ Reviewing!Grounded' <=> Reviewing!Grounded
      BY <2>1, <2>4, SaneStays
    <3>2. QED
      BY <2>1, <2>2, <2>4, <3>1 DEF ReviewInv, Reviewing!ReviewHolds, Reviewing!Stages
  <2>5. QED
    BY <1>7, <2>3, <2>4 DEF Reviewing!Repair
<1>8. CASE Reviewing!Store
  <2>1. /\ stage = "planned" /\ stage' = IF transaction = "open" THEN "stored" ELSE "failed"
        /\ UNCHANGED << evalEnabled, classes, context, transaction, attempts, roadmap, reviewed,
                        calls >>
    BY <1>8 DEF Reviewing!Store
  <2>2. /\ Reviewing!Sane(roadmap[1])' <=> Reviewing!Sane(roadmap[1])
        /\ Reviewing!Grounded' <=> Reviewing!Grounded
    BY <2>1, SaneStays
  <2>3. QED
    BY <2>1, <2>2 DEF ReviewInv, Reviewing!ReviewHolds, Reviewing!Stages
<1>9. QED
  BY <1>2, <1>3, <1>4, <1>5, <1>6, <1>7, <1>8 DEF Reviewing!Next

\* ReviewHolds, whatever the roadmaps and their bounds, the cadences, the drafts a planner may
\* try and the issues of a verdict: no review loses a draft, a call is spent only on a draft
\* that code or context found wanting, and none that is passes as approved unseen (planner.py).
THEOREM ReviewIsSound ==
  ASSUME Reviewing!ConstantsAssumption
  PROVE  Reviewing!Spec => [](Reviewing!TypeOK /\ Reviewing!ReviewHolds)
<1>1. Reviewing!Init => ReviewInv
  BY ReviewInit
<1>2. ReviewInv /\ [Reviewing!Next]_(Reviewing!vars) => ReviewInv'
  <2>1. SUFFICES ASSUME ReviewInv, [Reviewing!Next]_(Reviewing!vars) PROVE ReviewInv'
    OBVIOUS
  <2>2. CASE Reviewing!Next
    BY <2>1, <2>2, ReviewingStep
  <2>3. CASE UNCHANGED Reviewing!vars
    <3>1. /\ Reviewing!Sane(roadmap[1])' <=> Reviewing!Sane(roadmap[1])
          /\ Reviewing!Grounded' <=> Reviewing!Grounded
      BY <2>3, SaneStays DEF Reviewing!vars
    <3>2. QED
      BY <2>1, <2>3, <3>1 DEF Reviewing!vars, ReviewInv, Reviewing!ReviewHolds
  <2>4. QED
    BY <2>1, <2>2, <2>3
<1>3. ReviewInv => Reviewing!TypeOK /\ Reviewing!ReviewHolds
  <2>1. ASSUME ReviewInv PROVE roadmap = << >> \/ roadmap[1] \in Reviewing!Roadmaps
    BY <2>1 DEF ReviewInv
  <2>2. QED
    BY <2>1 DEF ReviewInv, Reviewing!TypeOK
<1>4. QED
  BY <1>1, <1>2, <1>3, PTL DEF Reviewing!Spec
=============================================================================
