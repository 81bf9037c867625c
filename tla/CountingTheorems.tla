--------------------------- MODULE CountingTheorems ---------------------------
(***************************************************************************)
(* What the proofs of several components rest on: induction over numbers   *)
(* and over subsets in forms that need no operator as a parameter, the     *)
(* ranks of a finite ordered set, steps that are repeated, and the sums of *)
(* the library.                                                            *)
(***************************************************************************)
EXTENDS Integers, FiniteSets, Functions, FiniteSetTheorems, FunctionTheorems,
        NaturalsInduction, WellFoundedInduction, TLAPS

-----------------------------------------------------------------------------
(* Numbers                                                                 *)

\* A non-empty set of naturals has a least element.
LEMMA LeastExists ==
    ASSUME NEW S \in SUBSET Nat, S # {}
    PROVE  \E m \in S : \A x \in S : m <= x
<1> DEFINE R == OpToRel(<, Nat)
<1>1. IsWellFoundedOn(R, Nat)
  BY NatLessThanWellFounded
<1>2. \A x, y \in Nat : <<y, x>> \notin R => ~ (y < x)
  BY DEF R, OpToRel
<1> HIDE DEF R
<1>3. PICK m \in S : \A y \in S : ~ (<<y, m>> \in R)
  BY <1>1, WFMin
<1>4. \A y \in S : ~ (y < m)
  BY <1>2, <1>3
<1>5. \A y \in S : m \in Nat /\ y \in Nat
  OBVIOUS
<1>6. \A y \in S : m <= y
  BY <1>4, <1>5
<1> QED BY <1>6

\* A set that has 0, and with each number below N the one after it, has all up to N.
LEMMA Climbing ==
    ASSUME NEW N \in Nat, NEW S, 0 \in S, \A m \in 0..N : m < N /\ m \in S => m + 1 \in S
    PROVE  \A m \in 0..N : m \in S
<1> DEFINE Out == {m \in 0..N : m \notin S}
<1>1. SUFFICES ASSUME Out # {} PROVE FALSE
  OBVIOUS
<1>2. Out \in SUBSET Nat
  OBVIOUS
<1>3. PICK m \in Out : \A x \in Out : m <= x
  <2> HIDE DEF Out
  <2> QED BY <1>1, <1>2, LeastExists
<1>4. m \in 0..N /\ m \notin S /\ m # 0
  OBVIOUS
<1>5. m - 1 \in 0..N /\ m - 1 < N /\ (m - 1) + 1 = m /\ ~ (m <= m - 1)
  BY <1>4
<1>6. m - 1 \in S
  BY <1>3, <1>5
<1> QED BY <1>4, <1>5, <1>6

LEMMA CountTo == \A n \in Nat : IsFiniteSet(1..n) /\ Cardinality(1..n) = n
<1> SUFFICES ASSUME NEW n \in Nat PROVE IsFiniteSet(1..n) /\ Cardinality(1..n) = n
  OBVIOUS
<1>1. 1 \in Int /\ n \in Int
  OBVIOUS
<1>2. IsFiniteSet(1..n) /\ Cardinality(1..n) = IF 1 > n THEN 0 ELSE n - 1 + 1
  BY <1>1, FS_Interval
<1>3. (IF 1 > n THEN 0 ELSE n - 1 + 1) = n
  OBVIOUS
<1> QED BY <1>2, <1>3

-----------------------------------------------------------------------------
(* Ranks in a strict order                                                 *)

\* A strict order of all elements of S.
Orders(R, S) ==
    /\ \A x \in S : <<x, x>> \notin R
    /\ \A x, y, z \in S : <<x, y>> \in R /\ <<y, z>> \in R => <<x, z>> \in R
    /\ \A x, y \in S : x # y => <<x, y>> \in R \/ <<y, x>> \in R

Under(R, S, x) == {y \in S : <<y, x>> \in R}
RankBy(R, S, x) == Cardinality(Under(R, S, x))

LEMMA RanksClimb ==
    ASSUME NEW S, IsFiniteSet(S), NEW R, Orders(R, S), NEW x \in S
    PROVE  /\ RankBy(R, S, x) \in 0..(Cardinality(S) - 1)
           /\ \A y \in S : <<x, y>> \in R => RankBy(R, S, x) < RankBy(R, S, y)
<1> DEFINE B == Under(R, S, x)
<1>1. IsFiniteSet(B) /\ x \notin B
  BY FS_Subset DEF Under, Orders
<1>2. Cardinality(B) \in Nat /\ Cardinality(S) \in Nat
  BY <1>1, FS_CardinalityType
<1>3. IsFiniteSet(B \cup {x}) /\ Cardinality(B \cup {x}) = Cardinality(B) + 1
  BY <1>1, FS_AddElement
<1>4. Cardinality(B \cup {x}) <= Cardinality(S)
  <2>1. B \cup {x} \in SUBSET S
    BY DEF Under
  <2> HIDE DEF B
  <2> QED BY <2>1, FS_Subset
<1>5. ASSUME NEW y \in S, <<x, y>> \in R PROVE RankBy(R, S, x) < RankBy(R, S, y)
  <2>1. B \cup {x} \in SUBSET Under(R, S, y)
    BY <1>5 DEF Under, Orders
  <2>2. IsFiniteSet(Under(R, S, y))
    BY FS_Subset DEF Under
  <2>3. Cardinality(Under(R, S, y)) \in Nat
    BY <2>2, FS_CardinalityType
  <2>4. Cardinality(B \cup {x}) <= Cardinality(Under(R, S, y))
    <3> HIDE DEF B
    <3> QED BY <2>1, <2>2, FS_Subset
  <2> QED BY <1>2, <1>3, <2>3, <2>4 DEF RankBy
<1> QED BY <1>2, <1>3, <1>4, <1>5 DEF RankBy

\* Every number below that of the members is the rank of exactly one of them.
LEMMA RanksCover ==
    ASSUME NEW S, IsFiniteSet(S), NEW R, Orders(R, S)
    PROVE  /\ Cardinality(S) \in Nat
           /\ \A i \in 1..Cardinality(S) : \E x \in S : RankBy(R, S, x) = i - 1
           /\ \A x, y \in S : RankBy(R, S, x) = RankBy(R, S, y) => x = y
<1> DEFINE n == Cardinality(S)
           f == [x \in S |-> RankBy(R, S, x) + 1]
<1>1. n \in Nat
  BY FS_CardinalityType
<1> HIDE DEF n
<1>2. \A x \in S : RankBy(R, S, x) \in 0..(n - 1)
  BY RanksClimb DEF n
<1>3. \A x, y \in S : RankBy(R, S, x) = RankBy(R, S, y) => x = y
  <2> SUFFICES ASSUME NEW x \in S, NEW y \in S, RankBy(R, S, x) = RankBy(R, S, y), x # y PROVE FALSE
    OBVIOUS
  <2>1. <<x, y>> \in R \/ <<y, x>> \in R
    BY DEF Orders
  <2>2. RankBy(R, S, x) < RankBy(R, S, y) \/ RankBy(R, S, y) < RankBy(R, S, x)
    BY <2>1, RanksClimb
  <2>3. RankBy(R, S, x) \in Int /\ RankBy(R, S, y) \in Int
    BY <1>1, <1>2
  <2> QED BY <2>2, <2>3
<1>4. f \in [S -> 1..n]
  BY <1>1, <1>2
<1>5. \A x, y \in S : f[x] = f[y] => x = y
  BY <1>1, <1>2, <1>3
<1> HIDE DEF f
<1>6. f \in Injection(S, 1..n)
  BY <1>4, <1>5 DEF Injection, IsInjective
<1>7. f \in Surjection(S, 1..n)
  <2>1. Cardinality(S) = Cardinality(1..n) /\ IsFiniteSet(1..n)
    BY <1>1, CountTo DEF n
  <2> QED BY <1>6, <2>1, FS_Injection
<1>8. ASSUME NEW i \in 1..n PROVE \E x \in S : RankBy(R, S, x) = i - 1
  <2>1. PICK x \in S : f[x] = i
    BY <1>7 DEF Surjection
  <2>2. f[x] = RankBy(R, S, x) + 1
    BY DEF f
  <2> QED BY <1>1, <1>2, <2>1, <2>2
<1> QED BY <1>1, <1>3, <1>8 DEF n

-----------------------------------------------------------------------------
(* Steps                                                                   *)

\* Steps from b by the maps G[1], G[2], ...
StepMaps(N, S) == [1..N -> [S -> S]]
StepRun(f, N, S, b, G) ==
    f \in [0..N -> S] /\ f[0] = b /\ \A n \in 1..N : f[n] = G[n][f[n - 1]]

LEMMA StepsExist ==
    ASSUME NEW N \in Nat, NEW S, NEW b \in S, NEW G \in StepMaps(N, S)
    PROVE  \E f : StepRun(f, N, S, b, G)
<1> USE DEF StepMaps
<1> DEFINE Steps(f, m) == f \in [0..m -> S] /\ f[0] = b /\ \A n \in 1..m : f[n] = G[n][f[n - 1]]
           Done == {m \in 0..N : \E f : Steps(f, m)}
<1>1. 0 \in Done
  <2> DEFINE f == [n \in 0..0 |-> b]
  <2>1. f \in [0..0 -> S] /\ f[0] = b /\ \A n \in 1..0 : FALSE
    OBVIOUS
  <2> HIDE DEF f
  <2>2. Steps(f, 0)
    BY <2>1
  <2> QED BY <2>2
<1>2. ASSUME NEW m \in 0..N, m < N, m \in Done PROVE m + 1 \in Done
  <2>1. PICK f : Steps(f, m)
    BY <1>2
  <2> DEFINE e == G[m + 1][f[m]]
             h == [n \in 0..(m + 1) |-> IF n = m + 1 THEN e ELSE f[n]]
  <2>2. m + 1 \in 1..N /\ f[m] \in S
    BY <1>2, <2>1
  <2>3. e \in S
    BY <2>2
  <2> HIDE DEF e
  <2>4. \A n \in 0..m : n # m + 1 /\ f[n] \in S /\ n \in 0..(m + 1)
    BY <2>1
  <2>5. \A n \in 0..(m + 1) : n # m + 1 => n \in 0..m
    OBVIOUS
  <2>6. h[m + 1] = e /\ \A n \in 0..m : h[n] = f[n]
    BY <2>4
  <2>7. h \in [0..(m + 1) -> S]
    BY <2>3, <2>4, <2>5
  <2> HIDE DEF h
  <2>8. 0 \in 0..m
    OBVIOUS
  <2>9. h[0] = b
    BY <2>1, <2>6, <2>8
  <2>10. ASSUME NEW n \in 1..(m + 1) PROVE h[n] = G[n][h[n - 1]]
    <3>1. n - 1 \in 0..m
      OBVIOUS
    <3>2. h[n - 1] = f[n - 1]
      BY <2>6, <3>1
    <3>3. CASE n = m + 1
      <4>1. n - 1 = m
        BY <3>3
      <4> QED BY <2>6, <3>2, <3>3, <4>1 DEF e
    <3>4. CASE n # m + 1
      <4>1. n \in 0..m /\ n \in 1..m
        BY <3>4
      <4>2. f[n] = G[n][f[n - 1]]
        BY <2>1, <4>1
      <4> QED BY <2>6, <3>2, <4>1, <4>2
    <3> QED BY <3>3, <3>4
  <2>11. Steps(h, m + 1)
    BY <2>7, <2>9, <2>10
  <2> QED BY <2>2, <2>11
<1> HIDE DEF Done
<1>3. \A m \in 0..N : m \in Done
  BY <1>1, <1>2, Climbing
<1>4. N \in Done
  BY <1>3
<1>5. PICK f : Steps(f, N)
  BY <1>4 DEF Done
<1> QED BY <1>5 DEF StepRun

-----------------------------------------------------------------------------
(* Subsets by their size, and sums                                         *)

AnyOf(T) == CHOOSE x \in T : TRUE

\* What h should be on the set T: the sum of f over it.
SumStep(h, f, T) == IF T = {} THEN 0 ELSE f[AnyOf(T)] + h[T \ {AnyOf(T)}]
Sums(h, f, D) == \A T \in D : h[T] = SumStep(h, f, T)

\* The subsets with at most m members.
Small(S, m) == {T \in SUBSET S : Cardinality(T) <= m}

LEMMA SmallLess ==
    ASSUME NEW S, IsFiniteSet(S), NEW m \in Nat, NEW T \in Small(S, m + 1), T # {}
    PROVE  T \ {AnyOf(T)} \in Small(S, m) /\ AnyOf(T) \in T
<1>1. T \subseteq S /\ Cardinality(T) <= m + 1
  BY DEF Small
<1>2. AnyOf(T) \in T
  BY DEF AnyOf
<1>3. IsFiniteSet(T) /\ Cardinality(T) \in Nat
  BY <1>1, FS_Subset, FS_CardinalityType
<1>4. Cardinality(T \ {AnyOf(T)}) = Cardinality(T) - 1
  BY <1>2, <1>3, FS_RemoveElement
<1>5. T \ {AnyOf(T)} \in SUBSET S
  BY <1>1
<1>6. Cardinality(T \ {AnyOf(T)}) <= m
  BY <1>1, <1>3, <1>4
<1> QED BY <1>2, <1>5, <1>6 DEF Small

LEMMA SmallNone ==
    ASSUME NEW S, IsFiniteSet(S)
    PROVE  Small(S, 0) = {{}}
<1>1. Cardinality({}) = 0
  BY FS_EmptySet
<1>2. ASSUME NEW T \in Small(S, 0) PROVE T = {}
  <2>1. IsFiniteSet(T) /\ Cardinality(T) \in Nat /\ Cardinality(T) <= 0
    BY FS_Subset, FS_CardinalityType DEF Small
  <2> QED BY <2>1, FS_EmptySet
<1>3. {} \in Small(S, 0)
  BY <1>1 DEF Small
<1> QED BY <1>2, <1>3

LEMMA SmallAll ==
    ASSUME NEW S, IsFiniteSet(S)
    PROVE  Cardinality(S) \in Nat /\ Small(S, Cardinality(S)) = SUBSET S
<1>1. Cardinality(S) \in Nat
  BY FS_CardinalityType
<1>2. ASSUME NEW T \in SUBSET S PROVE T \in Small(S, Cardinality(S))
  BY FS_Subset DEF Small
<1> QED BY <1>1, <1>2 DEF Small

\* A set of subsets that has T when it has T without any of its members has them all.
LEMMA SubsetInduction ==
    ASSUME NEW S, IsFiniteSet(S), NEW G,
           \A T \in SUBSET S : (\A x \in T : T \ {x} \in G) => T \in G
    PROVE  \A T \in SUBSET S : T \in G
<1> DEFINE N == Cardinality(S)
           Good == {m \in 0..N : Small(S, m) \subseteq G}
<1>1. N \in Nat
  BY SmallAll
<1> HIDE DEF N
<1>2. 0 \in Good
  <2>1. {} \in G
    OBVIOUS
  <2> QED BY <1>1, <2>1, SmallNone
<1>3. ASSUME NEW m \in 0..N, m < N, m \in Good PROVE m + 1 \in Good
  <2>1. m \in Nat /\ m + 1 \in 0..N /\ Small(S, m) \subseteq G
    BY <1>1, <1>3
  <2>2. ASSUME NEW T \in Small(S, m + 1) PROVE T \in G
    <3>1. T \in SUBSET S /\ IsFiniteSet(T) /\ Cardinality(T) \in Nat /\ Cardinality(T) <= m + 1
      BY FS_Subset, FS_CardinalityType DEF Small
    <3>2. ASSUME NEW x \in T PROVE T \ {x} \in G
      <4>1. Cardinality(T \ {x}) = Cardinality(T) - 1
        BY <3>1, FS_RemoveElement
      <4>2. Cardinality(T \ {x}) <= m
        BY <2>1, <3>1, <4>1
      <4> QED BY <2>1, <3>1, <4>2 DEF Small
    <3> QED BY <3>1, <3>2
  <2> QED BY <2>1, <2>2
<1>4. N \in Good
  <2> HIDE DEF Good
  <2> QED BY <1>1, <1>2, <1>3, Climbing
<1> QED BY <1>4, SmallAll DEF N

\* The sum of every subset.
LEMMA SumsExist ==
    ASSUME NEW S, IsFiniteSet(S), NEW f \in [S -> Int]
    PROVE  \E h \in [SUBSET S -> Int] : Sums(h, f, SUBSET S)
<1> DEFINE N == Cardinality(S)
           Good == {m \in 0..N : \E h \in [Small(S, m) -> Int] : Sums(h, f, Small(S, m))}
<1>1. N \in Nat
  BY SmallAll
<1> HIDE DEF N
<1>2. 0 \in Good
  <2>1. PICK h : h = [T \in Small(S, 0) |-> 0]
    OBVIOUS
  <2>2. h \in [Small(S, 0) -> Int] /\ Sums(h, f, Small(S, 0))
    BY <2>1, SmallNone DEF Sums, SumStep
  <2> QED BY <1>1, <2>2
<1>3. ASSUME NEW m \in 0..N, m < N, m \in Good PROVE m + 1 \in Good
  <2>1. PICK h \in [Small(S, m) -> Int] : Sums(h, f, Small(S, m))
    BY <1>3
  <2>2. PICK g : g = [T \in Small(S, m + 1) |-> SumStep(h, f, T)]
    OBVIOUS
  <2>3. m \in Nat /\ m + 1 \in 0..N
    BY <1>1, <1>3
  <2>4. ASSUME NEW T \in Small(S, m + 1) PROVE SumStep(h, f, T) \in Int
    <3>1. CASE T = {}
      BY <3>1 DEF SumStep
    <3>2. CASE T # {}
      <4>1. T \ {AnyOf(T)} \in Small(S, m) /\ AnyOf(T) \in S
        BY <2>3, <3>2, SmallLess DEF Small
      <4>2. h[T \ {AnyOf(T)}] \in Int /\ f[AnyOf(T)] \in Int
        BY <4>1
      <4> QED BY <3>2, <4>2 DEF SumStep
    <3> QED BY <3>1, <3>2
  <2>5. g \in [Small(S, m + 1) -> Int]
    BY <2>2, <2>4
  <2>6. ASSUME NEW T \in Small(S, m) PROVE T \in Small(S, m + 1) /\ g[T] = h[T]
    <3>1. T \in Small(S, m + 1)
      <4>1. T \in SUBSET S /\ Cardinality(T) \in Nat /\ Cardinality(T) <= m
        BY FS_Subset, FS_CardinalityType DEF Small
      <4>2. Cardinality(T) <= m + 1
        BY <2>3, <4>1
      <4> QED BY <4>1, <4>2 DEF Small
    <3> QED BY <2>1, <2>2, <3>1 DEF Sums
  <2>7. ASSUME NEW T \in Small(S, m + 1) PROVE g[T] = SumStep(g, f, T)
    <3>1. CASE T = {}
      BY <2>2, <3>1 DEF SumStep
    <3>2. CASE T # {}
      <4>1. T \ {AnyOf(T)} \in Small(S, m)
        BY <2>3, <3>2, SmallLess
      <4> QED BY <2>2, <2>6, <3>2, <4>1 DEF SumStep
    <3> QED BY <3>1, <3>2
  <2>8. Sums(g, f, Small(S, m + 1))
    BY <2>7 DEF Sums
  <2> QED BY <2>3, <2>5, <2>8
<1>4. N \in Good
  <2> HIDE DEF Good
  <2> QED BY <1>1, <1>2, <1>3, Climbing
<1> QED BY <1>4, SmallAll DEF N

\* There is only one.
LEMMA SumsAgree ==
    ASSUME NEW S, IsFiniteSet(S), NEW f, NEW h, NEW g,
           Sums(h, f, SUBSET S), Sums(g, f, SUBSET S)
    PROVE  \A T \in SUBSET S : g[T] = h[T]
<1> DEFINE N == Cardinality(S)
           Good == {m \in 0..N : \A T \in Small(S, m) : g[T] = h[T]}
<1>1. N \in Nat
  BY SmallAll
<1> HIDE DEF N
<1>2. 0 \in Good
  <2>1. g[{}] = h[{}]
    BY DEF Sums, SumStep
  <2> QED BY <1>1, <2>1, SmallNone
<1>3. ASSUME NEW m \in 0..N, m < N, m \in Good PROVE m + 1 \in Good
  <2>1. m \in Nat /\ m + 1 \in 0..N /\ \A T \in Small(S, m) : g[T] = h[T]
    BY <1>1, <1>3
  <2>2. ASSUME NEW T \in Small(S, m + 1) PROVE g[T] = h[T]
    <3>1. g[T] = SumStep(g, f, T) /\ h[T] = SumStep(h, f, T)
      BY DEF Sums, Small
    <3>2. CASE T = {}
      BY <3>1, <3>2 DEF SumStep
    <3>3. CASE T # {}
      <4>1. T \ {AnyOf(T)} \in Small(S, m)
        BY <2>1, <3>3, SmallLess
      <4> QED BY <2>1, <3>1, <4>1 DEF SumStep
    <3> QED BY <3>2, <3>3
  <2> QED BY <2>1, <2>2
<1>4. N \in Good
  <2> HIDE DEF Good
  <2> QED BY <1>1, <1>2, <1>3, Climbing
<1> QED BY <1>4, SmallAll DEF N

\* The sum of a function, as the library defines it, is that of its domain.
LEMMA SumIs ==
    ASSUME NEW S, IsFiniteSet(S), NEW f \in [S -> Int], NEW h \in [SUBSET S -> Int],
           Sums(h, f, SUBSET S)
    PROVE  SumFunction(f) = h[S]
<1> DEFINE Rule(g) == [T \in SUBSET S |-> IF T = {} THEN 0
                                          ELSE f[CHOOSE x \in T : TRUE]
                                                 + g[T \ {CHOOSE x \in T : TRUE}]]
           sum == CHOOSE g : g = Rule(g)
<1>1. h = Rule(h)
  BY DEF Sums, SumStep, AnyOf
<1>2. sum = Rule(sum)
  BY <1>1
<1>3. SumFunction(f) = sum[S]
  <2>1. DOMAIN f = S
    OBVIOUS
  <2> QED BY <2>1 DEF SumFunction, SumFunctionOnSet, FoldFunctionOnSet, MapThenFoldSet
<1>4. Sums(sum, f, SUBSET S)
  <2> HIDE DEF sum
  <2> QED BY <1>2 DEF Sums, SumStep, AnyOf
<1> HIDE DEF sum
<1> QED BY <1>3, <1>4, SumsAgree

LEMMA SumIsInt ==
    ASSUME NEW S, IsFiniteSet(S), NEW f \in [S -> Int]
    PROVE  SumFunction(f) \in Int
<1>1. PICK h \in [SUBSET S -> Int] : Sums(h, f, SUBSET S)
  BY SumsExist
<1>2. SumFunction(f) = h[S] /\ S \in SUBSET S
  BY <1>1, SumIs
<1> QED BY <1>2

\* Sums of numbers that are not negative are not either.
LEMMA SumIsNat ==
    ASSUME NEW S, IsFiniteSet(S), NEW f \in [S -> Nat]
    PROVE  SumFunction(f) \in Nat
<1>1. f \in [S -> Int]
  OBVIOUS
<1>2. PICK h \in [SUBSET S -> Int] : Sums(h, f, SUBSET S)
  BY <1>1, SumsExist
<1> DEFINE G == {T \in SUBSET S : h[T] \in Nat}
<1>3. ASSUME NEW T \in SUBSET S, \A x \in T : T \ {x} \in G PROVE T \in G
  <2>1. CASE T = {}
    <3>1. h[{}] = SumStep(h, f, {})
      BY <1>2 DEF Sums
    <3>2. h[T] = 0
      BY <2>1, <3>1 DEF SumStep
    <3> QED BY <3>2
  <2>2. CASE T # {}
    <3>1. PICK y : y = AnyOf(T)
      OBVIOUS
    <3>2. y \in T /\ h[T] = f[y] + h[T \ {y}]
      BY <1>2, <2>2, <3>1 DEF AnyOf, Sums, SumStep
    <3>3. f[y] \in Nat /\ h[T \ {y}] \in Nat
      BY <1>3, <3>2
    <3> QED BY <3>2, <3>3
  <2> QED BY <2>1, <2>2
<1>4. \A T \in SUBSET S : T \in G
  <2>1. \A T \in SUBSET S : (\A x \in T : T \ {x} \in G) => T \in G
    BY <1>3
  <2> HIDE DEF G
  <2> QED BY <2>1, SubsetInduction, Zenon
<1>5. SumFunction(f) = h[S]
  BY <1>1, <1>2, SumIs
<1> QED BY <1>4, <1>5

LEMMA SumOfNothing ==
    ASSUME NEW S, IsFiniteSet(S)
    PROVE  SumFunction([x \in S |-> 0]) = 0
<1> DEFINE f == [x \in S |-> 0]
           h == [T \in SUBSET S |-> 0]
<1>1. f \in [S -> Int] /\ h \in [SUBSET S -> Int]
  OBVIOUS
<1>2. ASSUME NEW T \in SUBSET S PROVE h[T] = SumStep(h, f, T)
  <2>1. CASE T # {}
    <3>1. AnyOf(T) \in S
      BY <2>1 DEF AnyOf
    <3> QED BY <2>1, <3>1 DEF SumStep
  <2> QED BY <2>1 DEF SumStep
<1>3. Sums(h, f, SUBSET S) /\ h[S] = 0
  BY <1>2 DEF Sums
<1> HIDE DEF f, h
<1>4. SumFunction(f) = 0
  BY <1>1, <1>3, SumIs
<1> QED BY <1>4 DEF f

\* One value of a function changes, and its sum by as much.
Moves(f, g, x, v) == SumFunction(g) = SumFunction(f) + (v - f[x])

LEMMA SumChanges ==
    ASSUME NEW S, IsFiniteSet(S), NEW f \in [S -> Int], NEW x \in S, NEW v \in Int,
           NEW g, g = [f EXCEPT ![x] = v]
    PROVE  Moves(f, g, x, v)
<1> DEFINE d == v - f[x]
           More(T) == IF x \in T THEN d ELSE 0
           N == Cardinality(S)
<1>1. d \in Int /\ g \in [S -> Int] /\ g[x] = f[x] + d /\ \A y \in S : y # x => g[y] = f[y]
  OBVIOUS
<1> HIDE DEF d
<1>2. PICK h \in [SUBSET S -> Int] : Sums(h, f, SUBSET S)
  BY SumsExist
<1>3. PICK j \in [SUBSET S -> Int] : Sums(j, g, SUBSET S)
  BY <1>1, SumsExist
<1> DEFINE Good == {m \in 0..N : \A T \in Small(S, m) : j[T] = h[T] + More(T)}
<1>4. N \in Nat
  BY SmallAll
<1> HIDE DEF N
<1>5. 0 \in Good
  <2>1. j[{}] = 0 /\ h[{}] = 0
    BY <1>2, <1>3 DEF Sums, SumStep
  <2>2. ASSUME NEW T \in Small(S, 0) PROVE j[T] = h[T] + More(T)
    <3>1. T = {}
      BY SmallNone
    <3> QED BY <2>1, <3>1
  <2> QED BY <1>4, <2>2
<1>6. ASSUME NEW m \in 0..N, m < N, m \in Good PROVE m + 1 \in Good
  <2>1. m \in Nat /\ m + 1 \in 0..N /\ \A T \in Small(S, m) : j[T] = h[T] + More(T)
    BY <1>4, <1>6
  <2>2. ASSUME NEW T \in Small(S, m + 1) PROVE j[T] = h[T] + More(T)
    <3>1. T \in SUBSET S /\ j[T] = SumStep(j, g, T) /\ h[T] = SumStep(h, f, T)
      BY <1>2, <1>3 DEF Sums, Small
    <3>2. CASE T = {}
      BY <3>1, <3>2 DEF SumStep
    <3>3. CASE T # {}
      <4>1. PICK y : y = AnyOf(T)
        OBVIOUS
      <4>2. T \ {y} \in Small(S, m) /\ y \in T
        BY <2>1, <3>3, <4>1, SmallLess
      <4>3. /\ T \ {y} \in SUBSET S /\ y \in S
            /\ j[T] = g[y] + j[T \ {y}] /\ h[T] = f[y] + h[T \ {y}]
        BY <3>1, <3>3, <4>1, <4>2 DEF SumStep
      <4>4. j[T \ {y}] = h[T \ {y}] + More(T \ {y})
        BY <2>1, <4>2
      <4>5. h[T \ {y}] \in Int /\ f[y] \in Int
        BY <1>2, <4>3
      <4>6. CASE y = x
        <5>1. More(T \ {y}) = 0 /\ More(T) = d /\ g[y] = f[y] + d
          BY <1>1, <4>2, <4>6
        <5> HIDE DEF More
        <5> QED BY <1>1, <4>3, <4>4, <4>5, <5>1
      <4>7. CASE y # x
        <5>1. More(T \ {y}) = More(T) /\ g[y] = f[y] /\ More(T) \in Int
          BY <1>1, <4>3, <4>7
        <5> HIDE DEF More
        <5> QED BY <4>3, <4>4, <4>5, <5>1
      <4> QED BY <4>6, <4>7
    <3> QED BY <3>2, <3>3
  <2> QED BY <2>1, <2>2
<1>7. N \in Good
  <2> HIDE DEF Good
  <2> QED BY <1>4, <1>5, <1>6, Climbing
<1>8. j[S] = h[S] + d
  <2>1. S \in Small(S, N)
    BY SmallAll DEF N
  <2> QED BY <1>7, <2>1
<1>9. SumFunction(f) = h[S] /\ SumFunction(g) = j[S]
  BY <1>1, <1>2, <1>3, SumIs
<1> QED BY <1>8, <1>9 DEF d, Moves

\* Any member may be taken out of a sum first.
LEMMA SumPicks ==
    ASSUME NEW S, IsFiniteSet(S), NEW f \in [S -> Int], NEW h \in [SUBSET S -> Int],
           Sums(h, f, SUBSET S)
    PROVE  \A T \in SUBSET S : \A x \in T : h[T] = f[x] + h[T \ {x}]
<1> DEFINE G == {T \in SUBSET S : \A x \in T : h[T] = f[x] + h[T \ {x}]}
<1>1. ASSUME NEW T \in SUBSET S, \A x \in T : T \ {x} \in G PROVE T \in G
  <2>1. ASSUME NEW x \in T PROVE h[T] = f[x] + h[T \ {x}]
    <3>1. PICK y : y = AnyOf(T)
      OBVIOUS
    <3>2. y \in T /\ h[T] = f[y] + h[T \ {y}]
      BY <3>1 DEF AnyOf, Sums, SumStep
    <3>3. CASE y = x
      BY <3>2, <3>3
    <3>4. CASE y # x
      <4> DEFINE R == (T \ {x}) \ {y}
      <4>1. R = (T \ {y}) \ {x} /\ R \in SUBSET S
        OBVIOUS
      <4>2. h[T \ {y}] = f[x] + h[R] /\ h[T \ {x}] = f[y] + h[R]
        BY <1>1, <3>2, <3>4, <4>1
      <4>3. h[R] \in Int /\ f[x] \in Int /\ f[y] \in Int
        BY <3>2, <4>1
      <4> QED BY <3>2, <4>2, <4>3
    <3> QED BY <3>3, <3>4
  <2> QED BY <2>1
<1>2. \A T \in SUBSET S : T \in G
  <2>1. \A T \in SUBSET S : (\A x \in T : T \ {x} \in G) => T \in G
    BY <1>1
  <2> HIDE DEF G
  <2> QED BY <2>1, SubsetInduction, Zenon
<1> QED BY <1>2

\* The sum over some of the arguments.
LEMMA SumOfSome ==
    ASSUME NEW S, IsFiniteSet(S), NEW f \in [S -> Int], NEW h \in [SUBSET S -> Int],
           Sums(h, f, SUBSET S), NEW R \in SUBSET S
    PROVE  SumFunction([y \in R |-> f[y]]) = h[R]
<1>1. PICK j : j = [T \in SUBSET R |-> h[T]]
  OBVIOUS
<1> DEFINE g == [y \in R |-> f[y]]
<1>2. g = [y \in R |-> f[y]] /\ g \in [R -> Int]
  OBVIOUS
<1>3. j \in [SUBSET R -> Int] /\ IsFiniteSet(R)
  BY <1>1, FS_Subset
<1>4. Sums(j, g, SUBSET R)
  <2>1. ASSUME NEW T \in SUBSET R PROVE j[T] = SumStep(j, g, T)
    <3>1. T \in SUBSET S /\ j[T] = h[T] /\ h[T] = SumStep(h, f, T)
      BY <1>1 DEF Sums
    <3>2. CASE T = {}
      BY <3>1, <3>2 DEF SumStep
    <3>3. CASE T # {}
      <4>1. AnyOf(T) \in T /\ T \ {AnyOf(T)} \in SUBSET R
        BY <3>3 DEF AnyOf
      <4>2. j[T \ {AnyOf(T)}] = h[T \ {AnyOf(T)}] /\ g[AnyOf(T)] = f[AnyOf(T)]
        BY <1>1, <1>2, <4>1
      <4> QED BY <3>1, <3>3, <4>2 DEF SumStep
    <3> QED BY <3>2, <3>3
  <2> QED BY <2>1 DEF Sums
<1> HIDE DEF g
<1>5. SumFunction(g) = j[R] /\ j[R] = h[R]
  BY <1>1, <1>2, <1>3, <1>4, SumIs
<1> QED BY <1>2, <1>5

\* The sum without one of the arguments.
LEMMA SumDrop ==
    ASSUME NEW S, IsFiniteSet(S), NEW f \in [S -> Int], NEW x \in S
    PROVE  LET g == [y \in S \ {x} |-> f[y]]
           IN  SumFunction(f) = f[x] + SumFunction(g) /\ SumFunction(g) \in Int
<1>1. PICK h \in [SUBSET S -> Int] : Sums(h, f, SUBSET S)
  BY SumsExist
<1>2. SumFunction(f) = h[S] /\ SumFunction([y \in S \ {x} |-> f[y]]) = h[S \ {x}]
  BY <1>1, SumIs, SumOfSome
<1>3. h[S] = f[x] + h[S \ {x}] /\ h[S \ {x}] \in Int
  BY <1>1, SumPicks
<1> QED BY <1>2, <1>3

\* Arguments without a value can be left out.
LEMMA SumOfPart ==
    ASSUME NEW S, IsFiniteSet(S), NEW f \in [S -> Int], NEW R \in SUBSET S,
           \A x \in S \ R : f[x] = 0
    PROVE  SumFunction(f) = SumFunction([x \in R |-> f[x]])
<1>1. PICK h \in [SUBSET S -> Int] : Sums(h, f, SUBSET S)
  BY SumsExist
<1> DEFINE G == {T \in SUBSET S : h[T] = h[T \cap R]}
<1>2. ASSUME NEW T \in SUBSET S, \A x \in T : T \ {x} \in G PROVE T \in G
  <2>1. CASE T = {}
    BY <2>1
  <2>2. CASE T # {}
    <3>1. PICK x \in T : TRUE
      BY <2>2
    <3>2. h[T] = f[x] + h[(T \ {x}) \cap R]
      <4>1. h[T] = f[x] + h[T \ {x}]
        BY <1>1, SumPicks
      <4>2. h[T \ {x}] = h[(T \ {x}) \cap R]
        BY <1>2
      <4> QED BY <4>1, <4>2
    <3>3. CASE x \in R
      <4>1. (T \ {x}) \cap R = (T \cap R) \ {x} /\ T \cap R \in SUBSET S /\ x \in T \cap R
        BY <3>3
      <4>2. PICK U \in SUBSET S : U = T \cap R
        BY <4>1
      <4>3. h[U] = f[x] + h[U \ {x}]
        BY <1>1, <4>1, <4>2, SumPicks
      <4> QED BY <3>2, <4>1, <4>2, <4>3
    <3>4. CASE x \notin R
      <4>1. (T \ {x}) \cap R = T \cap R /\ T \cap R \in SUBSET S /\ f[x] = 0
        BY <3>4
      <4>2. h[T \cap R] \in Int
        BY <4>1
      <4> QED BY <3>2, <4>1, <4>2
    <3> QED BY <3>3, <3>4
  <2> QED BY <2>1, <2>2
<1> HIDE DEF G
<1>3. S \in G
  BY <1>2, SubsetInduction
<1>4. S \cap R = R
  OBVIOUS
<1>5. h[S] = h[R]
  BY <1>3, <1>4 DEF G
<1>6. SumFunction(f) = h[S] /\ SumFunction([x \in R |-> f[x]]) = h[R]
  BY <1>1, SumIs, SumOfSome
<1> QED BY <1>5, <1>6

\* Counting is adding ones.
LEMMA SumOfOnes ==
    ASSUME NEW S, IsFiniteSet(S)
    PROVE  SumFunction([x \in S |-> 1]) = Cardinality(S)
<1> DEFINE f == [x \in S |-> 1]
           h == [T \in SUBSET S |-> Cardinality(T)]
<1>1. \A T \in SUBSET S : IsFiniteSet(T) /\ Cardinality(T) \in Nat
  BY FS_Subset, FS_CardinalityType
<1>2. f \in [S -> Int] /\ h \in [SUBSET S -> Int]
  BY <1>1
<1>3. ASSUME NEW T \in SUBSET S PROVE h[T] = SumStep(h, f, T)
  <2>1. CASE T = {}
    BY <2>1, FS_EmptySet DEF SumStep
  <2>2. CASE T # {}
    <3>1. AnyOf(T) \in T /\ AnyOf(T) \in S /\ T \ {AnyOf(T)} \in SUBSET S
      BY <2>2 DEF AnyOf
    <3>2. Cardinality(T \ {AnyOf(T)}) = Cardinality(T) - 1
      BY <1>1, <3>1, FS_RemoveElement
    <3>3. f[AnyOf(T)] = 1 /\ h[T \ {AnyOf(T)}] = Cardinality(T) - 1 /\ h[T] = Cardinality(T)
      BY <3>1, <3>2
    <3>4. SumStep(h, f, T) = f[AnyOf(T)] + h[T \ {AnyOf(T)}]
      BY <2>2 DEF SumStep
    <3> HIDE DEF f, h
    <3> QED BY <1>1, <3>3, <3>4
  <2> QED BY <2>1, <2>2
<1>4. Sums(h, f, SUBSET S)
  BY <1>3 DEF Sums
<1>5. h[S] = Cardinality(S)
  OBVIOUS
<1> HIDE DEF f, h
<1>6. SumFunction(f) = h[S]
  BY <1>2, <1>4, SumIs
<1> QED BY <1>5, <1>6 DEF f
=============================================================================
