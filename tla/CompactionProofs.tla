-------------------------- MODULE CompactionProofs --------------------------
(***************************************************************************)
(* What module Compaction guarantees of its files, of the manifest and of  *)
(* the ranges in a level, for every set of keys, values and getters, every *)
(* number of levels and every bound: which files there are, what the       *)
(* output of a merge has, and that levels stay apart.                      *)
(***************************************************************************)
EXTENDS Compaction, SequenceTheorems, CountingTheorems

-----------------------------------------------------------------------------
(* Least and largest elements                                              *)

\* Induction over the numbers up to n, for a property given as a set.
LEMMA UpTo ==
    ASSUME NEW n \in Nat, NEW S, 0 \in S,
           \A m \in 0..n : m < n /\ m \in S => m + 1 \in S
    PROVE  \A m \in 0..n : m \in S
<1> DEFINE Out == {m \in 0..n : m \notin S}
<1>1. SUFFICES ASSUME Out # {} PROVE FALSE
  BY <1>1
<1>2. PICK m \in Out : \A x \in Out : m <= x
  <2>1. Out \in SUBSET Nat
    OBVIOUS
  <2> QED BY <1>1, <2>1, LeastExists
<1>3. m # 0 /\ m \in 0..n
  BY <1>2
<1>4. m - 1 \in 0..n /\ m - 1 < n /\ ~ (m <= m - 1)
  BY <1>3
<1>5. m - 1 \in S
  BY <1>2, <1>4
<1>6. (m - 1) + 1 \in S
  BY <1>4, <1>5
<1>7. (m - 1) + 1 = m
  BY <1>3
<1> QED BY <1>2, <1>6, <1>7

LEMMA SetMinIs ==
    ASSUME NEW S \in SUBSET Nat, S # {}
    PROVE  SetMin(S) \in S /\ \A x \in S : SetMin(S) <= x
BY LeastExists DEF SetMin

\* A non-empty set of naturals with an upper bound has a largest element.
LEMMA SetMaxOfBounded ==
    ASSUME NEW n \in Nat, NEW S \in SUBSET Nat, S # {}, \A x \in S : x <= n
    PROVE  SetMax(S) \in S /\ \A x \in S : x <= SetMax(S)
<1> DEFINE D == {n - x : x \in S}
<1>1. \A x \in S : n - x \in Nat
  OBVIOUS
<1>2. D \in SUBSET Nat
  BY <1>1
<1>3. D # {}
  OBVIOUS
<1>4. PICK d \in D : \A y \in D : d <= y
  BY <1>2, <1>3, LeastExists
<1>5. PICK m \in S : d = n - m
  BY <1>4
<1>6. \A x \in S : n - m <= n - x
  BY <1>4, <1>5
<1>7. \A x \in S : x <= m
  BY <1>6
<1> QED BY <1>7 DEF SetMax

\* A finite set of naturals has an upper bound.
LEMMA FiniteIsBounded ==
    ASSUME NEW S \in SUBSET Nat, IsFiniteSet(S)
    PROVE  \E n \in Nat : \A x \in S : x <= n
<1>1. PICK c \in Nat : ExistsBijection(1..c, S)
  BY FS_NatBijection
<1>2. PICK f \in Bijection(1..c, S) : TRUE
  BY <1>1 DEF ExistsBijection
<1>3. f \in [1..c -> S] /\ \A x \in S : \E i \in 1..c : f[i] = x
  BY <1>2 DEF Bijection, Surjection
<1> DEFINE Good == {m \in 0..c : \E n \in Nat : \A i \in 1..m : f[i] <= n}
<1>4. 0 \in Good
  <2>1. \A i \in 1..0 : f[i] <= 0
    OBVIOUS
  <2> QED BY <1>1, <2>1
<1>5. \A m \in 0..c : m < c /\ m \in Good => m + 1 \in Good
  <2> SUFFICES ASSUME NEW m \in 0..c, m < c, m \in Good PROVE m + 1 \in Good
    OBVIOUS
  <2>1. PICK n \in Nat : \A i \in 1..m : f[i] <= n
    OBVIOUS
  <2>2. m + 1 \in 1..c /\ f[m + 1] \in Nat
    <3>1. m + 1 \in 1..c
      BY <1>1
    <3> QED BY <1>3, <3>1
  <2>3. PICK b \in Nat : n <= b /\ f[m + 1] <= b
    <3>1. CASE n <= f[m + 1]
      BY <2>2, <3>1
    <3>2. CASE ~ (n <= f[m + 1])
      BY <2>2, <3>2
    <3> QED BY <3>1, <3>2
  <2>4. \A i \in 1..(m + 1) : f[i] <= b
    <3> SUFFICES ASSUME NEW i \in 1..(m + 1) PROVE f[i] <= b
      OBVIOUS
    <3>1. CASE i = m + 1
      BY <2>3, <3>1
    <3>2. CASE i # m + 1
      <4>1. i \in 1..m /\ i \in 1..c
        BY <1>1, <3>2
      <4>2. f[i] \in Nat /\ f[i] <= n
        BY <1>3, <2>1, <4>1
      <4> QED BY <2>3, <4>2
    <3> QED BY <3>1, <3>2
  <2> QED BY <1>1, <2>4, SMTT(30)
<1> HIDE DEF Good
<1>6. \A m \in 0..c : m \in Good
  BY <1>1, <1>4, <1>5, UpTo
<1>7. c \in Good
  BY <1>1, <1>6
<1>8. PICK n \in Nat : \A i \in 1..c : f[i] <= n
  BY <1>7 DEF Good
<1> QED BY <1>3, <1>8

LEMMA SetMaxIs ==
    ASSUME NEW S \in SUBSET Nat, IsFiniteSet(S), S # {}
    PROVE  SetMax(S) \in S /\ \A x \in S : x <= SetMax(S)
BY FiniteIsBounded, SetMaxOfBounded

LEMMA FiniteImage ==
    ASSUME NEW S, IsFiniteSet(S), NEW f
    PROVE  IsFiniteSet({f[x] : x \in S})
<1> DEFINE T == {f[x] : x \in S}
           g == [x \in S |-> f[x]]
<1>1. g \in [S -> T] /\ \A t \in T : \E x \in S : g[x] = t
  OBVIOUS
<1> HIDE DEF g, T
<1>2. g \in Surjection(S, T)
  BY <1>1, Fun_IsSurj
<1>3. IsFiniteSet(T)
  BY <1>2, FS_Surjection
<1> QED BY <1>3 DEF T

\* Of the elements of a finite set one has the largest value.
LEMMA LargestValue ==
    ASSUME NEW S, IsFiniteSet(S), S # {}, NEW v, \A x \in S : v[x] \in Nat
    PROVE  \E x \in S : \A y \in S : v[y] <= v[x]
<1> DEFINE T == {v[x] : x \in S}
<1>1. IsFiniteSet(T)
  BY FiniteImage
<1>2. T \in SUBSET Nat /\ T # {}
  OBVIOUS
<1>3. SetMax(T) \in T /\ \A t \in T : t <= SetMax(T)
  <2> HIDE DEF T
  <2> QED BY <1>1, <1>2, SetMaxIs
<1>4. PICK x \in S : SetMax(T) = v[x]
  BY <1>3
<1>5. \A y \in S : v[y] <= v[x]
  BY <1>3, <1>4
<1> QED BY <1>5

-----------------------------------------------------------------------------
(* Selecting elements of a sequence                                        *)

\* The loop of Select: f[n] is what it has kept after the first n elements.
SelectRun(f, s, I, T) ==
    /\ f \in [0..Len(s) -> Seq(T)]
    /\ f[0] = << >>
    /\ \A n \in 1..Len(s) : f[n] = IF n \in I THEN Append(f[n - 1], s[n]) ELSE f[n - 1]
    /\ Select(s, I) = f[Len(s)]

LEMMA SelectLoop ==
    ASSUME NEW T, NEW s \in Seq(T), NEW I
    PROVE  \E f : SelectRun(f, s, I, T)
<1> DEFINE N == Len(s)
           Step(f, n) == IF n = 0 THEN << >>
                         ELSE IF n \in I THEN Append(f[n - 1], s[n])
                         ELSE f[n - 1]
           Loop(f, m) == f = [n \in 0..m |-> Step(f, n)]
           Done == {m \in 0..N : \E f : Loop(f, m) /\ \A n \in 0..m : f[n] \in Seq(T)}
<1>1. N \in Nat /\ \A n \in 1..N : s[n] \in T
  OBVIOUS
<1> HIDE DEF N
<1>2. \A f : Step(f, 0) = << >>
  OBVIOUS
<1>3. \A f, n : n # 0 => Step(f, n) = IF n \in I THEN Append(f[n - 1], s[n]) ELSE f[n - 1]
  OBVIOUS
<1>4. \A f, g : \A n \in 1..N : f[n - 1] = g[n - 1] => Step(f, n) = Step(g, n)
  OBVIOUS
<1> HIDE DEF Step
<1>5. \A f : \A m \in Nat : Loop(f, m) => \A n \in 0..m : f[n] = Step(f, n)
  OBVIOUS
<1>6. \A f, n : n \in 1..N /\ f[n - 1] \in Seq(T) => Step(f, n) \in Seq(T)
  <2> SUFFICES ASSUME NEW f, NEW n \in 1..N, f[n - 1] \in Seq(T) PROVE Step(f, n) \in Seq(T)
    OBVIOUS
  <2>1. s[n] \in T /\ n # 0
    BY <1>1
  <2>2. Append(f[n - 1], s[n]) \in Seq(T)
    BY <2>1
  <2> QED BY <1>3, <2>1, <2>2
<1>7. 0 \in Done
  <2> DEFINE f == [n \in 0..0 |-> Step([i \in {} |-> i], n)]
  <2>1. \A n \in 0..0 : n = 0
    OBVIOUS
  <2>2. Loop(f, 0)
    BY <1>2, <2>1
  <2>3. f[0] = << >>
    BY <1>2, <2>1
  <2> HIDE DEF f
  <2>4. \A n \in 0..0 : f[n] = << >> /\ << >> \in Seq(T)
    BY <2>1, <2>3
  <2> QED BY <1>1, <2>2, <2>4
<1>8. \A m \in 0..N : m < N /\ m \in Done => m + 1 \in Done
  <2> SUFFICES ASSUME NEW m \in 0..N, m < N, m \in Done PROVE m + 1 \in Done
    OBVIOUS
  <2>1. PICK f : Loop(f, m) /\ \A n \in 0..m : f[n] \in Seq(T)
    OBVIOUS
  <2>2. \A n \in 0..m : f[n] = Step(f, n)
    BY <1>5, <2>1
  <2> DEFINE g == [n \in 0..(m + 1) |-> IF n = m + 1 THEN Step(f, m + 1) ELSE f[n]]
  <2>3. \A n \in 0..m : g[n] = f[n] /\ n \in 0..(m + 1) /\ n # m + 1
    OBVIOUS
  <2>4. g[m + 1] = Step(f, m + 1)
    OBVIOUS
  <2>5. DOMAIN g = 0..(m + 1) /\ g = [n \in 0..(m + 1) |-> g[n]]
    OBVIOUS
  <2> HIDE DEF g
  <2>6. \A n \in 0..(m + 1) : g[n] = Step(g, n) /\ g[n] \in Seq(T)
    <3> SUFFICES ASSUME NEW n \in 0..(m + 1) PROVE g[n] = Step(g, n) /\ g[n] \in Seq(T)
      OBVIOUS
    <3>1. CASE n = 0
      <4>1. n \in 0..m
        BY <3>1
      <4>2. g[n] = Step(f, 0) /\ g[n] \in Seq(T)
        BY <2>1, <2>2, <2>3, <3>1, <4>1
      <4> QED BY <1>2, <3>1, <4>2
    <3>2. CASE n # 0
      <4>1. n \in 1..N /\ n - 1 \in 0..m
        BY <1>1, <3>2
      <4>2. g[n - 1] = f[n - 1] /\ f[n - 1] \in Seq(T)
        BY <2>1, <2>3, <4>1
      <4>3. Step(g, n) = Step(f, n) /\ Step(f, n) \in Seq(T)
        BY <1>4, <1>6, <4>1, <4>2
      <4>4. g[n] = Step(f, n)
        <5>1. CASE n = m + 1
          BY <2>4, <5>1
        <5>2. CASE n # m + 1
          <6>1. n \in 0..m
            BY <5>2
          <6> QED BY <2>2, <2>3, <6>1
        <5> QED BY <5>1, <5>2
      <4> QED BY <4>3, <4>4
    <3> QED BY <3>1, <3>2
  <2>7. Loop(g, m + 1)
    BY <2>5, <2>6
  <2>8. m + 1 \in 0..N
    BY <1>1
  <2> QED BY <2>6, <2>7, <2>8
<1> HIDE DEF Done
<1>9. \A m \in 0..N : m \in Done
  BY <1>1, <1>7, <1>8, UpTo
<1>10. N \in Done
  BY <1>1, <1>9
<1>11. \E f : Loop(f, N)
  BY <1>10 DEF Done
<1> DEFINE kept == CHOOSE f : Loop(f, N)
<1>12. Loop(kept, N)
  BY <1>11
<1>13. Select(s, I) = kept[N]
  BY DEF Select, N, Step
<1> HIDE DEF kept
<1>14. \A n \in 0..N : kept[n] = Step(kept, n)
  BY <1>1, <1>5, <1>12
<1> DEFINE Good == {m \in 0..N : kept[m] \in Seq(T)}
<1>15. \A m \in 0..N : m \in Good
  <2>1. 0 \in 0..N /\ kept[0] = << >> /\ << >> \in Seq(T)
    BY <1>1, <1>2, <1>14
  <2>2. 0 \in Good
    BY <2>1
  <2>3. \A m \in 0..N : m < N /\ m \in Good => m + 1 \in Good
    <3> SUFFICES ASSUME NEW m \in 0..N, m < N, m \in Good PROVE m + 1 \in Good
      OBVIOUS
    <3>1. m + 1 \in 1..N /\ m + 1 \in 0..N /\ (m + 1) - 1 = m
      BY <1>1
    <3>2. kept[(m + 1) - 1] \in Seq(T)
      BY <3>1
    <3>3. Step(kept, m + 1) \in Seq(T)
      BY <1>6, <3>1, <3>2
    <3>4. kept[m + 1] \in Seq(T)
      BY <1>14, <3>1, <3>3
    <3> QED BY <3>1, <3>4
  <2> HIDE DEF Good
  <2> QED BY <1>1, <2>2, <2>3, UpTo
<1>16. kept = [n \in 0..N |-> kept[n]]
  BY <1>12
<1>17. kept \in [0..N -> Seq(T)]
  BY <1>15, <1>16
<1>18. kept[0] = << >>
  BY <1>1, <1>2, <1>14
<1>19. \A n \in 1..N : kept[n] = IF n \in I THEN Append(kept[n - 1], s[n]) ELSE kept[n - 1]
  <2> SUFFICES ASSUME NEW n \in 1..N
               PROVE  kept[n] = IF n \in I THEN Append(kept[n - 1], s[n]) ELSE kept[n - 1]
    OBVIOUS
  <2>1. n # 0 /\ n \in 0..N
    BY <1>1
  <2>2. kept[n] = Step(kept, n)
    BY <1>14, <2>1
  <2> QED BY <1>3, <2>1, <2>2
<1>20. SelectRun(kept, s, I, T)
  BY <1>13, <1>17, <1>18, <1>19 DEF N, SelectRun
<1> QED BY <1>20

\* The elements of t are those of the first n of s at the positions I, in their order:
\* at maps positions of t to positions of s.
Embeds(at, t, s, I, n) ==
    /\ at \in [1..Len(t) -> 1..n]
    /\ \A p \in 1..Len(t) : at[p] \in I /\ t[p] = s[at[p]]
    /\ \A p, q \in 1..Len(t) : p < q => at[p] < at[q]
    /\ \A i \in 1..n : i \in I => \E p \in 1..Len(t) : at[p] = i

LEMMA EmbedsMore ==
    ASSUME NEW T, NEW s \in Seq(T), NEW t \in Seq(T), NEW I, NEW n \in Nat, NEW at,
           Embeds(at, t, s, I, n), n < Len(s)
    PROVE  /\ n + 1 \in I => \E a : Embeds(a, Append(t, s[n + 1]), s, I, n + 1)
           /\ n + 1 \notin I => Embeds(at, t, s, I, n + 1)
<1> DEFINE L == Len(t)
           e == s[n + 1]
           u == Append(t, e)
<1>1. L \in Nat /\ n + 1 \in 1..Len(s)
  OBVIOUS
<1>2. e \in T
  BY <1>1
<1>3. Len(u) = L + 1 /\ u[L + 1] = e /\ \A p \in 1..L : u[p] = t[p]
  BY <1>2
<1>4. /\ at \in [1..L -> 1..n]
      /\ \A p \in 1..L : at[p] \in I /\ t[p] = s[at[p]]
      /\ \A p, q \in 1..L : p < q => at[p] < at[q]
      /\ \A i \in 1..n : i \in I => \E p \in 1..L : at[p] = i
  BY DEF Embeds
<1>5. \A i \in 1..(n + 1) : i = n + 1 \/ i \in 1..n
  OBVIOUS
<1>6. 1..n \subseteq 1..(n + 1)
  OBVIOUS
<1>7. ASSUME n + 1 \in I PROVE \E a : Embeds(a, u, s, I, n + 1)
  <2> HIDE DEF u, L
  <2> DEFINE a == [p \in 1..(L + 1) |-> IF p = L + 1 THEN n + 1 ELSE at[p]]
  <2>1. \A p \in 1..(L + 1) : p = L + 1 \/ (p \in 1..L /\ p # L + 1)
    BY <1>1
  <2>2. \A p \in 1..L : a[p] = at[p] /\ at[p] \in 1..n /\ at[p] < n + 1
    BY <1>1, <1>4
  <2>3. a[L + 1] = n + 1
    BY <1>1
  <2>4. DOMAIN a = 1..(L + 1) /\ a = [p \in 1..(L + 1) |-> a[p]]
    OBVIOUS
  <2> HIDE DEF a
  <2>5. a \in [1..(L + 1) -> 1..(n + 1)]
    <3>1. n + 1 \in 1..(n + 1)
      OBVIOUS
    <3>2. \A p \in 1..(L + 1) : a[p] \in 1..(n + 1)
      BY <1>6, <2>1, <2>2, <2>3, <3>1
    <3> QED BY <2>4, <3>2
  <2>6. \A p \in 1..(L + 1) : a[p] \in I /\ u[p] = s[a[p]]
    BY <1>3, <1>4, <1>7, <2>1, <2>2, <2>3
  <2>7. \A p, q \in 1..(L + 1) : p < q => a[p] < a[q]
    <3> SUFFICES ASSUME NEW p \in 1..(L + 1), NEW q \in 1..(L + 1), p < q PROVE a[p] < a[q]
      OBVIOUS
    <3>1. p \in 1..L
      BY <1>1
    <3>2. CASE q = L + 1
      BY <2>2, <2>3, <3>1, <3>2
    <3>3. CASE q # L + 1
      <4>1. q \in 1..L
        BY <2>1, <3>3
      <4> QED BY <1>4, <2>2, <3>1, <4>1
    <3> QED BY <3>2, <3>3
  <2>8. \A i \in 1..(n + 1) : i \in I => \E p \in 1..(L + 1) : a[p] = i
    <3> SUFFICES ASSUME NEW i \in 1..(n + 1), i \in I PROVE \E p \in 1..(L + 1) : a[p] = i
      OBVIOUS
    <3>1. CASE i = n + 1
      BY <1>1, <2>3, <3>1
    <3>2. CASE i \in 1..n
      <4>1. PICK p \in 1..L : at[p] = i
        BY <1>4, <3>2
      <4>2. p \in 1..(L + 1)
        BY <1>1
      <4> QED BY <2>2, <4>1, <4>2
    <3> QED BY <1>5, <3>1, <3>2
  <2>9. Len(u) = L + 1
    BY <1>3
  <2>10. Embeds(a, u, s, I, n + 1)
    BY <2>5, <2>6, <2>7, <2>8, <2>9 DEF Embeds
  <2> QED BY <2>10
<1>8. ASSUME n + 1 \notin I PROVE Embeds(at, t, s, I, n + 1)
  BY <1>4, <1>5, <1>6, <1>8 DEF Embeds
<1> QED BY <1>7, <1>8

\* Select keeps the elements at the positions I, in their order.
LEMMA SelectEmbeds ==
    ASSUME NEW T, NEW s \in Seq(T), NEW I
    PROVE  /\ Select(s, I) \in Seq(T)
           /\ \E at : Embeds(at, Select(s, I), s, I, Len(s))
<1>0. PICK f : SelectRun(f, s, I, T)
  BY SelectLoop
<1>1. /\ f \in [0..Len(s) -> Seq(T)]
      /\ f[0] = << >>
      /\ \A n \in 1..Len(s) : f[n] = IF n \in I THEN Append(f[n - 1], s[n]) ELSE f[n - 1]
      /\ Select(s, I) = f[Len(s)]
  BY <1>0 DEF SelectRun
<1>2. Len(s) \in Nat
  OBVIOUS
<1> DEFINE Good == {n \in 0..Len(s) : \E at : Embeds(at, f[n], s, I, n)}
<1>3. 0 \in Good
  <2> DEFINE at == [p \in 1..0 |-> 1]
  <2>1. Len(f[0]) = 0 /\ 1..0 = {}
    BY <1>1
  <2>2. at \in [1..0 -> 1..0]
    BY <2>1
  <2> HIDE DEF at
  <2>3. Embeds(at, f[0], s, I, 0)
    BY <2>1, <2>2 DEF Embeds
  <2> QED BY <1>2, <2>3
<1>4. \A n \in 0..Len(s) : n < Len(s) /\ n \in Good => n + 1 \in Good
  <2> SUFFICES ASSUME NEW n \in 0..Len(s), n < Len(s), n \in Good PROVE n + 1 \in Good
    OBVIOUS
  <2>1. PICK at : Embeds(at, f[n], s, I, n)
    OBVIOUS
  <2>2. n + 1 \in 1..Len(s) /\ n + 1 \in 0..Len(s) /\ (n + 1) - 1 = n /\ n \in Nat
    BY <1>2
  <2>3. f[n] \in Seq(T)
    BY <1>1
  <2>4. f[n + 1] = IF n + 1 \in I THEN Append(f[n], s[n + 1]) ELSE f[n]
    BY <1>1, <2>2
  <2>5. /\ n + 1 \in I => \E a : Embeds(a, Append(f[n], s[n + 1]), s, I, n + 1)
        /\ n + 1 \notin I => Embeds(at, f[n], s, I, n + 1)
    BY <2>1, <2>2, <2>3, EmbedsMore
  <2>6. \E a : Embeds(a, f[n + 1], s, I, n + 1)
    BY <2>4, <2>5
  <2> QED BY <2>2, <2>6
<1> HIDE DEF Good
<1>5. \A n \in 0..Len(s) : n \in Good
  BY <1>2, <1>3, <1>4, UpTo
<1>6. Len(s) \in 0..Len(s)
  BY <1>2
<1>7. Len(s) \in Good /\ f[Len(s)] \in Seq(T)
  BY <1>1, <1>5, <1>6
<1>8. \E at : Embeds(at, f[Len(s)], s, I, Len(s))
  BY <1>7 DEF Good
<1> QED BY <1>1, <1>7, <1>8

\* Nothing is dropped: the sequence is as it was.
LEMMA SelectAll ==
    ASSUME NEW T, NEW s \in Seq(T), NEW I, 1..Len(s) \subseteq I
    PROVE  Select(s, I) = s
<1>0. PICK f : SelectRun(f, s, I, T)
  BY SelectLoop
<1>1. /\ f[0] = << >>
      /\ \A n \in 1..Len(s) : f[n] = Append(f[n - 1], s[n])
      /\ Select(s, I) = f[Len(s)]
  BY <1>0 DEF SelectRun
<1>2. Len(s) \in Nat /\ \A i \in 1..Len(s) : s[i] \in T
  OBVIOUS
<1> DEFINE Front(n) == [i \in 1..n |-> s[i]]
           Good == {n \in 0..Len(s) : f[n] = Front(n)}
<1>3. 0 \in Good
  <2>1. Front(0) = << >>
    OBVIOUS
  <2> QED BY <1>1, <1>2, <2>1
<1>4. \A n \in 0..Len(s) : n < Len(s) /\ n \in Good => n + 1 \in Good
  <2> SUFFICES ASSUME NEW n \in 0..Len(s), n < Len(s), n \in Good PROVE n + 1 \in Good
    OBVIOUS
  <2>1. n + 1 \in 1..Len(s) /\ n + 1 \in 0..Len(s) /\ (n + 1) - 1 = n /\ n \in Nat
    BY <1>2
  <2>2. f[n + 1] = Append(Front(n), s[n + 1])
    BY <1>1, <2>1
  <2>3. \A i \in 1..n : i \in 1..Len(s)
    BY <1>2
  <2>4. Front(n) \in Seq(T) /\ Len(Front(n)) = n
    BY <1>2, <2>1, <2>3
  <2>5. Append(Front(n), s[n + 1]) = Front(n + 1)
    <3>1. s[n + 1] \in T
      BY <1>2, <2>1
    <3>2. \A i \in 1..(n + 1) : i \in 1..Len(s)
      BY <1>2
    <3>3. Front(n + 1) \in Seq(T) /\ Len(Front(n + 1)) = n + 1
      BY <1>2, <2>1, <3>2
    <3>4. Append(Front(n), s[n + 1]) \in Seq(T) /\ Len(Append(Front(n), s[n + 1])) = n + 1
      BY <2>4, <3>1
    <3>5. \A i \in 1..(n + 1) : Append(Front(n), s[n + 1])[i] = Front(n + 1)[i]
      <4> SUFFICES ASSUME NEW i \in 1..(n + 1)
                   PROVE  Append(Front(n), s[n + 1])[i] = Front(n + 1)[i]
        OBVIOUS
      <4>1. CASE i = n + 1
        BY <2>1, <2>4, <4>1
      <4>2. CASE i # n + 1
        <5>1. i \in 1..n
          BY <4>2
        <5> QED BY <2>4, <5>1
      <4> QED BY <4>1, <4>2
    <3> HIDE DEF Front
    <3> QED BY <3>3, <3>4, <3>5, SeqEqual
  <2> QED BY <2>1, <2>2, <2>5
<1> HIDE DEF Good
<1>5. \A n \in 0..Len(s) : n \in Good
  BY <1>2, <1>3, <1>4, UpTo
<1>6. Len(s) \in Good
  BY <1>2, <1>5
<1>7. f[Len(s)] = Front(Len(s))
  BY <1>6 DEF Good
<1>8. Front(Len(s)) = s
  OBVIOUS
<1> QED BY <1>1, <1>7, <1>8

\* An element added at the end and kept is kept at the end.
LEMMA SelectAppend ==
    ASSUME NEW T, NEW s \in Seq(T), NEW e \in T, NEW I, NEW J,
           \A i \in 1..Len(s) : i \in I <=> i \in J,
           Len(s) + 1 \in J
    PROVE  Select(Append(s, e), J) = Append(Select(s, I), e)
<1> DEFINE u == Append(s, e)
           N == Len(s)
<1>1. N \in Nat /\ u \in Seq(T) /\ Len(u) = N + 1 /\ u[N + 1] = e
  OBVIOUS
<1>2. \A i \in 1..N : u[i] = s[i]
  OBVIOUS
<1>3. PICK f : SelectRun(f, s, I, T)
  BY SelectLoop
<1> HIDE DEF u
<1>4. PICK g : SelectRun(g, u, J, T)
  BY <1>1, SelectLoop
<1>5. /\ f[0] = << >>
      /\ \A n \in 1..N : f[n] = IF n \in I THEN Append(f[n - 1], s[n]) ELSE f[n - 1]
      /\ Select(s, I) = f[N]
  BY <1>3 DEF SelectRun
<1>6. /\ g[0] = << >>
      /\ \A n \in 1..(N + 1) : g[n] = IF n \in J THEN Append(g[n - 1], u[n]) ELSE g[n - 1]
      /\ Select(u, J) = g[N + 1]
  BY <1>1, <1>4 DEF SelectRun
<1>7. \A i \in 1..N : i \in I <=> i \in J
  OBVIOUS
<1>8. N + 1 \in J
  OBVIOUS
<1> HIDE DEF N
<1> DEFINE Same == {n \in 0..N : f[n] = g[n]}
<1>9. 0 \in Same
  BY <1>1, <1>5, <1>6
<1>10. \A n \in 0..N : n < N /\ n \in Same => n + 1 \in Same
  <2> SUFFICES ASSUME NEW n \in 0..N, n < N, n \in Same PROVE n + 1 \in Same
    OBVIOUS
  <2>1. n + 1 \in 1..N /\ n + 1 \in 1..(N + 1) /\ n + 1 \in 0..N /\ (n + 1) - 1 = n
    BY <1>1
  <2>2. f[n + 1] = IF n + 1 \in I THEN Append(f[n], s[n + 1]) ELSE f[n]
    BY <1>5, <2>1
  <2>3. g[n + 1] = IF n + 1 \in J THEN Append(g[n], u[n + 1]) ELSE g[n]
    BY <1>6, <2>1
  <2> QED BY <1>2, <1>7, <2>1, <2>2, <2>3
<1> HIDE DEF Same
<1>11. \A n \in 0..N : n \in Same
  BY <1>1, <1>9, <1>10, UpTo
<1>12. N \in Same /\ N + 1 \in 1..(N + 1) /\ (N + 1) - 1 = N
  BY <1>1, <1>11
<1>13. f[N] = g[N]
  BY <1>12 DEF Same
<1>14. g[N + 1] = Append(g[N], u[N + 1])
  BY <1>6, <1>8, <1>12
<1> QED BY <1>1, <1>5, <1>6, <1>13, <1>14 DEF u

-----------------------------------------------------------------------------
(* Sorting files                                                           *)

\* at maps the positions of t, which is sorted by smallest key, to those of s.
Sorts(at, t, s) ==
    /\ Len(t) = Len(s) /\ at \in [1..Len(s) -> 1..Len(s)]
    /\ \A p \in 1..Len(s) : t[p] = s[at[p]]
    /\ \A i \in 1..Len(s) : \E p \in 1..Len(s) : at[p] = i
    /\ \A p, q \in 1..Len(s) : p < q => at[p] # at[q] /\ s[at[p]].lo <= s[at[q]].lo

LEMMA SortedByLoSorts ==
    ASSUME NEW T, NEW s \in Seq(T), \A i \in 1..Len(s) : s[i].lo \in Nat
    PROVE  /\ SortedByLo(s) \in Seq(T)
           /\ \E at : Sorts(at, SortedByLo(s), s)
<1> DEFINE n == Len(s)
           Lo(i) == s[i].lo
           Before(i, j) == Lo(i) < Lo(j) \/ (Lo(i) = Lo(j) /\ i < j)
           Below(i) == {j \in 1..n : Before(j, i)}
           rank == [i \in 1..n |-> Cardinality(Below(i))]
           at == [p \in 1..n |-> CHOOSE i \in 1..n : Cardinality(Below(i)) = p - 1]
<1>1. n \in Nat /\ \A i \in 1..n : Lo(i) \in Nat /\ s[i] \in T
  OBVIOUS
<1>2. SortedByLo(s) = [p \in 1..n |-> s[at[p]]]
  BY DEF SortedByLo
<1> HIDE DEF n, Lo
<1>3. /\ \A i, j \in 1..n : i # j => Before(i, j) \/ Before(j, i)
      /\ \A i \in 1..n : ~ Before(i, i)
      /\ \A i, j, k \in 1..n : Before(i, j) /\ Before(j, k) => Before(i, k)
      /\ \A i, j \in 1..n : Before(i, j) => Lo(i) <= Lo(j)
  BY <1>1
<1> HIDE DEF Before
<1>4. IsFiniteSet(1..n) /\ Cardinality(1..n) = n
  BY <1>1, FS_Interval
<1>5. IsFiniteSet(0..(n - 1)) /\ Cardinality(0..(n - 1)) = n
  <2>1. 0 \in Int /\ n - 1 \in Int
    BY <1>1
  <2>2. IsFiniteSet(0..(n - 1))
        /\ Cardinality(0..(n - 1)) = IF 0 > n - 1 THEN 0 ELSE (n - 1) - 0 + 1
    BY <2>1, FS_Interval
  <2> QED BY <1>1, <2>2
<1>6. \A i \in 1..n : IsFiniteSet(Below(i)) /\ Cardinality(Below(i)) \in Nat
  <2> SUFFICES ASSUME NEW i \in 1..n
               PROVE  IsFiniteSet(Below(i)) /\ Cardinality(Below(i)) \in Nat
    OBVIOUS
  <2>1. Below(i) \in SUBSET (1..n)
    OBVIOUS
  <2> HIDE DEF Below
  <2> QED BY <1>4, <2>1, FS_Subset, FS_CardinalityType
<1>7. \A i, j \in 1..n : Before(i, j) => Cardinality(Below(i)) < Cardinality(Below(j))
  <2> SUFFICES ASSUME NEW i \in 1..n, NEW j \in 1..n, Before(i, j)
               PROVE  Cardinality(Below(i)) < Cardinality(Below(j))
    OBVIOUS
  <2>1. Below(i) \in SUBSET Below(j)
    BY <1>3
  <2>2. i \in Below(j) /\ i \notin Below(i)
    BY <1>3
  <2> HIDE DEF Below
  <2>3. Cardinality(Below(i)) <= Cardinality(Below(j))
        /\ Cardinality(Below(i)) # Cardinality(Below(j))
    BY <1>6, <2>1, <2>2, FS_Subset
  <2> QED BY <1>6, <2>3
<1>8. \A i \in 1..n : Cardinality(Below(i)) \in 0..(n - 1)
  <2> SUFFICES ASSUME NEW i \in 1..n PROVE Cardinality(Below(i)) \in 0..(n - 1)
    OBVIOUS
  <2>1. Below(i) \in SUBSET (1..n) /\ i \notin Below(i)
    BY <1>3
  <2> HIDE DEF Below
  <2>2. Cardinality(Below(i)) <= n /\ Cardinality(Below(i)) # n
    BY <1>4, <2>1, FS_Subset
  <2> QED BY <1>1, <1>6, <2>2
<1> HIDE DEF Below
<1>9. \A i, j \in 1..n : Cardinality(Below(i)) = Cardinality(Below(j)) => i = j
  BY <1>3, <1>6, <1>7
<1>10. rank \in [1..n -> 0..(n - 1)]
  BY <1>8
<1>11. rank \in Injection(1..n, 0..(n - 1))
  BY <1>9, <1>10, Fun_IsInj
<1>12. \A i \in 1..n : rank[i] = Cardinality(Below(i))
  OBVIOUS
<1> HIDE DEF rank
<1>13. rank \in Surjection(1..n, 0..(n - 1))
  BY <1>4, <1>5, <1>11, FS_Injection
<1>14. \A r \in 0..(n - 1) : \E i \in 1..n : Cardinality(Below(i)) = r
  BY <1>12, <1>13 DEF Surjection
<1>15. \A p \in 1..n : at[p] \in 1..n /\ Cardinality(Below(at[p])) = p - 1
  <2> SUFFICES ASSUME NEW p \in 1..n
               PROVE  at[p] \in 1..n /\ Cardinality(Below(at[p])) = p - 1
    OBVIOUS
  <2>1. p - 1 \in 0..(n - 1)
    BY <1>1
  <2>2. \E i \in 1..n : Cardinality(Below(i)) = p - 1
    BY <1>14, <2>1
  <2> QED BY <2>2
<1>16. at \in [1..n -> 1..n]
  BY <1>15
<1> HIDE DEF at
<1>17. \A i \in 1..n : \E p \in 1..n : at[p] = i
  <2> SUFFICES ASSUME NEW i \in 1..n PROVE \E p \in 1..n : at[p] = i
    OBVIOUS
  <2>1. Cardinality(Below(i)) + 1 \in 1..n
    BY <1>1, <1>8
  <2>2. Cardinality(Below(at[Cardinality(Below(i)) + 1])) = Cardinality(Below(i))
    BY <1>6, <1>15, <2>1
  <2>3. at[Cardinality(Below(i)) + 1] = i
    BY <1>9, <1>16, <2>1, <2>2
  <2> QED BY <2>1, <2>3
<1>18. \A p, q \in 1..n : p < q => at[p] # at[q] /\ Lo(at[p]) <= Lo(at[q])
  <2> SUFFICES ASSUME NEW p \in 1..n, NEW q \in 1..n, p < q
               PROVE  at[p] # at[q] /\ Lo(at[p]) <= Lo(at[q])
    OBVIOUS
  <2>1. at[p] \in 1..n /\ at[q] \in 1..n
    BY <1>15
  <2>2. Cardinality(Below(at[p])) = p - 1 /\ Cardinality(Below(at[q])) = q - 1
    BY <1>15
  <2>3. Cardinality(Below(at[p])) < Cardinality(Below(at[q]))
    BY <2>2
  <2>4. at[p] # at[q] /\ ~ Before(at[q], at[p])
    BY <1>6, <1>7, <2>1, <2>3
  <2>5. Before(at[p], at[q])
    BY <1>3, <2>1, <2>4
  <2> QED BY <1>3, <2>1, <2>4, <2>5
<1>19. SortedByLo(s) \in Seq(T) /\ Len(SortedByLo(s)) = n
  <2>1. \A p \in 1..n : s[at[p]] \in T
    BY <1>1, <1>15
  <2> QED BY <1>1, <1>2, <2>1
<1>20. \A p \in 1..n : SortedByLo(s)[p] = s[at[p]]
  BY <1>2
<1>21. Sorts(at, SortedByLo(s), s)
  BY <1>16, <1>17, <1>18, <1>19, <1>20 DEF Sorts, n, Lo
<1> QED BY <1>19, <1>21

-----------------------------------------------------------------------------
(* The files of a level, and what an edit makes of them                    *)

Meta == [num : Nat, lo : Nat, hi : Nat, size : Nat]
LevelMaps == [Levels -> Seq(Meta)]
Edits == [dels : Seq(Levels \X Nat), level : Levels, adds : Seq(Meta), next : Nat]

Files(fs) == {fs[i] : i \in 1..Len(fs)}

\* The edit deletes file n of level l.
Deletes(edit, l, n) == \E i \in 1..Len(edit.dels) : edit.dels[i] = <<l, n>>

LEMMA MetaFields ==
    ASSUME NEW f \in Meta
    PROVE  f.num \in Nat /\ f.lo \in Nat /\ f.hi \in Nat /\ f.size \in Nat
BY DEF Meta

LEMMA FilesOfSelect ==
    ASSUME NEW s \in Seq(Meta), NEW I
    PROVE  Files(Select(s, I)) = {s[i] : i \in {j \in 1..Len(s) : j \in I}}
<1> DEFINE t == Select(s, I)
           N == Len(s)
<1>1. PICK at : Embeds(at, t, s, I, N)
  BY SelectEmbeds
<1> HIDE DEF t, N
<1>2. \A p \in 1..Len(t) : at[p] \in 1..N /\ at[p] \in I /\ t[p] = s[at[p]]
  BY <1>1 DEF Embeds
<1>3. \A i \in 1..N : i \in I => \E p \in 1..Len(t) : t[p] = s[i]
  <2> SUFFICES ASSUME NEW i \in 1..N, i \in I PROVE \E p \in 1..Len(t) : t[p] = s[i]
    OBVIOUS
  <2>1. PICK p \in 1..Len(t) : at[p] = i
    BY <1>1 DEF Embeds
  <2> QED BY <1>2, <2>1
<1>4. Files(t) = {s[i] : i \in {j \in 1..N : j \in I}}
  BY <1>2, <1>3 DEF Files
<1> QED BY <1>4 DEF t, N

LEMMA FilesOfSorted ==
    ASSUME NEW s \in Seq(Meta)
    PROVE  Files(SortedByLo(s)) = Files(s)
<1>1. \A i \in 1..Len(s) : s[i] \in Meta
  OBVIOUS
<1>2. \A i \in 1..Len(s) : s[i].lo \in Nat
  BY <1>1, MetaFields
<1> DEFINE t == SortedByLo(s)
           N == Len(s)
<1>3. PICK at : Sorts(at, t, s)
  BY <1>2, SortedByLoSorts
<1> HIDE DEF t
<1>4. /\ Len(t) = N
      /\ \A p \in 1..N : at[p] \in 1..N /\ t[p] = s[at[p]]
      /\ \A i \in 1..N : \E p \in 1..N : at[p] = i
  BY <1>3 DEF Sorts
<1> HIDE DEF N
<1>5. \A i \in 1..N : \E p \in 1..N : t[p] = s[i]
  BY <1>4
<1>6. Files(t) = {t[p] : p \in 1..N}
  BY <1>4 DEF Files
<1>7. \A p \in 1..N : t[p] \in {s[i] : i \in 1..N}
  <2> SUFFICES ASSUME NEW p \in 1..N PROVE t[p] \in {s[i] : i \in 1..N}
    OBVIOUS
  <2>1. at[p] \in 1..N /\ t[p] = s[at[p]]
    BY <1>4
  <2> QED BY <2>1
<1>8. \A i \in 1..N : s[i] \in {t[p] : p \in 1..N}
  BY <1>5
<1>9. {t[p] : p \in 1..N} = {s[i] : i \in 1..N}
  BY <1>7, <1>8
<1> QED BY <1>6, <1>9 DEF t, N, Files

LEMMA FilesOfConcat ==
    ASSUME NEW s \in Seq(Meta), NEW t \in Seq(Meta)
    PROVE  s \o t \in Seq(Meta) /\ Files(s \o t) = Files(s) \cup Files(t)
<1> DEFINE u == s \o t
<1>1. /\ u \in Seq(Meta) /\ Len(u) = Len(s) + Len(t) /\ Len(s) \in Nat /\ Len(t) \in Nat
      /\ \A i \in 1..Len(s) : u[i] = s[i]
  OBVIOUS
<1>2. \A i \in 1..Len(t) : u[Len(s) + i] = t[i]
  OBVIOUS
<1> HIDE DEF u
<1>3. \A i \in 1..Len(s) : i \in 1..Len(u)
  BY <1>1
<1>4. \A i \in 1..Len(t) : Len(s) + i \in 1..Len(u)
  BY <1>1
<1>5. \A i \in 1..Len(u) : i \in 1..Len(s)
                         \/ (i - Len(s) \in 1..Len(t) /\ Len(s) + (i - Len(s)) = i)
  BY <1>1
<1>6. Files(u) \subseteq Files(s) \cup Files(t)
  <2> SUFFICES ASSUME NEW i \in 1..Len(u) PROVE u[i] \in Files(s) \cup Files(t)
    BY DEF Files
  <2>1. CASE i \in 1..Len(s)
    BY <1>1, <2>1 DEF Files
  <2>2. CASE i - Len(s) \in 1..Len(t) /\ Len(s) + (i - Len(s)) = i
    <3>1. u[i] = t[i - Len(s)]
      BY <1>2, <2>2
    <3> QED BY <2>2, <3>1 DEF Files
  <2> QED BY <1>5, <2>1, <2>2
<1>7. Files(s) \cup Files(t) \subseteq Files(u)
  BY <1>1, <1>2, <1>3, <1>4 DEF Files
<1> QED BY <1>1, <1>6, <1>7 DEF u

LEMMA EmptyHasNoFiles == << >> \in Seq(Meta) /\ Files(<< >>) = {}
BY DEF Files

LEMMA LevelsHaveZero == 0 \in Levels /\ 1 \in Levels
BY OptionsAreSane DEF Levels

\* What is left of a level by the deletions of an edit.
Left(lv, edit, l) == Select(lv[l], {p \in 1..Len(lv[l]) : ~ Deletes(edit, l, lv[l][p].num)})

LEMMA ApplyIs ==
    ASSUME NEW lv, NEW edit, NEW l \in Levels
    PROVE  Apply(lv, edit)[l] =
              IF l # edit.level \/ edit.adds = << >> THEN Left(lv, edit, l)
              ELSE IF l = 0 THEN Left(lv, edit, l) \o edit.adds
              ELSE SortedByLo(Left(lv, edit, l) \o edit.adds)
<1> DEFINE L(m) == Left(lv, edit, m)
           A(m) == IF m # edit.level \/ edit.adds = << >> THEN L(m)
                   ELSE IF m = 0 THEN L(m) \o edit.adds
                   ELSE SortedByLo(L(m) \o edit.adds)
<1>1. Apply(lv, edit) = [m \in Levels |-> A(m)]
  BY DEF Apply, Left, Deletes
<1> HIDE DEF A
<1>2. Apply(lv, edit)[l] = A(l)
  BY <1>1
<1> QED BY <1>2 DEF A

LEMMA LeftFiles ==
    ASSUME NEW lv \in LevelMaps, NEW edit, NEW l \in Levels
    PROVE  /\ Left(lv, edit, l) \in Seq(Meta)
           /\ Files(Left(lv, edit, l)) = {f \in Files(lv[l]) : ~ Deletes(edit, l, f.num)}
<1> DEFINE s == lv[l]
           I == {p \in 1..Len(s) : ~ Deletes(edit, l, s[p].num)}
<1>1. s \in Seq(Meta)
  BY DEF LevelMaps
<1> HIDE DEF s
<1>2. Select(s, I) \in Seq(Meta) /\ Files(Select(s, I)) = {s[i] : i \in {j \in 1..Len(s) : j \in I}}
  BY <1>1, SelectEmbeds, FilesOfSelect
<1>3. {s[i] : i \in {j \in 1..Len(s) : j \in I}} = {f \in Files(s) : ~ Deletes(edit, l, f.num)}
  BY DEF Files
<1> QED BY <1>2, <1>3 DEF Left, s

\* An edit takes the files it deletes out of their levels and adds the others to theirs.
LEMMA ApplyFiles ==
    ASSUME NEW lv \in LevelMaps, NEW edit \in Edits
    PROVE  /\ Apply(lv, edit) \in LevelMaps
           /\ \A l \in Levels :
                 Files(Apply(lv, edit)[l]) =
                    {f \in Files(lv[l]) : ~ Deletes(edit, l, f.num)}
                       \cup (IF l = edit.level THEN Files(edit.adds) ELSE {})
<1>1. edit.adds \in Seq(Meta)
  BY DEF Edits
<1>2. ASSUME NEW l \in Levels
      PROVE  /\ Apply(lv, edit)[l] \in Seq(Meta)
             /\ Files(Apply(lv, edit)[l]) =
                    {f \in Files(lv[l]) : ~ Deletes(edit, l, f.num)}
                       \cup (IF l = edit.level THEN Files(edit.adds) ELSE {})
  <2> DEFINE L == Left(lv, edit, l)
             A == Apply(lv, edit)[l]
             K == {f \in Files(lv[l]) : ~ Deletes(edit, l, f.num)}
  <2>1. L \in Seq(Meta) /\ Files(L) = K
    BY LeftFiles
  <2>2. A = IF l # edit.level \/ edit.adds = << >> THEN L
            ELSE IF l = 0 THEN L \o edit.adds
            ELSE SortedByLo(L \o edit.adds)
    BY ApplyIs
  <2> HIDE DEF L, A, K
  <2>3. L \o edit.adds \in Seq(Meta) /\ Files(L \o edit.adds) = K \cup Files(edit.adds)
    BY <1>1, <2>1, FilesOfConcat
  <2>4. CASE l # edit.level
    BY <2>1, <2>2, <2>4 DEF A, K
  <2>5. CASE l = edit.level /\ edit.adds = << >>
    BY <2>1, <2>2, <2>5, EmptyHasNoFiles DEF A, K
  <2>6. CASE l = edit.level /\ edit.adds # << >> /\ l = 0
    BY <2>2, <2>3, <2>6 DEF A, K
  <2>7. CASE l = edit.level /\ edit.adds # << >> /\ l # 0
    <3> DEFINE u == L \o edit.adds
    <3>0. \A i \in 1..Len(u) : u[i] \in Meta
      BY <2>3
    <3>1. \A i \in 1..Len(u) : u[i].lo \in Nat
      BY <3>0, MetaFields
    <3>2. SortedByLo(u) \in Seq(Meta) /\ Files(SortedByLo(u)) = Files(u)
      BY <2>3, <3>1, SortedByLoSorts, FilesOfSorted
    <3> QED BY <2>2, <2>3, <2>7, <3>2 DEF A, K
  <2> QED BY <2>4, <2>5, <2>6, <2>7
<1>3. Apply(lv, edit) = [l \in Levels |-> Apply(lv, edit)[l]]
  BY DEF Apply
<1>4. Apply(lv, edit) \in LevelMaps
  BY <1>2, <1>3 DEF LevelMaps
<1> QED BY <1>2, <1>4

LEMMA OneIsNotEmpty ==
    ASSUME NEW T, NEW a \in Seq(T), Len(a) = 1
    PROVE  a # << >>
OBVIOUS

LEMMA LenConcat ==
    ASSUME NEW T, NEW s \in Seq(T), NEW a \in Seq(T)
    PROVE  s \o a \in Seq(T) /\ Len(s \o a) = Len(s) + Len(a)
BY ConcatProperties

LEMMA ConcatOne ==
    ASSUME NEW T, NEW s \in Seq(T), NEW a \in Seq(T), Len(a) = 1
    PROVE  a[1] \in T /\ a # << >> /\ s \o a = Append(s, a[1])
<1> DEFINE u == s \o a
           v == Append(s, a[1])
<1>1. a[1] \in T /\ a # << >> /\ Len(s) \in Nat
  <2>1. a[1] \in T /\ Len(s) \in Nat
    OBVIOUS
  <2>2. a # << >>
    BY OneIsNotEmpty
  <2> QED BY <2>1, <2>2
<1>2. u \in Seq(T) /\ Len(u) = Len(s) + 1
  <2>1. u \in Seq(T) /\ Len(u) = Len(s) + Len(a)
    BY LenConcat
  <2> HIDE DEF u
  <2> QED BY <2>1
<1>3. v \in Seq(T) /\ Len(v) = Len(s) + 1
  BY <1>1
<1>4. \A i \in 1..Len(s) : u[i] = s[i] /\ v[i] = s[i]
  BY <1>1
<1>5. u[Len(s) + 1] = a[1]
  <2>1. Len(s) + 1 \in 1..Len(u) /\ ~ (Len(s) + 1 <= Len(s)) /\ (Len(s) + 1) - Len(s) = 1
    BY <1>1, <1>2
  <2> QED BY <2>1
<1>6. v[Len(s) + 1] = a[1]
  BY <1>1
<1> HIDE DEF u, v
<1>7. \A i \in 1..(Len(s) + 1) : u[i] = v[i]
  <2> SUFFICES ASSUME NEW i \in 1..(Len(s) + 1) PROVE u[i] = v[i]
    OBVIOUS
  <2>1. i = Len(s) + 1 \/ i \in 1..Len(s)
    BY <1>1
  <2> QED BY <1>4, <1>5, <1>6, <2>1
<1>8. u = v
  BY <1>2, <1>3, <1>7, SeqEqual
<1> QED BY <1>1, <1>8 DEF u, v

\* The edit of a flush: one file, added to Level 0.
IsFlushEdit(edit) ==
    /\ edit \in Edits
    /\ edit.dels = << >> /\ edit.level = 0 /\ Len(edit.adds) = 1

LEMMA ApplyFlush ==
    ASSUME NEW lv \in LevelMaps, NEW edit, IsFlushEdit(edit)
    PROVE  /\ edit.adds[1] \in Meta
           /\ Apply(lv, edit)[0] = Append(lv[0], edit.adds[1])
           /\ \A l \in Levels \ {0} : Apply(lv, edit)[l] = lv[l]
<1>1. edit.adds \in Seq(Meta) /\ Len(edit.adds) = 1 /\ edit.level = 0
  BY DEF IsFlushEdit, Edits
<1>5. lv[0] \in Seq(Meta) /\ 0 \in Levels
  BY LevelsHaveZero DEF LevelMaps
<1>2. edit.adds[1] \in Meta /\ edit.adds # << >>
  BY <1>1, <1>5, ConcatOne
<1>3. \A l, n : ~ Deletes(edit, l, n)
  BY DEF IsFlushEdit, Deletes
<1>4. ASSUME NEW l \in Levels PROVE Left(lv, edit, l) = lv[l]
  <2>1. lv[l] \in Seq(Meta)
    BY DEF LevelMaps
  <2>2. 1..Len(lv[l]) \subseteq {p \in 1..Len(lv[l]) : ~ Deletes(edit, l, lv[l][p].num)}
    BY <1>3
  <2> QED BY <2>1, <2>2, SelectAll DEF Left
<1>6. Apply(lv, edit)[0] = lv[0] \o edit.adds
  <2>1. Apply(lv, edit)[0] = Left(lv, edit, 0) \o edit.adds
    BY <1>1, <1>2, <1>5, ApplyIs
  <2> QED BY <1>4, <1>5, <2>1
<1>7. lv[0] \o edit.adds = Append(lv[0], edit.adds[1])
  BY <1>1, <1>5, ConcatOne
<1>8. \A l \in Levels \ {0} : Apply(lv, edit)[l] = lv[l]
  BY <1>1, <1>4, ApplyIs
<1> QED BY <1>2, <1>6, <1>7, <1>8

-----------------------------------------------------------------------------
(* Numbers and ranges of files                                             *)

LEMMA NextAfterIs ==
    ASSUME NEW next \in Nat, NEW edit \in Edits
    PROVE  /\ NextAfter(next, edit) \in Nat /\ next <= NextAfter(next, edit)
           /\ \A f \in Files(edit.adds) : f.num < NextAfter(next, edit)
<1> DEFINE N == Len(edit.adds)
           S == {edit.adds[i].num + 1 : i \in 1..N}
           A == {next, edit.next} \cup S
<1>1. edit.adds \in Seq(Meta) /\ edit.next \in Nat /\ N \in Nat
  BY DEF Edits
<1>2. \A i \in 1..N : edit.adds[i] \in Meta
  BY <1>1
<1>3. \A i \in 1..N : edit.adds[i].num \in Nat
  BY <1>2, MetaFields
<1>4. A \in SUBSET Nat /\ A # {}
  BY <1>1, <1>3
<1>5. IsFiniteSet(A)
  <2> DEFINE g == [i \in 1..N |-> edit.adds[i].num + 1]
  <2>1. g \in Surjection(1..N, S)
    <3>1. g \in [1..N -> S] /\ \A t \in S : \E i \in 1..N : g[i] = t
      OBVIOUS
    <3> HIDE DEF g, S
    <3> QED BY <3>1, Fun_IsSurj
  <2>2. IsFiniteSet(1..N)
    BY <1>1, FS_Interval
  <2> HIDE DEF g, S
  <2>3. IsFiniteSet(S)
    BY <2>1, <2>2, FS_Surjection
  <2>4. IsFiniteSet((S \cup {next}) \cup {edit.next})
    BY <2>3, FS_AddElement
  <2>5. (S \cup {next}) \cup {edit.next} = A
    OBVIOUS
  <2> QED BY <2>4, <2>5
<1> HIDE DEF A
<1>6. SetMax(A) \in A /\ \A x \in A : x <= SetMax(A)
  BY <1>4, <1>5, SetMaxIs
<1>7. NextAfter(next, edit) = SetMax(A)
  BY DEF NextAfter, A
<1>8. next \in A /\ \A i \in 1..N : edit.adds[i].num + 1 \in A
  BY DEF A
<1>9. \A i \in 1..N : edit.adds[i].num < SetMax(A)
  <2> SUFFICES ASSUME NEW i \in 1..N PROVE edit.adds[i].num < SetMax(A)
    OBVIOUS
  <2>1. edit.adds[i].num + 1 <= SetMax(A) /\ edit.adds[i].num \in Nat /\ SetMax(A) \in Nat
    BY <1>3, <1>4, <1>6, <1>8
  <2> QED BY <2>1
<1>10. \A f \in Files(edit.adds) : f.num < SetMax(A)
  BY <1>9 DEF Files
<1> QED BY <1>4, <1>6, <1>7, <1>8, <1>10

\* A table that was written.
IsTable(t) == /\ DOMAIN t \in (SUBSET Keys) \ {{}}
              /\ t \in [DOMAIN t -> {e \in Entry : e.seq > 0}]

LEMMA KeysOfTable ==
    ASSUME NEW t, IsTable(t)
    PROVE  DOMAIN t \in SUBSET Nat /\ IsFiniteSet(DOMAIN t) /\ DOMAIN t # {}
BY KeysAreNumbers, FS_Subset DEF IsTable

LEMMA MetaOfTable ==
    ASSUME NEW t, IsTable(t), NEW n \in Nat
    PROVE  /\ MetaOf(n, t) \in Meta /\ MetaOf(n, t).num = n
           /\ MetaOf(n, t).lo \in DOMAIN t /\ MetaOf(n, t).hi \in DOMAIN t
           /\ \A k \in DOMAIN t : MetaOf(n, t).lo <= k /\ k <= MetaOf(n, t).hi
<1> DEFINE D == DOMAIN t
<1>1. D \in SUBSET Nat /\ IsFiniteSet(D) /\ D # {}
  BY KeysOfTable
<1> HIDE DEF D
<1>2. SetMin(D) \in D /\ SetMax(D) \in D /\ \A k \in D : SetMin(D) <= k /\ k <= SetMax(D)
  BY <1>1, SetMinIs, SetMaxIs
<1>3. Cardinality(D) \in Nat
  BY <1>1, FS_CardinalityType
<1>4. MetaOf(n, t) = [num |-> n, lo |-> SetMin(D), hi |-> SetMax(D), size |-> Cardinality(D)]
  BY DEF MetaOf, D
<1>5. SetMin(D) \in Nat /\ SetMax(D) \in Nat
  BY <1>1, <1>2
<1>6. MetaOf(n, t) \in Meta
  BY <1>3, <1>4, <1>5 DEF Meta
<1> QED BY <1>2, <1>4, <1>6 DEF D

-----------------------------------------------------------------------------
(* The invariant of the files                                              *)

Tasks == [level : Levels, inputs : Seq(Meta), targets : Seq(Meta)]

InputLo(t) == SetMin({t.inputs[i].lo : i \in 1..Len(t.inputs)})
InputHi(t) == SetMax({t.inputs[i].hi : i \in 1..Len(t.inputs)})

\* The task t takes of Level 0 the files that were there first, of another level its first
\* file, and all the files of the next level that overlap them.
TaskIn(t, lv) ==
    /\ t \in Tasks /\ t.level + 1 \in Levels /\ t.inputs # << >>
    /\ t.level = 0 =>
          Len(t.inputs) <= Len(lv[0]) /\ \A i \in 1..Len(t.inputs) : t.inputs[i] = lv[0][i]
    /\ t.level # 0 => lv[t.level] # << >> /\ t.inputs = <<lv[t.level][1]>>
    /\ Files(t.targets) = {f \in Files(lv[t.level + 1]) :
                              RangesOverlap(InputLo(t), InputHi(t), f.lo, f.hi)}

Flushing == fpc \in {"log", "apply"}
Compacting == cpc \in {"run", "log", "apply"}
Merged == cpc \in {"log", "apply"}

CompactionTypes ==
    /\ DOMAIN files \in SUBSET Nat /\ \A n \in DOMAIN files : IsTable(files[n])
    /\ manifest \in [levels : LevelMaps, next : Nat]
    /\ levels \in LevelMaps /\ nextFile \in Nat
    /\ fpc \in {"idle", "log", "apply"} /\ (Flushing => IsFlushEdit(fedit))
    /\ cpc \in {"idle", "pick", "run", "log", "apply", "remove"}
    /\ Merged => cedit \in Edits
    /\ obsolete \in Seq(Nat)
    /\ used \in SUBSET Nat /\ IsFiniteSet(used)
    /\ crashes \in Nat /\ failures \in Nat

\* The files of level l that a version, in memory or logged, or an edit under way refers to.
KnownAt(l) ==
    Files(levels[l]) \cup Files(manifest.levels[l])
       \cup (IF Flushing /\ l = 0 THEN {fedit.adds[1]} ELSE {})
       \cup (IF Merged /\ l = cedit.level THEN Files(cedit.adds) ELSE {})

\* They are on disk, under numbers that will not be given out again.
KnownOnDisk ==
    \A l \in Levels : \A f \in KnownAt(l) :
        /\ f \in Meta /\ f.num < nextFile
        /\ f.num \in DOMAIN files /\ f = MetaOf(f.num, files[f.num])

\* A number is that of one file, on one level.
NumbersUnique ==
    \A l, m \in Levels : \A f \in KnownAt(l), g \in KnownAt(m) : f.num = g.num => l = m

\* A reopen gives out no number that the manifest refers to.
ManifestBelowNext ==
    \A l \in Levels : \A f \in Files(manifest.levels[l]) : f.num < manifest.next

\* The file that an edit under way adds is not in the version yet.
AddedIsNew ==
    /\ Flushing => \A l \in Levels : \A f \in Files(levels[l]) : f.num # fedit.adds[1].num
    /\ Merged => \A a \in Files(cedit.adds) :
                    /\ \A l \in Levels : \A f \in Files(levels[l]) : f.num # a.num
                    /\ Flushing => a.num # fedit.adds[1].num

\* A compaction under way still finds its files where it took them from, and its edit
\* deletes these.
TaskIsCurrent ==
    /\ Compacting => TaskIn(task, levels)
    /\ Merged => /\ cedit.dels = Deletions(task)
                 /\ cedit.adds # << >> => cedit.level = task.level + 1 /\ Len(cedit.adds) = 1

\* A file deleted by a logged edit is not in the manifest, nor one still to be removed
\* anywhere.
DeletedIsGone ==
    /\ cpc = "apply" =>
         \A l, m \in Levels : \A f \in Files(manifest.levels[m]) : ~ Deletes(cedit, l, f.num)
    /\ cpc = "remove" =>
         /\ obsolete # << >>
         /\ \A i \in 1..Len(obsolete) :
               /\ obsolete[i] < nextFile
               /\ \A l \in Levels : \A f \in KnownAt(l) : f.num # obsolete[i]

FilesInv ==
    /\ CompactionTypes /\ KnownOnDisk /\ NumbersUnique /\ ManifestBelowNext
    /\ AddedIsNew /\ TaskIsCurrent /\ DeletedIsGone

-----------------------------------------------------------------------------
(* Picking and merging                                                     *)

\* A sequence made of the elements of another, one by one.
LEMMA SeqOfEach ==
    ASSUME NEW N \in Nat, NEW T, NEW f, f = [i \in 1..N |-> f[i]], \A i \in 1..N : f[i] \in T
    PROVE  f \in Seq(T) /\ Len(f) = N
OBVIOUS

LEMMA DeletionsAre ==
    ASSUME NEW t \in Tasks, t.level + 1 \in Levels
    PROVE  /\ Deletions(t) \in Seq(Levels \X Nat)
           /\ t.inputs # << >> => Deletions(t) # << >>
           /\ \A edit : edit.dels = Deletions(t) =>
                 \A l, n : Deletes(edit, l, n) <=>
                             \/ l = t.level /\ \E f \in Files(t.inputs) : f.num = n
                             \/ l = t.level + 1 /\ \E f \in Files(t.targets) : f.num = n
<1> DEFINE ins == t.inputs
           tgs == t.targets
           a == [i \in 1..Len(ins) |-> <<t.level, ins[i].num>>]
           b == [i \in 1..Len(tgs) |-> <<t.level + 1, tgs[i].num>>]
           D == Levels \X Nat
<1>1. ins \in Seq(Meta) /\ tgs \in Seq(Meta) /\ t.level \in Levels
  BY DEF Tasks
<1> HIDE DEF ins, tgs
<1>2. Len(ins) \in Nat /\ Len(tgs) \in Nat
  BY <1>1
<1>3. \A i \in 1..Len(ins) : ins[i] \in Meta
  BY <1>1
<1>4. \A i \in 1..Len(tgs) : tgs[i] \in Meta
  BY <1>1
<1>5. \A i \in 1..Len(ins) : <<t.level, ins[i].num>> \in D
  BY <1>1, <1>3, MetaFields
<1>6. \A i \in 1..Len(tgs) : <<t.level + 1, tgs[i].num>> \in D
  BY <1>4, MetaFields
<1> HIDE DEF D
<1>7. a \in Seq(D) /\ Len(a) = Len(ins) /\ \A i \in 1..Len(ins) : a[i] = <<t.level, ins[i].num>>
  BY <1>2, <1>5, SeqOfEach
<1>8. b \in Seq(D) /\ Len(b) = Len(tgs) /\ \A i \in 1..Len(tgs) : b[i] = <<t.level + 1, tgs[i].num>>
  BY <1>2, <1>6, SeqOfEach
<1>9. Deletions(t) = a \o b
  BY DEF Deletions, ins, tgs
<1> HIDE DEF a, b
<1>a. a \in Seq(D) /\ b \in Seq(D)
  BY <1>7, <1>8
<1>10. /\ a \o b \in Seq(D) /\ Len(a \o b) = Len(a) + Len(b)
       /\ \A i \in 1..(Len(a) + Len(b)) : (a \o b)[i] = IF i <= Len(a) THEN a[i] ELSE b[i - Len(a)]
  BY <1>a, ConcatProperties
<1> DEFINE u == a \o b
<1> HIDE DEF u
<1>11. \A i \in 1..Len(ins) : i \in 1..Len(u) /\ u[i] = <<t.level, ins[i].num>>
  BY <1>2, <1>7, <1>8, <1>10 DEF u
<1>12. \A i \in 1..Len(tgs) : Len(ins) + i \in 1..Len(u)
                             /\ u[Len(ins) + i] = <<t.level + 1, tgs[i].num>>
  <2> SUFFICES ASSUME NEW i \in 1..Len(tgs)
               PROVE  Len(ins) + i \in 1..Len(u) /\ u[Len(ins) + i] = <<t.level + 1, tgs[i].num>>
    OBVIOUS
  <2>1. Len(ins) + i \in 1..Len(u) /\ ~ (Len(ins) + i <= Len(a)) /\ (Len(ins) + i) - Len(a) = i
    BY <1>2, <1>7, <1>8, <1>10 DEF u
  <2>2. u[Len(ins) + i] = b[i]
    BY <1>10, <2>1 DEF u
  <2> QED BY <1>8, <2>1, <2>2
<1>13. \A i \in 1..Len(u) : i \in 1..Len(ins)
                          \/ (i - Len(ins) \in 1..Len(tgs) /\ Len(ins) + (i - Len(ins)) = i)
  BY <1>2, <1>7, <1>8, <1>10 DEF u
<1>14. ASSUME NEW l, NEW n
       PROVE  (\E i \in 1..Len(u) : u[i] = <<l, n>>)
                 <=> \/ l = t.level /\ \E f \in Files(ins) : f.num = n
                     \/ l = t.level + 1 /\ \E f \in Files(tgs) : f.num = n
  <2>1. ASSUME NEW i \in 1..Len(u), u[i] = <<l, n>>
        PROVE  \/ l = t.level /\ \E f \in Files(ins) : f.num = n
               \/ l = t.level + 1 /\ \E f \in Files(tgs) : f.num = n
    <3>1. CASE i \in 1..Len(ins)
      <4>1. <<l, n>> = <<t.level, ins[i].num>>
        BY <1>11, <2>1, <3>1
      <4>2. l = t.level /\ ins[i].num = n
        BY <4>1
      <4>3. ins[i] \in Files(ins)
        BY <3>1 DEF Files
      <4> QED BY <4>2, <4>3
    <3>2. CASE i - Len(ins) \in 1..Len(tgs) /\ Len(ins) + (i - Len(ins)) = i
      <4>1. <<l, n>> = <<t.level + 1, tgs[i - Len(ins)].num>>
        BY <1>12, <2>1, <3>2
      <4>2. l = t.level + 1 /\ tgs[i - Len(ins)].num = n
        BY <4>1
      <4>3. tgs[i - Len(ins)] \in Files(tgs)
        BY <3>2 DEF Files
      <4> QED BY <4>2, <4>3
    <3> QED BY <1>13, <3>1, <3>2
  <2>2. ASSUME l = t.level, NEW f \in Files(ins), f.num = n
        PROVE  \E i \in 1..Len(u) : u[i] = <<l, n>>
    BY <1>11, <2>2 DEF Files
  <2>3. ASSUME l = t.level + 1, NEW f \in Files(tgs), f.num = n
        PROVE  \E i \in 1..Len(u) : u[i] = <<l, n>>
    BY <1>12, <2>3 DEF Files
  <2> QED BY <2>1, <2>2, <2>3
<1>15. t.inputs # << >> => u # << >>
  <2> SUFFICES ASSUME ins # << >> PROVE u # << >>
    BY DEF ins
  <2>1. Len(ins) # 0
    BY <1>1, EmptySeq
  <2>2. Len(u) # 0
    BY <1>2, <1>7, <1>8, <1>10, <2>1 DEF u
  <2> QED BY <2>2, EmptySeq
<1>16. \A edit : edit.dels = u =>
          \A l, n : Deletes(edit, l, n) <=>
                      \/ l = t.level /\ \E f \in Files(ins) : f.num = n
                      \/ l = t.level + 1 /\ \E f \in Files(tgs) : f.num = n
  <2> SUFFICES ASSUME NEW edit, edit.dels = u, NEW l, NEW n
               PROVE  Deletes(edit, l, n) <=>
                         \/ l = t.level /\ \E f \in Files(ins) : f.num = n
                         \/ l = t.level + 1 /\ \E f \in Files(tgs) : f.num = n
    OBVIOUS
  <2>1. Deletes(edit, l, n) <=> \E i \in 1..Len(u) : u[i] = <<l, n>>
    BY DEF Deletes
  <2> QED BY <1>14, <2>1
<1> QED BY <1>9, <1>10, <1>15, <1>16 DEF u, D, ins, tgs

LEMMA FindOverlappingIs ==
    ASSUME NEW fs \in Seq(Meta), NEW lo, NEW hi
    PROVE  /\ FindOverlapping(fs, lo, hi) \in Seq(Meta)
           /\ Files(FindOverlapping(fs, lo, hi)) = {f \in Files(fs) : RangesOverlap(lo, hi, f.lo, f.hi)}
<1> DEFINE I == {p \in 1..Len(fs) : RangesOverlap(lo, hi, fs[p].lo, fs[p].hi)}
<1>1. FindOverlapping(fs, lo, hi) = Select(fs, I)
  BY DEF FindOverlapping
<1>2. Select(fs, I) \in Seq(Meta) /\ Files(Select(fs, I)) = {fs[i] : i \in {j \in 1..Len(fs) : j \in I}}
  BY SelectEmbeds, FilesOfSelect
<1>3. {fs[i] : i \in {j \in 1..Len(fs) : j \in I}}
         = {f \in Files(fs) : RangesOverlap(lo, hi, f.lo, f.hi)}
  BY DEF Files
<1> QED BY <1>1, <1>2, <1>3

LEMMA TaskForIs ==
    ASSUME levels \in LevelMaps, NEW l \in Levels, l + 1 \in Levels,
           NEW inputs \in Seq(Meta), inputs # << >>,
           \/ l = 0 /\ inputs = levels[0]
           \/ l # 0 /\ levels[l] # << >> /\ inputs = <<levels[l][1]>>
    PROVE  TaskIn(TaskFor(l, inputs), levels)
<1> DEFINE t == TaskFor(l, inputs)
           tgs == FindOverlapping(levels[l + 1], InputLo(t), InputHi(t))
<1>1. t.level = l /\ t.inputs = inputs /\ t = [level |-> l, inputs |-> inputs, targets |-> tgs]
  BY DEF TaskFor, InputLo, InputHi
<1> HIDE DEF t
<1>2. levels[l + 1] \in Seq(Meta)
  BY DEF LevelMaps
<1>3. /\ tgs \in Seq(Meta)
      /\ Files(tgs) = {f \in Files(levels[l + 1]) : RangesOverlap(InputLo(t), InputHi(t), f.lo, f.hi)}
  BY <1>2, FindOverlappingIs
<1> HIDE DEF tgs
<1>4. t \in Tasks /\ t.targets = tgs
  BY <1>1, <1>3 DEF Tasks
<1>5. t.level = 0 => Len(t.inputs) <= Len(levels[0])
                     /\ \A i \in 1..Len(t.inputs) : t.inputs[i] = levels[0][i]
  BY <1>1
<1>6. t.level # 0 => levels[t.level] # << >> /\ t.inputs = <<levels[t.level][1]>>
  BY <1>1
<1>7. TaskIn(t, levels)
  BY <1>1, <1>3, <1>4, <1>5, <1>6 DEF TaskIn
<1> QED BY <1>7 DEF t

LEMMA PickedTaskIs ==
    ASSUME levels \in LevelMaps, PickedTask # NoTask
    PROVE  TaskIn(PickedTask, levels)
<1>1. levels[0] \in Seq(Meta) /\ 0 \in Levels /\ 0 + 1 \in Levels
  BY LevelsHaveZero DEF LevelMaps
<1>2. CASE Len(levels[0]) >= L0Trigger
  <2>1. PickedTask = TaskFor(0, levels[0])
    BY <1>2 DEF PickedTask
  <2>2. levels[0] # << >>
    <3>1. Len(levels[0]) # 0
      BY <1>1, <1>2, OptionsAreSane
    <3> QED BY <3>1, EmptySeq
  <2> QED BY <1>1, <2>1, <2>2, TaskForIs
<1>3. CASE ~ (Len(levels[0]) >= L0Trigger)
  <2> DEFINE l == SetMin(Oversized)
  <2>1. Oversized # {} /\ PickedTask = TaskFor(l, <<levels[l][1]>>)
    BY <1>3 DEF PickedTask
  <2>2. Oversized \in SUBSET Nat
    BY DEF Oversized
  <2>3. l \in Oversized
    BY <2>1, <2>2, SetMinIs
  <2> HIDE DEF l
  <2>4. l \in 1..(MaxLevels - 2) /\ levels[l] # << >>
    BY <2>3 DEF Oversized
  <2>5. l \in Levels /\ l + 1 \in Levels /\ l # 0
    BY <2>4, OptionsAreSane DEF Levels
  <2>6. levels[l] \in Seq(Meta)
    BY <2>5 DEF LevelMaps
  <2>7. levels[l][1] \in Meta
    <3> DEFINE s == levels[l]
    <3>1. s \in Seq(Meta) /\ s # << >>
      BY <2>4, <2>6
    <3> HIDE DEF s
    <3>2. 1 \in 1..Len(s)
      BY <3>1, EmptySeq
    <3>3. s[1] \in Meta
      BY <3>1, <3>2
    <3> QED BY <3>3 DEF s
  <2>8. <<levels[l][1]>> \in Seq(Meta) /\ <<levels[l][1]>> # << >>
    BY <2>7
  <2> QED BY <2>1, <2>4, <2>5, <2>8, TaskForIs
<1> QED BY <1>2, <1>3

\* Positions of the files of fs that have key k.
Having(fs, k) == {i \in 1..Len(fs) : fs[i].num \in DOMAIN files /\ k \in DOMAIN files[fs[i].num]}

LEMMA EntryOfTable ==
    ASSUME NEW t, IsTable(t), NEW k \in DOMAIN t
    PROVE  t[k] \in Entry /\ t[k].seq \in Nat /\ t[k].seq > 0 /\ t[k] # NoEntry
<1>1. t[k] \in {e \in Entry : e.seq > 0}
  BY DEF IsTable
<1> QED BY <1>1 DEF Entry, NoEntry

LEMMA MergedEntryIs ==
    ASSUME DOMAIN files \in SUBSET Nat, \A n \in DOMAIN files : IsTable(files[n]),
           NEW fs \in Seq(Meta), NEW k
    PROVE  /\ Having(fs, k) = {} => MergedEntry(fs, k) = NoEntry
           /\ Having(fs, k) # {} =>
                \E i \in Having(fs, k) :
                   /\ MergedEntry(fs, k) = files[fs[i].num][k]
                   /\ \A j \in Having(fs, k) : files[fs[j].num][k].seq <= files[fs[i].num][k].seq
<1> DEFINE H == Having(fs, k)
           v == [i \in H |-> files[fs[i].num][k].seq]
           Latest == {i \in H : \A j \in H : files[fs[j].num][k].seq <= files[fs[i].num][k].seq}
<1>1. MergedEntry(fs, k) = IF H = {} THEN NoEntry ELSE files[fs[SetMax(Latest)].num][k]
  BY DEF MergedEntry, Having
<1>2. Len(fs) \in Nat /\ H \in SUBSET (1..Len(fs))
  BY DEF Having
<1>3. ASSUME H # {}
      PROVE  \E i \in H : /\ MergedEntry(fs, k) = files[fs[i].num][k]
                          /\ \A j \in H : files[fs[j].num][k].seq <= files[fs[i].num][k].seq
  <2>1. IsFiniteSet(H)
    <3>1. IsFiniteSet(1..Len(fs))
      BY <1>2, FS_Interval
    <3> HIDE DEF H
    <3> QED BY <1>2, <3>1, FS_Subset
  <2>2. \A i \in H : v[i] \in Nat /\ v[i] = files[fs[i].num][k].seq
    BY EntryOfTable DEF Having
  <2> HIDE DEF v, H
  <2>3. PICK x \in H : \A y \in H : v[y] <= v[x]
    BY <1>3, <2>1, <2>2, LargestValue
  <2>4. Latest # {}
    BY <2>2, <2>3
  <2>5. Latest \in SUBSET Nat /\ IsFiniteSet(Latest)
    <3>1. Latest \in SUBSET H
      OBVIOUS
    <3> HIDE DEF Latest
    <3>2. IsFiniteSet(Latest)
      BY <2>1, <3>1, FS_Subset
    <3>3. H \in SUBSET Nat
      BY <1>2
    <3> QED BY <3>1, <3>2, <3>3
  <2> HIDE DEF Latest
  <2>6. SetMax(Latest) \in Latest
    BY <2>4, <2>5, SetMaxIs
  <2> QED BY <1>1, <1>3, <2>6 DEF Latest
<1> QED BY <1>1, <1>3

Sources(t) == Files(t.inputs) \cup Files(t.targets)

\* In the directory fl, the table has of each key the newest entry of the merged files; a key that it has not
\* was in none of them, or its newest entry is a tombstone that need not be kept.
IsMergeOf(fl, t, table) ==
    \A k \in Keys :
        LET Has == {f \in Sources(t) : k \in DOMAIN fl[f.num]}
            Newest(f) == \A g \in Has : fl[g.num][k].seq <= fl[f.num][k].seq
        IN  IF k \in DOMAIN table THEN \E f \in Has : Newest(f) /\ table[k] = fl[f.num][k]
            ELSE Has # {} => /\ BottomLevel(t.level + 1)
                             /\ \E f \in Has : Newest(f) /\ fl[f.num][k].val = Tombstone

LEMMA MergedTableIs ==
    ASSUME DOMAIN files \in SUBSET Nat, \A n \in DOMAIN files : IsTable(files[n]),
           NEW t \in Tasks, \A f \in Sources(t) : f.num \in DOMAIN files
    PROVE  /\ MergedTable(t) = [k \in DOMAIN MergedTable(t) |-> MergedTable(t)[k]]
           /\ DOMAIN MergedTable(t) # {} => IsTable(MergedTable(t))
           /\ IsMergeOf(files, t, MergedTable(t))
<1> DEFINE fs == t.inputs \o t.targets
           D == Survivors(t)
           m == MergedTable(t)
<1>1. t.inputs \in Seq(Meta) /\ t.targets \in Seq(Meta)
  BY DEF Tasks
<1>2. fs \in Seq(Meta) /\ Files(fs) = Sources(t)
  BY <1>1, FilesOfConcat DEF Sources
<1>3. /\ D = {k \in Keys : /\ MergedEntry(fs, k) # NoEntry
                            /\ ~ (BottomLevel(t.level + 1) /\ MergedEntry(fs, k).val = Tombstone)}
      /\ m = [k \in D |-> MergedEntry(fs, k)]
  BY DEF Survivors, MergedTable
<1> HIDE DEF fs, D, m
<1>4. DOMAIN m = D /\ D \in SUBSET Keys /\ \A k \in D : m[k] = MergedEntry(fs, k)
  BY <1>3
<1>5. ASSUME NEW k, NEW i \in Having(fs, k)
      PROVE  /\ fs[i] \in Sources(t) /\ k \in DOMAIN files[fs[i].num]
             /\ files[fs[i].num][k] \in Entry /\ files[fs[i].num][k].seq > 0
             /\ files[fs[i].num][k] # NoEntry
  <2>1. i \in 1..Len(fs) /\ fs[i].num \in DOMAIN files /\ k \in DOMAIN files[fs[i].num]
    BY DEF Having
  <2>2. fs[i] \in Sources(t)
    BY <1>2, <2>1 DEF Files
  <2>3. IsTable(files[fs[i].num])
    BY <2>1
  <2> QED BY <2>1, <2>2, <2>3, EntryOfTable
<1>6. ASSUME NEW k, NEW f \in Sources(t), k \in DOMAIN files[f.num]
      PROVE  \E i \in Having(fs, k) : fs[i] = f
  <2>1. PICK i \in 1..Len(fs) : fs[i] = f
    BY <1>2 DEF Files
  <2>2. f.num \in DOMAIN files
    OBVIOUS
  <2>3. i \in Having(fs, k)
    BY <1>6, <2>1, <2>2 DEF Having
  <2> QED BY <2>1, <2>3
<1>7. ASSUME NEW k
      PROVE  /\ Having(fs, k) = {} => MergedEntry(fs, k) = NoEntry
             /\ Having(fs, k) # {} =>
                  \E i \in Having(fs, k) :
                     /\ MergedEntry(fs, k) = files[fs[i].num][k]
                     /\ \A j \in Having(fs, k) : files[fs[j].num][k].seq <= files[fs[i].num][k].seq
  BY <1>2, MergedEntryIs
<1>8. ASSUME NEW k \in D
      PROVE  m[k] \in {e \in Entry : e.seq > 0}
  <2>1. MergedEntry(fs, k) # NoEntry
    BY <1>3
  <2>2. PICK i \in Having(fs, k) : MergedEntry(fs, k) = files[fs[i].num][k]
    BY <1>7, <2>1
  <2> QED BY <1>4, <1>5, <2>2
<1>9. D # {} => IsTable(m)
  <2> SUFFICES ASSUME D # {} PROVE IsTable(m)
    OBVIOUS
  <2>1. m = [k \in D |-> m[k]]
    BY <1>3, <1>4
  <2>2. m \in [D -> {e \in Entry : e.seq > 0}]
    BY <1>8, <2>1
  <2> QED BY <1>4, <2>2 DEF IsTable
<1>10. ASSUME NEW k \in Keys
       PROVE  LET Has == {f \in Sources(t) : k \in DOMAIN files[f.num]}
                  Newest(f) == \A g \in Has : files[g.num][k].seq <= files[f.num][k].seq
              IN  IF k \in DOMAIN m THEN \E f \in Has : Newest(f) /\ m[k] = files[f.num][k]
                  ELSE Has # {} => /\ BottomLevel(t.level + 1)
                                   /\ \E f \in Has : Newest(f) /\ files[f.num][k].val = Tombstone
  <2> DEFINE Has == {f \in Sources(t) : k \in DOMAIN files[f.num]}
             Newest(f) == \A g \in Has : files[g.num][k].seq <= files[f.num][k].seq
  <2>1. ASSUME NEW i \in Having(fs, k),
               \A j \in Having(fs, k) : files[fs[j].num][k].seq <= files[fs[i].num][k].seq
        PROVE  fs[i] \in Has /\ Newest(fs[i])
    <3>1. fs[i] \in Has
      BY <1>5
    <3>2. ASSUME NEW g \in Has PROVE files[g.num][k].seq <= files[fs[i].num][k].seq
      <4>1. PICK j \in Having(fs, k) : fs[j] = g
        BY <1>6
      <4> QED BY <2>1, <4>1
    <3> QED BY <3>1, <3>2
  <2>2. CASE k \in DOMAIN m
    <3>1. MergedEntry(fs, k) # NoEntry /\ m[k] = MergedEntry(fs, k)
      BY <1>3, <1>4, <2>2
    <3>2. PICK i \in Having(fs, k) :
             /\ MergedEntry(fs, k) = files[fs[i].num][k]
             /\ \A j \in Having(fs, k) : files[fs[j].num][k].seq <= files[fs[i].num][k].seq
      BY <1>7, <3>1
    <3>3. fs[i] \in Has /\ Newest(fs[i])
      BY <2>1, <3>2
    <3> HIDE DEF Newest, Has
    <3>4. \E f \in Has : Newest(f) /\ m[k] = files[f.num][k]
      BY <3>1, <3>2, <3>3
    <3> QED BY <2>2, <3>4 DEF Newest, Has
  <2>3. CASE k \notin DOMAIN m
    <3> SUFFICES ASSUME Has # {}
                 PROVE  /\ BottomLevel(t.level + 1)
                        /\ \E f \in Has : Newest(f) /\ files[f.num][k].val = Tombstone
      BY <2>3
    <3>1. Having(fs, k) # {}
      BY <1>6
    <3>2. PICK i \in Having(fs, k) :
             /\ MergedEntry(fs, k) = files[fs[i].num][k]
             /\ \A j \in Having(fs, k) : files[fs[j].num][k].seq <= files[fs[i].num][k].seq
      BY <1>7, <3>1
    <3>3. fs[i] \in Has /\ Newest(fs[i])
      BY <2>1, <3>2
    <3>4. MergedEntry(fs, k) # NoEntry
      BY <1>5, <3>2
    <3>5. BottomLevel(t.level + 1) /\ MergedEntry(fs, k).val = Tombstone
      BY <1>3, <1>4, <2>3, <3>4
    <3> HIDE DEF Newest, Has
    <3>6. files[fs[i].num][k].val = Tombstone
      BY <3>2, <3>5
    <3> QED BY <3>3, <3>5, <3>6
  <2> QED BY <2>2, <2>3
<1>11. IsMergeOf(files, t, m)
  BY <1>10 DEF IsMergeOf
<1>12. m = [k \in DOMAIN m |-> m[k]]
  BY <1>3, <1>4
<1> QED BY <1>4, <1>9, <1>11, <1>12 DEF m

-----------------------------------------------------------------------------
(* FilesInv is an invariant                                                *)

\* No file becomes known.
KnownShrinks == \A l \in Levels : KnownAt(l)' \subseteq KnownAt(l)

LEMMA FilesInit == Init => FilesInv
<1> SUFFICES ASSUME Init PROVE FilesInv
  OBVIOUS
<1>1. EmptyLevels \in LevelMaps /\ \A l \in Levels : EmptyLevels[l] = << >>
  BY EmptyHasNoFiles DEF EmptyLevels, LevelMaps
<1>2. /\ levels = EmptyLevels /\ manifest = [levels |-> EmptyLevels, next |-> 1]
      /\ fpc = "idle" /\ cpc = "idle"
  BY DEF Init, EmptyVersion
<1>3. \A l \in Levels : KnownAt(l) = {} /\ Files(manifest.levels[l]) = {} /\ Files(levels[l]) = {}
  BY <1>1, <1>2, EmptyHasNoFiles DEF KnownAt, Flushing, Merged
<1>4. CompactionTypes
  <2>1. DOMAIN files = {}
    BY DEF Init
  <2>2. obsolete \in Seq(Nat)
    BY DEF Init
  <2>3. used = {} /\ IsFiniteSet(used)
    BY FS_EmptySet DEF Init
  <2>4. nextFile = 1 /\ crashes = 0 /\ failures = 0
    BY DEF Init
  <2>5. manifest \in [levels : LevelMaps, next : Nat]
    BY <1>1, <1>2
  <2> QED BY <1>1, <1>2, <2>1, <2>2, <2>3, <2>4, <2>5 DEF CompactionTypes, Flushing, Merged
<1>5. KnownOnDisk /\ NumbersUnique /\ ManifestBelowNext
  BY <1>3 DEF KnownOnDisk, NumbersUnique, ManifestBelowNext
<1>6. AddedIsNew /\ TaskIsCurrent /\ DeletedIsGone
  BY <1>2 DEF AddedIsNew, TaskIsCurrent, DeletedIsGone, Flushing, Merged, Compacting
<1> QED BY <1>4, <1>5, <1>6 DEF FilesInv

\* What a step may do to the files that are known: none is added, and none is touched.
LEMMA NoNewFile ==
    ASSUME KnownOnDisk, NumbersUnique,
           \A l \in Levels : KnownAt(l)' \subseteq KnownAt(l),
           \A l \in Levels : \A f \in KnownAt(l)' :
              f.num < nextFile' /\ f.num \in DOMAIN files' /\ files'[f.num] = files[f.num]
    PROVE  KnownOnDisk' /\ NumbersUnique'
<1>1. ASSUME NEW l \in Levels, NEW f \in KnownAt(l)'
      PROVE  /\ f \in Meta /\ f.num < nextFile'
             /\ f.num \in DOMAIN files' /\ f = MetaOf(f.num, files'[f.num])
  <2>1. f \in KnownAt(l)
    OBVIOUS
  <2>2. f \in Meta /\ f = MetaOf(f.num, files[f.num])
    BY <2>1 DEF KnownOnDisk
  <2> QED BY <2>2
<1>2. KnownOnDisk'
  BY <1>1 DEF KnownOnDisk
<1>3. NumbersUnique'
  BY DEF NumbersUnique
<1> QED BY <1>2, <1>3

\* A table is written under the next number and becomes known on one level.
LEMMA OneNewFile ==
    ASSUME FilesInv, NEW table, IsTable(table), NEW m \in Levels,
           files' = WithFile(nextFile, table), nextFile' = nextFile + 1,
           \A l \in Levels :
              KnownAt(l)' \subseteq KnownAt(l)
                             \cup (IF l = m THEN {MetaOf(nextFile, table)} ELSE {})
    PROVE  KnownOnDisk' /\ NumbersUnique' /\ MetaOf(nextFile, table).num = nextFile
           /\ MetaOf(nextFile, table) \in Meta
<1> DEFINE new == MetaOf(nextFile, table)
<1>1. nextFile \in Nat /\ KnownOnDisk /\ NumbersUnique
  BY DEF FilesInv, CompactionTypes
<1>2. new \in Meta /\ new.num = nextFile
  BY <1>1, MetaOfTable
<1>3. /\ DOMAIN files' = DOMAIN files \cup {nextFile}
      /\ files'[nextFile] = table
      /\ \A n \in DOMAIN files : n # nextFile => files'[n] = files[n]
  BY DEF WithFile
<1>4. ASSUME NEW l \in Levels, NEW f \in KnownAt(l)
      PROVE  /\ f \in Meta /\ f.num < nextFile /\ f.num < nextFile' /\ f.num \in DOMAIN files'
             /\ files'[f.num] = files[f.num] /\ f = MetaOf(f.num, files'[f.num])
  <2>1. f \in Meta /\ f.num < nextFile /\ f.num \in DOMAIN files
        /\ f = MetaOf(f.num, files[f.num])
    BY <1>1 DEF KnownOnDisk
  <2>2. f.num \in Nat
    BY <2>1, MetaFields
  <2> QED BY <1>1, <1>3, <2>1, <2>2
<1>5. ASSUME NEW l \in Levels, NEW f \in KnownAt(l)'
      PROVE  f \in KnownAt(l) \/ (l = m /\ f = new)
  OBVIOUS
<1> HIDE DEF new
<1>6. KnownOnDisk'
  <2> SUFFICES ASSUME NEW l \in Levels, NEW f \in KnownAt(l)'
               PROVE  /\ f \in Meta /\ f.num < nextFile'
                      /\ f.num \in DOMAIN files' /\ f = MetaOf(f.num, files'[f.num])
    BY DEF KnownOnDisk
  <2>1. CASE f \in KnownAt(l)
    BY <1>4, <2>1
  <2>2. CASE f = new
    <3>1. new = MetaOf(nextFile, files'[nextFile])
      BY <1>3 DEF new
    <3> QED BY <1>1, <1>2, <1>3, <2>2, <3>1
  <2> QED BY <1>5, <2>1, <2>2
<1>7. NumbersUnique'
  <2> SUFFICES ASSUME NEW l \in Levels, NEW k \in Levels, NEW f \in KnownAt(l)', NEW g \in KnownAt(k)',
                      f.num = g.num
               PROVE  l = k
    BY DEF NumbersUnique
  <2>1. CASE f \in KnownAt(l) /\ g \in KnownAt(k)
    BY <1>1, <2>1 DEF NumbersUnique
  <2>2. CASE f \in KnownAt(l) /\ k = m /\ g = new
    <3>1. f.num < nextFile /\ f.num = nextFile
      BY <1>2, <1>4, <2>2
    <3> QED BY <1>1, <3>1
  <2>3. CASE l = m /\ f = new /\ g \in KnownAt(k)
    <3>1. g.num < nextFile /\ g.num = nextFile
      BY <1>2, <1>4, <2>3
    <3> QED BY <1>1, <3>1
  <2> QED BY <1>5, <2>1, <2>2, <2>3
<1> QED BY <1>2, <1>6, <1>7 DEF new

LEMMA FlushAdds ==
    ASSUME NEW edit, IsFlushEdit(edit)
    PROVE  /\ edit \in Edits /\ edit.adds[1] \in Meta /\ Files(edit.adds) = {edit.adds[1]}
           /\ edit.level = 0 /\ \A l, n : ~ Deletes(edit, l, n)
<1>1. edit \in Edits /\ edit.dels = << >> /\ edit.level = 0 /\ Len(edit.adds) = 1
  BY DEF IsFlushEdit
<1>2. edit.adds \in Seq(Meta)
  BY <1>1 DEF Edits
<1>3. edit.adds[1] \in Meta
  BY <1>1, <1>2, ConcatOne
<1>4. Files(edit.adds) = {edit.adds[1]}
  BY <1>1 DEF Files
<1>5. \A l, n : ~ Deletes(edit, l, n)
  BY <1>1 DEF Deletes
<1> QED BY <1>1, <1>3, <1>4, <1>5

LEMMA FlushTableFiles ==
    ASSUME FilesInv, NEW D \in (SUBSET Keys) \ {{}}, NEW c \in [D -> Contents], FlushTable(D, c)
    PROVE  FilesInv'
<1>1. PICK s \in NextNumbers :
         LET table == [k \in D |-> [seq |-> s, val |-> c[k]]] IN
         /\ used' = used \cup {s}
         /\ files' = WithFile(nextFile, table)
         /\ fedit' = [dels |-> << >>, level |-> 0, adds |-> <<MetaOf(nextFile, table)>>,
                      next |-> nextFile + 1]
  BY DEF FlushTable
<1> DEFINE table == [k \in D |-> [seq |-> s, val |-> c[k]]]
           new == MetaOf(nextFile, table)
<1>2. /\ fpc = "idle" /\ fpc' = "log" /\ nextFile' = nextFile + 1
      /\ manifest' = manifest /\ levels' = levels
      /\ cpc' = cpc /\ task' = task /\ cedit' = cedit /\ obsolete' = obsolete
      /\ crashes' = crashes /\ failures' = failures
  BY DEF FlushTable, compactVars
<1>3. CompactionTypes /\ KnownOnDisk /\ AddedIsNew /\ TaskIsCurrent /\ DeletedIsGone
      /\ ManifestBelowNext /\ nextFile \in Nat
  BY DEF FilesInv, CompactionTypes
<1>4. s \in Nat /\ s > 0
  <2>1. Cardinality(used) \in Nat
    BY <1>3, FS_CardinalityType DEF CompactionTypes
  <2>2. CASE SlowWriters
    BY <2>2, CompactionBounds DEF NextNumbers
  <2>3. CASE ~ SlowWriters
    BY <2>1, <2>3 DEF NextNumbers
  <2> QED BY <2>2, <2>3
<1>5. IsTable(table)
  <2>1. \A k \in D : [seq |-> s, val |-> c[k]] \in {e \in Entry : e.seq > 0}
    BY <1>4 DEF Entry
  <2>2. DOMAIN table = D /\ table \in [D -> {e \in Entry : e.seq > 0}]
    BY <2>1
  <2> HIDE DEF table
  <2> QED BY <2>2 DEF IsTable
<1> HIDE DEF table
<1>6. new \in Meta /\ new.num = nextFile
  BY <1>3, <1>5, MetaOfTable
<1>7. /\ used' = used \cup {s} /\ files' = WithFile(nextFile, table)
      /\ fedit' = [dels |-> << >>, level |-> 0, adds |-> <<new>>, next |-> nextFile + 1]
  BY <1>1 DEF table
<1> HIDE DEF new
<1>8. IsFlushEdit(fedit') /\ fedit'.adds[1] = new
  <2>1. <<new>> \in Seq(Meta) /\ Len(<<new>>) = 1
    BY <1>6
  <2>2. << >> \in Seq(Levels \X Nat) /\ nextFile + 1 \in Nat
    BY <1>3
  <2>3. fedit' \in Edits
    BY <1>7, <2>1, <2>2, LevelsHaveZero DEF Edits
  <2> QED BY <1>7, <2>1, <2>3 DEF IsFlushEdit
<1>9. \A l \in Levels : KnownAt(l)' = KnownAt(l) \cup (IF l = 0 THEN {new} ELSE {})
  BY <1>2, <1>8 DEF KnownAt, Flushing, Merged
<1>10. KnownOnDisk' /\ NumbersUnique'
  <2>1. \A l \in Levels : KnownAt(l)' \subseteq KnownAt(l)
                             \cup (IF l = 0 THEN {MetaOf(nextFile, table)} ELSE {})
    BY <1>9 DEF new
  <2>2. 0 \in Levels
    BY LevelsHaveZero
  <2> QED BY <1>2, <1>5, <1>7, <2>1, <2>2, OneNewFile
<1>11. CompactionTypes'
  <2>1. DOMAIN files' \in SUBSET Nat /\ \A n \in DOMAIN files' : IsTable(files'[n])
    BY <1>3, <1>5, <1>7 DEF CompactionTypes, WithFile
  <2>2. used' \in SUBSET Nat /\ IsFiniteSet(used')
    BY <1>3, <1>4, <1>7, FS_AddElement DEF CompactionTypes
  <2>3. nextFile' \in Nat
    BY <1>2, <1>3
  <2> QED BY <1>2, <1>3, <1>8, <2>1, <2>2, <2>3 DEF CompactionTypes, Flushing, Merged
<1>12. \A l \in Levels : \A f \in KnownAt(l) : f.num \in Nat /\ f.num < nextFile
  BY <1>3, MetaFields DEF KnownOnDisk
<1>13. AddedIsNew'
  <2>1. \A l \in Levels : \A f \in Files(levels[l]) : f \in KnownAt(l)
    BY DEF KnownAt
  <2>2. Merged => \A a \in Files(cedit.adds) : cedit.level \in Levels /\ a \in KnownAt(cedit.level)
    BY <1>3 DEF KnownAt, CompactionTypes, Edits
  <2>3. \A l \in Levels : \A f \in Files(levels[l]) : f.num # nextFile
    BY <1>3, <1>12, <2>1
  <2>4. Merged => \A a \in Files(cedit.adds) : a.num # nextFile
    BY <1>3, <1>12, <2>2
  <2> QED BY <1>2, <1>3, <1>6, <1>8, <2>3, <2>4 DEF AddedIsNew, Merged, Flushing
<1>14. TaskIsCurrent' /\ ManifestBelowNext'
  BY <1>2, <1>3 DEF TaskIsCurrent, ManifestBelowNext, Compacting, Merged
<1>15. DeletedIsGone'
  <2>1. cpc = "remove" =>
          \A i \in 1..Len(obsolete) : /\ obsolete[i] < nextFile /\ obsolete[i] \in Nat
                                     /\ \A l \in Levels : \A f \in KnownAt(l) : f.num # obsolete[i]
    BY <1>3 DEF DeletedIsGone, CompactionTypes
  <2>2. cpc = "remove" =>
          \A i \in 1..Len(obsolete) :
             /\ obsolete[i] < nextFile'
             /\ \A l \in Levels : \A f \in KnownAt(l)' : f.num # obsolete[i]
    BY <1>2, <1>3, <1>6, <1>9, <2>1
  <2> QED BY <1>2, <1>3, <2>2 DEF DeletedIsGone
<1> QED BY <1>10, <1>11, <1>13, <1>14, <1>15 DEF FilesInv

\* The files of a task are in the version it was picked from.
LEMMA TaskFiles ==
    ASSUME NEW lv \in LevelMaps, NEW t, TaskIn(t, lv)
    PROVE  /\ t \in Tasks /\ t.level \in Levels /\ t.level + 1 \in Levels /\ t.inputs # << >>
           /\ Files(t.inputs) \subseteq Files(lv[t.level])
           /\ Files(t.targets) \subseteq Files(lv[t.level + 1])
<1> DEFINE ins == t.inputs
<1>1. t \in Tasks /\ t.level + 1 \in Levels /\ ins # << >>
  BY DEF TaskIn
<1>2. t.level \in Levels /\ ins \in Seq(Meta)
  BY <1>1 DEF Tasks
<1>3. lv[t.level] \in Seq(Meta)
  BY <1>2 DEF LevelMaps
<1>4. Files(t.targets) \subseteq Files(lv[t.level + 1])
  BY DEF TaskIn
<1>5. Files(ins) \subseteq Files(lv[t.level])
  <2>1. CASE t.level = 0
    <3>1. Len(ins) <= Len(lv[0]) /\ \A i \in 1..Len(ins) : ins[i] = lv[0][i]
      BY <2>1 DEF TaskIn
    <3>2. Len(ins) \in Nat /\ Len(lv[0]) \in Nat
      BY <1>2, <1>3, <2>1
    <3> HIDE DEF ins
    <3>3. \A i \in 1..Len(ins) : i \in 1..Len(lv[0])
      BY <3>1, <3>2
    <3> QED BY <2>1, <3>1, <3>3 DEF Files
  <2>2. CASE t.level # 0
    <3> DEFINE s == lv[t.level]
    <3>1. s # << >> /\ ins = <<s[1]>>
      BY <2>2 DEF TaskIn
    <3> HIDE DEF s, ins
    <3>2. Files(ins) = {s[1]}
      BY <3>1 DEF Files
    <3>3. 1 \in 1..Len(s)
      <4>1. s \in Seq(Meta)
        BY <1>3 DEF s
      <4> QED BY <3>1, <4>1, EmptySeq
    <3>4. Files(ins) \subseteq Files(s)
      BY <3>2, <3>3 DEF Files
    <3> QED BY <3>4 DEF s
  <2> QED BY <2>1, <2>2
<1> QED BY <1>1, <1>2, <1>4, <1>5

\* The edit of a compaction deletes files of the version alone.
LEMMA DeletedWasThere ==
    ASSUME NEW lv \in LevelMaps, NEW t, TaskIn(t, lv), NEW edit, edit.dels = Deletions(t),
           NEW l, NEW n, Deletes(edit, l, n)
    PROVE  l \in Levels /\ \E f \in Files(lv[l]) : f.num = n
<1>1. /\ t \in Tasks /\ t.level \in Levels /\ t.level + 1 \in Levels
      /\ Files(t.inputs) \subseteq Files(lv[t.level])
      /\ Files(t.targets) \subseteq Files(lv[t.level + 1])
  BY TaskFiles
<1>2. \/ l = t.level /\ \E f \in Files(t.inputs) : f.num = n
      \/ l = t.level + 1 /\ \E f \in Files(t.targets) : f.num = n
  BY <1>1, DeletionsAre
<1> QED BY <1>1, <1>2

\* What the manifest amounts to after one more edit.
LEMMA LoggedFiles ==
    ASSUME CompactionTypes, KnownOnDisk, ManifestBelowNext, NEW edit \in Edits
    PROVE  /\ Logged(manifest, edit) \in [levels : LevelMaps, next : Nat]
           /\ Logged(manifest, edit).levels = Apply(manifest.levels, edit)
           /\ \A l \in Levels :
                 Files(Logged(manifest, edit).levels[l]) =
                    {f \in Files(manifest.levels[l]) : ~ Deletes(edit, l, f.num)}
                       \cup (IF l = edit.level THEN Files(edit.adds) ELSE {})
           /\ \A l \in Levels : \A f \in Files(Logged(manifest, edit).levels[l]) :
                 f.num < Logged(manifest, edit).next
<1> DEFINE lg == Logged(manifest, edit)
<1>1. manifest \in [levels : LevelMaps, next : Nat]
  BY DEF CompactionTypes
<1>2. manifest.levels \in LevelMaps /\ manifest.next \in Nat
  BY <1>1
<1>3. lg = [levels |-> Apply(manifest.levels, edit), next |-> NextAfter(manifest.next, edit)]
  BY DEF Logged
<1>4. /\ Apply(manifest.levels, edit) \in LevelMaps
      /\ \A l \in Levels :
            Files(Apply(manifest.levels, edit)[l]) =
               {f \in Files(manifest.levels[l]) : ~ Deletes(edit, l, f.num)}
                  \cup (IF l = edit.level THEN Files(edit.adds) ELSE {})
  BY <1>2, ApplyFiles
<1>5. /\ NextAfter(manifest.next, edit) \in Nat
      /\ manifest.next <= NextAfter(manifest.next, edit)
      /\ \A f \in Files(edit.adds) : f.num < NextAfter(manifest.next, edit)
  BY <1>2, NextAfterIs
<1> HIDE DEF lg
<1>6. lg \in [levels : LevelMaps, next : Nat] /\ lg.levels = Apply(manifest.levels, edit)
      /\ lg.next = NextAfter(manifest.next, edit)
  BY <1>3, <1>4, <1>5
<1>7. ASSUME NEW l \in Levels, NEW f \in Files(lg.levels[l])
      PROVE  f.num < lg.next
  <2>1. f \in Files(manifest.levels[l]) \/ f \in Files(edit.adds)
    BY <1>4, <1>6
  <2>2. CASE f \in Files(manifest.levels[l])
    <3>1. f.num < manifest.next /\ f \in KnownAt(l)
      BY <2>2 DEF ManifestBelowNext, KnownAt
    <3>2. f.num \in Nat
      BY <3>1, MetaFields DEF KnownOnDisk
    <3> QED BY <1>2, <1>5, <1>6, <3>1, <3>2
  <2> QED BY <1>5, <1>6, <2>1, <2>2
<1> QED BY <1>4, <1>6, <1>7 DEF lg

LEMMA FlushLogEditFiles ==
    ASSUME FilesInv, FlushLogEdit
    PROVE  FilesInv' /\ KnownShrinks
<1>1. /\ fpc = "log" /\ fpc' = "apply" /\ manifest' = Logged(manifest, fedit)
      /\ files' = files /\ levels' = levels /\ nextFile' = nextFile /\ fedit' = fedit
      /\ cpc' = cpc /\ task' = task /\ cedit' = cedit /\ obsolete' = obsolete
      /\ used' = used /\ crashes' = crashes /\ failures' = failures
  BY DEF FlushLogEdit, compactVars, versionVars, bounds
<1>2. CompactionTypes /\ KnownOnDisk /\ NumbersUnique /\ AddedIsNew /\ TaskIsCurrent
      /\ DeletedIsGone /\ ManifestBelowNext
  BY DEF FilesInv
<1>3. IsFlushEdit(fedit)
  BY <1>1, <1>2 DEF CompactionTypes, Flushing
<1>4. /\ fedit \in Edits /\ Files(fedit.adds) = {fedit.adds[1]} /\ fedit.level = 0
      /\ \A l, n : ~ Deletes(fedit, l, n)
  BY <1>3, FlushAdds
<1>5. /\ manifest' \in [levels : LevelMaps, next : Nat]
      /\ \A l \in Levels : Files(manifest'.levels[l]) =
             Files(manifest.levels[l]) \cup (IF l = 0 THEN {fedit.adds[1]} ELSE {})
      /\ \A l \in Levels : \A f \in Files(manifest'.levels[l]) : f.num < manifest'.next
  BY <1>1, <1>2, <1>4, LoggedFiles
<1>6. \A l \in Levels : KnownAt(l)' \subseteq KnownAt(l)
  BY <1>1, <1>5 DEF KnownAt, Flushing, Merged
<1>7. KnownOnDisk' /\ NumbersUnique'
  BY <1>1, <1>2, <1>6, NoNewFile DEF KnownOnDisk
<1>8. CompactionTypes' /\ ManifestBelowNext'
  BY <1>1, <1>2, <1>3, <1>5 DEF CompactionTypes, ManifestBelowNext, Flushing, Merged
<1>9. AddedIsNew' /\ TaskIsCurrent'
  BY <1>1, <1>2 DEF AddedIsNew, TaskIsCurrent, Flushing, Merged, Compacting
<1>10. DeletedIsGone'
  <2>1. ASSUME cpc = "apply", NEW l \in Levels, NEW m \in Levels, NEW f \in Files(manifest'.levels[m])
        PROVE  ~ Deletes(cedit, l, f.num)
    <3>1. f \in Files(manifest.levels[m]) \/ f = fedit.adds[1]
      BY <1>5
    <3>2. CASE f \in Files(manifest.levels[m])
      BY <1>2, <2>1, <3>2 DEF DeletedIsGone
    <3>3. CASE f = fedit.adds[1]
      <4> SUFFICES ASSUME Deletes(cedit, l, f.num) PROVE FALSE
        OBVIOUS
      <4>1. TaskIn(task, levels) /\ cedit.dels = Deletions(task)
        BY <1>2, <2>1 DEF TaskIsCurrent, Compacting, Merged
      <4>2. \E g \in Files(levels[l]) : g.num = f.num
        BY <1>2, <4>1, DeletedWasThere DEF CompactionTypes
      <4> QED BY <1>1, <1>2, <3>3, <4>2 DEF AddedIsNew, Flushing
    <3> QED BY <3>1, <3>2, <3>3
  <2>2. cpc = "remove" =>
          \A i \in 1..Len(obsolete) :
             /\ obsolete[i] < nextFile
             /\ \A l \in Levels : \A f \in KnownAt(l)' : f.num # obsolete[i]
    BY <1>2, <1>6 DEF DeletedIsGone
  <2> QED BY <1>1, <1>2, <2>1, <2>2 DEF DeletedIsGone
<1> QED BY <1>6, <1>7, <1>8, <1>9, <1>10 DEF FilesInv, KnownShrinks

LEMMA FlushFailsFiles ==
    ASSUME FilesInv, FlushFails
    PROVE  FilesInv' /\ KnownShrinks
<1>1. /\ fpc = "log" /\ fpc' = "idle" /\ manifest' \in {manifest, Logged(manifest, fedit)}
      /\ files' = files /\ levels' = levels /\ nextFile' = nextFile
      /\ cpc' = cpc /\ task' = task /\ cedit' = cedit /\ obsolete' = obsolete
      /\ used' = used /\ crashes' = crashes /\ failures' = failures + 1
  BY DEF FlushFails, compactVars, versionVars
<1>2. CompactionTypes /\ KnownOnDisk /\ NumbersUnique /\ AddedIsNew /\ TaskIsCurrent
      /\ DeletedIsGone /\ ManifestBelowNext
  BY DEF FilesInv
<1>3. IsFlushEdit(fedit)
  BY <1>1, <1>2 DEF CompactionTypes, Flushing
<1>4. /\ fedit \in Edits /\ Files(fedit.adds) = {fedit.adds[1]} /\ fedit.level = 0
      /\ \A l, n : ~ Deletes(fedit, l, n)
  BY <1>3, FlushAdds
<1>5. /\ manifest' \in [levels : LevelMaps, next : Nat]
      /\ \A l \in Levels : Files(manifest'.levels[l]) \subseteq
             Files(manifest.levels[l]) \cup (IF l = 0 THEN {fedit.adds[1]} ELSE {})
      /\ \A l \in Levels : \A f \in Files(manifest'.levels[l]) : f.num < manifest'.next
  <2>1. CASE manifest' = manifest
    BY <1>2, <2>1 DEF CompactionTypes, ManifestBelowNext
  <2>2. CASE manifest' = Logged(manifest, fedit)
    BY <1>2, <1>4, <2>2, LoggedFiles
  <2> QED BY <1>1, <2>1, <2>2
<1>6. \A l \in Levels : KnownAt(l)' \subseteq KnownAt(l)
  BY <1>1, <1>5 DEF KnownAt, Flushing, Merged
<1>7. KnownOnDisk' /\ NumbersUnique'
  BY <1>1, <1>2, <1>6, NoNewFile DEF KnownOnDisk
<1>8. CompactionTypes' /\ ManifestBelowNext'
  BY <1>1, <1>2, <1>5 DEF CompactionTypes, ManifestBelowNext, Flushing, Merged
<1>9. AddedIsNew' /\ TaskIsCurrent'
  BY <1>1, <1>2 DEF AddedIsNew, TaskIsCurrent, Flushing, Merged, Compacting
<1>10. DeletedIsGone'
  <2>1. ASSUME cpc = "apply", NEW l \in Levels, NEW m \in Levels, NEW f \in Files(manifest'.levels[m])
        PROVE  ~ Deletes(cedit, l, f.num)
    <3>1. f \in Files(manifest.levels[m]) \/ f = fedit.adds[1]
      BY <1>5
    <3>2. CASE f \in Files(manifest.levels[m])
      BY <1>2, <2>1, <3>2 DEF DeletedIsGone
    <3>3. CASE f = fedit.adds[1]
      <4> SUFFICES ASSUME Deletes(cedit, l, f.num) PROVE FALSE
        OBVIOUS
      <4>1. TaskIn(task, levels) /\ cedit.dels = Deletions(task)
        BY <1>2, <2>1 DEF TaskIsCurrent, Compacting, Merged
      <4>2. \E g \in Files(levels[l]) : g.num = f.num
        BY <1>2, <4>1, DeletedWasThere DEF CompactionTypes
      <4> QED BY <1>1, <1>2, <3>3, <4>2 DEF AddedIsNew, Flushing
    <3> QED BY <3>1, <3>2, <3>3
  <2>2. cpc = "remove" =>
          \A i \in 1..Len(obsolete) :
             /\ obsolete[i] < nextFile
             /\ \A l \in Levels : \A f \in KnownAt(l)' : f.num # obsolete[i]
    BY <1>2, <1>6 DEF DeletedIsGone
  <2> QED BY <1>1, <1>2, <2>1, <2>2 DEF DeletedIsGone
<1> QED BY <1>6, <1>7, <1>8, <1>9, <1>10 DEF FilesInv, KnownShrinks

\* A flush leaves the files of a task where they were.
LEMMA TaskStays ==
    ASSUME NEW lv \in LevelMaps, NEW t, TaskIn(t, lv), NEW edit, IsFlushEdit(edit)
    PROVE  TaskIn(t, Apply(lv, edit))
<1> DEFINE ap == Apply(lv, edit)
           s == lv[0]
           e == edit.adds[1]
<1>1. /\ e \in Meta /\ ap[0] = Append(s, e)
      /\ \A l \in Levels \ {0} : ap[l] = lv[l]
  BY ApplyFlush
<1> HIDE DEF ap
<1>2. t.level \in Levels /\ t.level + 1 \in Levels /\ t.level + 1 # 0 /\ t.inputs \in Seq(Meta)
      /\ t \in Tasks
  BY DEF TaskIn, Tasks, Levels
<1>3. s \in Seq(Meta)
  BY LevelsHaveZero DEF LevelMaps
<1> HIDE DEF s, e
<1>4. t.level = 0 =>
         Len(t.inputs) <= Len(ap[0]) /\ \A i \in 1..Len(t.inputs) : t.inputs[i] = ap[0][i]
  <2> SUFFICES ASSUME t.level = 0
               PROVE  Len(t.inputs) <= Len(ap[0])
                      /\ \A i \in 1..Len(t.inputs) : t.inputs[i] = ap[0][i]
    OBVIOUS
  <2>1. Len(t.inputs) <= Len(s) /\ \A i \in 1..Len(t.inputs) : t.inputs[i] = s[i]
    BY DEF TaskIn, s
  <2>2. Len(t.inputs) \in Nat /\ Len(s) \in Nat
    BY <1>2, <1>3
  <2>3. Len(ap[0]) = Len(s) + 1
    BY <1>1, <1>3
  <2>4. \A i \in 1..Len(s) : ap[0][i] = s[i]
    BY <1>1, <1>3
  <2>5. \A i \in 1..Len(t.inputs) : i \in 1..Len(s)
    BY <2>1, <2>2
  <2> QED BY <2>1, <2>2, <2>3, <2>4, <2>5
<1>5. t.level # 0 => ap[t.level] # << >> /\ t.inputs = <<ap[t.level][1]>>
  BY <1>1, <1>2 DEF TaskIn
<1>6. Files(t.targets) = {f \in Files(ap[t.level + 1]) :
                            RangesOverlap(InputLo(t), InputHi(t), f.lo, f.hi)}
  BY <1>1, <1>2 DEF TaskIn
<1>7. TaskIn(t, ap)
  BY <1>2, <1>4, <1>5, <1>6 DEF TaskIn
<1> QED BY <1>7 DEF ap

LEMMA FlushApplyEditFiles ==
    ASSUME FilesInv, FlushApplyEdit
    PROVE  FilesInv' /\ KnownShrinks
<1>1. /\ fpc = "apply" /\ fpc' = "idle" /\ levels' = Apply(levels, fedit)
      /\ nextFile' = NextAfter(nextFile, fedit)
      /\ files' = files /\ manifest' = manifest
      /\ cpc' = cpc /\ task' = task /\ cedit' = cedit /\ obsolete' = obsolete
      /\ used' = used /\ crashes' = crashes /\ failures' = failures
  BY DEF FlushApplyEdit, compactVars, bounds
<1>2. CompactionTypes /\ KnownOnDisk /\ NumbersUnique /\ AddedIsNew /\ TaskIsCurrent
      /\ DeletedIsGone /\ ManifestBelowNext
  BY DEF FilesInv
<1>3. IsFlushEdit(fedit) /\ levels \in LevelMaps /\ nextFile \in Nat
  BY <1>1, <1>2 DEF CompactionTypes, Flushing
<1>4. /\ fedit \in Edits /\ Files(fedit.adds) = {fedit.adds[1]} /\ fedit.level = 0
      /\ \A l, n : ~ Deletes(fedit, l, n)
  BY <1>3, FlushAdds
<1>5. /\ levels' \in LevelMaps
      /\ \A l \in Levels : Files(levels'[l]) =
             Files(levels[l]) \cup (IF l = 0 THEN {fedit.adds[1]} ELSE {})
  <2> DEFINE ap == Apply(levels, fedit)
  <2>1. /\ ap \in LevelMaps
        /\ \A l \in Levels :
              Files(ap[l]) = {f \in Files(levels[l]) : ~ Deletes(fedit, l, f.num)}
                               \cup (IF l = fedit.level THEN Files(fedit.adds) ELSE {})
    BY <1>3, <1>4, ApplyFiles
  <2> HIDE DEF ap
  <2>2. \A l \in Levels : Files(ap[l]) =
             Files(levels[l]) \cup (IF l = 0 THEN {fedit.adds[1]} ELSE {})
    BY <1>4, <2>1
  <2>3. levels' = ap
    BY <1>1 DEF ap
  <2> QED BY <2>1, <2>2, <2>3
<1>6. nextFile' \in Nat /\ nextFile <= nextFile'
  BY <1>1, <1>3, <1>4, NextAfterIs
<1>7. \A l \in Levels : KnownAt(l)' \subseteq KnownAt(l)
  BY <1>1, <1>5 DEF KnownAt, Flushing, Merged
<1>8. KnownOnDisk' /\ NumbersUnique'
  <2>1. \A l \in Levels : \A f \in KnownAt(l)' :
          f.num < nextFile' /\ f.num \in DOMAIN files' /\ files'[f.num] = files[f.num]
    <3> SUFFICES ASSUME NEW l \in Levels, NEW f \in KnownAt(l)'
                 PROVE  f.num < nextFile' /\ f.num \in DOMAIN files' /\ files'[f.num] = files[f.num]
      OBVIOUS
    <3>1. f \in KnownAt(l)
      BY <1>7
    <3>2. f \in Meta /\ f.num < nextFile /\ f.num \in DOMAIN files
      BY <1>2, <3>1 DEF KnownOnDisk
    <3>3. f.num \in Nat
      BY <3>2, MetaFields
    <3> QED BY <1>1, <1>3, <1>6, <3>2, <3>3
  <2> QED BY <1>2, <1>7, <2>1, NoNewFile
<1>9. CompactionTypes' /\ ManifestBelowNext'
  BY <1>1, <1>2, <1>5, <1>6 DEF CompactionTypes, ManifestBelowNext, Flushing, Merged
<1>10. AddedIsNew'
  BY <1>1, <1>2, <1>5 DEF AddedIsNew, Flushing, Merged
<1>11. TaskIsCurrent'
  <2>1. Compacting => TaskIn(task, Apply(levels, fedit))
    BY <1>2, <1>3, TaskStays DEF TaskIsCurrent
  <2> QED BY <1>1, <1>2, <2>1 DEF TaskIsCurrent, Compacting, Merged
<1>12. DeletedIsGone'
  <2>1. cpc = "remove" =>
          \A i \in 1..Len(obsolete) :
             /\ obsolete[i] < nextFile'
             /\ \A l \in Levels : \A f \in KnownAt(l)' : f.num # obsolete[i]
    <3> SUFFICES ASSUME cpc = "remove", NEW i \in 1..Len(obsolete)
                 PROVE  /\ obsolete[i] < nextFile'
                        /\ \A l \in Levels : \A f \in KnownAt(l)' : f.num # obsolete[i]
      OBVIOUS
    <3>1. obsolete[i] < nextFile /\ \A l \in Levels : \A f \in KnownAt(l) : f.num # obsolete[i]
      BY <1>2 DEF DeletedIsGone
    <3>2. obsolete[i] \in Nat
      BY <1>2 DEF CompactionTypes
    <3> QED BY <1>3, <1>6, <1>7, <3>1, <3>2
  <2> QED BY <1>1, <1>2, <2>1 DEF DeletedIsGone
<1> QED BY <1>7, <1>8, <1>9, <1>10, <1>11, <1>12 DEF FilesInv, KnownShrinks


LEMMA CompactFiles ==
    ASSUME FilesInv, Compact
    PROVE  FilesInv' /\ KnownShrinks
<1>1. /\ cpc' = "pick" /\ fpc' = fpc /\ fedit' = fedit
      /\ files' = files /\ manifest' = manifest /\ levels' = levels /\ nextFile' = nextFile
      /\ obsolete' = obsolete /\ used' = used /\ crashes' = crashes /\ failures' = failures
  BY DEF Compact, versionVars, flushVars, bounds
<1>2. CompactionTypes /\ KnownOnDisk /\ NumbersUnique /\ AddedIsNew /\ ManifestBelowNext
  BY DEF FilesInv
<1>3. \A l \in Levels : KnownAt(l)' \subseteq KnownAt(l)
  BY <1>1 DEF KnownAt, Flushing, Merged
<1>4. KnownOnDisk' /\ NumbersUnique'
  BY <1>1, <1>2, <1>3, NoNewFile DEF KnownOnDisk
<1>5. CompactionTypes' /\ ManifestBelowNext'
  BY <1>1, <1>2 DEF CompactionTypes, ManifestBelowNext, Flushing, Merged
<1>6. AddedIsNew' /\ TaskIsCurrent' /\ DeletedIsGone'
  BY <1>1, <1>2 DEF AddedIsNew, TaskIsCurrent, DeletedIsGone, Flushing, Merged, Compacting
<1> QED BY <1>3, <1>4, <1>5, <1>6 DEF FilesInv, KnownShrinks

LEMMA PickCompactionFiles ==
    ASSUME FilesInv, PickCompaction
    PROVE  FilesInv' /\ KnownShrinks
<1>1. /\ cpc = "pick" /\ fpc' = fpc /\ fedit' = fedit
      /\ files' = files /\ manifest' = manifest /\ levels' = levels /\ nextFile' = nextFile
      /\ obsolete' = obsolete /\ used' = used /\ crashes' = crashes /\ failures' = failures
      /\ \/ cpc' = "run" /\ task' = PickedTask /\ PickedTask # NoTask
         \/ cpc' = "idle"
  BY DEF PickCompaction, versionVars, flushVars, bounds
<1>2. CompactionTypes /\ KnownOnDisk /\ NumbersUnique /\ AddedIsNew /\ ManifestBelowNext
  BY DEF FilesInv
<1>3. \A l \in Levels : KnownAt(l)' \subseteq KnownAt(l)
  BY <1>1 DEF KnownAt, Flushing, Merged
<1>4. KnownOnDisk' /\ NumbersUnique'
  BY <1>1, <1>2, <1>3, NoNewFile DEF KnownOnDisk
<1>5. CompactionTypes' /\ ManifestBelowNext'
  BY <1>1, <1>2 DEF CompactionTypes, ManifestBelowNext, Flushing, Merged
<1>6. AddedIsNew' /\ DeletedIsGone'
  BY <1>1, <1>2 DEF AddedIsNew, DeletedIsGone, Flushing, Merged
<1>7. TaskIsCurrent'
  <2>1. cpc' = "run" => TaskIn(task', levels')
    <3> SUFFICES ASSUME cpc' = "run" PROVE TaskIn(task', levels')
      OBVIOUS
    <3>1. task' = PickedTask /\ PickedTask # NoTask
      BY <1>1
    <3>2. TaskIn(PickedTask, levels)
      BY <1>2, <3>1, PickedTaskIs DEF CompactionTypes
    <3> QED BY <1>1, <3>1, <3>2
  <2> QED BY <1>1, <2>1 DEF TaskIsCurrent, Compacting, Merged
<1> QED BY <1>3, <1>4, <1>5, <1>6, <1>7 DEF FilesInv, KnownShrinks

\* The files of a task are on disk.
LEMMA SourcesOnDisk ==
    ASSUME FilesInv, Compacting
    PROVE  /\ task \in Tasks /\ task.level \in Levels /\ task.level + 1 \in Levels
           /\ task.inputs # << >>
           /\ \A f \in Sources(task) : f.num \in DOMAIN files
<1>1. TaskIn(task, levels) /\ levels \in LevelMaps
  BY DEF FilesInv, TaskIsCurrent, CompactionTypes
<1>2. /\ task \in Tasks /\ task.level \in Levels /\ task.level + 1 \in Levels
      /\ task.inputs # << >>
      /\ Files(task.inputs) \subseteq Files(levels[task.level])
      /\ Files(task.targets) \subseteq Files(levels[task.level + 1])
  BY <1>1, TaskFiles
<1>3. \A l \in Levels : \A f \in Files(levels[l]) : f.num \in DOMAIN files
  BY DEF FilesInv, KnownOnDisk, KnownAt
<1> QED BY <1>2, <1>3 DEF Sources

LEMMA OneFile ==
    ASSUME NEW f \in Meta
    PROVE  <<f>> \in Seq(Meta)
OBVIOUS

\* The edit of a merge.
LEMMA MergeEdit ==
    ASSUME NEW t \in Tasks, t.level + 1 \in Levels, NEW edit,
           \/ edit = [NoEdit EXCEPT !.dels = Deletions(t)]
           \/ \E f \in Meta : edit = [NoEdit EXCEPT !.dels = Deletions(t), !.level = t.level + 1,
                                                    !.adds = <<f>>]
    PROVE  edit \in Edits /\ edit.dels = Deletions(t)
<1>1. Deletions(t) \in Seq(Levels \X Nat)
  BY DeletionsAre
<1>2. CASE edit = [NoEdit EXCEPT !.dels = Deletions(t)]
  <2>1. edit = [dels |-> Deletions(t), level |-> 0, adds |-> << >>, next |-> 0]
    BY <1>2 DEF NoEdit
  <2>2. 0 \in Levels /\ << >> \in Seq(Meta)
    BY LevelsHaveZero, EmptyHasNoFiles
  <2> QED BY <1>1, <2>1, <2>2 DEF Edits
<1>3. CASE \E f \in Meta : edit = [NoEdit EXCEPT !.dels = Deletions(t), !.level = t.level + 1,
                                                 !.adds = <<f>>]
  <2>1. PICK f \in Meta : edit = [NoEdit EXCEPT !.dels = Deletions(t), !.level = t.level + 1,
                                                !.adds = <<f>>]
    BY <1>3
  <2>2. edit = [dels |-> Deletions(t), level |-> t.level + 1, adds |-> <<f>>, next |-> 0]
    BY <2>1 DEF NoEdit
  <2>3. <<f>> \in Seq(Meta)
    BY OneFile
  <2> QED BY <1>1, <2>2, <2>3 DEF Edits
<1> QED BY <1>2, <1>3

LEMMA RunCompactionFiles ==
    ASSUME FilesInv, RunCompaction
    PROVE  FilesInv'
<1> DEFINE table == MergedTable(task)
           new == MetaOf(nextFile, table)
<1>1. /\ cpc = "run" /\ cpc' = "log" /\ fpc' = fpc /\ fedit' = fedit
      /\ manifest' = manifest /\ levels' = levels /\ task' = task
      /\ obsolete' = obsolete /\ used' = used /\ crashes' = crashes /\ failures' = failures
  BY DEF RunCompaction, flushVars, bounds
<1>2. CompactionTypes /\ KnownOnDisk /\ NumbersUnique /\ AddedIsNew /\ TaskIsCurrent
      /\ ManifestBelowNext
  BY DEF FilesInv
<1>3. /\ task \in Tasks /\ task.level \in Levels /\ task.level + 1 \in Levels
      /\ TaskIn(task, levels) /\ nextFile \in Nat
  BY <1>1, <1>2, SourcesOnDisk DEF Compacting, TaskIsCurrent, CompactionTypes
<1>4. DOMAIN table # {} => IsTable(table)
  BY <1>1, <1>2, <1>3, SourcesOnDisk, MergedTableIs DEF Compacting, CompactionTypes
<1>5. \/ /\ cedit' = [NoEdit EXCEPT !.dels = Deletions(task)]
         /\ files' = files /\ nextFile' = nextFile
      \/ /\ DOMAIN table # {}
         /\ cedit' = [NoEdit EXCEPT !.dels = Deletions(task), !.level = task.level + 1,
                                    !.adds = <<new>>]
         /\ files' = WithFile(nextFile, table)
         /\ nextFile' = nextFile + 1
  BY DEF RunCompaction
<1> HIDE DEF table
<1>6. CASE /\ cedit' = [NoEdit EXCEPT !.dels = Deletions(task)]
           /\ files' = files /\ nextFile' = nextFile
  <2>1. cedit' \in Edits /\ cedit'.dels = Deletions(task)
    BY <1>3, <1>6, MergeEdit
  <2>2. cedit'.adds = << >>
    BY <1>6 DEF NoEdit
  <2>3. Files(cedit'.adds) = {}
    BY <2>2, EmptyHasNoFiles
  <2>4. \A l \in Levels : KnownAt(l)' \subseteq KnownAt(l)
    BY <1>1, <2>3 DEF KnownAt, Flushing, Merged
  <2>5. KnownOnDisk' /\ NumbersUnique'
    BY <1>2, <1>6, <2>4, NoNewFile DEF KnownOnDisk
  <2>6. CompactionTypes' /\ ManifestBelowNext'
    BY <1>1, <1>2, <1>6, <2>1 DEF CompactionTypes, ManifestBelowNext, Flushing, Merged
  <2>7. AddedIsNew' /\ DeletedIsGone'
    BY <1>1, <1>2, <2>3 DEF AddedIsNew, DeletedIsGone, Flushing, Merged
  <2>8. TaskIsCurrent'
    BY <1>1, <1>3, <2>1, <2>2 DEF TaskIsCurrent, Compacting, Merged
  <2> QED BY <2>5, <2>6, <2>7, <2>8 DEF FilesInv
<1>7. CASE /\ DOMAIN table # {}
           /\ cedit' = [NoEdit EXCEPT !.dels = Deletions(task), !.level = task.level + 1,
                                      !.adds = <<new>>]
           /\ files' = WithFile(nextFile, table)
           /\ nextFile' = nextFile + 1
  <2>1. IsTable(table) /\ new \in Meta /\ new.num = nextFile
    BY <1>3, <1>4, <1>7, MetaOfTable
  <2> HIDE DEF new
  <2>2. cedit' \in Edits /\ cedit'.dels = Deletions(task)
    <3>1. \E f \in Meta : cedit' = [NoEdit EXCEPT !.dels = Deletions(task),
                                                  !.level = task.level + 1, !.adds = <<f>>]
      BY <1>7, <2>1
    <3> QED BY <1>3, <3>1, MergeEdit
  <2>3. cedit'.adds = <<new>> /\ cedit'.level = task.level + 1
    BY <1>7 DEF NoEdit
  <2>4. Files(cedit'.adds) = {new} /\ Len(cedit'.adds) = 1
    BY <2>3 DEF Files
  <2>5. \A l \in Levels : KnownAt(l)' \subseteq KnownAt(l)
                             \cup (IF l = task.level + 1 THEN {MetaOf(nextFile, table)} ELSE {})
    BY <1>1, <2>3, <2>4 DEF KnownAt, Flushing, Merged, new
  <2>6. KnownOnDisk' /\ NumbersUnique'
    BY <1>3, <1>7, <2>1, <2>5, OneNewFile
  <2>7. CompactionTypes' /\ ManifestBelowNext'
    <3>1. DOMAIN files' \in SUBSET Nat /\ \A n \in DOMAIN files' : IsTable(files'[n])
      BY <1>2, <1>3, <1>7, <2>1 DEF CompactionTypes, WithFile
    <3>2. nextFile' \in Nat
      BY <1>3, <1>7
    <3> QED BY <1>1, <1>2, <2>2, <3>1, <3>2
            DEF CompactionTypes, ManifestBelowNext, Flushing, Merged
  <2>8. \A l \in Levels : \A f \in KnownAt(l) : f.num \in Nat /\ f.num < nextFile
    BY <1>2, MetaFields DEF KnownOnDisk
  <2>9. AddedIsNew'
    <3>1. \A l \in Levels : \A f \in Files(levels[l]) : f.num # nextFile
      BY <1>3, <2>8 DEF KnownAt
    <3>2. Flushing => fedit.adds[1].num # nextFile
      <4>1. Flushing => fedit.adds[1] \in KnownAt(0)
        BY DEF KnownAt
      <4> QED BY <1>3, <2>8, <4>1, LevelsHaveZero
    <3> QED BY <1>1, <1>2, <2>1, <2>4, <3>1, <3>2 DEF AddedIsNew, Flushing, Merged
  <2>10. TaskIsCurrent' /\ DeletedIsGone'
    BY <1>1, <1>3, <2>2, <2>3, <2>4 DEF TaskIsCurrent, DeletedIsGone, Compacting, Merged
  <2> QED BY <2>6, <2>7, <2>9, <2>10 DEF FilesInv
<1> QED BY <1>5, <1>6, <1>7 DEF table

\* What the manifest amounts to when the edit of a merge is in it.
LEMMA MergeLogged ==
    ASSUME FilesInv, Merged, NEW m, m = Logged(manifest, cedit)
    PROVE  /\ m \in [levels : LevelMaps, next : Nat]
           /\ \A l \in Levels : Files(m.levels[l]) \subseteq
                 Files(manifest.levels[l]) \cup (IF l = cedit.level THEN Files(cedit.adds) ELSE {})
           /\ \A l \in Levels : \A f \in Files(m.levels[l]) : f.num < m.next
           /\ \A l, k \in Levels : \A f \in Files(m.levels[k]) : ~ Deletes(cedit, l, f.num)
<1>1. CompactionTypes /\ KnownOnDisk /\ NumbersUnique /\ AddedIsNew /\ TaskIsCurrent
      /\ ManifestBelowNext
  BY DEF FilesInv
<1>2. cedit \in Edits /\ levels \in LevelMaps
  BY <1>1 DEF CompactionTypes
<1>3. /\ m \in [levels : LevelMaps, next : Nat]
      /\ \A l \in Levels :
            Files(m.levels[l]) =
               {f \in Files(manifest.levels[l]) : ~ Deletes(cedit, l, f.num)}
                  \cup (IF l = cedit.level THEN Files(cedit.adds) ELSE {})
      /\ \A l \in Levels : \A f \in Files(m.levels[l]) : f.num < m.next
  BY <1>1, <1>2, LoggedFiles
<1>4. TaskIn(task, levels) /\ cedit.dels = Deletions(task)
  BY <1>1 DEF TaskIsCurrent, Merged, Compacting
<1>5. ASSUME NEW l \in Levels, NEW k \in Levels, NEW f \in Files(m.levels[k]),
             Deletes(cedit, l, f.num)
      PROVE  FALSE
  <2>1. PICK g \in Files(levels[l]) : g.num = f.num
    BY <1>2, <1>4, <1>5, DeletedWasThere
  <2>2. CASE f \in Files(manifest.levels[k]) /\ ~ Deletes(cedit, k, f.num)
    <3>1. f \in KnownAt(k) /\ g \in KnownAt(l)
      BY <2>1, <2>2 DEF KnownAt
    <3>2. k = l
      BY <1>1, <2>1, <3>1 DEF NumbersUnique
    <3> QED BY <1>5, <2>2, <3>2
  <2>3. CASE f \in Files(cedit.adds)
    BY <1>1, <2>1, <2>3 DEF AddedIsNew
  <2> QED BY <1>3, <2>2, <2>3
<1> QED BY <1>3, <1>5

LEMMA LogCompactionFiles ==
    ASSUME FilesInv, LogCompaction
    PROVE  FilesInv' /\ KnownShrinks
<1>1. /\ cpc = "log" /\ cpc' = "apply" /\ manifest' = Logged(manifest, cedit)
      /\ files' = files /\ levels' = levels /\ nextFile' = nextFile
      /\ fpc' = fpc /\ fedit' = fedit /\ task' = task /\ cedit' = cedit /\ obsolete' = obsolete
      /\ used' = used /\ crashes' = crashes /\ failures' = failures
  BY DEF LogCompaction, flushVars, versionVars, bounds
<1>2. CompactionTypes /\ KnownOnDisk /\ NumbersUnique /\ AddedIsNew /\ TaskIsCurrent
  BY DEF FilesInv
<1>3. /\ manifest' \in [levels : LevelMaps, next : Nat]
      /\ \A l \in Levels : Files(manifest'.levels[l]) \subseteq
            Files(manifest.levels[l]) \cup (IF l = cedit.level THEN Files(cedit.adds) ELSE {})
      /\ \A l \in Levels : \A f \in Files(manifest'.levels[l]) : f.num < manifest'.next
      /\ \A l, k \in Levels : \A f \in Files(manifest'.levels[k]) : ~ Deletes(cedit, l, f.num)
  BY <1>1, MergeLogged DEF Merged
<1>4. \A l \in Levels : KnownAt(l)' \subseteq KnownAt(l)
  BY <1>1, <1>3 DEF KnownAt, Flushing, Merged
<1>5. KnownOnDisk' /\ NumbersUnique'
  BY <1>1, <1>2, <1>4, NoNewFile DEF KnownOnDisk
<1>6. CompactionTypes' /\ ManifestBelowNext'
  BY <1>1, <1>2, <1>3 DEF CompactionTypes, ManifestBelowNext, Flushing, Merged
<1>7. AddedIsNew' /\ TaskIsCurrent'
  BY <1>1, <1>2 DEF AddedIsNew, TaskIsCurrent, Flushing, Merged, Compacting
<1>8. DeletedIsGone'
  BY <1>1, <1>3 DEF DeletedIsGone
<1> QED BY <1>4, <1>5, <1>6, <1>7, <1>8 DEF FilesInv, KnownShrinks

LEMMA CompactFailsFiles ==
    ASSUME FilesInv, CompactFails
    PROVE  FilesInv' /\ KnownShrinks
<1>1. /\ cpc = "log" /\ cpc' = "idle" /\ manifest' \in {manifest, Logged(manifest, cedit)}
      /\ files' = files /\ levels' = levels /\ nextFile' = nextFile
      /\ fpc' = fpc /\ fedit' = fedit /\ obsolete' = obsolete
      /\ used' = used /\ crashes' = crashes /\ failures' = failures + 1
  BY DEF CompactFails, flushVars, versionVars
<1>2. CompactionTypes /\ KnownOnDisk /\ NumbersUnique /\ AddedIsNew /\ ManifestBelowNext
  BY DEF FilesInv
<1>3. /\ manifest' \in [levels : LevelMaps, next : Nat]
      /\ \A l \in Levels : Files(manifest'.levels[l]) \subseteq
            Files(manifest.levels[l]) \cup (IF l = cedit.level THEN Files(cedit.adds) ELSE {})
      /\ \A l \in Levels : \A f \in Files(manifest'.levels[l]) : f.num < manifest'.next
  <2>1. CASE manifest' = manifest
    BY <1>2, <2>1 DEF CompactionTypes, ManifestBelowNext
  <2>2. CASE manifest' = Logged(manifest, cedit)
    BY <1>1, <2>2, MergeLogged DEF Merged
  <2> QED BY <1>1, <2>1, <2>2
<1>4. \A l \in Levels : KnownAt(l)' \subseteq KnownAt(l)
  BY <1>1, <1>3 DEF KnownAt, Flushing, Merged
<1>5. KnownOnDisk' /\ NumbersUnique'
  BY <1>1, <1>2, <1>4, NoNewFile DEF KnownOnDisk
<1>6. CompactionTypes' /\ ManifestBelowNext'
  BY <1>1, <1>2, <1>3 DEF CompactionTypes, ManifestBelowNext, Flushing, Merged
<1>7. AddedIsNew' /\ TaskIsCurrent' /\ DeletedIsGone'
  BY <1>1, <1>2 DEF AddedIsNew, TaskIsCurrent, DeletedIsGone, Flushing, Merged, Compacting
<1> QED BY <1>4, <1>5, <1>6, <1>7 DEF FilesInv, KnownShrinks

LEMMA ApplyCompactionFiles ==
    ASSUME FilesInv, ApplyCompaction
    PROVE  FilesInv' /\ KnownShrinks
<1>1. /\ cpc = "apply" /\ cpc' = "remove" /\ levels' = Apply(levels, cedit)
      /\ nextFile' = NextAfter(nextFile, cedit)
      /\ obsolete' = [i \in 1..Len(cedit.dels) |-> cedit.dels[i][2]]
      /\ files' = files /\ manifest' = manifest /\ fpc' = fpc /\ fedit' = fedit
      /\ used' = used /\ crashes' = crashes /\ failures' = failures
  BY DEF ApplyCompaction, flushVars, bounds
<1>2. CompactionTypes /\ KnownOnDisk /\ NumbersUnique /\ AddedIsNew /\ TaskIsCurrent
      /\ DeletedIsGone /\ ManifestBelowNext
  BY DEF FilesInv
<1>3. cedit \in Edits /\ levels \in LevelMaps /\ nextFile \in Nat
  BY <1>1, <1>2 DEF CompactionTypes, Merged
<1>4. TaskIn(task, levels) /\ cedit.dels = Deletions(task)
  BY <1>1, <1>2 DEF TaskIsCurrent, Compacting, Merged
<1>5. /\ levels' \in LevelMaps
      /\ \A l \in Levels : Files(levels'[l]) =
             {f \in Files(levels[l]) : ~ Deletes(cedit, l, f.num)}
                \cup (IF l = cedit.level THEN Files(cedit.adds) ELSE {})
  <2> DEFINE ap == Apply(levels, cedit)
  <2>1. /\ ap \in LevelMaps
        /\ \A l \in Levels :
              Files(ap[l]) = {f \in Files(levels[l]) : ~ Deletes(cedit, l, f.num)}
                               \cup (IF l = cedit.level THEN Files(cedit.adds) ELSE {})
    BY <1>3, ApplyFiles
  <2>2. levels' = ap
    BY <1>1
  <2> HIDE DEF ap
  <2> QED BY <2>1, <2>2
<1>6. nextFile' \in Nat /\ nextFile <= nextFile'
  BY <1>1, <1>3, NextAfterIs
<1>7. \A l \in Levels : KnownAt(l)' \subseteq KnownAt(l)
  BY <1>1, <1>5 DEF KnownAt, Flushing, Merged
<1>8. KnownOnDisk' /\ NumbersUnique'
  <2>1. ASSUME NEW l \in Levels, NEW f \in KnownAt(l)'
        PROVE  f.num < nextFile' /\ f.num \in DOMAIN files' /\ files'[f.num] = files[f.num]
    <3>1. f \in KnownAt(l)
      BY <1>7
    <3>2. f \in Meta /\ f.num < nextFile /\ f.num \in DOMAIN files
      BY <1>2, <3>1 DEF KnownOnDisk
    <3>3. f.num \in Nat
      BY <3>2, MetaFields
    <3> QED BY <1>1, <1>3, <1>6, <3>2, <3>3
  <2> QED BY <1>2, <1>7, <2>1, NoNewFile
<1>9. /\ cedit.dels \in Seq(Levels \X Nat) /\ cedit.dels # << >> /\ Len(cedit.dels) \in Nat
      /\ \A i \in 1..Len(cedit.dels) :
            /\ cedit.dels[i][1] \in Levels /\ cedit.dels[i][2] \in Nat
            /\ cedit.dels[i] = <<cedit.dels[i][1], cedit.dels[i][2]>>
  <2> DEFINE ds == cedit.dels
  <2>1. ds \in Seq(Levels \X Nat)
    BY <1>3 DEF Edits
  <2>2. ds # << >>
    BY <1>3, <1>4, TaskFiles, DeletionsAre
  <2> HIDE DEF ds
  <2>3. Len(ds) \in Nat
    BY <2>1
  <2>4. \A i \in 1..Len(ds) : ds[i] \in Levels \X Nat
    BY <2>1
  <2>5. \A i \in 1..Len(ds) : ds[i][1] \in Levels /\ ds[i][2] \in Nat /\ ds[i] = <<ds[i][1], ds[i][2]>>
    BY <2>4
  <2> QED BY <2>1, <2>2, <2>3, <2>5 DEF ds
<1>10. obsolete' \in Seq(Nat) /\ Len(obsolete') = Len(cedit.dels) /\ obsolete' # << >>
       /\ \A i \in 1..Len(obsolete') : obsolete'[i] = cedit.dels[i][2]
  <2> DEFINE N == Len(cedit.dels)
             f == obsolete'
  <2>1. N \in Nat /\ \A i \in 1..N : cedit.dels[i][2] \in Nat
    BY <1>9
  <2>2. f = [i \in 1..N |-> cedit.dels[i][2]]
    BY <1>1
  <2>5. N # 0
    BY <1>9, EmptySeq
  <2> HIDE DEF N, f
  <2>3. \A i \in 1..N : f[i] \in Nat /\ f[i] = cedit.dels[i][2]
    BY <2>1, <2>2
  <2>4. f = [i \in 1..N |-> f[i]]
    BY <2>2
  <2>6. f \in Seq(Nat) /\ Len(f) = N
    BY <2>1, <2>3, <2>4, SeqOfEach
  <2>7. f # << >>
    BY <2>5, <2>6, EmptySeq
  <2> QED BY <2>3, <2>6, <2>7 DEF N, f
<1>11. CompactionTypes' /\ ManifestBelowNext'
  BY <1>1, <1>2, <1>5, <1>6, <1>10 DEF CompactionTypes, ManifestBelowNext, Flushing, Merged
<1>12. AddedIsNew' /\ TaskIsCurrent'
  BY <1>1, <1>2, <1>5 DEF AddedIsNew, TaskIsCurrent, Flushing, Merged, Compacting
<1>13. DeletedIsGone'
  <2> SUFFICES ASSUME NEW i \in 1..Len(obsolete')
               PROVE  /\ obsolete'[i] < nextFile'
                      /\ \A l \in Levels : \A f \in KnownAt(l)' : f.num # obsolete'[i]
    BY <1>1, <1>10 DEF DeletedIsGone
  <2> DEFINE l == cedit.dels[i][1]
             n == cedit.dels[i][2]
  <2>1. obsolete'[i] = n /\ l \in Levels /\ n \in Nat /\ Deletes(cedit, l, n)
    BY <1>9, <1>10 DEF Deletes
  <2> HIDE DEF l, n
  <2>2. PICK f \in Files(levels[l]) : f.num = n
    BY <1>3, <1>4, <2>1, DeletedWasThere
  <2>3. f \in KnownAt(l) /\ n < nextFile
    BY <1>2, <2>1, <2>2 DEF KnownAt, KnownOnDisk
  <2>4. ASSUME NEW m \in Levels, NEW g \in KnownAt(m)', g.num = n
        PROVE  FALSE
    <3>1. g \in KnownAt(m)
      BY <1>7
    <3>2. m = l
      BY <1>2, <2>1, <2>2, <2>3, <2>4, <3>1 DEF NumbersUnique
    <3>3. CASE g \in Files(levels[m]) /\ ~ Deletes(cedit, m, g.num)
      BY <2>1, <2>4, <3>2, <3>3
    <3>4. CASE g \in Files(cedit.adds)
      BY <1>1, <1>2, <2>1, <2>2, <2>4, <3>4 DEF AddedIsNew, Merged
    <3>5. CASE g \in Files(manifest.levels[m])
      BY <1>1, <1>2, <2>1, <2>4, <3>5 DEF DeletedIsGone
    <3>6. CASE Flushing /\ g = fedit.adds[1]
      BY <1>2, <2>1, <2>2, <2>4, <3>6 DEF AddedIsNew
    <3> QED BY <1>1, <1>5, <3>3, <3>4, <3>5, <3>6 DEF KnownAt, Flushing, Merged
  <2> QED BY <1>3, <1>6, <2>1, <2>3, <2>4
<1> QED BY <1>7, <1>8, <1>11, <1>12, <1>13 DEF FilesInv, KnownShrinks

LEMMA TailOf ==
    ASSUME NEW T, NEW s \in Seq(T), s # << >>
    PROVE  /\ Head(s) = s[1] /\ Tail(s) \in Seq(T) /\ Len(Tail(s)) = Len(s) - 1
           /\ Len(s) \in Nat /\ Len(s) >= 1
           /\ \A i \in 1..Len(Tail(s)) : Tail(s)[i] = s[i + 1] /\ i + 1 \in 1..Len(s)
           /\ Len(s) # 1 => Tail(s) # << >>
<1>1. Len(s) \in Nat /\ Len(s) >= 1
  BY EmptySeq
<1>2. Head(s) = s[1] /\ Tail(s) \in Seq(T) /\ Len(Tail(s)) = Len(s) - 1
      /\ \A i \in 1..Len(Tail(s)) : Tail(s)[i] = s[i + 1]
  BY HeadTailProperties
<1>3. Len(s) # 1 => Tail(s) # << >>
  BY <1>1, <1>2, EmptySeq
<1> QED BY <1>1, <1>2, <1>3

LEMMA RemoveObsoleteFiles ==
    ASSUME FilesInv, RemoveObsolete
    PROVE  FilesInv' /\ KnownShrinks
<1>1. /\ cpc = "remove" /\ cpc' = IF Len(obsolete) = 1 THEN "pick" ELSE "remove"
      /\ files' = [m \in DOMAIN files \ {Head(obsolete)} |-> files[m]]
      /\ obsolete' = Tail(obsolete)
      /\ manifest' = manifest /\ levels' = levels /\ nextFile' = nextFile
      /\ fpc' = fpc /\ fedit' = fedit /\ used' = used /\ crashes' = crashes /\ failures' = failures
  BY DEF RemoveObsolete, flushVars, versionVars, bounds
<1>2. CompactionTypes /\ KnownOnDisk /\ NumbersUnique /\ AddedIsNew
      /\ DeletedIsGone /\ ManifestBelowNext
  BY DEF FilesInv
<1>3. /\ obsolete \in Seq(Nat) /\ obsolete # << >>
      /\ \A i \in 1..Len(obsolete) :
            /\ obsolete[i] < nextFile
            /\ \A l \in Levels : \A f \in KnownAt(l) : f.num # obsolete[i]
  BY <1>1, <1>2 DEF CompactionTypes, DeletedIsGone
<1>4. /\ Head(obsolete) = obsolete[1] /\ obsolete' \in Seq(Nat) /\ 1 \in 1..Len(obsolete)
      /\ \A i \in 1..Len(obsolete') : obsolete'[i] = obsolete[i + 1] /\ i + 1 \in 1..Len(obsolete)
      /\ Len(obsolete) # 1 => obsolete' # << >>
  <2> HIDE DEF FilesInv
  <2>1. Len(obsolete) \in Nat /\ Len(obsolete) >= 1
    BY <1>3, TailOf
  <2>2. 1 \in 1..Len(obsolete)
    BY <2>1
  <2> QED BY <1>1, <1>3, <2>2, TailOf
<1>5. \A l \in Levels : KnownAt(l)' = KnownAt(l)
  BY <1>1 DEF KnownAt, Flushing, Merged
<1>6. \A l \in Levels : \A f \in KnownAt(l)' :
         f.num < nextFile' /\ f.num \in DOMAIN files' /\ files'[f.num] = files[f.num]
  BY <1>1, <1>2, <1>3, <1>4, <1>5 DEF KnownOnDisk
<1>7. KnownOnDisk' /\ NumbersUnique'
  BY <1>2, <1>5, <1>6, NoNewFile
<1>8. CompactionTypes' /\ ManifestBelowNext'
  BY <1>1, <1>2, <1>4 DEF CompactionTypes, ManifestBelowNext, Flushing, Merged
<1>9. AddedIsNew' /\ TaskIsCurrent'
  BY <1>1, <1>2 DEF AddedIsNew, TaskIsCurrent, Flushing, Merged, Compacting
<1>10. DeletedIsGone'
  BY <1>1, <1>3, <1>4, <1>5 DEF DeletedIsGone
<1> QED BY <1>5, <1>7, <1>8, <1>9, <1>10 DEF FilesInv, KnownShrinks

LEMMA CrashFiles ==
    ASSUME FilesInv, CrashAndOpen
    PROVE  FilesInv' /\ KnownShrinks
<1>1. /\ levels' = manifest.levels /\ nextFile' = manifest.next /\ fpc' = "idle" /\ cpc' = "idle"
      /\ obsolete' = << >> /\ files' = files /\ manifest' = manifest
      /\ used' = used /\ crashes' = crashes + 1 /\ failures' = failures
  BY DEF CrashAndOpen
<1>2. CompactionTypes /\ KnownOnDisk /\ NumbersUnique /\ ManifestBelowNext
  BY DEF FilesInv
<1>3. manifest.levels \in LevelMaps /\ manifest.next \in Nat
  BY <1>2 DEF CompactionTypes
<1>4. \A l \in Levels : KnownAt(l)' = Files(manifest.levels[l])
  BY <1>1 DEF KnownAt, Flushing, Merged
<1>5. \A l \in Levels : KnownAt(l)' \subseteq KnownAt(l)
  BY <1>4 DEF KnownAt
<1>6. \A l \in Levels : \A f \in KnownAt(l)' :
         f.num < nextFile' /\ f.num \in DOMAIN files' /\ files'[f.num] = files[f.num]
  BY <1>1, <1>2, <1>4, <1>5 DEF KnownOnDisk, ManifestBelowNext
<1>7. KnownOnDisk' /\ NumbersUnique'
  BY <1>2, <1>5, <1>6, NoNewFile
<1>8. << >> \in Seq(Nat)
  OBVIOUS
<1>9. CompactionTypes' /\ ManifestBelowNext'
  BY <1>1, <1>2, <1>3, <1>8 DEF CompactionTypes, ManifestBelowNext, Flushing, Merged
<1>10. AddedIsNew' /\ TaskIsCurrent' /\ DeletedIsGone'
  BY <1>1, <1>2 DEF AddedIsNew, TaskIsCurrent, DeletedIsGone, Flushing, Merged, Compacting
<1> QED BY <1>5, <1>7, <1>9, <1>10 DEF FilesInv, KnownShrinks

\* What a get does not touch.
notGet == <<files, manifest, levels, nextFile, fpc, fedit, cpc, task, cedit, passes, obsolete,
            used, crashes, failures>>

LEMMA GetsFiles ==
    ASSUME FilesInv, UNCHANGED notGet
    PROVE  FilesInv' /\ KnownShrinks
<1>1. /\ files' = files /\ manifest' = manifest /\ levels' = levels /\ nextFile' = nextFile
      /\ fpc' = fpc /\ fedit' = fedit /\ cpc' = cpc /\ task' = task /\ cedit' = cedit
      /\ obsolete' = obsolete /\ used' = used /\ crashes' = crashes /\ failures' = failures
  BY DEF notGet
<1>2. CompactionTypes /\ KnownOnDisk /\ NumbersUnique /\ AddedIsNew /\ TaskIsCurrent
      /\ DeletedIsGone /\ ManifestBelowNext
  BY DEF FilesInv
<1>3. \A l \in Levels : KnownAt(l)' = KnownAt(l)
  BY <1>1 DEF KnownAt, Flushing, Merged
<1>4. KnownOnDisk' /\ NumbersUnique'
  BY <1>1, <1>2, <1>3 DEF KnownOnDisk, NumbersUnique
<1>5. CompactionTypes' /\ ManifestBelowNext'
  BY <1>1, <1>2 DEF CompactionTypes, ManifestBelowNext, Flushing, Merged
<1>6. AddedIsNew' /\ TaskIsCurrent'
  BY <1>1, <1>2 DEF AddedIsNew, TaskIsCurrent, Flushing, Merged, Compacting
<1>7. DeletedIsGone'
  BY <1>1, <1>2, <1>3 DEF DeletedIsGone
<1> QED BY <1>3, <1>4, <1>5, <1>6, <1>7 DEF FilesInv, KnownShrinks

LEMMA GetsLeave ==
    ASSUME NEW g \in Getters,
           (\E k \in Keys : GetVersion(g, k)) \/ GetExists(g) \/ GetOpen(g)
    PROVE  UNCHANGED notGet
BY DEF notGet, GetVersion, GetExists, GetOpen, versionVars, flushVars, compactVars, bounds

LEMMA FilesStep ==
    ASSUME FilesInv, [Next]_cvars
    PROVE  /\ FilesInv'
           /\ \/ KnownShrinks \/ RunCompaction
              \/ \E D \in (SUBSET Keys) \ {{}} : \E c \in [D -> Contents] : FlushTable(D, c)
<1>1. CASE UNCHANGED cvars
  <2>1. UNCHANGED notGet
    BY <1>1 DEF cvars, notGet
  <2> QED BY <2>1, GetsFiles
<1>2. CASE Next
  <2>1. CASE \E D \in (SUBSET Keys) \ {{}} : \E c \in [D -> Contents] : FlushTable(D, c)
    BY <2>1, FlushTableFiles
  <2>2. CASE FlushLogEdit
    BY <2>2, FlushLogEditFiles
  <2>3. CASE FlushFails
    BY <2>3, FlushFailsFiles
  <2>4. CASE FlushApplyEdit
    BY <2>4, FlushApplyEditFiles
  <2>5. CASE Compact
    BY <2>5, CompactFiles
  <2>6. CASE CompactStep
    BY <2>6, PickCompactionFiles, RunCompactionFiles, LogCompactionFiles, ApplyCompactionFiles,
       RemoveObsoleteFiles DEF CompactStep
  <2>7. CASE CompactFails
    BY <2>7, CompactFailsFiles
  <2>8. CASE \E g \in Getters : (\E k \in Keys : GetVersion(g, k)) \/ GetExists(g) \/ GetOpen(g)
    BY <2>8, GetsLeave, GetsFiles
  <2>9. CASE CrashAndOpen
    BY <2>9, CrashFiles
  <2> QED BY <1>2, <2>1, <2>2, <2>3, <2>4, <2>5, <2>6, <2>7, <2>8, <2>9 DEF Next
<1> QED BY <1>1, <1>2

\* What a compactor, flushes, failed writes and crashes keep of the files.
THEOREM FilesAreKnown == Spec => []FilesInv
BY FilesInit, FilesStep, PTL DEF Spec

\* No step touches a table that is known.
LEMMA KnownUnchanged ==
    ASSUME FilesInv, [Next]_cvars, NEW l \in Levels, NEW f \in KnownAt(l), f.num \in DOMAIN files'
    PROVE  files'[f.num] = files[f.num]
<1> DEFINE n == f.num
<1>1. n < nextFile /\ n \in Nat /\ nextFile \in Nat
  <2>1. f \in Meta /\ f.num < nextFile /\ nextFile \in Nat
    BY DEF FilesInv, KnownOnDisk, CompactionTypes
  <2> QED BY <2>1, MetaFields
<1> HIDE DEF n
<1>2. \/ files' = files
      \/ \E table : files' = WithFile(nextFile, table)
      \/ \E N : files' = [m \in DOMAIN files \ {N} |-> files[m]]
  <2>1. CASE UNCHANGED cvars
    BY <2>1 DEF cvars
  <2>2. CASE \E D \in (SUBSET Keys) \ {{}} : \E c \in [D -> Contents] : FlushTable(D, c)
    BY <2>2 DEF FlushTable
  <2>3. CASE FlushLogEdit \/ FlushFails \/ FlushApplyEdit \/ Compact \/ CompactFails \/ CrashAndOpen
    BY <2>3 DEF FlushLogEdit, FlushFails, FlushApplyEdit, Compact, CompactFails, CrashAndOpen
  <2>4. CASE PickCompaction \/ LogCompaction \/ ApplyCompaction
    BY <2>4 DEF PickCompaction, LogCompaction, ApplyCompaction
  <2>5. CASE RunCompaction
    BY <2>5 DEF RunCompaction
  <2>6. CASE RemoveObsolete
    BY <2>6 DEF RemoveObsolete
  <2>7. CASE \E g \in Getters : (\E k \in Keys : GetVersion(g, k)) \/ GetExists(g) \/ GetOpen(g)
    BY <2>7, GetsLeave DEF notGet
  <2> QED BY <2>1, <2>2, <2>3, <2>4, <2>5, <2>6, <2>7 DEF Next, CompactStep
<1>3. n \in DOMAIN files /\ n \in DOMAIN files'
  BY DEF FilesInv, KnownOnDisk, n
<1>4. CASE \E table : files' = WithFile(nextFile, table)
  <2>1. PICK table : files' = WithFile(nextFile, table)
    BY <1>4
  <2>2. n # nextFile
    BY <1>1
  <2> QED BY <1>3, <2>1, <2>2 DEF WithFile, n
<1>5. CASE \E N : files' = [m \in DOMAIN files \ {N} |-> files[m]]
  <2>1. PICK N : files' = [m \in DOMAIN files \ {N} |-> files[m]]
    BY <1>5
  <2>2. n \in DOMAIN files \ {N}
    BY <1>3, <2>1
  <2>3. files'[n] = files[n]
    BY <2>1, <2>2
  <2> QED BY <2>3 DEF n
<1> QED BY <1>2, <1>4, <1>5

LEMMA ReferencedAre ==
    ASSUME NEW lv, NEW n
    PROVE  n \in Referenced(lv) <=> \E l \in Levels : \E f \in Files(lv[l]) : f.num = n
BY DEF Referenced, Files

\* FilesPresent, for every number of levels, keys, flushes and crashes, failed writes of
\* edits included: a table is removed only when no version, in memory or logged, has it
\* (compact of engine.rs, which removes the inputs after log_edit and log_and_apply).
THEOREM TablesStay == Spec => []FilesPresent
<1>1. FilesInv => FilesPresent
  <2> SUFFICES ASSUME FilesInv, NEW n \in Referenced(levels) \cup Referenced(manifest.levels)
               PROVE  n \in DOMAIN files
    BY DEF FilesPresent
  <2>1. PICK l \in Levels : \E f \in Files(levels[l]) \cup Files(manifest.levels[l]) : f.num = n
    BY ReferencedAre
  <2>2. PICK f \in Files(levels[l]) \cup Files(manifest.levels[l]) : f.num = n
    BY <2>1
  <2>3. f \in KnownAt(l)
    BY DEF KnownAt
  <2> QED BY <2>2, <2>3 DEF FilesInv, KnownOnDisk
<1> QED BY <1>1, FilesAreKnown, PTL

\* TablesImmutable likewise: new_file_number, in memory or rebuilt from the manifest, never
\* gives a new table the number of one that a version has.
THEOREM TablesNeverChange == Spec => TablesImmutable
<1>1. ASSUME FilesInv, [Next]_cvars
      PROVE  \A n \in Referenced(levels) \cup Referenced(manifest.levels) :
                n \in DOMAIN files' => files'[n] = files[n]
  <2> SUFFICES ASSUME NEW n \in Referenced(levels) \cup Referenced(manifest.levels),
                      n \in DOMAIN files'
               PROVE  files'[n] = files[n]
    OBVIOUS
  <2>1. PICK l \in Levels : \E f \in Files(levels[l]) \cup Files(manifest.levels[l]) : f.num = n
    BY ReferencedAre
  <2>2. PICK f \in Files(levels[l]) \cup Files(manifest.levels[l]) : f.num = n
    BY <2>1
  <2>3. f \in KnownAt(l)
    BY DEF KnownAt
  <2> QED BY <1>1, <2>2, <2>3, KnownUnchanged
<1> QED BY <1>1, FilesAreKnown, PTL DEF Spec, TablesImmutable

-----------------------------------------------------------------------------
(* The version and the manifest                                            *)

LEMMA ApplyIsMap ==
    ASSUME NEW lv, NEW edit
    PROVE  Apply(lv, edit) = [l \in Levels |-> Apply(lv, edit)[l]]
BY DEF Apply

\* The edits of a flush and of a merge may be applied in either order.
LEMMA EditsCommute ==
    ASSUME NEW lv \in LevelMaps, NEW f, IsFlushEdit(f), NEW c \in Edits,
           ~ Deletes(c, 0, f.adds[1].num), c.level # 0 \/ c.adds = << >>
    PROVE  Apply(Apply(lv, f), c) = Apply(Apply(lv, c), f)
<1> DEFINE F == Apply(lv, f)
           C == Apply(lv, c)
           e == f.adds[1]
           s == lv[0]
<1>1. /\ e \in Meta /\ F[0] = Append(s, e) /\ \A l \in Levels \ {0} : F[l] = lv[l]
  BY ApplyFlush
<1>2. C \in LevelMaps
  BY ApplyFiles
<1>3. /\ Apply(C, f)[0] = Append(C[0], e) /\ \A l \in Levels \ {0} : Apply(C, f)[l] = C[l]
  BY <1>2, ApplyFlush
<1>4. s \in Seq(Meta) /\ 0 \in Levels
  BY LevelsHaveZero DEF LevelMaps
<1> HIDE DEF e, s
<1>5. C[0] = Left(lv, c, 0) /\ Apply(F, c)[0] = Left(F, c, 0)
  BY <1>4, ApplyIs
<1>6. Left(F, c, 0) = Append(Left(lv, c, 0), e)
  <2> DEFINE I == {p \in 1..Len(s) : ~ Deletes(c, 0, s[p].num)}
             u == Append(s, e)
             J == {p \in 1..Len(u) : ~ Deletes(c, 0, u[p].num)}
  <2>1. Left(lv, c, 0) = Select(s, I) /\ Left(F, c, 0) = Select(u, J)
    BY <1>1 DEF Left, s
  <2>2. /\ Len(u) = Len(s) + 1 /\ u[Len(s) + 1] = e /\ Len(s) \in Nat
        /\ \A p \in 1..Len(s) : u[p] = s[p] /\ p \in 1..Len(u)
    BY <1>1, <1>4
  <2>3. ~ Deletes(c, 0, e.num)
    BY DEF e
  <2> HIDE DEF u
  <2>4. \A i \in 1..Len(s) : i \in I <=> i \in J
    BY <2>2
  <2>5. Len(s) + 1 \in J
    BY <2>2, <2>3
  <2> HIDE DEF I, J
  <2>6. Select(Append(s, e), J) = Append(Select(s, I), e)
    BY <1>1, <1>4, <2>4, <2>5, SelectAppend
  <2> QED BY <2>1, <2>6 DEF u
<1>7. Apply(F, c)[0] = Apply(C, f)[0]
  BY <1>3, <1>5, <1>6
<1>8. ASSUME NEW l \in Levels \ {0} PROVE Apply(F, c)[l] = Apply(C, f)[l]
  <2>1. F[l] = lv[l] /\ Apply(C, f)[l] = C[l]
    BY <1>1, <1>3
  <2>2. Left(F, c, l) = Left(lv, c, l)
    BY <2>1 DEF Left
  <2>3. C[l] = Apply(F, c)[l]
    BY <2>2, ApplyIs
  <2> QED BY <2>1, <2>3
<1>9. /\ Apply(F, c) = [l \in Levels |-> Apply(F, c)[l]]
      /\ Apply(C, f) = [l \in Levels |-> Apply(C, f)[l]]
  BY ApplyIsMap
<1> HIDE DEF F, C
<1>10. \A l \in Levels : Apply(F, c)[l] = Apply(C, f)[l]
  BY <1>7, <1>8
<1>11. Apply(F, c) = Apply(C, f)
  BY <1>9, <1>10
<1> QED BY <1>11 DEF F, C

\* Those under way.
LEMMA PendingCommute ==
    ASSUME FilesInv, Flushing, Merged
    PROVE  Apply(Apply(levels, fedit), cedit) = Apply(Apply(levels, cedit), fedit)
<1>1. /\ levels \in LevelMaps /\ IsFlushEdit(fedit) /\ cedit \in Edits
      /\ TaskIn(task, levels) /\ cedit.dels = Deletions(task)
      /\ cedit.adds # << >> => cedit.level = task.level + 1
  BY DEF FilesInv, CompactionTypes, TaskIsCurrent, Merged, Compacting
<1>2. ~ Deletes(cedit, 0, fedit.adds[1].num)
  <2> SUFFICES ASSUME Deletes(cedit, 0, fedit.adds[1].num) PROVE FALSE
    OBVIOUS
  <2>1. \E f \in Files(levels[0]) : f.num = fedit.adds[1].num
    BY <1>1, DeletedWasThere
  <2> QED BY <2>1, LevelsHaveZero DEF FilesInv, AddedIsNew
<1>3. cedit.level # 0 \/ cedit.adds = << >>
  <2>1. task.level \in Levels
    BY <1>1, TaskFiles
  <2> QED BY <1>1, <2>1 DEF Levels
<1> QED BY <1>1, <1>2, <1>3, EditsCommute

LEMMA NoFailures ==
    ASSUME MaxFailures = 0, FilesInv
    PROVE  ~ FlushFails /\ ~ CompactFails
<1>1. failures \in Nat
  BY DEF FilesInv, CompactionTypes
<1>2. ~ (failures < MaxFailures)
  BY <1>1
<1> QED BY <1>2 DEF FlushFails, CompactFails

LEMMA WhatChangesVersions ==
    ASSUME MaxFailures = 0, FilesInv, [Next]_cvars
    PROVE  \/ UNCHANGED <<levels, manifest>>
           \/ FlushLogEdit \/ FlushApplyEdit \/ LogCompaction \/ ApplyCompaction \/ CrashAndOpen
<1>1. CASE UNCHANGED cvars
  BY <1>1 DEF cvars
<1>2. CASE \E D \in (SUBSET Keys) \ {{}} : \E c \in [D -> Contents] : FlushTable(D, c)
  BY <1>2 DEF FlushTable
<1>3. CASE \E g \in Getters : (\E k \in Keys : GetVersion(g, k)) \/ GetExists(g) \/ GetOpen(g)
  BY <1>3, GetsLeave DEF notGet
<1>4. CASE Compact \/ PickCompaction \/ RunCompaction \/ RemoveObsolete
  BY <1>4 DEF Compact, PickCompaction, RunCompaction, RemoveObsolete, versionVars
<1>5. ~ FlushFails /\ ~ CompactFails
  BY NoFailures
<1> QED BY <1>1, <1>2, <1>3, <1>4, <1>5 DEF Next, CompactStep

LEMMA VersionInit == Init => VersionIsLogged
BY DEF Init, VersionIsLogged, LoggedVersion, EmptyVersion

LEMMA VersionStep ==
    ASSUME MaxFailures = 0, FilesInv, VersionIsLogged, [Next]_cvars
    PROVE  VersionIsLogged'
<1>1. CASE UNCHANGED <<levels, fpc, fedit, cpc, cedit, manifest>>
  BY <1>1 DEF VersionIsLogged, LoggedVersion
<1>2. CASE \E D \in (SUBSET Keys) \ {{}} : \E c \in [D -> Contents] : FlushTable(D, c)
  <2>1. /\ fpc = "idle" /\ fpc' = "log" /\ levels' = levels /\ manifest' = manifest
        /\ cpc' = cpc /\ cedit' = cedit
    BY <1>2 DEF FlushTable, compactVars
  <2> QED BY <2>1 DEF VersionIsLogged, LoggedVersion
<1>3. CASE FlushLogEdit
  <2>1. /\ fpc = "log" /\ fpc' = "apply" /\ levels' = levels /\ fedit' = fedit
        /\ manifest'.levels = Apply(manifest.levels, fedit) /\ cpc' = cpc /\ cedit' = cedit
    BY <1>3 DEF FlushLogEdit, compactVars, versionVars, Logged
  <2>2. CASE cpc = "apply"
    <3>1. Apply(Apply(levels, fedit), cedit) = Apply(Apply(levels, cedit), fedit)
      BY <2>1, <2>2, PendingCommute DEF Flushing, Merged
    <3>2. manifest.levels = Apply(levels, cedit)
      BY <2>1, <2>2 DEF VersionIsLogged, LoggedVersion
    <3>3. LoggedVersion' = Apply(Apply(levels, fedit), cedit)
      BY <2>1, <2>2 DEF LoggedVersion
    <3> QED BY <2>1, <3>1, <3>2, <3>3 DEF VersionIsLogged
  <2>3. CASE cpc # "apply"
    BY <2>1, <2>3 DEF VersionIsLogged, LoggedVersion
  <2> QED BY <2>2, <2>3
<1>4. CASE FlushApplyEdit
  <2>1. /\ fpc = "apply" /\ fpc' = "idle" /\ levels' = Apply(levels, fedit)
        /\ manifest' = manifest /\ cpc' = cpc /\ cedit' = cedit
    BY <1>4 DEF FlushApplyEdit, compactVars
  <2> QED BY <2>1 DEF VersionIsLogged, LoggedVersion
<1>5. CASE Compact \/ PickCompaction \/ RunCompaction \/ RemoveObsolete
  <2>1. /\ levels' = levels /\ manifest' = manifest /\ fpc' = fpc /\ fedit' = fedit
        /\ cpc # "apply" /\ cpc' # "apply"
    BY <1>5 DEF Compact, PickCompaction, RunCompaction, RemoveObsolete, versionVars, flushVars
  <2> QED BY <2>1 DEF VersionIsLogged, LoggedVersion
<1>6. CASE LogCompaction
  <2>1. /\ cpc = "log" /\ cpc' = "apply" /\ manifest'.levels = Apply(manifest.levels, cedit)
        /\ levels' = levels /\ fpc' = fpc /\ fedit' = fedit /\ cedit' = cedit
    BY <1>6 DEF LogCompaction, flushVars, versionVars, Logged
  <2> QED BY <2>1 DEF VersionIsLogged, LoggedVersion
<1>7. CASE ApplyCompaction
  <2>1. /\ cpc = "apply" /\ cpc' = "remove" /\ levels' = Apply(levels, cedit)
        /\ manifest' = manifest /\ fpc' = fpc /\ fedit' = fedit
    BY <1>7 DEF ApplyCompaction, flushVars
  <2>2. CASE fpc = "apply"
    <3>1. Apply(Apply(levels, fedit), cedit) = Apply(Apply(levels, cedit), fedit)
      BY <2>1, <2>2, PendingCommute DEF Flushing, Merged
    <3>2. manifest.levels = Apply(Apply(levels, fedit), cedit)
      BY <2>1, <2>2 DEF VersionIsLogged, LoggedVersion
    <3>3. LoggedVersion' = Apply(Apply(levels, cedit), fedit)
      BY <2>1, <2>2 DEF LoggedVersion
    <3> QED BY <2>1, <3>1, <3>2, <3>3 DEF VersionIsLogged
  <2>3. CASE fpc # "apply"
    BY <2>1, <2>3 DEF VersionIsLogged, LoggedVersion
  <2> QED BY <2>2, <2>3
<1>8. CASE CrashAndOpen
  BY <1>8 DEF CrashAndOpen, VersionIsLogged, LoggedVersion
<1>9. \/ UNCHANGED <<levels, fpc, fedit, cpc, cedit, manifest>>
      \/ \E D \in (SUBSET Keys) \ {{}} : \E c \in [D -> Contents] : FlushTable(D, c)
      \/ FlushLogEdit \/ FlushApplyEdit
      \/ Compact \/ PickCompaction \/ RunCompaction \/ RemoveObsolete
      \/ LogCompaction \/ ApplyCompaction \/ CrashAndOpen
  <2>1. CASE UNCHANGED cvars
    BY <2>1 DEF cvars
  <2>2. CASE \E g \in Getters : (\E k \in Keys : GetVersion(g, k)) \/ GetExists(g) \/ GetOpen(g)
    BY <2>2, GetsLeave DEF notGet
  <2>3. ~ FlushFails /\ ~ CompactFails
    BY NoFailures
  <2> QED BY <2>1, <2>2, <2>3 DEF Next, CompactStep
<1> QED BY <1>1, <1>2, <1>3, <1>4, <1>5, <1>6, <1>7, <1>8, <1>9

\* VersionIsLogged, when no write of an edit fails: the edits of flush and of compact, which
\* log_edit and log_and_apply may take in two orders, leave the version that a reopen
\* rebuilds.  (After a failed append the two may differ, see CompactFails.)
THEOREM ManifestIsTheVersion ==
    ASSUME MaxFailures = 0
    PROVE  Spec => []VersionIsLogged
BY VersionInit, VersionStep, FilesAreKnown, PTL DEF Spec

-----------------------------------------------------------------------------
(* What a merge writes                                                     *)

NoTable == [k \in {} |-> NoEntry]

\* The edit of a merge adds the merge of the files it deletes.
OutputIsMerge ==
    Merged => IsMergeOf(files, task, IF cedit.adds = << >> THEN NoTable
                                     ELSE files[cedit.adds[1].num])

LEMMA SameMerge ==
    ASSUME NEW fl, NEW gl, NEW t, NEW table, IsMergeOf(fl, t, table),
           \A f \in Sources(t) : gl[f.num] = fl[f.num]
    PROVE  IsMergeOf(gl, t, table)
<1> SUFFICES ASSUME NEW k \in Keys
             PROVE  LET Has == {f \in Sources(t) : k \in DOMAIN gl[f.num]}
                        Newest(f) == \A g \in Has : gl[g.num][k].seq <= gl[f.num][k].seq
                    IN  IF k \in DOMAIN table THEN \E f \in Has : Newest(f) /\ table[k] = gl[f.num][k]
                        ELSE Has # {} => /\ BottomLevel(t.level + 1)
                                         /\ \E f \in Has : Newest(f) /\ gl[f.num][k].val = Tombstone
  BY DEF IsMergeOf
<1> DEFINE Has == {f \in Sources(t) : k \in DOMAIN fl[f.num]}
           Newest(f) == \A g \in Has : fl[g.num][k].seq <= fl[f.num][k].seq
           Has2 == {f \in Sources(t) : k \in DOMAIN gl[f.num]}
           Newest2(f) == \A g \in Has2 : gl[g.num][k].seq <= gl[f.num][k].seq
<1>1. Has2 = Has
  OBVIOUS
<1>2. \A f \in Has : gl[f.num] = fl[f.num]
  OBVIOUS
<1>3. IF k \in DOMAIN table THEN \E f \in Has : Newest(f) /\ table[k] = fl[f.num][k]
      ELSE Has # {} => /\ BottomLevel(t.level + 1)
                       /\ \E f \in Has : Newest(f) /\ fl[f.num][k].val = Tombstone
  BY DEF IsMergeOf
<1> HIDE DEF Has, Has2
<1>4. \A f \in Has : Newest(f) => Newest2(f)
  BY <1>1, <1>2
<1> HIDE DEF Newest, Newest2
<1>5. IF k \in DOMAIN table THEN \E f \in Has2 : Newest2(f) /\ table[k] = gl[f.num][k]
      ELSE Has2 # {} => /\ BottomLevel(t.level + 1)
                        /\ \E f \in Has2 : Newest2(f) /\ gl[f.num][k].val = Tombstone
  BY <1>1, <1>2, <1>3, <1>4
<1> QED BY <1>5 DEF Has2, Newest2

LEMMA EmptyMerge ==
    ASSUME NEW fl, NEW t, NEW table, IsMergeOf(fl, t, table), DOMAIN table = {}
    PROVE  IsMergeOf(fl, t, NoTable)
<1>1. DOMAIN NoTable = {}
  BY DEF NoTable
<1> QED BY <1>1 DEF IsMergeOf

LEMMA StaysMerged ==
    ASSUME [Next]_cvars, Merged'
    PROVE  RunCompaction \/ (Merged /\ task' = task /\ cedit' = cedit /\ levels' \in {levels, Apply(levels, fedit)})
<1>1. CASE UNCHANGED cvars
  BY <1>1 DEF cvars, Merged
<1>2. CASE \E D \in (SUBSET Keys) \ {{}} : \E c \in [D -> Contents] : FlushTable(D, c)
  BY <1>2 DEF FlushTable, compactVars, Merged
<1>3. CASE FlushLogEdit \/ FlushFails \/ FlushApplyEdit
  BY <1>3 DEF FlushLogEdit, FlushFails, FlushApplyEdit, compactVars, versionVars, Merged
<1>4. CASE LogCompaction
  BY <1>4 DEF LogCompaction, versionVars, Merged
<1>5. CASE \E g \in Getters : (\E k \in Keys : GetVersion(g, k)) \/ GetExists(g) \/ GetOpen(g)
  BY <1>5, GetsLeave DEF notGet, Merged
<1>6. ~ (Compact \/ CompactFails \/ CrashAndOpen \/ PickCompaction \/ ApplyCompaction \/ RemoveObsolete)
  BY DEF Compact, CompactFails, CrashAndOpen, PickCompaction, ApplyCompaction, RemoveObsolete, Merged
<1> QED BY <1>1, <1>2, <1>3, <1>4, <1>5, <1>6 DEF Next, CompactStep

\* The files of a compaction under way are on disk and known.
LEMMA SourcesKnown ==
    ASSUME FilesInv, Compacting, NEW f \in Sources(task)
    PROVE  /\ f \in Meta /\ f.num \in DOMAIN files /\ f.num < nextFile
           /\ f = MetaOf(f.num, files[f.num]) /\ IsTable(files[f.num])
           /\ \E l \in Levels : f \in Files(levels[l]) /\ f \in KnownAt(l)
<1>1. TaskIn(task, levels) /\ levels \in LevelMaps
  BY DEF FilesInv, TaskIsCurrent, CompactionTypes
<1>2. \E l \in Levels : f \in Files(levels[l])
  BY <1>1, TaskFiles DEF Sources
<1>3. PICK l \in Levels : f \in Files(levels[l])
  BY <1>2
<1>4. f \in KnownAt(l)
  BY <1>3 DEF KnownAt
<1> QED BY <1>3, <1>4 DEF FilesInv, KnownOnDisk, CompactionTypes

LEMMA OutputInit == Init => OutputIsMerge
BY DEF Init, OutputIsMerge, Merged

LEMMA OutputStep ==
    ASSUME FilesInv, FilesInv', OutputIsMerge, [Next]_cvars
    PROVE  OutputIsMerge'
<1> DEFINE Out == IF cedit.adds = << >> THEN NoTable ELSE files[cedit.adds[1].num]
<1> SUFFICES ASSUME Merged' PROVE IsMergeOf(files', task', Out')
  BY DEF OutputIsMerge
<1>1. CASE RunCompaction
  <2> DEFINE table == MergedTable(task)
             new == MetaOf(nextFile, table)
  <2>1. /\ cpc = "run" /\ task' = task
        /\ \/ /\ DOMAIN table = {}
              /\ cedit' = [NoEdit EXCEPT !.dels = Deletions(task)]
              /\ files' = files
           \/ /\ DOMAIN table # {}
              /\ cedit' = [NoEdit EXCEPT !.dels = Deletions(task), !.level = task.level + 1,
                                         !.adds = <<new>>]
              /\ files' = WithFile(nextFile, table)
    BY <1>1 DEF RunCompaction
  <2>2. Compacting /\ nextFile \in Nat /\ DOMAIN files \in SUBSET Nat
        /\ \A n \in DOMAIN files : IsTable(files[n])
    BY <2>1 DEF Compacting, FilesInv, CompactionTypes
  <2>3. IsMergeOf(files, task, table) /\ (DOMAIN table # {} => IsTable(table))
    BY <2>2, SourcesOnDisk, MergedTableIs
  <2> HIDE DEF table
  <2>4. CASE /\ DOMAIN table = {}
             /\ cedit' = [NoEdit EXCEPT !.dels = Deletions(task)]
             /\ files' = files
    <3>1. cedit'.adds = << >>
      BY <2>4 DEF NoEdit
    <3>2. IsMergeOf(files, task, NoTable)
      BY <2>3, <2>4, EmptyMerge
    <3> QED BY <2>1, <2>4, <3>1, <3>2
  <2>5. CASE /\ DOMAIN table # {}
             /\ cedit' = [NoEdit EXCEPT !.dels = Deletions(task), !.level = task.level + 1,
                                        !.adds = <<new>>]
             /\ files' = WithFile(nextFile, table)
    <3>1. new.num = nextFile /\ new \in Meta
      BY <2>2, <2>3, <2>5, MetaOfTable
    <3> HIDE DEF new
    <3>2. cedit'.adds = <<new>>
      BY <2>5 DEF NoEdit
    <3>3. cedit'.adds # << >> /\ cedit'.adds[1] = new
      BY <3>2
    <3>4. files'[nextFile] = table
      BY <2>5 DEF WithFile
    <3>5. \A f \in Sources(task) : files'[f.num] = files[f.num]
      <4> SUFFICES ASSUME NEW f \in Sources(task) PROVE files'[f.num] = files[f.num]
        OBVIOUS
      <4>1. f.num \in DOMAIN files /\ f.num < nextFile
        BY <2>2, SourcesKnown
      <4>2. f.num # nextFile
        BY <2>2, <4>1
      <4> QED BY <2>5, <4>1, <4>2 DEF WithFile
    <3>6. IsMergeOf(files', task, table)
      BY <2>3, <3>5, SameMerge
    <3>7. Out' = table
      BY <3>1, <3>3, <3>4
    <3> QED BY <2>1, <3>6, <3>7
  <2> QED BY <2>1, <2>4, <2>5
<1>2. CASE Merged /\ task' = task /\ cedit' = cedit
  <2>1. IsMergeOf(files, task, Out) /\ Compacting /\ Compacting'
    BY <1>2 DEF OutputIsMerge, Merged, Compacting
  <2>2. \A f \in Sources(task) : files'[f.num] = files[f.num]
    <3> SUFFICES ASSUME NEW f \in Sources(task) PROVE files'[f.num] = files[f.num]
      OBVIOUS
    <3>1. PICK l \in Levels : f \in KnownAt(l)
      BY <2>1, SourcesKnown
    <3>2. f.num \in DOMAIN files'
      <4>1. TaskIn(task, levels') /\ levels' \in LevelMaps
        BY <1>2, <2>1 DEF FilesInv, TaskIsCurrent, CompactionTypes
      <4>2. \E m \in Levels : f \in Files(levels'[m])
        BY <4>1, TaskFiles DEF Sources
      <4>3. \E m \in Levels : f \in KnownAt(m)'
        BY <4>2 DEF KnownAt
      <4> QED BY <4>3 DEF FilesInv, KnownOnDisk
    <3> QED BY <3>1, <3>2, KnownUnchanged
  <2>3. Out' = Out
    <3>1. CASE cedit.adds = << >>
      BY <1>2, <3>1
    <3>2. CASE cedit.adds # << >>
      <4>1. cedit \in Edits /\ cedit.level \in Levels
        BY <1>2 DEF FilesInv, CompactionTypes, Edits
      <4> DEFINE a == cedit.adds
      <4>2. a[1] \in Files(a)
        <5>1. a \in Seq(Meta) /\ a # << >>
          BY <3>2, <4>1 DEF Edits
        <5> HIDE DEF a
        <5>2. 1 \in 1..Len(a)
          BY <5>1, EmptySeq
        <5> QED BY <5>2 DEF Files
      <4> HIDE DEF a
      <4>3. a[1] \in KnownAt(cedit.level) /\ a[1] \in KnownAt(cedit.level)'
        BY <1>2, <4>2 DEF KnownAt, a
      <4>4. a[1].num \in DOMAIN files'
        BY <1>2, <4>1, <4>3 DEF FilesInv, KnownOnDisk
      <4>5. files'[a[1].num] = files[a[1].num]
        BY <4>1, <4>3, <4>4, KnownUnchanged
      <4> QED BY <1>2, <3>2, <4>5 DEF a
    <3> QED BY <3>1, <3>2
  <2> HIDE DEF Out
  <2>4. IsMergeOf(files', task, Out)
    BY <2>1, <2>2, SameMerge
  <2> QED BY <1>2, <2>3, <2>4
<1> QED BY <1>1, <1>2, StaysMerged

LEMMA OutputsAreMerges == Spec => []OutputIsMerge
BY OutputInit, OutputStep, FilesAreKnown, PTL DEF Spec

-----------------------------------------------------------------------------
(* The levels below 0 are sorted and disjoint                              *)

Apart(s) == \A i, j \in 1..Len(s) : i < j => s[i].hi < s[j].lo

LEMMA DisjointIs ==
    ASSUME NEW lv
    PROVE  Disjoint(lv) <=> \A l \in Levels \ {0} : Apart(lv[l])
BY DEF Disjoint, Apart

LEMMA ApartOfSelect ==
    ASSUME NEW s \in Seq(Meta), NEW I, Apart(s)
    PROVE  Apart(Select(s, I))
<1> DEFINE t == Select(s, I)
<1>1. PICK at : Embeds(at, t, s, I, Len(s))
  BY SelectEmbeds
<1> HIDE DEF t
<1>2. ASSUME NEW p \in 1..Len(t), NEW q \in 1..Len(t), p < q
      PROVE  t[p].hi < t[q].lo
  <2>1. at[p] \in 1..Len(s) /\ at[q] \in 1..Len(s) /\ t[p] = s[at[p]] /\ t[q] = s[at[q]]
        /\ at[p] < at[q]
    BY <1>1, <1>2 DEF Embeds
  <2> QED BY <2>1 DEF Apart
<1>3. Apart(t)
  BY <1>2 DEF Apart
<1> QED BY <1>3 DEF t

LEMMA ApartFiles ==
    ASSUME NEW s \in Seq(Meta), Apart(s), NEW f \in Files(s), NEW g \in Files(s), f # g
    PROVE  f.hi < g.lo \/ g.hi < f.lo
<1>1. PICK i \in 1..Len(s) : s[i] = f
  BY DEF Files
<1>2. PICK j \in 1..Len(s) : s[j] = g
  BY DEF Files
<1>3. i # j
  BY <1>1, <1>2
<1>4. i < j \/ j < i
  BY <1>3
<1> QED BY <1>1, <1>2, <1>4 DEF Apart

\* Ranges that do not overlap, in any order, are in the order of their smallest keys when
\* sorted.
LEMMA ApartOfSorted ==
    ASSUME NEW s \in Seq(Meta),
           \A i \in 1..Len(s) : s[i].lo <= s[i].hi,
           \A i, j \in 1..Len(s) : i < j => s[i].hi < s[j].lo \/ s[j].hi < s[i].lo
    PROVE  Apart(SortedByLo(s))
<1> DEFINE t == SortedByLo(s)
<1>1. \A i \in 1..Len(s) : s[i] \in Meta
  OBVIOUS
<1>2. \A i \in 1..Len(s) : s[i].lo \in Nat /\ s[i].hi \in Nat
  BY <1>1, MetaFields
<1>3. PICK at : Sorts(at, t, s)
  BY <1>2, SortedByLoSorts
<1> HIDE DEF t
<1>4. ASSUME NEW p \in 1..Len(t), NEW q \in 1..Len(t), p < q
      PROVE  t[p].hi < t[q].lo
  <2> DEFINE i == at[p]
             j == at[q]
  <2>1. p \in 1..Len(s) /\ q \in 1..Len(s)
    BY <1>3 DEF Sorts
  <2>2. /\ i \in 1..Len(s) /\ j \in 1..Len(s) /\ t[p] = s[i] /\ t[q] = s[j]
        /\ i # j /\ s[i].lo <= s[j].lo
    BY <1>3, <1>4, <2>1 DEF Sorts
  <2> HIDE DEF i, j
  <2>3. i < j \/ j < i
    BY <2>2
  <2>4. s[i].hi < s[j].lo \/ s[j].hi < s[i].lo
    BY <2>2, <2>3
  <2>5. s[j].lo <= s[j].hi
    BY <2>2
  <2>6. s[i].hi < s[j].lo
    BY <1>2, <2>2, <2>4, <2>5
  <2> QED BY <2>2, <2>6
<1>5. Apart(t)
  BY <1>4 DEF Apart
<1> QED BY <1>5 DEF t

\* One more range, apart from the others.
LEMMA ApartWithOne ==
    ASSUME NEW s \in Seq(Meta), Apart(s), \A f \in Files(s) : f.lo <= f.hi,
           NEW a \in Seq(Meta), Len(a) = 1, a[1].lo <= a[1].hi,
           \A f \in Files(s) : f.hi < a[1].lo \/ a[1].hi < f.lo
    PROVE  Apart(SortedByLo(s \o a))
<1> DEFINE e == a[1]
           u == Append(s, e)
<1>1. e \in Meta /\ s \o a = u
  BY ConcatOne
<1>2. u \in Seq(Meta) /\ Len(u) = Len(s) + 1 /\ u[Len(s) + 1] = e /\ Len(s) \in Nat
      /\ \A i \in 1..Len(s) : u[i] = s[i]
  BY <1>1
<1>3. e.lo <= e.hi /\ \A f \in Files(s) : f.hi < e.lo \/ e.hi < f.lo
  OBVIOUS
<1> HIDE DEF e, u
<1>4. \A i \in 1..Len(u) : i \in 1..Len(s) \/ i = Len(s) + 1
  BY <1>2
<1>5. \A i \in 1..Len(s) : s[i] \in Files(s)
  BY DEF Files
<1>6. \A i \in 1..Len(u) : u[i].lo <= u[i].hi
  BY <1>2, <1>3, <1>4, <1>5
<1>7. ASSUME NEW i \in 1..Len(u), NEW j \in 1..Len(u), i < j
      PROVE  u[i].hi < u[j].lo \/ u[j].hi < u[i].lo
  <2>1. CASE j \in 1..Len(s)
    <3>1. i \in 1..Len(s)
      BY <1>7, <2>1
    <3>2. s[i].hi < s[j].lo
      BY <1>7, <2>1, <3>1 DEF Apart
    <3> QED BY <1>2, <2>1, <3>1, <3>2
  <2>2. CASE j = Len(s) + 1
    <3>1. i \in 1..Len(s)
      BY <1>2, <1>7, <2>2
    <3> QED BY <1>2, <1>3, <1>5, <2>2, <3>1
  <2> QED BY <1>4, <2>1, <2>2
<1>8. Apart(SortedByLo(u))
  BY <1>2, <1>6, <1>7, ApartOfSorted
<1> QED BY <1>1, <1>8

\* The range of the inputs of a task.
LEMMA InputRange ==
    ASSUME NEW t \in Tasks, t.inputs # << >>
    PROVE  /\ InputLo(t) \in Nat /\ InputHi(t) \in Nat
           /\ \A f \in Files(t.inputs) : InputLo(t) <= f.lo /\ f.hi <= InputHi(t)
<1> DEFINE ins == t.inputs
           N == Len(ins)
           Los == {ins[i].lo : i \in 1..N}
           His == {ins[i].hi : i \in 1..N}
<1>1. ins \in Seq(Meta) /\ ins # << >>
  BY DEF Tasks
<1>2. InputLo(t) = SetMin(Los) /\ InputHi(t) = SetMax(His)
  BY DEF InputLo, InputHi
<1> HIDE DEF ins
<1>3. N \in Nat /\ 1 \in 1..N
  BY <1>1, EmptySeq
<1>4. \A i \in 1..N : ins[i] \in Meta
  BY <1>1
<1>5. \A i \in 1..N : ins[i].lo \in Nat /\ ins[i].hi \in Nat
  BY <1>4, MetaFields
<1>6. Los \in SUBSET Nat /\ His \in SUBSET Nat /\ Los # {} /\ His # {}
  BY <1>3, <1>5
<1>7. IsFiniteSet(His)
  <2> DEFINE h == [i \in 1..N |-> ins[i].hi]
  <2>1. h \in Surjection(1..N, His)
    <3>1. h \in [1..N -> His] /\ \A x \in His : \E i \in 1..N : h[i] = x
      OBVIOUS
    <3> HIDE DEF h, His, N
    <3> QED BY <3>1, Fun_IsSurj
  <2>2. IsFiniteSet(1..N)
    BY <1>3, FS_Interval
  <2> HIDE DEF h, His
  <2> QED BY <2>1, <2>2, FS_Surjection
<1>8. /\ \A i \in 1..N : ins[i].lo \in Los /\ ins[i].hi \in His
  OBVIOUS
<1> HIDE DEF Los, His
<1>9. SetMin(Los) \in Los /\ \A x \in Los : SetMin(Los) <= x
  BY <1>6, SetMinIs
<1>10. SetMax(His) \in His /\ \A x \in His : x <= SetMax(His)
  BY <1>6, <1>7, SetMaxIs
<1>11. \A f \in Files(ins) : SetMin(Los) <= f.lo /\ f.hi <= SetMax(His)
  BY <1>8, <1>9, <1>10 DEF Files
<1>12. SetMin(Los) \in Nat /\ SetMax(His) \in Nat
  BY <1>6, <1>9, <1>10
<1> QED BY <1>2, <1>11, <1>12 DEF ins

\* A file of the next level that a task leaves out is on one side of all that it merges.
LEMMA LeftOutIsApart ==
    ASSUME NEW lv \in LevelMaps, NEW t, TaskIn(t, lv), Apart(lv[t.level + 1]),
           \A l \in Levels : \A f \in Files(lv[l]) : f.lo <= f.hi,
           NEW e \in Files(lv[t.level + 1]), e \notin Files(t.targets)
    PROVE  \/ \A f \in Sources(t) : e.hi < f.lo
           \/ \A f \in Sources(t) : f.hi < e.lo
<1> DEFINE lo == InputLo(t)
           hi == InputHi(t)
           next == lv[t.level + 1]
<1>1. /\ t \in Tasks /\ t.level \in Levels /\ t.level + 1 \in Levels /\ t.inputs # << >>
      /\ Files(t.inputs) \subseteq Files(lv[t.level]) /\ Files(t.targets) \subseteq Files(next)
  BY TaskFiles
<1>2. next \in Seq(Meta) /\ lv[t.level] \in Seq(Meta)
  BY <1>1 DEF LevelMaps
<1>3. Files(t.targets) = {f \in Files(next) : RangesOverlap(lo, hi, f.lo, f.hi)}
  BY DEF TaskIn
<1>4. lo \in Nat /\ hi \in Nat /\ \A f \in Files(t.inputs) : lo <= f.lo /\ f.hi <= hi
  BY <1>1, InputRange
<1> HIDE DEF lo, hi
<1>5. \A s \in Seq(Meta) : \A f \in Files(s) : f \in Meta
  BY DEF Files
<1>6. e \in Meta /\ e.lo \in Nat /\ e.hi \in Nat /\ e.lo <= e.hi /\ e \in Files(next)
  BY <1>1, <1>2, <1>5, MetaFields
<1>7. hi < e.lo \/ e.hi < lo
  BY <1>3, <1>6 DEF RangesOverlap
<1>8. ASSUME NEW f \in Sources(t)
      PROVE  f.lo \in Nat /\ f.hi \in Nat /\ f.lo <= f.hi
  <2>1. f \in Files(lv[t.level]) \/ f \in Files(next)
    BY <1>1 DEF Sources
  <2>2. f \in Meta
    BY <1>2, <1>5, <2>1
  <2> QED BY <1>1, <2>1, <2>2, MetaFields
<1>9. ASSUME NEW f \in Files(t.targets)
      PROVE  /\ ~ (hi < f.lo) /\ ~ (f.hi < lo)
             /\ f.hi < e.lo \/ e.hi < f.lo
  <2>1. f \in Files(next) /\ f # e
    BY <1>1
  <2>2. f.hi < e.lo \/ e.hi < f.lo
    BY <1>2, <1>6, <2>1, ApartFiles
  <2>3. RangesOverlap(lo, hi, f.lo, f.hi)
    BY <1>3
  <2> QED BY <2>2, <2>3 DEF RangesOverlap
<1>10. CASE e.hi < lo
  <2>1. ASSUME NEW f \in Sources(t) PROVE e.hi < f.lo
    <3>1. f.lo \in Nat /\ f.hi \in Nat
      BY <1>8
    <3>2. CASE f \in Files(t.inputs)
      BY <1>4, <1>6, <1>10, <3>1, <3>2
    <3>3. CASE f \in Files(t.targets)
      BY <1>4, <1>6, <1>9, <1>10, <3>1, <3>3
    <3> QED BY <3>2, <3>3 DEF Sources
  <2> QED BY <2>1
<1>11. CASE hi < e.lo
  <2>1. ASSUME NEW f \in Sources(t) PROVE f.hi < e.lo
    <3>1. f.lo \in Nat /\ f.hi \in Nat
      BY <1>8
    <3>2. CASE f \in Files(t.inputs)
      BY <1>4, <1>6, <1>11, <3>1, <3>2
    <3>3. CASE f \in Files(t.targets)
      BY <1>4, <1>6, <1>9, <1>11, <3>1, <3>3
    <3> QED BY <3>2, <3>3 DEF Sources
  <2> QED BY <2>1
<1> QED BY <1>7, <1>10, <1>11

\* The range of a table is that of its keys.
LEMMA RangeOfKnown ==
    ASSUME FilesInv, NEW l \in Levels, NEW f \in KnownAt(l)
    PROVE  /\ f \in Meta /\ f.lo <= f.hi /\ f.num \in DOMAIN files /\ IsTable(files[f.num])
           /\ f.lo \in DOMAIN files[f.num] /\ f.hi \in DOMAIN files[f.num]
           /\ \A k \in DOMAIN files[f.num] : f.lo <= k /\ k <= f.hi
<1>1. /\ f \in Meta /\ f.num \in DOMAIN files /\ f = MetaOf(f.num, files[f.num])
      /\ IsTable(files[f.num])
  BY DEF FilesInv, KnownOnDisk, CompactionTypes
<1>2. f.num \in Nat
  BY <1>1, MetaFields
<1>3. /\ f.lo \in DOMAIN files[f.num] /\ f.hi \in DOMAIN files[f.num]
      /\ \A k \in DOMAIN files[f.num] : f.lo <= k /\ k <= f.hi
  BY <1>1, <1>2, MetaOfTable
<1> QED BY <1>1, <1>3

\* The range of the output of a merge is spanned by those of the files merged.
LEMMA OutputRange ==
    ASSUME FilesInv, OutputIsMerge, Merged, cedit.adds # << >>
    PROVE  /\ cedit.adds \in Seq(Meta) /\ Len(cedit.adds) = 1 /\ cedit.level = task.level + 1
           /\ cedit.adds[1] \in Meta /\ cedit.adds[1].lo <= cedit.adds[1].hi
           /\ cedit.adds[1] \in KnownAt(task.level + 1)
           /\ \A k \in DOMAIN files[cedit.adds[1].num] :
                 \E f \in Sources(task) : k \in DOMAIN files[f.num]
           /\ \E f \in Sources(task) : f.lo <= cedit.adds[1].lo
           /\ \E f \in Sources(task) : cedit.adds[1].hi <= f.hi
<1> DEFINE new == cedit.adds[1]
           table == files[new.num]
<1>1. /\ cedit \in Edits /\ cedit.level = task.level + 1 /\ Len(cedit.adds) = 1
      /\ task.level + 1 \in Levels
  BY SourcesOnDisk DEF FilesInv, CompactionTypes, TaskIsCurrent, Merged, Compacting
<1>2. cedit.adds \in Seq(Meta)
  BY <1>1 DEF Edits
<1>3. Files(cedit.adds) = {new}
  BY <1>1 DEF Files
<1>4. new \in KnownAt(task.level + 1)
  BY <1>1, <1>3 DEF KnownAt
<1>5. /\ new \in Meta /\ new.lo <= new.hi /\ new.num \in DOMAIN files /\ IsTable(table)
      /\ new.lo \in DOMAIN table /\ new.hi \in DOMAIN table
  BY <1>1, <1>4, RangeOfKnown
<1>6. IsMergeOf(files, task, table)
  BY DEF OutputIsMerge
<1> HIDE DEF table, new
<1>7. ASSUME NEW k \in DOMAIN table
      PROVE  \E f \in Sources(task) : k \in DOMAIN files[f.num]
  <2>1. k \in Keys
    BY <1>5 DEF IsTable
  <2> QED BY <1>6, <2>1 DEF IsMergeOf
<1>8. ASSUME NEW f \in Sources(task), NEW k \in DOMAIN files[f.num]
      PROVE  f.lo <= k /\ k <= f.hi
  <2>1. \E l \in Levels : f \in KnownAt(l)
    BY SourcesKnown DEF Merged, Compacting
  <2> QED BY <2>1, RangeOfKnown
<1>9. \E f \in Sources(task) : f.lo <= new.lo
  BY <1>5, <1>7, <1>8
<1>10. \E f \in Sources(task) : new.hi <= f.hi
  BY <1>5, <1>7, <1>8
<1> QED BY <1>1, <1>2, <1>4, <1>5, <1>7, <1>9, <1>10 DEF new, table

\* The merge leaves the levels disjoint.
LEMMA MergeLeavesApart ==
    ASSUME FilesInv, OutputIsMerge, Merged, Disjoint(levels)
    PROVE  Disjoint(Apply(levels, cedit))
<1>1. /\ levels \in LevelMaps /\ cedit \in Edits /\ TaskIn(task, levels)
      /\ cedit.dels = Deletions(task)
  BY DEF FilesInv, CompactionTypes, TaskIsCurrent, Merged, Compacting
<1>2. SUFFICES ASSUME NEW l \in Levels \ {0} PROVE Apart(Apply(levels, cedit)[l])
  BY DisjointIs
<1> DEFINE left == Left(levels, cedit, l)
<1>3. levels[l] \in Seq(Meta) /\ Apart(levels[l])
  BY <1>1, DisjointIs DEF LevelMaps
<1>4. /\ left \in Seq(Meta)
      /\ Files(left) = {f \in Files(levels[l]) : ~ Deletes(cedit, l, f.num)}
  BY <1>1, LeftFiles
<1>5. Apart(left)
  BY <1>3, ApartOfSelect DEF Left
<1> HIDE DEF left
<1>6. CASE l # cedit.level \/ cedit.adds = << >>
  <2>1. Apply(levels, cedit)[l] = left
    BY <1>6, ApplyIs DEF left
  <2> QED BY <1>5, <2>1
<1>7. CASE l = cedit.level /\ cedit.adds # << >>
  <2> DEFINE new == cedit.adds[1]
  <2>1. /\ cedit.adds \in Seq(Meta) /\ Len(cedit.adds) = 1 /\ cedit.level = task.level + 1
        /\ new \in Meta /\ new.lo <= new.hi
        /\ \E f \in Sources(task) : f.lo <= new.lo
        /\ \E f \in Sources(task) : new.hi <= f.hi
    BY <1>7, OutputRange
  <2>2. Apply(levels, cedit)[l] = SortedByLo(left \o cedit.adds)
    BY <1>7, ApplyIs DEF left
  <2>3. \A m \in Levels : \A f \in Files(levels[m]) : f \in Meta /\ f.lo <= f.hi
    <3>1. \A m \in Levels : \A f \in Files(levels[m]) : f \in KnownAt(m)
      BY DEF KnownAt
    <3> QED BY <3>1, RangeOfKnown
  <2>4. /\ task \in Tasks /\ task.level + 1 \in Levels
        /\ Files(task.inputs) \subseteq Files(levels[task.level])
        /\ Files(task.targets) \subseteq Files(levels[task.level + 1])
        /\ task.level \in Levels
    BY <1>1, TaskFiles
  <2>5. ASSUME NEW e \in Files(left)
        PROVE  e.hi < new.lo \/ new.hi < e.lo
    <3>1. e \in Files(levels[task.level + 1]) /\ ~ Deletes(cedit, task.level + 1, e.num)
      BY <1>4, <1>7, <2>1
    <3>2. e \notin Files(task.targets)
      BY <1>1, <2>4, <3>1, DeletionsAre
    <3>3. \/ \A f \in Sources(task) : e.hi < f.lo
          \/ \A f \in Sources(task) : f.hi < e.lo
      BY <1>1, <1>3, <1>7, <2>1, <2>3, <3>1, <3>2, LeftOutIsApart
    <3>4. /\ e.lo \in Nat /\ e.hi \in Nat /\ new.lo \in Nat /\ new.hi \in Nat
          /\ \A f \in Sources(task) : f.lo \in Nat /\ f.hi \in Nat
      BY <2>1, <2>3, <2>4, <3>1, MetaFields DEF Sources
    <3>5. PICK f \in Sources(task) : f.lo <= new.lo
      BY <2>1
    <3>6. PICK g \in Sources(task) : new.hi <= g.hi
      BY <2>1
    <3> HIDE DEF new
    <3>7. CASE \A h \in Sources(task) : e.hi < h.lo
      <4>1. e.hi < f.lo /\ f.lo \in Nat
        BY <3>4, <3>7
      <4> QED BY <3>4, <3>5, <4>1
    <3>8. CASE \A h \in Sources(task) : h.hi < e.lo
      <4>1. g.hi < e.lo /\ g.hi \in Nat
        BY <3>4, <3>8
      <4> QED BY <3>4, <3>6, <4>1
    <3> QED BY <3>3, <3>7, <3>8
  <2>6. \A f \in Files(left) : f.lo <= f.hi
    BY <1>4, <2>3
  <2>7. Apart(SortedByLo(left \o cedit.adds))
    BY <1>4, <1>5, <2>1, <2>5, <2>6, ApartWithOne
  <2> QED BY <2>2, <2>7
<1> QED BY <1>6, <1>7

\* A flush changes Level 0 alone.
LEMMA FlushLeavesApart ==
    ASSUME NEW lv \in LevelMaps, NEW edit, IsFlushEdit(edit)
    PROVE  Disjoint(Apply(lv, edit)) <=> Disjoint(lv)
<1>1. \A l \in Levels \ {0} : Apply(lv, edit)[l] = lv[l]
  BY ApplyFlush
<1> QED BY <1>1, DisjointIs

LEMMA ApartInit == Init => LevelsDisjoint
<1> SUFFICES ASSUME Init PROVE LevelsDisjoint
  OBVIOUS
<1>1. levels = EmptyLevels /\ manifest.levels = EmptyLevels
  BY DEF Init, EmptyVersion
<1>2. \A l \in Levels : Len(EmptyLevels[l]) = 0
  BY DEF EmptyLevels
<1> QED BY <1>1, <1>2 DEF LevelsDisjoint, Disjoint

LEMMA ApartStep ==
    ASSUME MaxFailures = 0, FilesInv, OutputIsMerge, VersionIsLogged, LevelsDisjoint, [Next]_cvars
    PROVE  LevelsDisjoint'
<1>0. levels \in LevelMaps /\ manifest.levels \in LevelMaps
  BY DEF FilesInv, CompactionTypes
<1>1. CASE UNCHANGED <<levels, manifest>>
  BY <1>1 DEF LevelsDisjoint
<1>2. CASE FlushLogEdit
  <2>1. /\ fpc = "log" /\ levels' = levels /\ manifest'.levels = Apply(manifest.levels, fedit)
    BY <1>2 DEF FlushLogEdit, versionVars, Logged
  <2>2. IsFlushEdit(fedit)
    BY <2>1 DEF FilesInv, CompactionTypes, Flushing
  <2>3. Disjoint(Apply(manifest.levels, fedit))
    BY <1>0, <2>2, FlushLeavesApart DEF LevelsDisjoint
  <2> QED BY <2>1, <2>3 DEF LevelsDisjoint
<1>3. CASE FlushApplyEdit
  <2>1. /\ fpc = "apply" /\ levels' = Apply(levels, fedit) /\ manifest' = manifest
    BY <1>3 DEF FlushApplyEdit
  <2>2. IsFlushEdit(fedit)
    BY <2>1 DEF FilesInv, CompactionTypes, Flushing
  <2>3. Disjoint(Apply(levels, fedit))
    BY <1>0, <2>2, FlushLeavesApart DEF LevelsDisjoint
  <2> QED BY <2>1, <2>3 DEF LevelsDisjoint
<1>4. CASE LogCompaction
  <2>1. /\ cpc = "log" /\ levels' = levels /\ manifest'.levels = Apply(manifest.levels, cedit)
    BY <1>4 DEF LogCompaction, versionVars, Logged
  <2>2. Disjoint(Apply(levels, cedit))
    BY <2>1, MergeLeavesApart DEF LevelsDisjoint, Merged
  <2>3. CASE fpc # "apply"
    <3>1. manifest.levels = levels
      BY <2>1, <2>3 DEF VersionIsLogged, LoggedVersion
    <3> QED BY <2>1, <2>2, <3>1 DEF LevelsDisjoint
  <2>4. CASE fpc = "apply"
    <3>1. manifest.levels = Apply(levels, fedit)
      BY <2>1, <2>4 DEF VersionIsLogged, LoggedVersion
    <3>2. Flushing /\ Merged /\ cedit \in Edits /\ IsFlushEdit(fedit)
      BY <2>1, <2>4 DEF FilesInv, CompactionTypes, Flushing, Merged
    <3>3. Apply(Apply(levels, fedit), cedit) = Apply(Apply(levels, cedit), fedit)
      BY <3>2, PendingCommute
    <3>4. Apply(levels, cedit) \in LevelMaps
      BY <1>0, <3>2, ApplyFiles
    <3>5. Disjoint(Apply(Apply(levels, cedit), fedit))
      BY <2>2, <3>2, <3>4, FlushLeavesApart
    <3> QED BY <2>1, <3>1, <3>3, <3>5 DEF LevelsDisjoint
  <2> QED BY <2>3, <2>4
<1>5. CASE ApplyCompaction
  <2>1. /\ cpc = "apply" /\ levels' = Apply(levels, cedit) /\ manifest' = manifest
    BY <1>5 DEF ApplyCompaction
  <2>2. Disjoint(Apply(levels, cedit))
    BY <2>1, MergeLeavesApart DEF LevelsDisjoint, Merged
  <2> QED BY <2>1, <2>2 DEF LevelsDisjoint
<1>6. CASE CrashAndOpen
  BY <1>6 DEF CrashAndOpen, LevelsDisjoint
<1>7. \/ UNCHANGED <<levels, manifest>>
      \/ FlushLogEdit \/ FlushApplyEdit \/ LogCompaction \/ ApplyCompaction \/ CrashAndOpen
  BY WhatChangesVersions
<1> QED BY <1>1, <1>2, <1>3, <1>4, <1>5, <1>6, <1>7

\* LevelsDisjoint, when no write of an edit fails: the inputs of a task and all the files of
\* the next level that overlap their range (TaskFor, FindOverlapping) are merged into one
\* file, whose range overlaps none of those left out; get may stop at the first file of a
\* level whose range has the key.
THEOREM LevelsStayDisjoint ==
    ASSUME MaxFailures = 0
    PROVE  Spec => []LevelsDisjoint
BY ApartInit, ApartStep, FilesAreKnown, OutputsAreMerges, ManifestIsTheVersion, PTL DEF Spec
=============================================================================
