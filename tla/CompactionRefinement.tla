------------------------ MODULE CompactionRefinement ------------------------
(***************************************************************************)
(* Seen through get, the tables are the map of TableStore, for any number  *)
(* of keys, levels, flushes, passes of the compactor and crashes: newer    *)
(* entries lie above older ones and are searched first, a merge keeps the  *)
(* newest entry of every key it merges, and a get finds what the version   *)
(* it took has.                                                            *)
(***************************************************************************)
EXTENDS CompactionProofs

-----------------------------------------------------------------------------
(* The order of a search                                                   *)

\* The sequences e[1], .., e[N - 1], one after the other, from the l-th on.
Joins(f, e, N) == f = [l \in 1..N |-> IF l = N THEN << >> ELSE e[l] \o f[l + 1]]

LEMMA JoinsExists ==
    ASSUME NEW N \in Nat \ {0}, NEW e
    PROVE  \E f : Joins(f, e, N)
<1> DEFINE Step(f, l) == IF l = N THEN << >> ELSE e[l] \o f[l + 1]
           Loop(f, m) == f = [l \in (N - m)..N |-> Step(f, l)]
           Done == {m \in 0..(N - 1) : \E f : Loop(f, m)}
<1>1. \A f : Step(f, N) = << >>
  OBVIOUS
<1>2. \A f, g, l : l # N /\ f[l + 1] = g[l + 1] => Step(f, l) = Step(g, l)
  OBVIOUS
<1> HIDE DEF Step
<1>3. N - 1 \in Nat
  OBVIOUS
<1>4. 0 \in Done
  <2> DEFINE f == [l \in (N - 0)..N |-> Step([i \in {} |-> i], l)]
  <2>1. \A l \in (N - 0)..N : l = N
    OBVIOUS
  <2>2. \A g : \A l \in (N - 0)..N : Step(g, l) = << >>
    BY <1>1, <2>1
  <2>3. f = [l \in (N - 0)..N |-> Step(f, l)]
    BY <2>2
  <2> HIDE DEF f
  <2>4. Loop(f, 0)
    BY <2>3
  <2>5. 0 \in 0..(N - 1)
    OBVIOUS
  <2> QED BY <2>4, <2>5
<1>5. \A m \in 0..(N - 1) : m < N - 1 /\ m \in Done => m + 1 \in Done
  <2> SUFFICES ASSUME NEW m \in 0..(N - 1), m < N - 1, m \in Done PROVE m + 1 \in Done
    OBVIOUS
  <2>1. PICK f : Loop(f, m)
    OBVIOUS
  <2> DEFINE b == N - (m + 1)
             g == [l \in b..N |-> IF l = b THEN Step(f, b) ELSE f[l]]
  <2>2. b \in 1..N /\ b # N /\ b + 1 = N - m
    OBVIOUS
  <2>3. \A l \in b..N : l = b \/ l \in (b + 1)..N
    BY <2>2
  <2>4. \A l \in (b + 1)..N : l \in b..N /\ l # b /\ (l # N => l + 1 \in (b + 1)..N)
    BY <2>2
  <2>5. b \in b..N /\ b + 1 \in (b + 1)..N
    BY <2>2
  <2>6. \A l \in (b + 1)..N : f[l] = Step(f, l)
    BY <2>1, <2>2
  <2> HIDE DEF b
  <2>7. g[b] = Step(f, b) /\ \A l \in (b + 1)..N : g[l] = f[l]
    BY <2>4, <2>5
  <2>8. g = [l \in b..N |-> g[l]]
    OBVIOUS
  <2> HIDE DEF g
  <2>9. ASSUME NEW l \in b..N PROVE g[l] = Step(g, l)
    <3>1. CASE l = b
      <4>1. g[b + 1] = f[b + 1]
        BY <2>5, <2>7
      <4>2. Step(g, b) = Step(f, b)
        BY <1>2, <2>2, <4>1
      <4> QED BY <2>7, <3>1, <4>2
    <3>2. CASE l \in (b + 1)..N
      <4>1. g[l] = f[l] /\ f[l] = Step(f, l)
        BY <2>6, <2>7, <3>2
      <4>2. CASE l = N
        BY <1>1, <4>1, <4>2
      <4>3. CASE l # N
        <5>1. g[l + 1] = f[l + 1]
          BY <2>4, <2>7, <3>2, <4>3
        <5> QED BY <1>2, <4>1, <4>3, <5>1
      <4> QED BY <4>2, <4>3
    <3> QED BY <2>3, <3>1, <3>2
  <2>10. g = [l \in b..N |-> Step(g, l)]
    BY <2>8, <2>9
  <2>11. Loop(g, m + 1)
    BY <2>10 DEF b
  <2>12. m + 1 \in 0..(N - 1)
    OBVIOUS
  <2> QED BY <2>11, <2>12
<1> HIDE DEF Done
<1>6. N - 1 \in Done
  <2>1. \A m \in 0..(N - 1) : m \in Done
    BY <1>3, <1>4, <1>5, UpTo
  <2> QED BY <1>3, <2>1
<1>7. PICK f : Loop(f, N - 1)
  BY <1>6 DEF Done
<1>8. N - (N - 1) = 1
  OBVIOUS
<1>9. Joins(f, e, N)
  BY <1>7, <1>8 DEF Joins, Step
<1> QED BY <1>9

\* The files of level l of lv whose range has k, and those of Level 0 from the end.
InRangeAt(lv, l, k) ==
    Select(lv[l], {p \in 1..Len(lv[l]) : lv[l][p].lo <= k /\ k <= lv[l][p].hi})

FromEnd(s) == [i \in 1..Len(s) |-> s[Len(s) + 1 - i]]

LEMMA SearchOrderIs ==
    ASSUME NEW lv, NEW k
    PROVE  \E from : /\ Joins(from, [l \in 1..MaxLevels |-> InRangeAt(lv, l, k)], MaxLevels)
                     /\ SearchOrder(lv, k) = FromEnd(lv[0]) \o from[1]
<1> DEFINE Loop(f) == f = [l \in 1..MaxLevels |-> IF l = MaxLevels THEN << >>
                                                  ELSE InRangeAt(lv, l, k) \o f[l + 1]]
           from == CHOOSE f : Loop(f)
           e == [l \in 1..MaxLevels |-> InRangeAt(lv, l, k)]
<1>1. \A f : Joins(f, e, MaxLevels) <=> Loop(f)
  <2> SUFFICES ASSUME NEW f PROVE Joins(f, e, MaxLevels) <=> Loop(f)
    OBVIOUS
  <2>1. \A l \in 1..MaxLevels : e[l] = InRangeAt(lv, l, k)
    OBVIOUS
  <2> HIDE DEF e
  <2>2. [l \in 1..MaxLevels |-> IF l = MaxLevels THEN << >> ELSE InRangeAt(lv, l, k) \o f[l + 1]]
        = [l \in 1..MaxLevels |-> IF l = MaxLevels THEN << >> ELSE e[l] \o f[l + 1]]
    BY <2>1
  <2> QED BY <2>2 DEF Joins
<1>2. MaxLevels \in Nat \ {0}
  BY OptionsAreSane
<1> HIDE DEF e
<1>3. \E f : Loop(f)
  BY <1>1, <1>2, JoinsExists
<1>4. Loop(from)
  BY <1>3
<1>5. SearchOrder(lv, k) = FromEnd(lv[0]) \o from[1]
  BY DEF SearchOrder, FromEnd, InRangeAt
<1> HIDE DEF from, Loop
<1>6. Joins(from, e, MaxLevels)
  BY <1>1, <1>4
<1> QED BY <1>5, <1>6 DEF e

\* Elements of s are related as they follow each other.
InOrder(s, R) == \A i, j \in 1..Len(s) : i < j => <<s[i], s[j]>> \in R

LEMMA InOrderConcat ==
    ASSUME NEW a \in Seq(Meta), NEW b \in Seq(Meta), NEW R, InOrder(a, R), InOrder(b, R),
           \A f \in Files(a), g \in Files(b) : <<f, g>> \in R
    PROVE  InOrder(a \o b, R)
<1> DEFINE u == a \o b
<1>1. /\ u \in Seq(Meta) /\ Len(u) = Len(a) + Len(b) /\ Len(a) \in Nat /\ Len(b) \in Nat
      /\ \A i \in 1..Len(a) : u[i] = a[i]
  OBVIOUS
<1>2. \A i \in 1..Len(b) : u[Len(a) + i] = b[i]
  OBVIOUS
<1> HIDE DEF u
<1>3. ASSUME NEW i \in 1..Len(u)
      PROVE  \/ i \in 1..Len(a) /\ u[i] = a[i] /\ a[i] \in Files(a)
             \/ /\ i - Len(a) \in 1..Len(b) /\ ~ (i <= Len(a))
                /\ u[i] = b[i - Len(a)] /\ b[i - Len(a)] \in Files(b)
  <2>1. CASE i \in 1..Len(a)
    BY <1>1, <2>1 DEF Files
  <2>2. CASE i \notin 1..Len(a)
    <3>1. i - Len(a) \in 1..Len(b) /\ ~ (i <= Len(a)) /\ Len(a) + (i - Len(a)) = i
      BY <1>1, <2>2
    <3>2. u[i] = b[i - Len(a)]
      BY <1>2, <3>1
    <3> QED BY <3>1, <3>2 DEF Files
  <2> QED BY <2>1, <2>2
<1>4. ASSUME NEW i \in 1..Len(u), NEW j \in 1..Len(u), i < j
      PROVE  <<u[i], u[j]>> \in R
  <2>1. CASE i \in 1..Len(a) /\ j \in 1..Len(a)
    <3>1. <<a[i], a[j]>> \in R
      BY <1>4, <2>1 DEF InOrder
    <3> QED BY <1>1, <2>1, <3>1
  <2>2. CASE i \in 1..Len(a) /\ j \notin 1..Len(a)
    <3>1. u[i] \in Files(a) /\ u[j] \in Files(b)
      BY <1>1, <1>3, <2>2
    <3> QED BY <3>1
  <2>3. CASE i \notin 1..Len(a)
    <3>1. j \notin 1..Len(a)
      BY <1>1, <1>4, <2>3
    <3>2. /\ i - Len(a) \in 1..Len(b) /\ j - Len(a) \in 1..Len(b)
          /\ u[i] = b[i - Len(a)] /\ u[j] = b[j - Len(a)]
      BY <1>3, <2>3, <3>1
    <3>3. i - Len(a) < j - Len(a)
      BY <1>1, <1>4
    <3> QED BY <3>2, <3>3 DEF InOrder
  <2> QED BY <2>1, <2>2, <2>3
<1>5. InOrder(u, R)
  BY <1>4 DEF InOrder
<1> QED BY <1>5 DEF u

\* f is searched before g: it is on a higher level, or further back on Level 0, or further
\* ahead on another.
SearchedBefore(lv) ==
    {p \in Meta \X Meta :
        \E l, m \in Levels : \E i \in 1..Len(lv[l]), j \in 1..Len(lv[m]) :
           /\ p = <<lv[l][i], lv[m][j]>>
           /\ \/ l < m
              \/ l = m /\ l = 0 /\ j < i
              \/ l = m /\ l # 0 /\ i < j}

AllFiles(lv) == UNION {Files(lv[l]) : l \in Levels}

\* Files of the levels from l on.
FilesFrom(lv, l) == {f \in AllFiles(lv) : \E m \in Levels : l <= m /\ f \in Files(lv[m])}

LEMMA HigherFirst ==
    ASSUME NEW lv \in LevelMaps, NEW l \in Levels, NEW m \in Levels, l < m,
           NEW f \in Files(lv[l]), NEW g \in Files(lv[m])
    PROVE  <<f, g>> \in SearchedBefore(lv)
<1>1. lv[l] \in Seq(Meta) /\ lv[m] \in Seq(Meta)
  BY DEF LevelMaps
<1>2. PICK i \in 1..Len(lv[l]) : lv[l][i] = f
  BY DEF Files
<1>3. PICK j \in 1..Len(lv[m]) : lv[m][j] = g
  BY DEF Files
<1>4. lv[l][i] \in Meta /\ lv[m][j] \in Meta
  <2>1. \A t \in Seq(Meta) : \A n \in 1..Len(t) : t[n] \in Meta
    OBVIOUS
  <2> QED BY <1>1, <2>1
<1>5. <<f, g>> = <<lv[l][i], lv[m][j]>>
  BY <1>2, <1>3
<1>6. <<f, g>> \in Meta \X Meta
  BY <1>2, <1>3, <1>4
<1> QED BY <1>5, <1>6 DEF SearchedBefore

LEMMA LevelZeroFromEnd ==
    ASSUME NEW lv \in LevelMaps
    PROVE  /\ FromEnd(lv[0]) \in Seq(Meta) /\ Files(FromEnd(lv[0])) = Files(lv[0])
           /\ InOrder(FromEnd(lv[0]), SearchedBefore(lv))
<1> DEFINE s == lv[0]
           t == FromEnd(s)
           n == Len(s)
<1>1. s \in Seq(Meta) /\ 0 \in Levels
  BY LevelsHaveZero DEF LevelMaps
<1>2. n \in Nat
  BY <1>1
<1>3. t = [i \in 1..n |-> s[n + 1 - i]]
  BY DEF FromEnd
<1>4. \A i \in 1..n : n + 1 - i \in 1..n /\ n + 1 - (n + 1 - i) = i
  BY <1>2
<1>5. \A i \in 1..n : s[i] \in Meta
  BY <1>1
<1> HIDE DEF t, n
<1>6. \A i \in 1..n : t[i] = s[n + 1 - i] /\ t[i] \in Meta
  BY <1>3, <1>4, <1>5
<1>7. t = [i \in 1..n |-> t[i]]
  BY <1>3
<1>8. t \in Seq(Meta) /\ Len(t) = n
  BY <1>2, <1>6, <1>7, SeqOfEach
<1>9. Files(t) = Files(s)
  <2>1. \A i \in 1..n : t[i] \in Files(s)
    BY <1>4, <1>6 DEF Files, n
  <2>2. \A i \in 1..n : s[i] \in Files(t)
    <3> SUFFICES ASSUME NEW i \in 1..n PROVE s[i] \in Files(t)
      OBVIOUS
    <3> DEFINE j == n + 1 - i
    <3>1. j \in 1..n /\ n + 1 - j = i
      BY <1>4
    <3> HIDE DEF j
    <3>2. t[j] = s[i]
      BY <1>6, <3>1
    <3> QED BY <1>8, <3>1, <3>2 DEF Files
  <2>3. Files(t) \subseteq Files(s)
    BY <1>8, <2>1 DEF Files
  <2>4. Files(s) \subseteq Files(t)
    BY <2>2 DEF Files, n
  <2> QED BY <2>3, <2>4
<1>10. ASSUME NEW i \in 1..n, NEW j \in 1..n, i < j
       PROVE  <<t[i], t[j]>> \in SearchedBefore(lv)
  <2>1. n + 1 - i \in 1..Len(lv[0]) /\ n + 1 - j \in 1..Len(lv[0]) /\ n + 1 - j < n + 1 - i
    BY <1>2, <1>4, <1>10 DEF n
  <2>2. <<t[i], t[j]>> = <<lv[0][n + 1 - i], lv[0][n + 1 - j]>>
    BY <1>6
  <2>3. <<t[i], t[j]>> \in Meta \X Meta
    BY <1>6
  <2> QED BY <1>1, <2>1, <2>2, <2>3 DEF SearchedBefore
<1>11. InOrder(t, SearchedBefore(lv))
  BY <1>8, <1>10 DEF InOrder
<1> QED BY <1>8, <1>9, <1>11 DEF t

LEMMA InRangeAtIs ==
    ASSUME NEW lv \in LevelMaps, NEW l \in Levels \ {0}, NEW k
    PROVE  /\ InRangeAt(lv, l, k) \in Seq(Meta)
           /\ Files(InRangeAt(lv, l, k)) = {f \in Files(lv[l]) : f.lo <= k /\ k <= f.hi}
           /\ InOrder(InRangeAt(lv, l, k), SearchedBefore(lv))
<1> DEFINE s == lv[l]
           I == {p \in 1..Len(s) : s[p].lo <= k /\ k <= s[p].hi}
           t == Select(s, I)
<1>1. s \in Seq(Meta)
  BY DEF LevelMaps
<1>2. t = InRangeAt(lv, l, k)
  BY DEF InRangeAt
<1> HIDE DEF s
<1>3. t \in Seq(Meta) /\ Files(t) = {s[i] : i \in {j \in 1..Len(s) : j \in I}}
  BY <1>1, SelectEmbeds, FilesOfSelect
<1>4. {s[i] : i \in {j \in 1..Len(s) : j \in I}} = {f \in Files(s) : f.lo <= k /\ k <= f.hi}
  BY DEF Files
<1>5. PICK at : Embeds(at, t, s, I, Len(s))
  BY <1>1, SelectEmbeds
<1> HIDE DEF t, I
<1>6. ASSUME NEW p \in 1..Len(t), NEW q \in 1..Len(t), p < q
      PROVE  <<t[p], t[q]>> \in SearchedBefore(lv)
  <2>1. at[p] \in 1..Len(s) /\ at[q] \in 1..Len(s) /\ t[p] = s[at[p]] /\ t[q] = s[at[q]]
        /\ at[p] < at[q]
    BY <1>5, <1>6 DEF Embeds
  <2>2. t[p] \in Meta /\ t[q] \in Meta
    BY <1>3
  <2>3. <<t[p], t[q]>> = <<lv[l][at[p]], lv[l][at[q]]>> /\ <<t[p], t[q]>> \in Meta \X Meta
    BY <2>1, <2>2 DEF s
  <2>4. at[p] \in 1..Len(lv[l]) /\ at[q] \in 1..Len(lv[l]) /\ l # 0 /\ l \in Levels
    BY <2>1 DEF s
  <2> QED BY <2>1, <2>3, <2>4 DEF SearchedBefore
<1>7. InOrder(t, SearchedBefore(lv))
  BY <1>6 DEF InOrder
<1> QED BY <1>2, <1>3, <1>4, <1>7 DEF s

\* What get(k) searches: files of the version, every one whose range has k, in that order.
LEMMA SearchIs ==
    ASSUME NEW lv \in LevelMaps, NEW k
    PROVE  /\ SearchOrder(lv, k) \in Seq(Meta)
           /\ Files(SearchOrder(lv, k)) \subseteq AllFiles(lv)
           /\ \A f \in AllFiles(lv) : f.lo <= k /\ k <= f.hi => f \in Files(SearchOrder(lv, k))
           /\ InOrder(SearchOrder(lv, k), SearchedBefore(lv))
<1> DEFINE e == [l \in 1..MaxLevels |-> InRangeAt(lv, l, k)]
           N == MaxLevels
           R == SearchedBefore(lv)
<1>1. PICK from : Joins(from, e, N) /\ SearchOrder(lv, k) = FromEnd(lv[0]) \o from[1]
  BY SearchOrderIs
<1>2. N \in Nat /\ N >= 1 /\ Levels = 0..(N - 1)
  BY OptionsAreSane DEF Levels
<1>3. from[N] = << >> /\ \A l \in 1..(N - 1) : from[l] = InRangeAt(lv, l, k) \o from[l + 1]
  <2>1. \A l \in 1..N : e[l] = InRangeAt(lv, l, k)
    OBVIOUS
  <2> HIDE DEF e, N
  <2>2. from = [l \in 1..N |-> IF l = N THEN << >> ELSE e[l] \o from[l + 1]]
    BY <1>1 DEF Joins
  <2>3. N \in 1..N /\ \A l \in 1..(N - 1) : l \in 1..N /\ l # N
    BY <1>2
  <2>4. from[N] = << >>
    BY <2>2, <2>3
  <2>5. \A l \in 1..(N - 1) : from[l] = e[l] \o from[l + 1]
    BY <2>2, <2>3
  <2> QED BY <2>1, <2>3, <2>4, <2>5
<1> DEFINE Good(l) == /\ from[l] \in Seq(Meta)
                      /\ Files(from[l]) \subseteq FilesFrom(lv, l)
                      /\ \A f \in FilesFrom(lv, l) : f.lo <= k /\ k <= f.hi => f \in Files(from[l])
                      /\ InOrder(from[l], R)
           S == {m \in 0..(N - 1) : Good(N - m)}
<1> HIDE DEF e, N, R
<1>4. Good(N)
  <2>1. FilesFrom(lv, N) = {}
    BY <1>2 DEF FilesFrom
  <2>2. Len(<< >>) = 0
    OBVIOUS
  <2>3. InOrder(<< >>, R)
    BY <2>2 DEF InOrder
  <2> QED BY <1>3, <2>1, <2>3, EmptyHasNoFiles
<1>5. ASSUME NEW l \in 1..(N - 1), Good(l + 1)
      PROVE  Good(l)
  <2> DEFINE a == InRangeAt(lv, l, k)
             b == from[l + 1]
  <2>1. l \in Levels \ {0} /\ l \in Nat
    BY <1>2
  <2>2. /\ a \in Seq(Meta) /\ Files(a) = {f \in Files(lv[l]) : f.lo <= k /\ k <= f.hi}
        /\ InOrder(a, R)
    BY <2>1, InRangeAtIs DEF R
  <2>3. /\ b \in Seq(Meta) /\ Files(b) \subseteq FilesFrom(lv, l + 1) /\ InOrder(b, R)
        /\ \A f \in FilesFrom(lv, l + 1) : f.lo <= k /\ k <= f.hi => f \in Files(b)
    BY <1>5
  <2>4. from[l] = a \o b
    BY <1>3
  <2> HIDE DEF a, b, Good
  <2>5. a \o b \in Seq(Meta) /\ Files(a \o b) = Files(a) \cup Files(b)
    BY <2>2, <2>3, FilesOfConcat
  <2>6. \A m \in Levels : l <= m <=> (m = l \/ l + 1 <= m)
    BY <1>2, <2>1
  <2>7. FilesFrom(lv, l) = Files(lv[l]) \cup FilesFrom(lv, l + 1)
    BY <2>1, <2>6 DEF FilesFrom, AllFiles
  <2>8. ASSUME NEW f \in Files(a), NEW g \in Files(b)
        PROVE  <<f, g>> \in R
    <3>1. f \in Files(lv[l])
      BY <2>2
    <3>2. PICK m \in Levels : l + 1 <= m /\ g \in Files(lv[m])
      BY <2>3 DEF FilesFrom
    <3>3. l < m
      BY <1>2, <2>1, <3>2
    <3> QED BY <2>1, <3>1, <3>2, <3>3, HigherFirst DEF R
  <2>9. InOrder(a \o b, R)
    BY <2>2, <2>3, <2>8, InOrderConcat
  <2>10. Files(from[l]) \subseteq FilesFrom(lv, l)
    BY <2>2, <2>3, <2>4, <2>5, <2>7
  <2>11. \A f \in FilesFrom(lv, l) : f.lo <= k /\ k <= f.hi => f \in Files(from[l])
    BY <2>2, <2>3, <2>4, <2>5, <2>7
  <2> QED BY <2>4, <2>5, <2>9, <2>10, <2>11 DEF Good
<1>6. 0 \in S
  <2>1. N - 0 = N /\ 0 \in 0..(N - 1)
    BY <1>2
  <2> HIDE DEF Good
  <2> QED BY <1>4, <2>1
<1> HIDE DEF Good
<1>7. \A m \in 0..(N - 1) : m < N - 1 /\ m \in S => m + 1 \in S
  <2> SUFFICES ASSUME NEW m \in 0..(N - 1), m < N - 1, m \in S PROVE m + 1 \in S
    OBVIOUS
  <2> DEFINE l == N - (m + 1)
  <2>1. l \in 1..(N - 1) /\ l + 1 = N - m /\ m + 1 \in 0..(N - 1)
    BY <1>2
  <2> HIDE DEF l
  <2>2. Good(l + 1)
    BY <2>1
  <2>3. Good(l)
    BY <1>5, <2>1, <2>2
  <2> QED BY <2>1, <2>3 DEF l
<1> HIDE DEF S
<1>8. \A m \in 0..(N - 1) : m \in S
  <2>1. N - 1 \in Nat
    BY <1>2
  <2> QED BY <1>6, <1>7, <2>1, UpTo
<1>9. Good(1)
  <2>1. N - 1 \in 0..(N - 1) /\ N - (N - 1) = 1
    BY <1>2
  <2>2. N - 1 \in S
    BY <1>8, <2>1
  <2>3. Good(N - (N - 1))
    BY <2>2 DEF S
  <2> QED BY <2>1, <2>3
<1> DEFINE a == FromEnd(lv[0])
           b == from[1]
<1>10. /\ a \in Seq(Meta) /\ Files(a) = Files(lv[0]) /\ InOrder(a, R)
  BY LevelZeroFromEnd DEF R
<1>11. /\ b \in Seq(Meta) /\ Files(b) \subseteq FilesFrom(lv, 1) /\ InOrder(b, R)
       /\ \A f \in FilesFrom(lv, 1) : f.lo <= k /\ k <= f.hi => f \in Files(b)
  BY <1>9 DEF Good
<1> HIDE DEF a, b
<1>12. a \o b \in Seq(Meta) /\ Files(a \o b) = Files(a) \cup Files(b)
  BY <1>10, <1>11, FilesOfConcat
<1>13. AllFiles(lv) = Files(lv[0]) \cup FilesFrom(lv, 1)
  <2>1. 0 \in Levels /\ \A m \in Levels : m = 0 \/ 1 <= m
    BY <1>2
  <2> QED BY <2>1 DEF FilesFrom, AllFiles
<1>14. ASSUME NEW f \in Files(a), NEW g \in Files(b)
       PROVE  <<f, g>> \in R
  <2>1. PICK m \in Levels : 1 <= m /\ g \in Files(lv[m])
    BY <1>11 DEF FilesFrom
  <2>2. 0 < m /\ 0 \in Levels
    BY <1>2, <2>1
  <2> QED BY <1>10, <2>1, <2>2, HigherFirst DEF R
<1>15. InOrder(a \o b, R)
  BY <1>10, <1>11, <1>14, InOrderConcat
<1>16. SearchOrder(lv, k) = a \o b
  BY <1>1 DEF a, b
<1>17. Files(SearchOrder(lv, k)) \subseteq AllFiles(lv)
  BY <1>10, <1>11, <1>12, <1>13, <1>16
<1>18. \A f \in AllFiles(lv) : f.lo <= k /\ k <= f.hi => f \in Files(SearchOrder(lv, k))
  BY <1>10, <1>11, <1>12, <1>13, <1>16
<1> QED BY <1>12, <1>15, <1>16, <1>17, <1>18 DEF R

-----------------------------------------------------------------------------
(* Newer entries are searched first                                        *)

\* In the directory fl, what f has of a key is newer than what g has.
Newer(fl, f, g) ==
    \A k \in Keys : k \in DOMAIN fl[f.num] /\ k \in DOMAIN fl[g.num] =>
                       fl[f.num][k].seq > fl[g.num][k].seq

Ordered(fl, lv) ==
    /\ \A l, m \in Levels : l < m => \A f \in Files(lv[l]), g \in Files(lv[m]) : Newer(fl, f, g)
    /\ \A i, j \in 1..Len(lv[0]) : i < j => Newer(fl, lv[0][j], lv[0][i])

LEMMA SameOrdered ==
    ASSUME NEW lv, NEW fl, NEW gl, Ordered(fl, lv),
           \A f \in AllFiles(lv) : gl[f.num] = fl[f.num]
    PROVE  Ordered(gl, lv)
<1>1. \A l \in Levels : \A f \in Files(lv[l]) : gl[f.num] = fl[f.num]
  BY DEF AllFiles
<1>2. \A f, g : gl[f.num] = fl[f.num] /\ gl[g.num] = fl[g.num] /\ Newer(fl, f, g) => Newer(gl, f, g)
  BY DEF Newer
<1>3. ASSUME NEW l \in Levels, NEW m \in Levels, l < m, NEW f \in Files(lv[l]), NEW g \in Files(lv[m])
      PROVE  Newer(gl, f, g)
  BY <1>1, <1>2, <1>3 DEF Ordered
<1>4. ASSUME NEW i \in 1..Len(lv[0]), NEW j \in 1..Len(lv[0]), i < j
      PROVE  Newer(gl, lv[0][j], lv[0][i])
  <2>1. lv[0][i] \in Files(lv[0]) /\ lv[0][j] \in Files(lv[0])
    BY DEF Files
  <2> QED BY <1>1, <1>2, <1>4, <2>1, LevelsHaveZero DEF Ordered
<1> QED BY <1>3, <1>4 DEF Ordered

\* A flush adds the newest entries.
LEMMA FlushOrdered ==
    ASSUME NEW lv \in LevelMaps, NEW fl, Ordered(fl, lv), NEW edit, IsFlushEdit(edit),
           \A f \in AllFiles(lv) : Newer(fl, edit.adds[1], f)
    PROVE  Ordered(fl, Apply(lv, edit))
<1> DEFINE ap == Apply(lv, edit)
           e == edit.adds[1]
           s == lv[0]
<1>1. e \in Meta /\ ap[0] = Append(s, e) /\ \A l \in Levels \ {0} : ap[l] = lv[l]
  BY ApplyFlush
<1>2. s \in Seq(Meta) /\ 0 \in Levels
  BY LevelsHaveZero DEF LevelMaps
<1>3. \A l \in Levels : \A f \in Files(lv[l]) : Newer(fl, e, f)
  BY DEF AllFiles
<1> HIDE DEF e, ap, s
<1>4. /\ Len(ap[0]) = Len(s) + 1 /\ Len(s) \in Nat /\ ap[0][Len(s) + 1] = e
      /\ \A i \in 1..Len(s) : ap[0][i] = s[i]
  BY <1>1, <1>2
<1>5. \A i \in 1..Len(ap[0]) : i \in 1..Len(s) \/ i = Len(s) + 1
  BY <1>4
<1>6. \A f \in Files(ap[0]) : f \in Files(s) \/ f = e
  BY <1>4, <1>5 DEF Files
<1>7. ASSUME NEW l \in Levels, NEW m \in Levels, l < m, NEW f \in Files(ap[l]), NEW g \in Files(ap[m])
      PROVE  Newer(fl, f, g)
  <2>1. m # 0 /\ g \in Files(lv[m])
    BY <1>1, <1>7 DEF Levels
  <2>2. CASE f = e
    BY <1>3, <2>1, <2>2
  <2>3. CASE f \in Files(lv[l])
    BY <1>7, <2>1, <2>3 DEF Ordered
  <2> QED BY <1>1, <1>6, <2>2, <2>3 DEF s
<1>8. ASSUME NEW i \in 1..Len(ap[0]), NEW j \in 1..Len(ap[0]), i < j
      PROVE  Newer(fl, ap[0][j], ap[0][i])
  <2>1. i \in 1..Len(s)
    BY <1>4, <1>5, <1>8
  <2>2. CASE j \in 1..Len(s)
    <3>1. Newer(fl, s[j], s[i])
      BY <1>8, <2>1, <2>2 DEF Ordered, s
    <3> QED BY <1>4, <2>1, <2>2, <3>1
  <2>3. CASE j = Len(s) + 1
    <3>1. s[i] \in Files(lv[0])
      BY <2>1 DEF Files, s
    <3> QED BY <1>2, <1>3, <1>4, <2>1, <2>3, <3>1
  <2> QED BY <1>5, <2>2, <2>3
<1>9. Ordered(fl, ap)
  BY <1>7, <1>8 DEF Ordered
<1> QED BY <1>9 DEF ap

\* The ranges that fl has of the tables of lv.
RangesHold(fl, lv) ==
    \A l \in Levels : \A f \in Files(lv[l]) : \A k \in DOMAIN fl[f.num] : f.lo <= k /\ k <= f.hi

\* What a file that an edit adds has of a key, one of the files it merges has.
TakenFromSources(fl, t, e) ==
    \A k \in Keys : k \in DOMAIN fl[e.num] =>
        \E h \in Sources(t) : k \in DOMAIN fl[h.num] /\ fl[e.num][k] = fl[h.num][k]

\* Two files of a level below 0 have no key in common.
LEMMA NoCommonKey ==
    ASSUME NEW lv \in LevelMaps, Disjoint(lv), NEW fl, RangesHold(fl, lv),
           NEW l \in Levels \ {0}, NEW f \in Files(lv[l]), NEW g \in Files(lv[l]), f # g
    PROVE  Newer(fl, f, g)
<1>1. lv[l] \in Seq(Meta) /\ Apart(lv[l])
  BY DisjointIs DEF LevelMaps
<1>2. f.hi < g.lo \/ g.hi < f.lo
  BY <1>1, ApartFiles
<1>3. f \in Meta /\ g \in Meta
  <2>1. \A t \in Seq(Meta) : \A x \in Files(t) : x \in Meta
    BY DEF Files
  <2> QED BY <1>1, <2>1
<1>4. f.lo \in Nat /\ f.hi \in Nat /\ g.lo \in Nat /\ g.hi \in Nat
  BY <1>3, MetaFields
<1>5. ASSUME NEW k \in Keys, k \in DOMAIN fl[f.num], k \in DOMAIN fl[g.num]
      PROVE  FALSE
  <2>1. f.lo <= k /\ k <= f.hi /\ g.lo <= k /\ k <= g.hi
    BY <1>5 DEF RangesHold
  <2>2. k \in Nat
    BY KeysAreNumbers
  <2> QED BY <1>2, <1>4, <2>1, <2>2
<1> QED BY <1>5 DEF Newer

\* A file that a task leaves behind is newer than those it takes, on its level and below.
LEMMA LeftBehindIsNewer ==
    ASSUME NEW lv \in LevelMaps, NEW t, TaskIn(t, lv), Disjoint(lv), NEW fl, Ordered(fl, lv),
           RangesHold(fl, lv),
           NEW l \in Levels, l <= t.level, NEW f \in Files(lv[l]),
           l = t.level => f \notin Files(t.inputs),
           NEW h \in Sources(t)
    PROVE  Newer(fl, f, h)
<1>1. /\ t.level \in Levels /\ t.level + 1 \in Levels /\ t \in Tasks
      /\ Files(t.inputs) \subseteq Files(lv[t.level])
      /\ Files(t.targets) \subseteq Files(lv[t.level + 1])
  BY TaskFiles
<1>2. l \in Int /\ t.level \in Int
  BY <1>1 DEF Levels
<1>3. CASE h \in Files(t.targets)
  <2>1. l < t.level + 1 /\ h \in Files(lv[t.level + 1])
    BY <1>1, <1>2, <1>3
  <2> QED BY <1>1, <2>1 DEF Ordered
<1>4. CASE h \in Files(t.inputs) /\ l < t.level
  BY <1>1, <1>4 DEF Ordered
<1>5. CASE h \in Files(t.inputs) /\ l = t.level /\ l # 0
  BY <1>1, <1>5, NoCommonKey
<1>6. CASE h \in Files(t.inputs) /\ l = t.level /\ l = 0
  <2> DEFINE ins == t.inputs
             s == lv[0]
  <2>1. Len(ins) <= Len(s) /\ \A i \in 1..Len(ins) : ins[i] = s[i]
    BY <1>6 DEF TaskIn
  <2>2. ins \in Seq(Meta) /\ s \in Seq(Meta)
    BY <1>1, LevelsHaveZero DEF Tasks, LevelMaps
  <2>3. f \in Files(s) /\ f \notin Files(ins) /\ h \in Files(ins)
    BY <1>6
  <2>4. \A i, j \in 1..Len(s) : i < j => Newer(fl, s[j], s[i])
    BY DEF Ordered
  <2> HIDE DEF ins, s
  <2>5. PICK j \in 1..Len(s) : s[j] = f
    BY <2>3 DEF Files
  <2>6. PICK i \in 1..Len(ins) : ins[i] = h
    BY <2>3 DEF Files
  <2>7. Len(ins) \in Nat /\ Len(s) \in Nat
    BY <2>2
  <2>8. j \notin 1..Len(ins)
    <3> SUFFICES ASSUME j \in 1..Len(ins) PROVE FALSE
      OBVIOUS
    <3>1. ins[j] = f
      BY <2>1, <2>5
    <3> QED BY <2>3, <3>1 DEF Files
  <2>9. i \in 1..Len(s) /\ i < j /\ s[i] = h
    BY <2>1, <2>6, <2>7, <2>8
  <2> QED BY <2>4, <2>5, <2>9
<1> QED BY <1>1, <1>2, <1>3, <1>4, <1>5, <1>6 DEF Sources

\* A merge keeps the order.
LEMMA MergeOrdered ==
    ASSUME NEW lv \in LevelMaps, NEW t, TaskIn(t, lv), Disjoint(lv), NEW fl, Ordered(fl, lv),
           RangesHold(fl, lv), NEW edit \in Edits, edit.dels = Deletions(t),
           edit.adds # << >> => /\ edit.level = t.level + 1 /\ Len(edit.adds) = 1
                                /\ TakenFromSources(fl, t, edit.adds[1])
    PROVE  Ordered(fl, Apply(lv, edit))
<1> DEFINE ap == Apply(lv, edit)
           e == edit.adds[1]
<1>1. /\ t.level \in Levels /\ t.level + 1 \in Levels /\ t \in Tasks
      /\ Files(t.inputs) \subseteq Files(lv[t.level])
      /\ Files(t.targets) \subseteq Files(lv[t.level + 1])
  BY TaskFiles
<1>2. \A l \in Levels : Files(ap[l]) =
         {f \in Files(lv[l]) : ~ Deletes(edit, l, f.num)}
            \cup (IF l = edit.level THEN Files(edit.adds) ELSE {})
  BY ApplyFiles
<1>3. /\ edit.adds = << >> => Files(edit.adds) = {}
      /\ edit.adds # << >> => Files(edit.adds) = {e}
  BY EmptyHasNoFiles DEF Files
<1>4. \A f \in Files(t.inputs) : Deletes(edit, t.level, f.num)
  BY <1>1, DeletionsAre
<1>5. Left(lv, edit, 0) = ap[0]
  <2>1. edit.adds = << >> \/ edit.level # 0
    BY <1>1 DEF Levels
  <2> QED BY <2>1, ApplyIs, LevelsHaveZero
<1> HIDE DEF ap
<1>6. ASSUME NEW l \in Levels, NEW f \in Files(ap[l])
      PROVE  \/ f \in Files(lv[l]) /\ ~ Deletes(edit, l, f.num)
             \/ l = t.level + 1 /\ f = e /\ TakenFromSources(fl, t, e)
  BY <1>2, <1>3, <1>6
<1>7. t.level \in Int /\ \A l \in Levels : l \in Int
  BY <1>1 DEF Levels
<1> HIDE DEF e
<1>8. ASSUME NEW l \in Levels, NEW m \in Levels, l < m, NEW f \in Files(ap[l]), NEW g \in Files(ap[m])
      PROVE  Newer(fl, f, g)
  <2>1. CASE f \in Files(lv[l]) /\ g \in Files(lv[m])
    BY <1>8, <2>1 DEF Ordered
  <2>2. CASE l = t.level + 1 /\ f = e /\ TakenFromSources(fl, t, e) /\ g \in Files(lv[m])
    <3>1. \A h \in Sources(t) : Newer(fl, h, g)
      <4>1. t.level < m /\ t.level + 1 < m
        BY <1>7, <1>8, <2>2
      <4> QED BY <1>1, <2>2, <4>1 DEF Ordered, Sources
    <3> QED BY <2>2, <3>1 DEF Newer, TakenFromSources
  <2>3. CASE f \in Files(lv[l]) /\ ~ Deletes(edit, l, f.num)
             /\ m = t.level + 1 /\ g = e /\ TakenFromSources(fl, t, e)
    <3>1. l <= t.level
      BY <1>7, <1>8, <2>3
    <3>2. l = t.level => f \notin Files(t.inputs)
      BY <1>4, <2>3
    <3>3. \A h \in Sources(t) : Newer(fl, f, h)
      BY <2>3, <3>1, <3>2, LeftBehindIsNewer
    <3> QED BY <2>3, <3>3 DEF Newer, TakenFromSources
  <2>4. ~ (l = t.level + 1 /\ m = t.level + 1)
    BY <1>7, <1>8
  <2> QED BY <1>6, <2>1, <2>2, <2>3, <2>4
<1>9. ASSUME NEW i \in 1..Len(ap[0]), NEW j \in 1..Len(ap[0]), i < j
      PROVE  Newer(fl, ap[0][j], ap[0][i])
  <2> DEFINE s == lv[0]
             I == {p \in 1..Len(s) : ~ Deletes(edit, 0, s[p].num)}
             u == ap[0]
  <2>1. u = Select(s, I) /\ s \in Seq(Meta)
    BY <1>5, LevelsHaveZero DEF Left, LevelMaps
  <2> HIDE DEF s, I
  <2>2. PICK at : Embeds(at, u, s, I, Len(s))
    <3> HIDE DEF u
    <3> QED BY <2>1, SelectEmbeds
  <2>3. /\ at[i] \in 1..Len(s) /\ at[j] \in 1..Len(s) /\ u[i] = s[at[i]] /\ u[j] = s[at[j]]
        /\ at[i] < at[j]
    BY <1>9, <2>2 DEF Embeds
  <2>4. Newer(fl, s[at[j]], s[at[i]])
    BY <2>3 DEF Ordered, s
  <2> QED BY <2>3, <2>4
<1>10. Ordered(fl, ap)
  BY <1>8, <1>9 DEF Ordered
<1> QED BY <1>10 DEF ap

LEMMA SameNewer ==
    ASSUME NEW fl, NEW gl, NEW f, NEW g, gl[f.num] = fl[f.num], gl[g.num] = fl[g.num],
           Newer(fl, f, g)
    PROVE  Newer(gl, f, g)
BY DEF Newer

\* Without slow writers, the flushes use up the sequence numbers one after the other, and the
\* table of a flush under way has newer entries than any other.
UsedIsPrefix == used = 1..Cardinality(used)

KnownSeqs ==
    \A l \in Levels : \A f \in KnownAt(l) : \A k \in DOMAIN files[f.num] :
        files[f.num][k].seq <= Cardinality(used)

FlushedIsNewest ==
    Flushing => \A l \in Levels : \A f \in KnownAt(l) :
                   f.num # fedit.adds[1].num => Newer(files, fedit.adds[1], f)

NewestInv == UsedIsPrefix /\ KnownSeqs /\ FlushedIsNewest

LEMMA NewestInit == Init => NewestInv
<1> SUFFICES ASSUME Init PROVE NewestInv
  OBVIOUS
<1>1. fpc = "idle" /\ cpc = "idle" /\ used = {} /\ levels = EmptyLevels /\ manifest.levels = EmptyLevels
  BY DEF Init, EmptyVersion
<1>2. \A l \in Levels : Files(EmptyLevels[l]) = {}
  BY EmptyHasNoFiles DEF EmptyLevels
<1>3. \A l \in Levels : KnownAt(l) = {}
  BY <1>1, <1>2 DEF KnownAt, Flushing, Merged
<1>4. Cardinality(used) = 0
  BY <1>1, FS_EmptySet
<1>5. used = 1..Cardinality(used)
  <2>1. 1..0 = {}
    OBVIOUS
  <2> QED BY <1>1, <1>4, <2>1
<1> QED BY <1>1, <1>3, <1>5 DEF NewestInv, UsedIsPrefix, KnownSeqs, FlushedIsNewest, Flushing

\* Known tables are as they were.
LEMMA KnownSame ==
    ASSUME FilesInv, FilesInv', [Next]_cvars, NEW l \in Levels, NEW f \in KnownAt(l),
           NEW m \in Levels, f \in KnownAt(m)'
    PROVE  files'[f.num] = files[f.num]
<1>1. f.num \in DOMAIN files'
  BY DEF FilesInv, KnownOnDisk
<1> QED BY <1>1, KnownUnchanged

LEMMA NotAFlush ==
    ASSUME [Next]_cvars,
           ~ \E D \in (SUBSET Keys) \ {{}} : \E c \in [D -> Contents] : FlushTable(D, c)
    PROVE  used' = used /\ (Flushing' => Flushing /\ fedit' = fedit)
<1>1. CASE UNCHANGED cvars
  BY <1>1 DEF cvars, Flushing
<1>2. CASE FlushLogEdit \/ FlushFails \/ FlushApplyEdit
  BY <1>2 DEF FlushLogEdit, FlushFails, FlushApplyEdit, bounds, Flushing
<1>3. CASE Compact \/ CompactFails \/ CrashAndOpen
  BY <1>3 DEF Compact, CompactFails, CrashAndOpen, bounds, flushVars, Flushing
<1>4. CASE PickCompaction \/ RunCompaction \/ LogCompaction \/ ApplyCompaction \/ RemoveObsolete
  BY <1>4 DEF PickCompaction, RunCompaction, LogCompaction, ApplyCompaction, RemoveObsolete,
              bounds, flushVars, Flushing
<1>5. CASE \E g \in Getters : (\E k \in Keys : GetVersion(g, k)) \/ GetExists(g) \/ GetOpen(g)
  BY <1>5, GetsLeave DEF notGet, Flushing
<1> QED BY <1>1, <1>2, <1>3, <1>4, <1>5 DEF Next, CompactStep

LEMMA NewestStep ==
    ASSUME SlowWriters = FALSE, FilesInv, FilesInv', OutputIsMerge', NewestInv, [Next]_cvars
    PROVE  NewestInv'
<1>1. used \in SUBSET Nat /\ IsFiniteSet(used) /\ Cardinality(used) \in Nat
      /\ UsedIsPrefix /\ KnownSeqs /\ FlushedIsNewest
  BY FS_CardinalityType DEF NewestInv, FilesInv, CompactionTypes
<1>2. CASE KnownShrinks
           /\ ~ \E D \in (SUBSET Keys) \ {{}} : \E c \in [D -> Contents] : FlushTable(D, c)
  <2>1. used' = used /\ (Flushing' => Flushing /\ fedit' = fedit)
    BY <1>2, NotAFlush
  <2>2. ASSUME NEW l \in Levels, NEW f \in KnownAt(l)'
        PROVE  f \in KnownAt(l) /\ files'[f.num] = files[f.num]
    BY <1>2, <2>2, KnownSame DEF KnownShrinks
  <2>3. KnownSeqs'
    BY <1>1, <2>1, <2>2 DEF KnownSeqs
  <2>4. FlushedIsNewest'
    <3> SUFFICES ASSUME Flushing', NEW l \in Levels, NEW f \in KnownAt(l)', f.num # fedit.adds[1].num
                 PROVE  Newer(files', fedit.adds[1], f)
      BY <2>1 DEF FlushedIsNewest
    <3>1. Newer(files, fedit.adds[1], f)
      BY <1>1, <2>1, <2>2 DEF FlushedIsNewest
    <3>2. fedit.adds[1] \in KnownAt(0)'
      BY <2>1, LevelsHaveZero DEF KnownAt
    <3>3. files'[fedit.adds[1].num] = files[fedit.adds[1].num]
      BY <2>2, <3>2, LevelsHaveZero
    <3> QED BY <2>2, <3>1, <3>3, SameNewer
  <2> QED BY <1>1, <2>1, <2>3, <2>4 DEF NewestInv, UsedIsPrefix
<1>3. CASE RunCompaction
  <2>1. /\ cpc = "run" /\ cpc' = "log" /\ levels' = levels /\ manifest' = manifest /\ fpc' = fpc
        /\ fedit' = fedit /\ task' = task /\ used' = used
    BY <1>3 DEF RunCompaction, flushVars, bounds
  <2>2. ASSUME NEW l \in Levels, NEW f \in KnownAt(l)'
        PROVE  f \in KnownAt(l) \/ f \in Files(cedit'.adds)
    BY <2>1 DEF KnownAt, Flushing, Merged
  <2>3. \A l \in Levels : KnownAt(l) \subseteq KnownAt(l)'
    BY <2>1 DEF KnownAt, Flushing, Merged
  <2>4. \A l \in Levels : \A f \in KnownAt(l) : files'[f.num] = files[f.num]
    BY <2>3, KnownSame
  <2>5. \A h \in Sources(task) : \E l \in Levels : h \in Files(levels[l]) /\ h \in KnownAt(l)
    BY <2>1, SourcesKnown DEF Compacting
  <2>6. ASSUME NEW f \in Files(cedit'.adds)
        PROVE  /\ TakenFromSources(files', task, f) /\ DOMAIN files'[f.num] \subseteq Keys
    <3>1. Len(cedit'.adds) = 1 /\ cedit'.adds # << >> /\ f = cedit'.adds[1]
      <4>1. cedit'.adds # << >>
        BY <2>6, EmptyHasNoFiles
      <4>2. Len(cedit'.adds) = 1
        BY <2>1, <4>1 DEF FilesInv, TaskIsCurrent, Merged
      <4> QED BY <4>1, <4>2 DEF Files
    <3>2. IsMergeOf(files', task, files'[f.num])
      BY <2>1, <3>1 DEF OutputIsMerge, Merged
    <3>3. \E l \in Levels : f \in KnownAt(l)'
      <4>1. cedit' \in Edits
        BY <2>1 DEF FilesInv, CompactionTypes, Merged
      <4>2. PICK l \in Levels : l = cedit'.level
        BY <4>1 DEF Edits
      <4>3. f \in KnownAt(l)'
        BY <2>1, <4>2 DEF KnownAt, Merged
      <4> QED BY <4>3
    <3>4. f.num \in DOMAIN files' /\ IsTable(files'[f.num])
      BY <3>3 DEF FilesInv, KnownOnDisk, CompactionTypes
    <3>5. DOMAIN files'[f.num] \subseteq Keys
      BY <3>4 DEF IsTable
    <3> QED BY <3>2, <3>5 DEF IsMergeOf, TakenFromSources
  <2>7. KnownSeqs'
    <3> SUFFICES ASSUME NEW l \in Levels, NEW f \in KnownAt(l)', NEW k \in DOMAIN files'[f.num]
                 PROVE  files'[f.num][k].seq <= Cardinality(used)
      BY <2>1 DEF KnownSeqs
    <3>1. CASE f \in KnownAt(l)
      BY <1>1, <2>4, <3>1 DEF KnownSeqs
    <3>2. CASE f \in Files(cedit'.adds)
      <4>1. PICK h \in Sources(task) : k \in DOMAIN files'[h.num] /\ files'[f.num][k] = files'[h.num][k]
        BY <2>6, <3>2 DEF TakenFromSources
      <4>2. PICK m \in Levels : h \in KnownAt(m)
        BY <2>5
      <4> QED BY <1>1, <2>4, <4>1, <4>2 DEF KnownSeqs
    <3> QED BY <2>2, <3>1, <3>2
  <2>8. FlushedIsNewest'
    <3> DEFINE e == fedit.adds[1]
    <3> SUFFICES ASSUME Flushing, NEW l \in Levels, NEW f \in KnownAt(l)', f.num # e.num
                 PROVE  Newer(files', e, f)
      BY <2>1 DEF FlushedIsNewest, Flushing
    <3>1. e \in KnownAt(0) /\ files'[e.num] = files[e.num]
      BY <2>4, LevelsHaveZero DEF KnownAt
    <3>2. ASSUME NEW m \in Levels, NEW g \in KnownAt(m), g.num # e.num
          PROVE  Newer(files', e, g)
      <4>1. Newer(files, e, g)
        BY <1>1, <3>2 DEF FlushedIsNewest
      <4> HIDE DEF e
      <4> QED BY <2>4, <3>1, <4>1, SameNewer
    <3>3. CASE f \in Files(cedit'.adds)
      <4>1. \A h \in Sources(task) : Newer(files', e, h)
        <5> SUFFICES ASSUME NEW h \in Sources(task) PROVE Newer(files', e, h)
          OBVIOUS
        <5>1. PICK m \in Levels : h \in Files(levels[m]) /\ h \in KnownAt(m)
          BY <2>5
        <5>2. h.num # e.num
          BY <5>1 DEF FilesInv, AddedIsNew
        <5> QED BY <3>2, <5>1, <5>2
      <4>2. TakenFromSources(files', task, f)
        BY <2>6, <3>3
      <4> HIDE DEF e
      <4> QED BY <4>1, <4>2 DEF Newer, TakenFromSources
    <3> QED BY <2>2, <3>2, <3>3
  <2> QED BY <1>1, <2>1, <2>7, <2>8 DEF NewestInv, UsedIsPrefix
<1>4. CASE \E D \in (SUBSET Keys) \ {{}} : \E c \in [D -> Contents] : FlushTable(D, c)
  <2>a. PICK D \in (SUBSET Keys) \ {{}} : \E c \in [D -> Contents] : FlushTable(D, c)
    BY <1>4
  <2>1. PICK c \in [D -> Contents] : FlushTable(D, c)
    BY <2>a
  <2> DEFINE n == Cardinality(used)
             s == n + 1
             table == [k \in D |-> [seq |-> s, val |-> c[k]]]
             e == MetaOf(nextFile, table)
  <2>2. NextNumbers = {s}
    BY DEF NextNumbers
  <2>3. /\ fpc = "idle" /\ fpc' = "log" /\ levels' = levels /\ manifest' = manifest
        /\ cpc' = cpc /\ cedit' = cedit
        /\ used' = used \cup {s} /\ files' = WithFile(nextFile, table)
        /\ fedit' = [dels |-> << >>, level |-> 0, adds |-> <<e>>, next |-> nextFile + 1]
    BY <2>1, <2>2 DEF FlushTable, compactVars
  <2>4. DOMAIN table = D /\ \A k \in D : table[k].seq = s
    OBVIOUS
  <2>5. e.num = nextFile /\ files'[nextFile] = table /\ fedit'.adds = <<e>> /\ fedit'.adds[1] = e
    BY <2>3 DEF MetaOf, WithFile
  <2> HIDE DEF table, e
  <2>6. n \in Nat /\ Cardinality(used') = n + 1 /\ used' = 1..(n + 1)
    <3>1. n \in Nat /\ used = 1..n
      BY <1>1 DEF UsedIsPrefix
    <3>2. used' = 1..(n + 1)
      BY <2>3, <3>1
    <3> HIDE DEF n
    <3>3. Cardinality(1..(n + 1)) = n + 1
      <4>1. 1 \in Int /\ n + 1 \in Int /\ n + 1 >= 1
        BY <3>1
      <4>2. Cardinality(1..(n + 1)) = IF 1 > n + 1 THEN 0 ELSE (n + 1) - 1 + 1
        BY <4>1, FS_Interval
      <4> QED BY <3>1, <4>2
    <3> QED BY <3>1, <3>2, <3>3
  <2>7. \A l \in Levels : KnownAt(l)' = KnownAt(l) \cup (IF l = 0 THEN {e} ELSE {})
    BY <2>3, <2>5 DEF KnownAt, Flushing, Merged
  <2>8. \A l \in Levels : \A f \in KnownAt(l) : files'[f.num] = files[f.num]
    BY <2>7, KnownSame
  <2>9. \A l \in Levels : \A f \in KnownAt(l) : \A k \in DOMAIN files[f.num] :
           files[f.num][k].seq \in Nat /\ files[f.num][k].seq <= n
    <3> SUFFICES ASSUME NEW l \in Levels, NEW f \in KnownAt(l), NEW k \in DOMAIN files[f.num]
                 PROVE  files[f.num][k].seq \in Nat /\ files[f.num][k].seq <= n
      OBVIOUS
    <3>1. IsTable(files[f.num])
      BY DEF FilesInv, KnownOnDisk, CompactionTypes
    <3> QED BY <1>1, <3>1, EntryOfTable DEF KnownSeqs
  <2> HIDE DEF n
  <2>10. KnownSeqs'
    <3> SUFFICES ASSUME NEW l \in Levels, NEW f \in KnownAt(l)', NEW k \in DOMAIN files'[f.num]
                 PROVE  files'[f.num][k].seq <= n + 1
      BY <2>6 DEF KnownSeqs
    <3>1. CASE f \in KnownAt(l)
      <4>1. files'[f.num] = files[f.num]
        BY <2>8, <3>1
      <4>2. files[f.num][k].seq \in Nat /\ files[f.num][k].seq <= n
        BY <2>9, <3>1, <4>1
      <4> QED BY <2>6, <4>1, <4>2
    <3>2. CASE f = e
      <4>1. k \in D /\ files'[f.num][k].seq = n + 1
        BY <2>4, <2>5, <3>2
      <4> QED BY <2>6, <4>1
    <3> QED BY <2>7, <3>1, <3>2
  <2>11. FlushedIsNewest'
    <3> SUFFICES ASSUME NEW l \in Levels, NEW f \in KnownAt(l)', f.num # e.num
                 PROVE  Newer(files', e, f)
      BY <2>5 DEF FlushedIsNewest
    <3>1. f \in KnownAt(l) /\ files'[f.num] = files[f.num]
      BY <2>7, <2>8
    <3>2. ASSUME NEW k \in Keys, k \in DOMAIN files'[e.num], k \in DOMAIN files'[f.num]
          PROVE  files'[e.num][k].seq > files'[f.num][k].seq
      <4>1. files'[e.num][k].seq = n + 1
        BY <2>4, <2>5, <3>2
      <4>2. files'[f.num][k].seq \in Nat /\ files'[f.num][k].seq <= n
        BY <2>9, <3>1, <3>2
      <4> QED BY <2>6, <4>1, <4>2
    <3> QED BY <3>2 DEF Newer
  <2> QED BY <2>6, <2>10, <2>11 DEF NewestInv, UsedIsPrefix
<1> QED BY <1>2, <1>3, <1>4, FilesStep

LEMMA NewestIsInvariant ==
    ASSUME SlowWriters = FALSE
    PROVE  Spec => []NewestInv
BY NewestInit, NewestStep, FilesAreKnown, OutputsAreMerges, PTL DEF Spec

OrderInv == Ordered(files, levels) /\ Ordered(files, manifest.levels)

LEMMA OrderInit == Init => OrderInv
<1> SUFFICES ASSUME Init PROVE OrderInv
  OBVIOUS
<1>1. levels = EmptyLevels /\ manifest.levels = EmptyLevels
  BY DEF Init, EmptyVersion
<1>2. \A l \in Levels : Files(EmptyLevels[l]) = {} /\ Len(EmptyLevels[l]) = 0
  BY EmptyHasNoFiles DEF EmptyLevels
<1> QED BY <1>1, <1>2, LevelsHaveZero DEF OrderInv, Ordered

\* What the merge under way has written comes from the files it merges.
LEMMA OutputTaken ==
    ASSUME FilesInv, OutputIsMerge, Merged
    PROVE  cedit.adds # << >> => /\ cedit.level = task.level + 1 /\ Len(cedit.adds) = 1
                                 /\ TakenFromSources(files, task, cedit.adds[1])
<1> SUFFICES ASSUME cedit.adds # << >>
             PROVE  /\ cedit.level = task.level + 1 /\ Len(cedit.adds) = 1
                    /\ TakenFromSources(files, task, cedit.adds[1])
  OBVIOUS
<1>1. Len(cedit.adds) = 1 /\ cedit.level = task.level + 1
  BY OutputRange
<1>2. IsMergeOf(files, task, files[cedit.adds[1].num])
  BY DEF OutputIsMerge
<1> QED BY <1>1, <1>2 DEF IsMergeOf, TakenFromSources

\* The files of the versions keep the ranges of their tables.
LEMMA VersionRangesHold ==
    ASSUME FilesInv
    PROVE  RangesHold(files, levels) /\ RangesHold(files, manifest.levels)
<1>1. \A l \in Levels : \A f \in Files(levels[l]) \cup Files(manifest.levels[l]) : f \in KnownAt(l)
  BY DEF KnownAt
<1> QED BY <1>1, RangeOfKnown DEF RangesHold

\* A merge under way merges files of what is logged, where it found them.
LEMMA TaskInManifest ==
    ASSUME FilesInv, VersionIsLogged, cpc \in {"run", "log"}
    PROVE  TaskIn(task, manifest.levels)
<1>1. TaskIn(task, levels) /\ levels \in LevelMaps
  BY DEF FilesInv, TaskIsCurrent, CompactionTypes, Compacting
<1>2. CASE fpc # "apply"
  BY <1>1, <1>2 DEF VersionIsLogged, LoggedVersion
<1>3. CASE fpc = "apply"
  <2>1. IsFlushEdit(fedit) /\ manifest.levels = Apply(levels, fedit)
    BY <1>3 DEF FilesInv, CompactionTypes, Flushing, VersionIsLogged, LoggedVersion
  <2> QED BY <1>1, <2>1, TaskStays
<1> QED BY <1>2, <1>3

\* A file that an edit leaves on a level was there or is added.
LEMMA AppliedFile ==
    ASSUME NEW lv \in LevelMaps, NEW edit \in Edits, NEW l \in Levels,
           NEW f \in Files(Apply(lv, edit)[l])
    PROVE  f \in Files(lv[l]) \/ f \in Files(edit.adds)
<1>1. Files(Apply(lv, edit)[l]) =
         {g \in Files(lv[l]) : ~ Deletes(edit, l, g.num)}
            \cup (IF l = edit.level THEN Files(edit.adds) ELSE {})
  BY ApplyFiles
<1> QED BY <1>1

\* The table of a flush that is not logged yet is newer than those of what is logged.
LEMMA FlushIsNewerThanManifest ==
    ASSUME FilesInv, VersionIsLogged, NewestInv, fpc = "log"
    PROVE  \A f \in AllFiles(manifest.levels) : Newer(files, fedit.adds[1], f)
<1> SUFFICES ASSUME NEW l \in Levels, NEW f \in Files(manifest.levels[l])
             PROVE  Newer(files, fedit.adds[1], f)
  BY DEF AllFiles
<1>1. Flushing /\ AddedIsNew /\ levels \in LevelMaps
  BY DEF Flushing, FilesInv, CompactionTypes
<1>2. f.num # fedit.adds[1].num
  <2>1. CASE cpc # "apply"
    <3>1. manifest.levels = levels
      BY <2>1 DEF VersionIsLogged, LoggedVersion
    <3> QED BY <1>1, <3>1 DEF AddedIsNew
  <2>2. CASE cpc = "apply"
    <3>1. manifest.levels = Apply(levels, cedit) /\ Merged
      BY <2>2 DEF VersionIsLogged, LoggedVersion, Merged
    <3>2. levels \in LevelMaps /\ cedit \in Edits
      BY <1>1, <3>1 DEF FilesInv, CompactionTypes
    <3>3. f \in Files(levels[l]) \/ f \in Files(cedit.adds)
      BY <3>1, <3>2, AppliedFile
    <3> QED BY <1>1, <3>1, <3>3 DEF AddedIsNew
  <2> QED BY <2>1, <2>2
<1>3. f \in KnownAt(l)
  BY DEF KnownAt
<1> QED BY <1>1, <1>2, <1>3 DEF NewestInv, FlushedIsNewest

LEMMA FlushIsNewerThanVersion ==
    ASSUME FilesInv, NewestInv, Flushing
    PROVE  \A f \in AllFiles(levels) : Newer(files, fedit.adds[1], f)
<1> SUFFICES ASSUME NEW l \in Levels, NEW f \in Files(levels[l])
             PROVE  Newer(files, fedit.adds[1], f)
  BY DEF AllFiles
<1>1. f.num # fedit.adds[1].num
  BY DEF FilesInv, AddedIsNew
<1>2. f \in KnownAt(l)
  BY DEF KnownAt
<1> QED BY <1>1, <1>2 DEF NewestInv, FlushedIsNewest

\* The tables of the next versions are as they were.
LEMMA VersionTablesSame ==
    ASSUME FilesInv, FilesInv', [Next]_cvars
    PROVE  \A f \in AllFiles(levels') \cup AllFiles(manifest'.levels) : files'[f.num] = files[f.num]
<1> SUFFICES ASSUME NEW l \in Levels, NEW f \in Files(levels'[l]) \cup Files(manifest'.levels[l])
             PROVE  files'[f.num] = files[f.num]
  BY DEF AllFiles
<1>1. f \in KnownAt(l)'
  BY DEF KnownAt
<1>2. CASE KnownShrinks
  BY <1>1, <1>2, KnownSame DEF KnownShrinks
<1>3. CASE RunCompaction \/ \E D \in (SUBSET Keys) \ {{}} : \E c \in [D -> Contents] : FlushTable(D, c)
  <2>1. levels' = levels /\ manifest' = manifest
    BY <1>3 DEF RunCompaction, FlushTable
  <2>2. f \in KnownAt(l)
    BY <2>1 DEF KnownAt
  <2> QED BY <1>1, <2>2, KnownSame
<1> QED BY <1>2, <1>3, FilesStep

LEMMA OrderStep ==
    ASSUME MaxFailures = 0, FilesInv, FilesInv', OutputIsMerge, VersionIsLogged, LevelsDisjoint,
           NewestInv, OrderInv, [Next]_cvars
    PROVE  OrderInv'
<1>0. /\ levels \in LevelMaps /\ manifest.levels \in LevelMaps
      /\ Ordered(files, levels) /\ Ordered(files, manifest.levels)
      /\ Disjoint(levels) /\ Disjoint(manifest.levels)
      /\ RangesHold(files, levels) /\ RangesHold(files, manifest.levels)
  BY VersionRangesHold DEF FilesInv, CompactionTypes, OrderInv, LevelsDisjoint
<1>1. ASSUME Merged
      PROVE  /\ cedit \in Edits /\ cedit.dels = Deletions(task)
             /\ TaskIn(task, levels)
  BY <1>1 DEF FilesInv, CompactionTypes, TaskIsCurrent, Merged, Compacting
<1>2. Ordered(files, levels') /\ Ordered(files, manifest'.levels)
  <2>1. CASE UNCHANGED <<levels, manifest>>
    BY <1>0, <2>1
  <2>2. CASE FlushLogEdit
    <3>1. fpc = "log" /\ levels' = levels /\ manifest'.levels = Apply(manifest.levels, fedit)
      BY <2>2 DEF FlushLogEdit, versionVars, Logged
    <3>2. IsFlushEdit(fedit)
      BY <3>1 DEF FilesInv, CompactionTypes, Flushing
    <3>3. \A f \in AllFiles(manifest.levels) : Newer(files, fedit.adds[1], f)
      BY <3>1, FlushIsNewerThanManifest
    <3>4. Ordered(files, Apply(manifest.levels, fedit))
      BY <1>0, <3>2, <3>3, FlushOrdered
    <3> QED BY <1>0, <3>1, <3>4
  <2>3. CASE FlushApplyEdit
    <3>1. fpc = "apply" /\ levels' = Apply(levels, fedit) /\ manifest' = manifest
      BY <2>3 DEF FlushApplyEdit
    <3>2. Flushing /\ IsFlushEdit(fedit)
      BY <3>1 DEF FilesInv, CompactionTypes, Flushing
    <3>3. \A f \in AllFiles(levels) : Newer(files, fedit.adds[1], f)
      BY <3>2, FlushIsNewerThanVersion
    <3>4. Ordered(files, Apply(levels, fedit))
      BY <1>0, <3>2, <3>3, FlushOrdered
    <3> QED BY <1>0, <3>1, <3>4
  <2>4. CASE LogCompaction
    <3>1. cpc = "log" /\ levels' = levels /\ manifest'.levels = Apply(manifest.levels, cedit)
      BY <2>4 DEF LogCompaction, versionVars, Logged
    <3>2. Merged /\ TaskIn(task, manifest.levels)
      BY <3>1, TaskInManifest DEF Merged
    <3>3. Ordered(files, Apply(manifest.levels, cedit))
      BY <1>0, <1>1, <3>2, OutputTaken, MergeOrdered
    <3> QED BY <1>0, <3>1, <3>3
  <2>5. CASE ApplyCompaction
    <3>1. cpc = "apply" /\ levels' = Apply(levels, cedit) /\ manifest' = manifest
      BY <2>5 DEF ApplyCompaction
    <3>2. Merged
      BY <3>1 DEF Merged
    <3>3. Ordered(files, Apply(levels, cedit))
      BY <1>0, <1>1, <3>2, OutputTaken, MergeOrdered
    <3> QED BY <1>0, <3>1, <3>3
  <2>6. CASE CrashAndOpen
    BY <1>0, <2>6 DEF CrashAndOpen
  <2>7. \/ UNCHANGED <<levels, manifest>>
        \/ FlushLogEdit \/ FlushApplyEdit \/ LogCompaction \/ ApplyCompaction \/ CrashAndOpen
    BY WhatChangesVersions
  <2> QED BY <2>1, <2>2, <2>3, <2>4, <2>5, <2>6, <2>7
<1>3. \A f \in AllFiles(levels') \cup AllFiles(manifest'.levels) : files'[f.num] = files[f.num]
  BY VersionTablesSame
<1>4. Ordered(files', levels')
  BY <1>2, <1>3, SameOrdered
<1>5. Ordered(files', manifest'.levels)
  BY <1>2, <1>3, SameOrdered
<1> QED BY <1>4, <1>5 DEF OrderInv

LEMMA OrderIsInvariant ==
    ASSUME MaxFailures = 0, SlowWriters = FALSE
    PROVE  Spec => []OrderInv
BY OrderInit, OrderStep, FilesAreKnown, OutputsAreMerges, ManifestIsTheVersion,
   LevelsStayDisjoint, NewestIsInvariant, PTL DEF Spec

\* A file searched before another has newer entries.
LEMMA SearchedBeforeIsNewer ==
    ASSUME FilesInv, LevelsDisjoint, OrderInv, NEW f, NEW g, <<f, g>> \in SearchedBefore(levels)
    PROVE  Newer(files, f, g)
<1>1. levels \in LevelMaps /\ Ordered(files, levels) /\ Disjoint(levels) /\ RangesHold(files, levels)
  BY VersionRangesHold DEF FilesInv, CompactionTypes, OrderInv, LevelsDisjoint
<1>2. PICK l \in Levels, m \in Levels :
        \E i \in 1..Len(levels[l]), j \in 1..Len(levels[m]) :
           /\ <<f, g>> = <<levels[l][i], levels[m][j]>>
           /\ \/ l < m
              \/ l = m /\ l = 0 /\ j < i
              \/ l = m /\ l # 0 /\ i < j
  BY DEF SearchedBefore
<1>3. PICK i \in 1..Len(levels[l]), j \in 1..Len(levels[m]) :
           /\ f = levels[l][i] /\ g = levels[m][j]
           /\ \/ l < m
              \/ l = m /\ l = 0 /\ j < i
              \/ l = m /\ l # 0 /\ i < j
  BY <1>2
<1>4. f \in Files(levels[l]) /\ g \in Files(levels[m])
  BY <1>3 DEF Files
<1>5. CASE l < m
  BY <1>1, <1>4, <1>5 DEF Ordered
<1>6. CASE l = m /\ l = 0 /\ j < i
  BY <1>1, <1>3, <1>6 DEF Ordered
<1>7. CASE l = m /\ l # 0 /\ i < j
  <2>1. f # g
    <3>1. f.hi < g.lo
      BY <1>1, <1>3, <1>7 DEF Disjoint
    <3>2. f \in KnownAt(l) /\ f \in Meta
      BY <1>4, RangeOfKnown DEF KnownAt
    <3>3. f.lo <= f.hi /\ f.lo \in Nat /\ f.hi \in Nat
      BY <3>2, RangeOfKnown, MetaFields
    <3> QED BY <3>1, <3>3
  <2> QED BY <1>1, <1>4, <1>7, <2>1, NoCommonKey
<1> QED BY <1>3, <1>5, <1>6, <1>7

\* NewerAbove, when no write of an edit fails and no writer is overtaken by a flush: what a
\* merge moves down a level stays below everything newer, whatever flushes and crashes come
\* in between, so that get may return the first entry it finds.
THEOREM NewerIsAbove ==
    ASSUME MaxFailures = 0, SlowWriters = FALSE
    PROVE  Spec => []NewerAbove
<1>1. FilesInv /\ LevelsDisjoint /\ OrderInv => NewerAbove
  <2> SUFFICES ASSUME FilesInv, LevelsDisjoint, OrderInv, NEW k \in Keys,
                      NEW i \in 1..Len(SearchOrder(levels, k)), NEW j \in 1..Len(SearchOrder(levels, k)),
                      i < j, k \in DOMAIN files[SearchOrder(levels, k)[i].num],
                      k \in DOMAIN files[SearchOrder(levels, k)[j].num]
               PROVE  files[SearchOrder(levels, k)[i].num][k].seq
                        > files[SearchOrder(levels, k)[j].num][k].seq
    BY DEF NewerAbove
  <2> DEFINE fs == SearchOrder(levels, k)
  <2>1. levels \in LevelMaps
    BY DEF FilesInv, CompactionTypes
  <2>2. InOrder(fs, SearchedBefore(levels))
    BY <2>1, SearchIs
  <2> HIDE DEF fs
  <2>3. <<fs[i], fs[j]>> \in SearchedBefore(levels)
    BY <2>2 DEF InOrder, fs
  <2>4. Newer(files, fs[i], fs[j])
    BY <2>3, SearchedBeforeIsNewer
  <2> QED BY <2>4 DEF Newer, fs
<1> QED BY <1>1, FilesAreKnown, LevelsStayDisjoint, OrderIsInvariant, PTL

-----------------------------------------------------------------------------
(* A get finds what its version has                                        *)

\* In the directory fl, e is the entry of k in the first table of fs that has one.
Hits(fl, f, k) == f.num \in DOMAIN fl /\ k \in DOMAIN fl[f.num]

IsFound(fl, fs, k, e) ==
    \/ e = NoEntry /\ \A i \in 1..Len(fs) : ~ Hits(fl, fs[i], k)
    \/ \E i \in 1..Len(fs) : /\ Hits(fl, fs[i], k) /\ e = fl[fs[i].num][k]
                             /\ \A j \in 1..Len(fs) : j < i => ~ Hits(fl, fs[j], k)

LEMMA FindInIs ==
    ASSUME NEW fs \in Seq(Meta), NEW k
    PROVE  IsFound(files, fs, k, FindIn(fs, k))
<1> DEFINE H == {i \in 1..Len(fs) : Hits(files, fs[i], k)}
<1>1. FindIn(fs, k) = IF H # {} THEN files[fs[SetMin(H)].num][k] ELSE NoEntry
  BY DEF FindIn, Hits
<1>2. H \in SUBSET Nat /\ \A i \in 1..Len(fs) : i \in H <=> Hits(files, fs[i], k)
  OBVIOUS
<1>3. H \subseteq 1..Len(fs)
  OBVIOUS
<1> HIDE DEF H
<1>4. CASE H = {}
  BY <1>1, <1>2, <1>4 DEF IsFound
<1>5. CASE H # {}
  <2>1. SetMin(H) \in H /\ \A x \in H : SetMin(H) <= x
    BY <1>2, <1>5, SetMinIs
  <2>2. \A j \in 1..Len(fs) : j < SetMin(H) => j \notin H
    <3> SUFFICES ASSUME NEW j \in 1..Len(fs), j < SetMin(H), j \in H PROVE FALSE
      OBVIOUS
    <3>1. SetMin(H) <= j /\ SetMin(H) \in Nat /\ j \in Nat
      BY <1>2, <2>1
    <3> QED BY <3>1
  <2> QED BY <1>1, <1>2, <1>3, <1>5, <2>1, <2>2 DEF IsFound
<1> QED BY <1>4, <1>5

\* The same tables have the number n in two directories.
SameAt(fl, gl, n) == (n \in DOMAIN gl <=> n \in DOMAIN fl) /\ (n \in DOMAIN fl => gl[n] = fl[n])

LEMMA SameFound ==
    ASSUME NEW fl, NEW gl, NEW fs, NEW k, NEW e, IsFound(fl, fs, k, e),
           \A f \in Files(fs) : SameAt(fl, gl, f.num)
    PROVE  IsFound(gl, fs, k, e)
<1>1. \A i \in 1..Len(fs) : /\ Hits(gl, fs[i], k) <=> Hits(fl, fs[i], k)
                            /\ Hits(fl, fs[i], k) => gl[fs[i].num] = fl[fs[i].num]
  BY DEF Hits, Files, SameAt
<1> QED BY <1>1 DEF IsFound

LEMMA FoundInNone ==
    ASSUME NEW fl, NEW k, NEW e, IsFound(fl, << >>, k, e)
    PROVE  e = NoEntry
BY DEF IsFound

LEMMA FoundInHead ==
    ASSUME NEW fl, NEW fs \in Seq(Meta), fs # << >>, NEW k, NEW e, IsFound(fl, fs, k, e),
           Hits(fl, Head(fs), k)
    PROVE  e = fl[Head(fs).num][k]
<1>1. Head(fs) = fs[1] /\ 1 \in 1..Len(fs)
  BY TailOf
<1>2. PICK i \in 1..Len(fs) : /\ e = fl[fs[i].num][k]
                              /\ \A j \in 1..Len(fs) : j < i => ~ Hits(fl, fs[j], k)
  BY <1>1 DEF IsFound
<1>3. ~ (1 < i)
  BY <1>1, <1>2
<1>4. i = 1
  BY <1>3
<1> QED BY <1>1, <1>2, <1>4

LEMMA FoundInTail ==
    ASSUME NEW fl, NEW fs \in Seq(Meta), fs # << >>, NEW k, NEW e, IsFound(fl, fs, k, e),
           ~ Hits(fl, Head(fs), k)
    PROVE  IsFound(fl, Tail(fs), k, e)
<1> DEFINE t == Tail(fs)
<1>1. /\ Head(fs) = fs[1] /\ Len(t) = Len(fs) - 1 /\ Len(fs) \in Nat /\ Len(fs) >= 1
      /\ \A i \in 1..Len(t) : t[i] = fs[i + 1] /\ i + 1 \in 1..Len(fs)
  BY TailOf
<1> HIDE DEF t
<1>2. CASE e = NoEntry /\ \A i \in 1..Len(fs) : ~ Hits(fl, fs[i], k)
  <2>1. \A i \in 1..Len(t) : ~ Hits(fl, t[i], k)
    BY <1>1, <1>2
  <2> QED BY <1>2, <2>1 DEF IsFound, t
<1>3. ASSUME NEW i \in 1..Len(fs), Hits(fl, fs[i], k), e = fl[fs[i].num][k],
             \A j \in 1..Len(fs) : j < i => ~ Hits(fl, fs[j], k)
      PROVE  IsFound(fl, t, k, e)
  <2>1. i # 1
    BY <1>1, <1>3
  <2>2. i - 1 \in 1..Len(t) /\ (i - 1) + 1 = i
    BY <1>1, <2>1
  <2>3. t[i - 1] = fs[i]
    BY <1>1, <2>2
  <2>4. \A j \in 1..Len(t) : j < i - 1 => ~ Hits(fl, t[j], k)
    <3> SUFFICES ASSUME NEW j \in 1..Len(t), j < i - 1 PROVE ~ Hits(fl, t[j], k)
      OBVIOUS
    <3>1. j + 1 \in 1..Len(fs) /\ t[j] = fs[j + 1] /\ j + 1 < i
      BY <1>1
    <3> QED BY <1>3, <3>1
  <2> QED BY <1>3, <2>2, <2>3, <2>4 DEF IsFound
<1> QED BY <1>2, <1>3 DEF IsFound, t

LEMMA FilesOfTail ==
    ASSUME NEW fs \in Seq(Meta), fs # << >>
    PROVE  /\ Tail(fs) \in Seq(Meta) /\ Files(Tail(fs)) \subseteq Files(fs)
           /\ Head(fs) \in Files(fs)
<1>1. /\ Head(fs) = fs[1] /\ 1 \in 1..Len(fs) /\ Tail(fs) \in Seq(Meta)
      /\ \A i \in 1..Len(Tail(fs)) : Tail(fs)[i] = fs[i + 1] /\ i + 1 \in 1..Len(fs)
  BY TailOf
<1> QED BY <1>1 DEF Files

\* A get at pc, with the tables fs to search, that found res, for the key k whose entry in
\* its version is e; gone tells whether a table was removed under it.
OneGet(fl, next, pc, fs, res, k, e, gone) ==
    /\ fs \in Seq(Meta) /\ \A f \in Files(fs) : f.num < next
    /\ pc = "open" => fs # << >>
    /\ pc \in {"next", "open"} /\ ~ gone =>
          /\ res = NoEntry /\ IsFound(fl, fs, k, e)
          /\ \A f \in Files(fs) : f.num \in DOMAIN fl
    /\ pc = "done" /\ ~ gone => res = e

Maps(f) == DOMAIN f = Getters /\ f = [g \in Getters |-> f[g]]

GetTypes == Maps(rpc) /\ Maps(todo) /\ Maps(result) /\ Maps(want) /\ Maps(due) /\ Maps(missed)

GetIs(g) == OneGet(files, nextFile, rpc[g], todo[g], result[g], want[g], due[g], missed[g])

GetInv == GetTypes /\ \A g \in Getters : GetIs(g)

\* Numbers given out later are not those of its tables.
LEMMA GetKeeps ==
    ASSUME NEW fl, NEW next \in Nat, NEW pc, NEW fs, NEW res, NEW k, NEW e, NEW gone,
           OneGet(fl, next, pc, fs, res, k, e, gone),
           NEW gl, NEW mext \in Nat, next <= mext,
           gone \/ \A n \in Nat : n < next /\ (\E f \in Files(fs) : f.num = n) => SameAt(fl, gl, n)
    PROVE  OneGet(gl, mext, pc, fs, res, k, e, gone)
<1>1. fs \in Seq(Meta) /\ \A f \in Files(fs) : f \in Meta /\ f.num \in Nat /\ f.num < next
  <2>1. fs \in Seq(Meta) /\ \A f \in Files(fs) : f.num < next
    BY DEF OneGet
  <2>2. \A f \in Files(fs) : f \in Meta
    BY <2>1 DEF Files
  <2> QED BY <2>1, <2>2, MetaFields
<1>2. \A f \in Files(fs) : f.num < mext
  BY <1>1
<1>3. ~ gone => \A f \in Files(fs) : SameAt(fl, gl, f.num)
  BY <1>1
<1>4. ~ gone /\ IsFound(fl, fs, k, e) => IsFound(gl, fs, k, e)
  BY <1>3, SameFound
<1>5. ~ gone => \A f \in Files(fs) : f.num \in DOMAIN fl => f.num \in DOMAIN gl
  BY <1>3 DEF SameAt
<1> QED BY <1>1, <1>2, <1>4, <1>5 DEF OneGet

LEMMA GetInit == Init => GetInv
<1> SUFFICES ASSUME Init PROVE GetInv
  OBVIOUS
<1>1. GetTypes
  BY DEF Init, GetTypes, Maps
<1>2. ASSUME NEW g \in Getters PROVE GetIs(g)
  <2>1. rpc[g] = "idle" /\ todo[g] = << >>
    BY DEF Init
  <2>2. << >> \in Seq(Meta) /\ Files(<< >>) = {}
    BY EmptyHasNoFiles
  <2> QED BY <2>1, <2>2 DEF GetIs, OneGet
<1> QED BY <1>1, <1>2 DEF GetInv

\* A step beside the gets, which removes no table and gives out new numbers alone.
LEMMA GetsBeside ==
    ASSUME FilesInv, GetInv, UNCHANGED getVars, nextFile' \in Nat, nextFile <= nextFile',
           \/ files' = files
           \/ \E table : files' = WithFile(nextFile, table)
    PROVE  GetInv'
<1>1. /\ rpc' = rpc /\ todo' = todo /\ result' = result /\ want' = want /\ due' = due
      /\ missed' = missed
  BY DEF getVars
<1>2. nextFile \in Nat
  BY DEF FilesInv, CompactionTypes
<1>3. \A n \in Nat : n < nextFile => SameAt(files, files', n)
  BY <1>2 DEF WithFile, SameAt
<1>4. ASSUME NEW g \in Getters PROVE GetIs(g)'
  <2>1. OneGet(files, nextFile, rpc[g], todo[g], result[g], want[g], due[g], missed[g])
    BY DEF GetInv, GetIs
  <2>2. OneGet(files', nextFile', rpc[g], todo[g], result[g], want[g], due[g], missed[g])
    BY <1>2, <1>3, <2>1, GetKeeps
  <2> QED BY <1>1, <2>2 DEF GetIs
<1> QED BY <1>1, <1>4 DEF GetInv, GetTypes

\* A step of one get leaves the others alone.
LEMMA OneStepOfGet ==
    ASSUME GetInv, NEW g \in Getters, files' = files, nextFile' = nextFile, GetTypes',
           \A h \in Getters \ {g} :
               /\ rpc'[h] = rpc[h] /\ todo'[h] = todo[h] /\ result'[h] = result[h]
               /\ want'[h] = want[h] /\ due'[h] = due[h] /\ missed'[h] = missed[h],
           OneGet(files, nextFile, rpc'[g], todo'[g], result'[g], want'[g], due'[g], missed'[g])
    PROVE  GetInv'
<1>1. ASSUME NEW h \in Getters PROVE GetIs(h)'
  <2>1. CASE h = g
    BY <2>1 DEF GetIs
  <2>2. CASE h # g
    <3>1. OneGet(files, nextFile, rpc[h], todo[h], result[h], want[h], due[h], missed[h])
      BY DEF GetInv, GetIs
    <3> QED BY <2>2, <3>1 DEF GetIs
  <2> QED BY <2>1, <2>2
<1> QED BY <1>1 DEF GetInv

LEMMA GetVersionGets ==
    ASSUME FilesInv, GetInv, NEW g \in Getters, NEW k \in Keys, GetVersion(g, k)
    PROVE  GetInv'
<1> DEFINE fs == SearchOrder(levels, k)
<1>1. /\ todo' = [todo EXCEPT ![g] = fs] /\ rpc' = [rpc EXCEPT ![g] = "next"]
      /\ result' = [result EXCEPT ![g] = NoEntry] /\ want' = [want EXCEPT ![g] = k]
      /\ due' = [due EXCEPT ![g] = FindIn(fs, k)] /\ missed' = [missed EXCEPT ![g] = FALSE]
      /\ files' = files /\ nextFile' = nextFile
  BY DEF GetVersion, versionVars, Find
<1>2. levels \in LevelMaps /\ GetTypes
  BY DEF FilesInv, CompactionTypes, GetInv
<1>3. fs \in Seq(Meta) /\ Files(fs) \subseteq AllFiles(levels)
  BY <1>2, SearchIs
<1> HIDE DEF fs
<1>4. ASSUME NEW f \in Files(fs) PROVE f.num < nextFile /\ f.num \in DOMAIN files
  <2>1. PICK l \in Levels : f \in Files(levels[l])
    BY <1>3 DEF AllFiles
  <2>2. f \in KnownAt(l)
    BY <2>1 DEF KnownAt
  <2> QED BY <2>2 DEF FilesInv, KnownOnDisk
<1>5. IsFound(files, fs, k, FindIn(fs, k))
  BY <1>3, FindInIs
<1>6. OneGet(files, nextFile, "next", fs, NoEntry, k, FindIn(fs, k), FALSE)
  BY <1>3, <1>4, <1>5 DEF OneGet
<1>7. GetTypes'
  BY <1>1, <1>2 DEF GetTypes, Maps
<1>8. /\ todo'[g] = fs /\ rpc'[g] = "next" /\ result'[g] = NoEntry /\ want'[g] = k
      /\ due'[g] = FindIn(fs, k) /\ missed'[g] = FALSE
  BY <1>1, <1>2 DEF GetTypes, Maps
<1>9. \A h \in Getters \ {g} :
         /\ rpc'[h] = rpc[h] /\ todo'[h] = todo[h] /\ result'[h] = result[h]
         /\ want'[h] = want[h] /\ due'[h] = due[h] /\ missed'[h] = missed[h]
  BY <1>1, <1>2 DEF GetTypes, Maps
<1>10. OneGet(files, nextFile, rpc'[g], todo'[g], result'[g], want'[g], due'[g], missed'[g])
  BY <1>6, <1>8
<1> QED BY <1>1, <1>7, <1>9, <1>10, OneStepOfGet

LEMMA GetExistsGets ==
    ASSUME GetInv, NEW g \in Getters, GetExists(g)
    PROVE  GetInv'
<1>1. /\ rpc[g] = "next" /\ result' = result /\ want' = want /\ due' = due /\ missed' = missed
      /\ files' = files /\ nextFile' = nextFile
  BY DEF GetExists, versionVars
<1>2. GetTypes
  BY DEF GetInv
<1>3. OneGet(files, nextFile, "next", todo[g], result[g], want[g], due[g], missed[g])
  BY <1>1 DEF GetInv, GetIs
<1>4. CASE todo[g] = << >> /\ rpc' = [rpc EXCEPT ![g] = "done"] /\ todo' = todo
  <2>1. GetTypes' /\ rpc'[g] = "done" /\ \A h \in Getters \ {g} : rpc'[h] = rpc[h]
    BY <1>1, <1>2, <1>4 DEF GetTypes, Maps
  <2>2. OneGet(files, nextFile, "done", todo[g], result[g], want[g], due[g], missed[g])
    <3>1. ~ missed[g] => result[g] = NoEntry /\ due[g] = NoEntry
      BY <1>3, <1>4, FoundInNone DEF OneGet
    <3> QED BY <1>3, <3>1 DEF OneGet
  <2> QED BY <1>1, <1>4, <2>1, <2>2, OneStepOfGet
<1>5. CASE todo[g] # << >> /\ rpc' = [rpc EXCEPT ![g] = "open"] /\ todo' = todo
  <2>1. GetTypes' /\ rpc'[g] = "open" /\ \A h \in Getters \ {g} : rpc'[h] = rpc[h]
    BY <1>1, <1>2, <1>5 DEF GetTypes, Maps
  <2>2. OneGet(files, nextFile, "open", todo[g], result[g], want[g], due[g], missed[g])
    BY <1>3, <1>5 DEF OneGet
  <2> QED BY <1>1, <1>5, <2>1, <2>2, OneStepOfGet
<1>6. CASE /\ todo[g] # << >> /\ Head(todo[g]).num \notin DOMAIN files
           /\ todo' = [todo EXCEPT ![g] = Tail(@)] /\ rpc' = rpc
  <2>1. /\ GetTypes' /\ todo'[g] = Tail(todo[g])
        /\ \A h \in Getters \ {g} : todo'[h] = todo[h]
    BY <1>1, <1>2, <1>6 DEF GetTypes, Maps
  <2>2. todo[g] \in Seq(Meta)
    BY <1>3 DEF OneGet
  <2>3. /\ Tail(todo[g]) \in Seq(Meta) /\ Files(Tail(todo[g])) \subseteq Files(todo[g])
        /\ Head(todo[g]) \in Files(todo[g])
    BY <1>6, <2>2, FilesOfTail
  <2>4. missed[g]
    BY <1>3, <1>6, <2>3 DEF OneGet
  <2>5. OneGet(files, nextFile, "next", Tail(todo[g]), result[g], want[g], due[g], missed[g])
    BY <1>3, <2>3, <2>4 DEF OneGet
  <2> QED BY <1>1, <1>6, <2>1, <2>5, OneStepOfGet
<1> QED BY <1>4, <1>5, <1>6 DEF GetExists

LEMMA GetOpenGets ==
    ASSUME GetInv, NEW g \in Getters, GetOpen(g)
    PROVE  GetInv'
<1> DEFINE fs == todo[g]
           n == Head(fs).num
           k == want[g]
<1>1. /\ rpc[g] = "open" /\ want' = want /\ due' = due /\ missed' = missed
      /\ files' = files /\ nextFile' = nextFile
  BY DEF GetOpen, versionVars
<1>2. GetTypes
  BY DEF GetInv
<1>3. OneGet(files, nextFile, "open", fs, result[g], k, due[g], missed[g])
  BY <1>1 DEF GetInv, GetIs
<1>4. fs \in Seq(Meta) /\ fs # << >>
  BY <1>3 DEF OneGet
<1>5. /\ Tail(fs) \in Seq(Meta) /\ Files(Tail(fs)) \subseteq Files(fs) /\ Head(fs) \in Files(fs)
  BY <1>4, FilesOfTail
<1>6. CASE n \notin DOMAIN files /\ rpc' = [rpc EXCEPT ![g] = "failed"] /\ todo' = todo /\ result' = result
  <2>1. GetTypes' /\ rpc'[g] = "failed" /\ \A h \in Getters \ {g} : rpc'[h] = rpc[h]
    BY <1>1, <1>2, <1>6 DEF GetTypes, Maps
  <2>2. OneGet(files, nextFile, "failed", fs, result[g], k, due[g], missed[g])
    BY <1>3 DEF OneGet
  <2> QED BY <1>1, <1>6, <2>1, <2>2, OneStepOfGet
<1>7. CASE /\ n \in DOMAIN files /\ k \in DOMAIN files[n]
           /\ result' = [result EXCEPT ![g] = files[n][k]]
           /\ rpc' = [rpc EXCEPT ![g] = "done"]
           /\ todo' = [todo EXCEPT ![g] = << >>]
  <2>1. /\ GetTypes' /\ rpc'[g] = "done" /\ result'[g] = files[n][k] /\ todo'[g] = << >>
        /\ \A h \in Getters \ {g} :
              rpc'[h] = rpc[h] /\ result'[h] = result[h] /\ todo'[h] = todo[h]
    BY <1>1, <1>2, <1>7 DEF GetTypes, Maps
  <2>2. ~ missed[g] => due[g] = files[n][k]
    <3>1. Hits(files, Head(fs), k)
      BY <1>7 DEF Hits
    <3>2. ~ missed[g] => IsFound(files, fs, k, due[g])
      BY <1>3 DEF OneGet
    <3> HIDE DEF fs, k
    <3>3. ~ missed[g] => due[g] = files[Head(fs).num][k]
      BY <1>4, <3>1, <3>2, FoundInHead
    <3> QED BY <3>3
  <2>3. << >> \in Seq(Meta) /\ Files(<< >>) = {}
    BY EmptyHasNoFiles
  <2>4. OneGet(files, nextFile, "done", << >>, files[n][k], k, due[g], missed[g])
    BY <2>2, <2>3 DEF OneGet
  <2> QED BY <1>1, <1>7, <2>1, <2>4, OneStepOfGet
<1>8. CASE /\ n \in DOMAIN files /\ k \notin DOMAIN files[n]
           /\ todo' = [todo EXCEPT ![g] = Tail(@)] /\ rpc' = [rpc EXCEPT ![g] = "next"]
           /\ result' = result
  <2>1. /\ GetTypes' /\ rpc'[g] = "next" /\ todo'[g] = Tail(fs)
        /\ \A h \in Getters \ {g} : rpc'[h] = rpc[h] /\ todo'[h] = todo[h]
    BY <1>1, <1>2, <1>8 DEF GetTypes, Maps
  <2>2. ~ missed[g] => IsFound(files, Tail(fs), k, due[g])
    <3>1. ~ Hits(files, Head(fs), k)
      BY <1>8 DEF Hits
    <3>2. ~ missed[g] => IsFound(files, fs, k, due[g])
      BY <1>3 DEF OneGet
    <3> HIDE DEF fs, k
    <3> QED BY <1>4, <3>1, <3>2, FoundInTail
  <2>3. OneGet(files, nextFile, "next", Tail(fs), result[g], k, due[g], missed[g])
    <3> HIDE DEF fs
    <3> QED BY <1>3, <1>5, <2>2 DEF OneGet
  <2> QED BY <1>1, <1>8, <2>1, <2>3, OneStepOfGet
<1> QED BY <1>6, <1>7, <1>8 DEF GetOpen

LEMMA RemoveObsoleteGets ==
    ASSUME FilesInv, GetInv, RemoveObsolete
    PROVE  GetInv'
<1> DEFINE n == Head(obsolete)
<1>1. /\ files' = [m \in DOMAIN files \ {n} |-> files[m]]
      /\ missed' = [g \in Getters |-> missed[g] \/ \E i \in 1..Len(todo[g]) : todo[g][i].num = n]
      /\ nextFile' = nextFile
      /\ rpc' = rpc /\ todo' = todo /\ result' = result /\ want' = want /\ due' = due
  BY DEF RemoveObsolete, versionVars
<1>2. GetTypes /\ nextFile \in Nat
  BY DEF GetInv, FilesInv, CompactionTypes
<1>3. GetTypes'
  BY <1>1, <1>2 DEF GetTypes, Maps
<1> HIDE DEF n
<1>4. ASSUME NEW g \in Getters PROVE GetIs(g)'
  <2>1. OneGet(files, nextFile, rpc[g], todo[g], result[g], want[g], due[g], missed[g])
    BY DEF GetInv, GetIs
  <2>2. /\ missed[g] => missed'[g]
        /\ ~ missed'[g] => ~ missed[g] /\ \A f \in Files(todo[g]) : f.num # n
    BY <1>1 DEF Files
  <2>3. OneGet(files, nextFile, rpc[g], todo[g], result[g], want[g], due[g], missed'[g])
    BY <2>1, <2>2 DEF OneGet
  <2>4. missed'[g] \/ \A m \in Nat : m < nextFile /\ (\E f \in Files(todo[g]) : f.num = m) =>
                          SameAt(files, files', m)
    BY <1>1, <2>2 DEF SameAt
  <2>5. OneGet(files', nextFile, rpc[g], todo[g], result[g], want[g], due[g], missed'[g])
    BY <1>2, <2>3, <2>4, GetKeeps
  <2> QED BY <1>1, <2>5 DEF GetIs
<1> QED BY <1>3, <1>4 DEF GetInv

LEMMA CrashGets ==
    ASSUME FilesInv', GetInv, CrashAndOpen
    PROVE  GetInv'
<1>1. /\ rpc' = [g \in Getters |-> "idle"] /\ todo' = [g \in Getters |-> << >>]
      /\ result' = result /\ want' = want /\ due' = due /\ missed' = missed
  BY DEF CrashAndOpen
<1>2. GetTypes'
  BY <1>1 DEF GetInv, GetTypes, Maps
<1>3. << >> \in Seq(Meta) /\ Files(<< >>) = {}
  BY EmptyHasNoFiles
<1>4. ASSUME NEW g \in Getters PROVE GetIs(g)'
  <2>1. OneGet(files', nextFile', "idle", << >>, result[g], want[g], due[g], missed[g])
    BY <1>3 DEF OneGet
  <2>2. rpc'[g] = "idle" /\ todo'[g] = << >>
    BY <1>1
  <2> QED BY <1>1, <2>1, <2>2 DEF GetIs
<1> QED BY <1>2, <1>4 DEF GetInv

LEMMA GetStep ==
    ASSUME FilesInv, FilesInv', GetInv, [Next]_cvars
    PROVE  GetInv'
<1>0. nextFile \in Nat /\ nextFile' \in Nat
  BY DEF FilesInv, CompactionTypes
<1>1. CASE UNCHANGED cvars
  <2>1. UNCHANGED getVars /\ files' = files /\ nextFile' = nextFile
    BY <1>1 DEF cvars, getVars
  <2> QED BY <1>0, <2>1, GetsBeside
<1>2. CASE \E D \in (SUBSET Keys) \ {{}} : \E c \in [D -> Contents] : FlushTable(D, c)
  <2>1. /\ UNCHANGED getVars /\ nextFile' = nextFile + 1
        /\ \E table : files' = WithFile(nextFile, table)
    BY <1>2 DEF FlushTable
  <2> QED BY <1>0, <2>1, GetsBeside
<1>3. CASE FlushLogEdit \/ FlushFails
  <2>1. UNCHANGED getVars /\ files' = files /\ nextFile' = nextFile
    BY <1>3 DEF FlushLogEdit, FlushFails, versionVars
  <2> QED BY <1>0, <2>1, GetsBeside
<1>4. CASE FlushApplyEdit
  <2>1. UNCHANGED getVars /\ files' = files /\ nextFile' = NextAfter(nextFile, fedit) /\ fpc = "apply"
    BY <1>4 DEF FlushApplyEdit
  <2>2. fedit \in Edits
    BY <2>1, FlushAdds DEF FilesInv, CompactionTypes, Flushing
  <2>3. nextFile <= nextFile'
    BY <1>0, <2>1, <2>2, NextAfterIs
  <2> QED BY <1>0, <2>1, <2>3, GetsBeside
<1>5. CASE Compact \/ CompactFails \/ PickCompaction \/ LogCompaction
  <2>1. UNCHANGED getVars /\ files' = files /\ nextFile' = nextFile
    BY <1>5 DEF Compact, CompactFails, PickCompaction, LogCompaction, versionVars
  <2> QED BY <1>0, <2>1, GetsBeside
<1>6. CASE RunCompaction
  <2>1. /\ UNCHANGED getVars
        /\ \/ files' = files /\ nextFile' = nextFile
           \/ nextFile' = nextFile + 1 /\ \E table : files' = WithFile(nextFile, table)
    BY <1>6 DEF RunCompaction
  <2>2. nextFile <= nextFile'
    BY <1>0, <2>1
  <2> QED BY <1>0, <2>1, <2>2, GetsBeside
<1>7. CASE ApplyCompaction
  <2>1. UNCHANGED getVars /\ files' = files /\ nextFile' = NextAfter(nextFile, cedit) /\ cpc = "apply"
    BY <1>7 DEF ApplyCompaction
  <2>2. cedit \in Edits
    BY <2>1 DEF FilesInv, CompactionTypes, Merged
  <2>3. nextFile <= nextFile'
    BY <1>0, <2>1, <2>2, NextAfterIs
  <2> QED BY <1>0, <2>1, <2>3, GetsBeside
<1>8. CASE RemoveObsolete
  BY <1>8, RemoveObsoleteGets
<1>9. CASE \E g \in Getters : (\E k \in Keys : GetVersion(g, k)) \/ GetExists(g) \/ GetOpen(g)
  BY <1>9, GetVersionGets, GetExistsGets, GetOpenGets
<1>10. CASE CrashAndOpen
  BY <1>10, CrashGets
<1> QED BY <1>1, <1>2, <1>3, <1>4, <1>5, <1>6, <1>7, <1>8, <1>9, <1>10 DEF Next, CompactStep

\* GetFromVersion, whatever fails or crashes: a get that searches the tables of the version
\* it took, one file after the other, finds what that version had of its key, however many
\* flushes and merges end meanwhile, unless compact() removed one of the tables under it.
THEOREM GetsFindTheirVersion == Spec => []GetFromVersion
<1>1. GetInv => GetFromVersion
  BY DEF GetInv, GetIs, OneGet, GetFromVersion
<1> QED BY <1>1, GetInit, GetStep, FilesAreKnown, PTL DEF Spec

-----------------------------------------------------------------------------
(* The tables are one map                                                  *)

\* Of the files S, in the directory fl, f has the newest entry of k.
HasNewest(fl, S, k, f) ==
    /\ f \in S /\ k \in DOMAIN fl[f.num]
    /\ \A g \in S : g # f /\ k \in DOMAIN fl[g.num] => fl[g.num][k].seq < fl[f.num][k].seq

\* v is the value that the files S have of k.
IsView(fl, S, k, v) ==
    \/ \E f \in S : HasNewest(fl, S, k, f) /\ v = fl[f.num][k].val
    \/ v = Tombstone /\ \A f \in S : k \notin DOMAIN fl[f.num]

ViewInv == \A k \in Keys : IsView(files, AllFiles(levels), k, Find(k).val)

LEMMA OneView ==
    ASSUME NEW fl, NEW S, NEW k, \A f \in S : k \in DOMAIN fl[f.num] => fl[f.num][k].seq \in Nat,
           NEW v, IsView(fl, S, k, v), NEW w, IsView(fl, S, k, w)
    PROVE  v = w
<1>1. CASE \A f \in S : k \notin DOMAIN fl[f.num]
  BY <1>1 DEF IsView, HasNewest
<1>2. CASE \E f \in S : k \in DOMAIN fl[f.num]
  <2>1. PICK f \in S : HasNewest(fl, S, k, f) /\ v = fl[f.num][k].val
    BY <1>2 DEF IsView
  <2>2. PICK g \in S : HasNewest(fl, S, k, g) /\ w = fl[g.num][k].val
    BY <1>2 DEF IsView
  <2>3. k \in DOMAIN fl[f.num] /\ k \in DOMAIN fl[g.num]
        /\ (g # f => fl[g.num][k].seq < fl[f.num][k].seq /\ fl[f.num][k].seq < fl[g.num][k].seq)
    BY <2>1, <2>2 DEF HasNewest
  <2>4. fl[f.num][k].seq \in Nat /\ fl[g.num][k].seq \in Nat
    BY <2>3
  <2>5. f = g
    BY <2>3, <2>4
  <2> QED BY <2>1, <2>2, <2>5
<1> QED BY <1>1, <1>2

LEMMA SameView ==
    ASSUME NEW fl, NEW gl, NEW S, \A f \in S : gl[f.num] = fl[f.num],
           NEW k, NEW v, IsView(fl, S, k, v)
    PROVE  IsView(gl, S, k, v)
<1>1. \A f \in S : HasNewest(fl, S, k, f) => HasNewest(gl, S, k, f)
  BY DEF HasNewest
<1> QED BY <1>1 DEF IsView

\* The search finds the newest entry of its key.
LEMMA SearchFindsNewest ==
    ASSUME FilesInv, NewerAbove
    PROVE  ViewInv
<1> SUFFICES ASSUME NEW k \in Keys PROVE IsView(files, AllFiles(levels), k, Find(k).val)
  BY DEF ViewInv
<1> DEFINE fs == SearchOrder(levels, k)
           S == AllFiles(levels)
<1>1. levels \in LevelMaps /\ RangesHold(files, levels)
  BY VersionRangesHold DEF FilesInv, CompactionTypes
<1>2. /\ fs \in Seq(Meta) /\ Files(fs) \subseteq S
      /\ \A f \in S : f.lo <= k /\ k <= f.hi => f \in Files(fs)
  BY <1>1, SearchIs
<1>3. \A i, j \in 1..Len(fs) :
         i < j /\ k \in DOMAIN files[fs[i].num] /\ k \in DOMAIN files[fs[j].num] =>
            files[fs[i].num][k].seq > files[fs[j].num][k].seq
  BY DEF NewerAbove
<1>4. Find(k) = FindIn(fs, k)
  BY DEF Find
<1> HIDE DEF fs
<1>5. IsFound(files, fs, k, Find(k))
  BY <1>2, <1>4, FindInIs
<1>6. ASSUME NEW f \in S
      PROVE  /\ f.num \in DOMAIN files
             /\ k \in DOMAIN files[f.num] =>
                   f \in Files(fs) /\ files[f.num][k].seq \in Nat
  <2>1. PICK l \in Levels : f \in Files(levels[l])
    BY DEF AllFiles
  <2>2. f \in KnownAt(l)
    BY <2>1 DEF KnownAt
  <2>3. f.num \in DOMAIN files /\ IsTable(files[f.num])
    BY <2>2, RangeOfKnown
  <2>4. k \in DOMAIN files[f.num] => f.lo <= k /\ k <= f.hi
    BY <1>1, <2>1 DEF RangesHold
  <2> QED BY <1>2, <2>3, <2>4, EntryOfTable
<1>7. \A i \in 1..Len(fs) : fs[i] \in S /\ fs[i].num \in DOMAIN files
  BY <1>2, <1>6 DEF Files
<1> HIDE DEF S
<1>8. CASE Find(k) = NoEntry /\ \A i \in 1..Len(fs) : ~ Hits(files, fs[i], k)
  <2>1. \A f \in S : k \notin DOMAIN files[f.num]
    <3> SUFFICES ASSUME NEW f \in S, k \in DOMAIN files[f.num] PROVE FALSE
      OBVIOUS
    <3>1. PICK i \in 1..Len(fs) : fs[i] = f
      BY <1>6 DEF Files
    <3> QED BY <1>6, <1>8, <3>1 DEF Hits
  <2>2. Find(k).val = Tombstone
    BY <1>8 DEF NoEntry
  <2> QED BY <2>1, <2>2 DEF IsView, S
<1>9. ASSUME NEW i \in 1..Len(fs), Hits(files, fs[i], k), Find(k) = files[fs[i].num][k],
             \A j \in 1..Len(fs) : j < i => ~ Hits(files, fs[j], k)
      PROVE  IsView(files, S, k, Find(k).val)
  <2>1. fs[i] \in S /\ k \in DOMAIN files[fs[i].num]
    BY <1>7, <1>9 DEF Hits
  <2>2. ASSUME NEW g \in S, g # fs[i], k \in DOMAIN files[g.num]
        PROVE  files[g.num][k].seq < files[fs[i].num][k].seq
    <3>1. PICK j \in 1..Len(fs) : fs[j] = g
      BY <1>6, <2>2 DEF Files
    <3>2. Hits(files, fs[j], k)
      BY <1>6, <2>2, <3>1 DEF Hits
    <3>3. i < j
      <4>1. j # i /\ ~ (j < i)
        BY <1>9, <2>2, <3>1, <3>2
      <4> QED BY <4>1
    <3>4. files[fs[i].num][k].seq > files[fs[j].num][k].seq
      BY <1>3, <2>1, <2>2, <3>1, <3>3
    <3>5. files[fs[i].num][k].seq \in Nat /\ files[g.num][k].seq \in Nat
      BY <1>6, <2>1, <2>2
    <3> QED BY <3>1, <3>4, <3>5
  <2>3. HasNewest(files, S, k, fs[i])
    BY <2>1, <2>2 DEF HasNewest
  <2> QED BY <1>9, <2>1, <2>3 DEF IsView
<1> QED BY <1>5, <1>8, <1>9 DEF IsFound, S

\* A flush lays its table over what the files of a version have.
LEMMA FlushView ==
    ASSUME NEW lv \in LevelMaps, NEW fl, NEW edit, IsFlushEdit(edit),
           \A f \in AllFiles(lv) : Newer(fl, edit.adds[1], f),
           \A f \in AllFiles(lv) \cup {edit.adds[1]} : \A k \in DOMAIN fl[f.num] : fl[f.num][k].seq \in Nat,
           NEW k \in Keys, NEW v, IsView(fl, AllFiles(lv), k, v)
    PROVE  IsView(fl, AllFiles(Apply(lv, edit)), k,
                  IF k \in DOMAIN fl[edit.adds[1].num] THEN fl[edit.adds[1].num][k].val ELSE v)
<1> DEFINE e == edit.adds[1]
           S == AllFiles(lv)
           T == AllFiles(Apply(lv, edit))
<1>1. T = S \cup {e}
  <2> DEFINE ap == Apply(lv, edit)
  <2>1. /\ edit \in Edits /\ Files(edit.adds) = {e} /\ edit.level = 0
        /\ \A l, n : ~ Deletes(edit, l, n)
    BY FlushAdds
  <2>2. \A l \in Levels : Files(ap[l]) = {f \in Files(lv[l]) : ~ Deletes(edit, l, f.num)}
                                           \cup (IF l = edit.level THEN Files(edit.adds) ELSE {})
    BY <2>1, ApplyFiles
  <2> HIDE DEF ap, e
  <2>3. \A l \in Levels : Files(ap[l]) = Files(lv[l]) \cup (IF l = 0 THEN {e} ELSE {})
    BY <2>1, <2>2
  <2> QED BY <2>3, LevelsHaveZero DEF AllFiles, ap
<1> HIDE DEF e, S, T
<1>2. CASE k \in DOMAIN fl[e.num]
  <2>1. ASSUME NEW g \in T, g # e, k \in DOMAIN fl[g.num]
        PROVE  fl[g.num][k].seq < fl[e.num][k].seq
    <3>1. g \in S /\ Newer(fl, e, g)
      BY <1>1, <2>1 DEF e, S
    <3>2. fl[g.num][k].seq \in Nat /\ fl[e.num][k].seq \in Nat
      BY <1>2, <2>1, <3>1 DEF e, S
    <3>3. fl[e.num][k].seq > fl[g.num][k].seq
      BY <1>2, <2>1, <3>1 DEF Newer
    <3> QED BY <3>2, <3>3
  <2>2. HasNewest(fl, T, k, e)
    BY <1>1, <1>2, <2>1 DEF HasNewest
  <2> QED BY <1>1, <1>2, <2>2 DEF IsView, e, T
<1>3. CASE k \notin DOMAIN fl[e.num]
  <2>1. IsView(fl, S, k, v)
    BY DEF S
  <2>2. \A f \in S : HasNewest(fl, S, k, f) => HasNewest(fl, T, k, f)
    BY <1>1, <1>3 DEF HasNewest
  <2>3. IsView(fl, T, k, v)
    BY <1>1, <1>3, <2>1, <2>2 DEF IsView
  <2> QED BY <1>3, <2>3 DEF e, T
<1> QED BY <1>2, <1>3

\* The edit of a merge leaves of the version what it does not merge, and adds its output.
LEMMA FilesAfterMerge ==
    ASSUME FilesInv, Merged
    PROVE  /\ AllFiles(Apply(levels, cedit)) = (AllFiles(levels) \ Sources(task)) \cup Files(cedit.adds)
           /\ Sources(task) \subseteq AllFiles(levels)
<1> DEFINE ap == Apply(levels, cedit)
<1>1. /\ levels \in LevelMaps /\ cedit \in Edits /\ TaskIn(task, levels)
      /\ cedit.dels = Deletions(task)
  BY DEF FilesInv, CompactionTypes, TaskIsCurrent, Merged, Compacting
<1>2. /\ task \in Tasks /\ task.level \in Levels /\ task.level + 1 \in Levels
      /\ Files(task.inputs) \subseteq Files(levels[task.level])
      /\ Files(task.targets) \subseteq Files(levels[task.level + 1])
  BY <1>1, TaskFiles
<1>3. \A l \in Levels : Files(ap[l]) = {f \in Files(levels[l]) : ~ Deletes(cedit, l, f.num)}
                                         \cup (IF l = cedit.level THEN Files(cedit.adds) ELSE {})
  BY <1>1, ApplyFiles
<1> HIDE DEF ap
<1>4. \A l, n : Deletes(cedit, l, n) <=>
                   \/ l = task.level /\ \E f \in Files(task.inputs) : f.num = n
                   \/ l = task.level + 1 /\ \E f \in Files(task.targets) : f.num = n
  BY <1>1, <1>2, DeletionsAre
<1>5. ASSUME NEW l \in Levels, NEW m \in Levels, NEW f \in Files(levels[l]), NEW g \in Files(levels[m]),
             f.num = g.num
      PROVE  l = m /\ f = g
  <2>1. f \in KnownAt(l) /\ g \in KnownAt(m)
    BY DEF KnownAt
  <2>2. l = m
    BY <1>5, <2>1 DEF FilesInv, NumbersUnique
  <2>3. f = MetaOf(f.num, files[f.num]) /\ g = MetaOf(g.num, files[g.num])
    BY <2>1 DEF FilesInv, KnownOnDisk
  <2> QED BY <1>5, <2>2, <2>3
<1>6. ASSUME NEW l \in Levels, NEW f \in Files(levels[l])
      PROVE  Deletes(cedit, l, f.num) <=> f \in Sources(task)
  <2>1. ASSUME Deletes(cedit, l, f.num) PROVE f \in Sources(task)
    BY <1>2, <1>4, <1>5, <2>1 DEF Sources
  <2>2. ASSUME f \in Sources(task) PROVE Deletes(cedit, l, f.num)
    <3>1. CASE f \in Files(task.inputs)
      <4>1. l = task.level
        BY <1>2, <1>5, <3>1
      <4> QED BY <1>4, <3>1, <4>1
    <3>2. CASE f \in Files(task.targets)
      <4>1. l = task.level + 1
        BY <1>2, <1>5, <3>2
      <4> QED BY <1>4, <3>2, <4>1
    <3> QED BY <2>2, <3>1, <3>2 DEF Sources
  <2> QED BY <2>1, <2>2
<1>7. cedit.level \in Levels
  BY <1>1 DEF Edits
<1>8. AllFiles(ap) = (AllFiles(levels) \ Sources(task)) \cup Files(cedit.adds)
  <2>1. AllFiles(ap) \subseteq (AllFiles(levels) \ Sources(task)) \cup Files(cedit.adds)
    BY <1>3, <1>6 DEF AllFiles
  <2>2. Files(cedit.adds) \subseteq AllFiles(ap)
    BY <1>3, <1>7 DEF AllFiles
  <2>3. ASSUME NEW f \in AllFiles(levels), f \notin Sources(task) PROVE f \in AllFiles(ap)
    <3>1. PICK l \in Levels : f \in Files(levels[l])
      BY DEF AllFiles
    <3>2. f \in Files(ap[l])
      BY <1>3, <1>6, <2>3, <3>1
    <3> QED BY <3>2 DEF AllFiles
  <2> QED BY <2>1, <2>2, <2>3
<1>9. Sources(task) \subseteq AllFiles(levels)
  BY <1>2 DEF Sources, AllFiles
<1> QED BY <1>8, <1>9 DEF ap

\* A key whose newest entry is in a merge onto the bottom level is in no other file.
LEMMA NothingBelowBottom ==
    ASSUME FilesInv, LevelsDisjoint, OrderInv, Merged, BottomLevel(task.level + 1),
           NEW k \in Keys, NEW f \in Sources(task), HasNewest(files, AllFiles(levels), k, f),
           NEW g \in AllFiles(levels), g \notin Sources(task), k \in DOMAIN files[g.num]
    PROVE  FALSE
<1>1. /\ levels \in LevelMaps /\ TaskIn(task, levels) /\ Disjoint(levels) /\ RangesHold(files, levels)
      /\ Ordered(files, levels)
  BY VersionRangesHold DEF FilesInv, CompactionTypes, TaskIsCurrent, Merged, Compacting,
                           LevelsDisjoint, OrderInv
<1>2. /\ task \in Tasks /\ task.level \in Levels /\ task.level + 1 \in Levels
      /\ Files(task.inputs) \subseteq Files(levels[task.level])
      /\ Files(task.targets) \subseteq Files(levels[task.level + 1])
  BY <1>1, TaskFiles
<1>3. PICK l \in Levels : g \in Files(levels[l])
  BY DEF AllFiles
<1>4. PICK m \in Levels : f \in Files(levels[m])
  BY <1>2 DEF Sources
<1>5. \A h \in Meta : h \in KnownAt(l) \/ h \in KnownAt(m) =>
         \A x \in DOMAIN files[h.num] : files[h.num][x].seq \in Nat
  BY RangeOfKnown, EntryOfTable
<1>6. f \in KnownAt(m) /\ g \in KnownAt(l) /\ f \in Meta /\ g \in Meta
  BY <1>3, <1>4, RangeOfKnown DEF KnownAt
<1>7. /\ f # g /\ k \in DOMAIN files[f.num]
      /\ files[g.num][k].seq < files[f.num][k].seq
      /\ files[g.num][k].seq \in Nat /\ files[f.num][k].seq \in Nat
  BY <1>5, <1>6 DEF HasNewest
<1>8. ~ Newer(files, g, f)
  BY <1>7 DEF Newer
<1>9. l <= task.level \/ l = task.level + 1
  BY <1>2, OptionsAreSane DEF BottomLevel, Levels
<1>10. CASE l <= task.level
  <2>1. l = task.level => g \notin Files(task.inputs)
    BY DEF Sources
  <2>2. Newer(files, g, f)
    BY <1>1, <1>3, <1>10, <2>1, LeftBehindIsNewer
  <2> QED BY <1>8, <2>2
<1>11. CASE l = task.level + 1
  <2>1. Apart(levels[task.level + 1])
    <3>1. task.level + 1 # 0
      BY <1>2 DEF Levels
    <3> QED BY <1>1, <1>2, <3>1, DisjointIs
  <2>2. \A n \in Levels : \A h \in Files(levels[n]) : h.lo <= h.hi
    <3>1. \A n \in Levels : \A h \in Files(levels[n]) : h \in KnownAt(n)
      BY DEF KnownAt
    <3> QED BY <3>1, RangeOfKnown
  <2>3. g \in Files(levels[task.level + 1]) /\ g \notin Files(task.targets)
    BY <1>3, <1>11 DEF Sources
  <2>4. g.hi < f.lo \/ f.hi < g.lo
    BY <1>1, <2>1, <2>2, <2>3, LeftOutIsApart
  <2>5. f.lo <= k /\ k <= f.hi /\ g.lo <= k /\ k <= g.hi
    BY <1>1, <1>3, <1>4, <1>7 DEF RangesHold
  <2>6. k \in Nat /\ f.lo \in Nat /\ f.hi \in Nat /\ g.lo \in Nat /\ g.hi \in Nat
    BY <1>6, MetaFields, KeysAreNumbers
  <2> QED BY <2>4, <2>5, <2>6
<1> QED BY <1>9, <1>10, <1>11

\* A merge keeps what the files of the version have.
LEMMA MergeView ==
    ASSUME FilesInv, OutputIsMerge, LevelsDisjoint, OrderInv, Merged,
           NEW k \in Keys, NEW v, IsView(files, AllFiles(levels), k, v)
    PROVE  IsView(files, AllFiles(Apply(levels, cedit)), k, v)
<1> DEFINE S == AllFiles(levels)
           T == AllFiles(Apply(levels, cedit))
           e == cedit.adds[1]
           table == IF cedit.adds = << >> THEN NoTable ELSE files[e.num]
           Has == {f \in Sources(task) : k \in DOMAIN files[f.num]}
           Newest(f) == \A g \in Has : files[g.num][k].seq <= files[f.num][k].seq
<1>1. T = (S \ Sources(task)) \cup Files(cedit.adds) /\ Sources(task) \subseteq S
  BY FilesAfterMerge
<1>2. IF k \in DOMAIN table THEN \E f \in Has : Newest(f) /\ table[k] = files[f.num][k]
      ELSE Has # {} => /\ BottomLevel(task.level + 1)
                       /\ \E f \in Has : Newest(f) /\ files[f.num][k].val = Tombstone
  BY DEF OutputIsMerge, IsMergeOf
<1>3. /\ cedit.adds = << >> => Files(cedit.adds) = {} /\ k \notin DOMAIN table
      /\ cedit.adds # << >> => Files(cedit.adds) = {e} /\ table = files[e.num]
  BY OutputRange, EmptyHasNoFiles DEF Files, NoTable
<1>4. \A f \in S : k \in DOMAIN files[f.num] => files[f.num][k].seq \in Nat
  <2> SUFFICES ASSUME NEW f \in S, k \in DOMAIN files[f.num] PROVE files[f.num][k].seq \in Nat
    OBVIOUS
  <2>1. PICK l \in Levels : f \in KnownAt(l)
    BY DEF AllFiles, KnownAt
  <2> QED BY <2>1, RangeOfKnown, EntryOfTable
<1>5. \A f \in Has : f \in S /\ f \in Sources(task) /\ k \in DOMAIN files[f.num]
  BY <1>1
<1>6. \A f \in Sources(task) : k \in DOMAIN files[f.num] => f \in Has
  OBVIOUS
<1>7. ASSUME NEW f \in S, NEW h \in Has, HasNewest(files, S, k, f), Newest(h), f \in Has
      PROVE  h = f
  <2>1. h # f => files[h.num][k].seq < files[f.num][k].seq
    BY <1>5, <1>7 DEF HasNewest
  <2>2. files[f.num][k].seq <= files[h.num][k].seq
    BY <1>7
  <2>3. files[f.num][k].seq \in Nat /\ files[h.num][k].seq \in Nat
    BY <1>4, <1>5, <1>7
  <2> QED BY <2>1, <2>2, <2>3
<1> HIDE DEF S, T, table, Has
<1>8. ASSUME NEW g \in T
      PROVE  \/ g \in S /\ g \notin Sources(task)
             \/ g = e /\ files[g.num] = table /\ cedit.adds # << >>
  BY <1>1, <1>3, <1>8
<1>9. k \in DOMAIN table => e \in T /\ files[e.num] = table
  BY <1>1, <1>3
<1>10. CASE v = Tombstone /\ \A f \in S : k \notin DOMAIN files[f.num]
  <2>1. Has = {}
    BY <1>5, <1>10
  <2>2. k \notin DOMAIN table
    BY <1>2, <2>1
  <2>3. \A f \in T : k \notin DOMAIN files[f.num]
    BY <1>8, <1>10, <2>2
  <2> QED BY <1>10, <2>3 DEF IsView, T
<1>11. ASSUME NEW f \in S, HasNewest(files, S, k, f), v = files[f.num][k].val
       PROVE  IsView(files, T, k, v)
  <2>0. k \in DOMAIN files[f.num] /\ \A g \in S : g # f /\ k \in DOMAIN files[g.num] =>
                                        files[g.num][k].seq < files[f.num][k].seq
    BY <1>11 DEF HasNewest
  <2>1. CASE f \notin Sources(task)
    <3>1. f \in T
      BY <1>1, <2>1
    <3>2. ASSUME NEW g \in T, g # f, k \in DOMAIN files[g.num]
          PROVE  files[g.num][k].seq < files[f.num][k].seq
      <4>1. CASE g \in S
        BY <2>0, <3>2, <4>1
      <4>2. CASE files[g.num] = table
        <5>1. PICK h \in Has : table[k] = files[h.num][k]
          BY <1>2, <3>2, <4>2
        <5>2. h \in S /\ h # f /\ k \in DOMAIN files[h.num]
          BY <1>5, <2>1, <5>1
        <5> QED BY <2>0, <4>2, <5>1, <5>2
      <4> QED BY <1>8, <4>1, <4>2
    <3>3. HasNewest(files, T, k, f)
      BY <2>0, <3>1, <3>2 DEF HasNewest
    <3> QED BY <1>11, <3>1, <3>3 DEF IsView
  <2>2. CASE f \in Sources(task) /\ k \in DOMAIN table
    <3>1. f \in Has
      BY <1>6, <2>0, <2>2
    <3>2. PICK h \in Has : Newest(h) /\ table[k] = files[h.num][k]
      BY <1>2, <2>2
    <3>3. table[k] = files[f.num][k]
      BY <1>7, <1>11, <3>1, <3>2
    <3>4. e \in T /\ files[e.num] = table
      BY <1>9, <2>2
    <3>5. ASSUME NEW g \in T, g # e, k \in DOMAIN files[g.num]
          PROVE  files[g.num][k].seq < files[e.num][k].seq
      <4>1. g \in S /\ g # f
        BY <1>8, <2>2, <3>5
      <4> QED BY <2>0, <3>3, <3>4, <3>5, <4>1
    <3>6. HasNewest(files, T, k, e)
      BY <2>2, <3>4, <3>5 DEF HasNewest
    <3> QED BY <1>11, <3>3, <3>4, <3>6 DEF IsView
  <2>3. CASE f \in Sources(task) /\ k \notin DOMAIN table
    <3>1. f \in Has
      BY <1>6, <2>0, <2>3
    <3>2. BottomLevel(task.level + 1) /\ \E h \in Has : Newest(h) /\ files[h.num][k].val = Tombstone
      BY <1>2, <2>3, <3>1
    <3>3. v = Tombstone
      BY <1>7, <1>11, <3>1, <3>2
    <3>4. ASSUME NEW g \in T, k \in DOMAIN files[g.num] PROVE FALSE
      <4>1. g \in S /\ g \notin Sources(task)
        BY <1>8, <2>3, <3>4
      <4> QED BY <1>11, <2>3, <3>2, <3>4, <4>1, NothingBelowBottom DEF S
    <3> QED BY <3>3, <3>4 DEF IsView
  <2> QED BY <2>1, <2>2, <2>3
<1>12. IsView(files, S, k, v)
  BY DEF S
<1>13. \/ \E f \in S : HasNewest(files, S, k, f) /\ v = files[f.num][k].val
       \/ v = Tombstone /\ \A f \in S : k \notin DOMAIN files[f.num]
  BY <1>12 DEF IsView
<1> QED BY <1>10, <1>11, <1>13 DEF T

-----------------------------------------------------------------------------
(* The refinement of TableStore                                            *)

ViewOf == [k \in Keys |-> Find(k).val]

AddingOf ==
    IF fpc = "idle" THEN [k \in {} |-> Tombstone]
    ELSE LET t == files[fedit.adds[1].num] IN [k \in DOMAIN t |-> t[k].val]

LEMMA TableStoreIs ==
    /\ TS!tableVars = <<ViewOf, AddingOf>>
    /\ TS!Nothing = [k \in {} |-> Tombstone]
    /\ TS!Overlay(ViewOf, AddingOf) =
          [k \in Keys |-> IF k \in DOMAIN AddingOf THEN AddingOf[k] ELSE ViewOf[k]]
    /\ TS!Freeze <=> /\ AddingOf = [k \in {} |-> Tombstone]
                     /\ \E D \in (SUBSET Keys) \ {{}} : AddingOf' \in [D -> Contents]
                     /\ ViewOf' = ViewOf
    /\ TS!Add <=> /\ ViewOf' = TS!Overlay(ViewOf, AddingOf)
                  /\ AddingOf' = [k \in {} |-> Tombstone]
    /\ TS!Lose <=> /\ ViewOf' \in {ViewOf, TS!Overlay(ViewOf, AddingOf)}
                   /\ AddingOf' = [k \in {} |-> Tombstone]
BY DEF TS!tableVars, TS!Nothing, TS!Overlay, TS!Freeze, TS!Add, TS!Lose, TS!Contents, Contents,
       ViewOf, AddingOf

\* What a lookup finds after a step is what the files of the next version have in the
\* directory as it was.
LEMMA NextView ==
    ASSUME FilesInv, FilesInv', [Next]_cvars, ViewInv',
           NEW w, w = [k \in Keys |-> w[k]],
           \A k \in Keys : IsView(files, AllFiles(levels'), k, w[k])
    PROVE  ViewOf' = w
<1>1. \A f \in AllFiles(levels') : files'[f.num] = files[f.num]
  BY VersionTablesSame
<1>2. ASSUME NEW f \in AllFiles(levels'), NEW k \in DOMAIN files'[f.num]
      PROVE  files'[f.num][k].seq \in Nat
  <2>1. PICK l \in Levels : f \in Files(levels'[l])
    BY DEF AllFiles
  <2>2. f \in KnownAt(l)'
    BY <2>1 DEF KnownAt
  <2>3. IsTable(files'[f.num])
    BY <2>2 DEF FilesInv, KnownOnDisk, CompactionTypes
  <2> QED BY <2>3, EntryOfTable
<1>3. ASSUME NEW k \in Keys PROVE ViewOf'[k] = w[k]
  <2>1. IsView(files', AllFiles(levels'), k, w[k])
    BY <1>1, SameView
  <2>2. IsView(files', AllFiles(levels'), k, ViewOf'[k])
    BY DEF ViewInv, ViewOf
  <2> QED BY <1>2, <2>1, <2>2, OneView
<1>4. ViewOf' = [k \in Keys |-> ViewOf'[k]]
  BY DEF ViewOf
<1> QED BY <1>3, <1>4

\* The view of the version, of what a merge makes of it, and of what a flush makes of both.
LEMMA ViewsOf ==
    ASSUME FilesInv, OutputIsMerge, LevelsDisjoint, OrderInv, NewestInv, ViewInv
    PROVE  /\ \A k \in Keys : IsView(files, AllFiles(levels), k, ViewOf[k])
           /\ Merged => \A k \in Keys : IsView(files, AllFiles(Apply(levels, cedit)), k, ViewOf[k])
           /\ Flushing => \A k \in Keys : IsView(files, AllFiles(Apply(levels, fedit)), k,
                                                 TS!Overlay(ViewOf, AddingOf)[k])
           /\ Flushing /\ Merged =>
                 \A k \in Keys : IsView(files, AllFiles(Apply(Apply(levels, cedit), fedit)), k,
                                        TS!Overlay(ViewOf, AddingOf)[k])
<1>1. \A k \in Keys : IsView(files, AllFiles(levels), k, ViewOf[k])
  BY DEF ViewInv, ViewOf
<1>2. ASSUME Merged, NEW k \in Keys
      PROVE  IsView(files, AllFiles(Apply(levels, cedit)), k, ViewOf[k])
  BY <1>1, <1>2, MergeView
<1>3. ASSUME Flushing, NEW lv \in LevelMaps, \A f \in AllFiles(lv) : Newer(files, fedit.adds[1], f),
             \A f \in AllFiles(lv) : \E l \in Levels : f \in KnownAt(l),
             NEW k \in Keys, IsView(files, AllFiles(lv), k, ViewOf[k])
      PROVE  IsView(files, AllFiles(Apply(lv, fedit)), k, TS!Overlay(ViewOf, AddingOf)[k])
  <2> DEFINE e == fedit.adds[1]
  <2>1. IsFlushEdit(fedit) /\ fpc # "idle"
    BY <1>3 DEF FilesInv, CompactionTypes, Flushing
  <2>2. e \in KnownAt(0)
    BY <1>3 DEF KnownAt
  <2>3. \A f \in AllFiles(lv) \cup {e} : \E l \in Levels : f \in KnownAt(l)
    BY <1>3, <2>2, LevelsHaveZero
  <2>4. \A f \in AllFiles(lv) \cup {e} : \A x \in DOMAIN files[f.num] : files[f.num][x].seq \in Nat
    BY <2>3, RangeOfKnown, EntryOfTable
  <2>5. IsView(files, AllFiles(Apply(lv, fedit)), k,
               IF k \in DOMAIN files[e.num] THEN files[e.num][k].val ELSE ViewOf[k])
    BY <1>3, <2>1, <2>4, FlushView
  <2>6. TS!Overlay(ViewOf, AddingOf)[k] =
           IF k \in DOMAIN files[e.num] THEN files[e.num][k].val ELSE ViewOf[k]
    BY <2>1, TableStoreIs DEF AddingOf
  <2> QED BY <2>5, <2>6
<1>4. levels \in LevelMaps /\ \A f \in AllFiles(levels) : \E l \in Levels : f \in KnownAt(l)
  BY DEF FilesInv, CompactionTypes, AllFiles, KnownAt
<1>5. ASSUME Flushing, NEW k \in Keys
      PROVE  IsView(files, AllFiles(Apply(levels, fedit)), k, TS!Overlay(ViewOf, AddingOf)[k])
  <2>1. \A f \in AllFiles(levels) : Newer(files, fedit.adds[1], f)
    BY <1>5, FlushIsNewerThanVersion
  <2> QED BY <1>1, <1>3, <1>4, <1>5, <2>1
<1>6. ASSUME Flushing, Merged, NEW k \in Keys
      PROVE  IsView(files, AllFiles(Apply(Apply(levels, cedit), fedit)), k,
                    TS!Overlay(ViewOf, AddingOf)[k])
  <2>1. cedit \in Edits /\ cedit.level \in Levels
    BY <1>6 DEF FilesInv, CompactionTypes, Edits
  <2>2. Apply(levels, cedit) \in LevelMaps
    BY <1>4, <2>1, ApplyFiles
  <2>3. \A f \in AllFiles(Apply(levels, cedit)) : f \in AllFiles(levels) \/ f \in Files(cedit.adds)
    BY <1>6, FilesAfterMerge
  <2>4. \A f \in Files(cedit.adds) : f \in KnownAt(cedit.level) /\ f.num # fedit.adds[1].num
    BY <1>6 DEF KnownAt, FilesInv, AddedIsNew
  <2>5. \A f \in Files(cedit.adds) : Newer(files, fedit.adds[1], f)
    BY <1>6, <2>1, <2>4 DEF NewestInv, FlushedIsNewest
  <2>6. \A f \in AllFiles(levels) : Newer(files, fedit.adds[1], f)
    BY <1>6, FlushIsNewerThanVersion
  <2>7. \A f \in AllFiles(Apply(levels, cedit)) :
           Newer(files, fedit.adds[1], f) /\ \E l \in Levels : f \in KnownAt(l)
    BY <1>4, <2>1, <2>3, <2>4, <2>5, <2>6
  <2> QED BY <1>2, <1>3, <1>6, <2>2, <2>7
<1> QED BY <1>1, <1>2, <1>5, <1>6

\* What the flush under way adds is not touched.
LEMMA AddingStays ==
    ASSUME FilesInv, FilesInv', [Next]_cvars, Flushing, Flushing', fedit' = fedit
    PROVE  AddingOf' = AddingOf
<1> DEFINE e == fedit.adds[1]
<1>1. fpc # "idle" /\ fpc' # "idle"
  BY DEF Flushing
<1>2. e \in KnownAt(0) /\ e \in KnownAt(0)'
  BY DEF KnownAt
<1> HIDE DEF e
<1>3. files'[e.num] = files[e.num]
  BY <1>2, LevelsHaveZero, KnownSame
<1> QED BY <1>1, <1>3 DEF AddingOf, e

LEMMA TablesStep ==
    ASSUME MaxFailures = 0, FilesInv, FilesInv', OutputIsMerge, VersionIsLogged, LevelsDisjoint,
           NewestInv, OrderInv, ViewInv, ViewInv', [Next]_cvars
    PROVE  [TS!Next]_(TS!tableVars)
<1> DEFINE over == TS!Overlay(ViewOf, AddingOf)
<1>1. ViewOf = [k \in Keys |-> ViewOf[k]] /\ over = [k \in Keys |-> over[k]]
  BY TableStoreIs DEF ViewOf
<1> HIDE DEF over
<1>2. ASSUME levels' = levels PROVE ViewOf' = ViewOf
  <2>1. \A k \in Keys : IsView(files, AllFiles(levels'), k, ViewOf[k])
    BY <1>2, ViewsOf
  <2> QED BY <1>1, <2>1, NextView
<1>3. ASSUME Merged, levels' = Apply(levels, cedit) PROVE ViewOf' = ViewOf
  <2>1. \A k \in Keys : IsView(files, AllFiles(levels'), k, ViewOf[k])
    BY <1>3, ViewsOf
  <2> QED BY <1>1, <2>1, NextView
<1>4. ASSUME Flushing, \/ levels' = Apply(levels, fedit)
                       \/ Merged /\ levels' = Apply(Apply(levels, cedit), fedit)
      PROVE  ViewOf' = over
  <2>1. \A k \in Keys : IsView(files, AllFiles(levels'), k, over[k])
    BY <1>4, ViewsOf DEF over
  <2> QED BY <1>1, <2>1, NextView
<1>5. ASSUME fpc' = "idle" PROVE AddingOf' = [k \in {} |-> Tombstone]
  BY <1>5 DEF AddingOf
<1>6. CASE \E D \in (SUBSET Keys) \ {{}} : \E c \in [D -> Contents] : FlushTable(D, c)
  <2>1. PICK D \in (SUBSET Keys) \ {{}} : \E c \in [D -> Contents] : FlushTable(D, c)
    BY <1>6
  <2>2. PICK c \in [D -> Contents] : FlushTable(D, c)
    BY <2>1
  <2>3. PICK s \in NextNumbers :
           LET table == [k \in D |-> [seq |-> s, val |-> c[k]]] IN
           /\ files' = WithFile(nextFile, table)
           /\ fedit' = [dels |-> << >>, level |-> 0, adds |-> <<MetaOf(nextFile, table)>>,
                        next |-> nextFile + 1]
    BY <2>2 DEF FlushTable
  <2> DEFINE table == [k \in D |-> [seq |-> s, val |-> c[k]]]
  <2>4. fpc = "idle" /\ fpc' = "log" /\ levels' = levels
    BY <2>2 DEF FlushTable
  <2>5. /\ files'[nextFile] = table /\ fedit'.adds[1].num = nextFile
    BY <2>3 DEF WithFile, MetaOf
  <2>6. AddingOf' = [k \in DOMAIN table |-> table[k].val]
    BY <2>4, <2>5 DEF AddingOf
  <2>7. AddingOf' \in [D -> Contents]
    BY <2>6
  <2>8. AddingOf = [k \in {} |-> Tombstone] /\ ViewOf' = ViewOf
    BY <1>2, <2>4 DEF AddingOf
  <2>9. TS!Freeze
    BY <2>7, <2>8, TableStoreIs
  <2> QED BY <2>9 DEF TS!Next
<1>7. CASE FlushApplyEdit
  <2>1. Flushing /\ levels' = Apply(levels, fedit) /\ fpc' = "idle"
    BY <1>7 DEF FlushApplyEdit, Flushing
  <2>2. ViewOf' = over /\ AddingOf' = [k \in {} |-> Tombstone]
    BY <1>4, <1>5, <2>1
  <2>3. TS!Add
    BY <2>2, TableStoreIs DEF over
  <2> QED BY <2>3 DEF TS!Next
<1>8. CASE CrashAndOpen
  <2>1. levels' = manifest.levels /\ fpc' = "idle"
    BY <1>8 DEF CrashAndOpen
  <2>2. ViewOf' \in {ViewOf, over}
    <3>1. CASE fpc # "apply" /\ cpc # "apply"
      <4>1. levels' = levels
        BY <2>1, <3>1 DEF VersionIsLogged, LoggedVersion
      <4> QED BY <1>2, <4>1
    <3>2. CASE fpc # "apply" /\ cpc = "apply"
      <4>1. levels' = Apply(levels, cedit) /\ Merged
        BY <2>1, <3>2 DEF VersionIsLogged, LoggedVersion, Merged
      <4> QED BY <1>3, <4>1
    <3>3. CASE fpc = "apply"
      <4>1. Flushing
        BY <3>3 DEF Flushing
      <4>2. CASE cpc # "apply"
        <5>1. levels' = Apply(levels, fedit)
          BY <2>1, <3>3, <4>2 DEF VersionIsLogged, LoggedVersion
        <5> QED BY <1>4, <4>1, <5>1
      <4>3. CASE cpc = "apply"
        <5>1. Merged /\ levels' = Apply(Apply(levels, fedit), cedit)
          BY <2>1, <3>3, <4>3 DEF VersionIsLogged, LoggedVersion, Merged
        <5>2. levels' = Apply(Apply(levels, cedit), fedit)
          BY <4>1, <5>1, PendingCommute
        <5> QED BY <1>4, <4>1, <5>1, <5>2
      <4> QED BY <4>2, <4>3
    <3> QED BY <3>1, <3>2, <3>3
  <2>3. TS!Lose
    BY <1>5, <2>1, <2>2, TableStoreIs DEF over
  <2> QED BY <2>3 DEF TS!Next
<1>9. CASE ApplyCompaction
  <2>1. Merged /\ levels' = Apply(levels, cedit) /\ fpc' = fpc /\ fedit' = fedit
    BY <1>9 DEF ApplyCompaction, flushVars, Merged
  <2>2. ViewOf' = ViewOf
    BY <1>3, <2>1
  <2>3. AddingOf' = AddingOf
    BY <1>9, <2>1 DEF ApplyCompaction, AddingOf
  <2> QED BY <2>2, <2>3 DEF TS!tableVars, ViewOf, AddingOf
<1>10. CASE /\ levels' = levels /\ fedit' = fedit
            /\ (fpc = "idle" /\ fpc' = "idle") \/ (Flushing /\ Flushing')
  <2>1. ViewOf' = ViewOf
    BY <1>2, <1>10
  <2>2. AddingOf' = AddingOf
    <3>1. CASE fpc = "idle" /\ fpc' = "idle"
      BY <3>1 DEF AddingOf
    <3>2. CASE Flushing /\ Flushing'
      BY <1>10, <3>2, AddingStays
    <3> QED BY <1>10, <3>1, <3>2
  <2> QED BY <2>1, <2>2 DEF TS!tableVars, ViewOf, AddingOf
<1>11. fpc = "idle" \/ Flushing
  BY DEF FilesInv, CompactionTypes, Flushing
<1>12. CASE levels' = levels /\ fpc' = fpc /\ fedit' = fedit
  BY <1>10, <1>11, <1>12 DEF Flushing
<1>13. CASE FlushLogEdit
  <2>1. levels' = levels /\ fedit' = fedit /\ fpc = "log" /\ fpc' = "apply"
    BY <1>13 DEF FlushLogEdit, versionVars
  <2> QED BY <1>10, <2>1 DEF Flushing
<1>14. \/ \E D \in (SUBSET Keys) \ {{}} : \E c \in [D -> Contents] : FlushTable(D, c)
       \/ FlushLogEdit \/ FlushApplyEdit \/ CrashAndOpen \/ ApplyCompaction
       \/ levels' = levels /\ fpc' = fpc /\ fedit' = fedit
  <2>1. CASE UNCHANGED cvars
    BY <2>1 DEF cvars
  <2>2. CASE \E g \in Getters : (\E k \in Keys : GetVersion(g, k)) \/ GetExists(g) \/ GetOpen(g)
    BY <2>2, GetsLeave DEF notGet
  <2>3. CASE Compact \/ PickCompaction \/ RunCompaction \/ RemoveObsolete \/ LogCompaction
    BY <2>3 DEF Compact, PickCompaction, RunCompaction, RemoveObsolete, LogCompaction,
                versionVars, flushVars
  <2>4. ~ FlushFails /\ ~ CompactFails
    BY NoFailures
  <2> QED BY <2>1, <2>2, <2>3, <2>4 DEF Next, CompactStep
<1> QED BY <1>6, <1>7, <1>8, <1>9, <1>12, <1>13, <1>14

\* No tables are the empty map.
LEMMA TablesInit == Init /\ ViewInv => TS!Init
<1> SUFFICES ASSUME Init, ViewInv PROVE TS!Init
  OBVIOUS
<1>1. levels = EmptyLevels /\ fpc = "idle"
  BY DEF Init
<1>2. \A l \in Levels : Files(EmptyLevels[l]) = {}
  BY EmptyHasNoFiles DEF EmptyLevels
<1>3. AllFiles(levels) = {}
  BY <1>1, <1>2 DEF AllFiles
<1>4. \A k \in Keys : Find(k).val = Tombstone
  BY <1>3 DEF ViewInv, IsView
<1> QED BY <1>1, <1>4 DEF TS!Init, TS!Nothing

\* ImplementsTableStore, when no write of an edit fails and no writer is overtaken by a
\* flush: of the tables, their levels and their merges nothing is seen but a map that flushes
\* lay their memtables over, in one step each, and in a crash one that was logged or not.
\* Neither the merge of tables, nor dropping tombstones on the bottom level, nor the removal of
\* merged files, nor a crash at any point of them changes or brings back a key.
THEOREM CompactionImplementsTableStore ==
    ASSUME MaxFailures = 0, SlowWriters = FALSE
    PROVE  Spec => ImplementsTableStore
<1>1. Spec => []ViewInv
  BY SearchFindsNewest, FilesAreKnown, NewerIsAbove, PTL
<1>2. Init /\ ViewInv => TS!Init
  BY TablesInit
<1> QED BY <1>1, <1>2, TablesStep, FilesAreKnown, OutputsAreMerges, ManifestIsTheVersion,
           LevelsStayDisjoint, NewestIsInvariant, OrderIsInvariant, PTL
        DEF Spec, ImplementsTableStore, TS!Spec

=============================================================================
