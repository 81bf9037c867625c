---------------------------- MODULE StorageProofs ----------------------------
(***************************************************************************)
(* What the parts of the storage engine guarantee that share no state:     *)
(* the locks, the block cache, the merging iterator, the table files and   *)
(* the byte counter of a memtable.                                         *)
(*                                                                         *)
(* No threads wait for each other in a circle, for any number of threads.  *)
(* The locks have a rank, and a thread asks for locks of a higher rank     *)
(* than those it holds, with one exception: flush, which looks at the      *)
(* active memtable while it holds the list of the immutable ones.  That    *)
(* look never has to wait, since the only thread that holds or wants the   *)
(* lock of the active memtable exclusively is one that flushes.            *)
(*                                                                         *)
(* The block cache stays a well-formed list and does what a list of the    *)
(* blocks by recency does, for any capacity, any tables and readers.  The  *)
(* slots from head to tail are a sequence of their own in the invariant;   *)
(* detaching a slot removes a place of it and attaching one adds a place   *)
(* at its front.                                                           *)
(*                                                                         *)
(* The merging iterator yields the merge of its sources: after m entries   *)
(* every source has moved past the first m keys, and no further.           *)
(*                                                                         *)
(* A lookup in a table finds what the table was built from.  The builder   *)
(* cuts the entries into pieces and lays each out behind its offset, and   *)
(* whoever opens the file has the same cuts and a filter with every key.   *)
(* Of ascending keys BlockFor names the only piece that may have the key,  *)
(* and bisection finds it there.  In the cache a block is under its table  *)
(* and place and can be no other, and this is kept by every call.          *)
(*                                                                         *)
(* The byte counter is off by what is owed, and the size of the entries    *)
(* moves by as much as the one value that changes.                         *)
(***************************************************************************)
EXTENDS TableReads, MergingIterator, MemTableSize, EngineLocks,
        SequenceTheorems, CountingTheorems

-----------------------------------------------------------------------------
(* The order of the locks                                                  *)

LockNames == {"providers", "rag", "agent", "flush", "compact", "wal", "memtable", "imm",
              "version", "manifest", "cache", "table", "tools", "prompts", "level",
              "observers", "collected"}

\* The order in which the locks are taken.
LockRank(l) ==
    CASE l = "providers" -> 0
      [] l \in {"rag", "agent"} -> 1
      [] l \in {"flush", "compact"} -> 2
      [] l = "wal" -> 3
      [] l = "memtable" -> 4
      [] l = "imm" -> 5
      [] l \in {"version", "manifest", "tools", "prompts", "level", "observers"} -> 6
      [] l \in {"cache", "table", "collected"} -> 7

LEMMA RankIsNumber == \A l \in LockNames : LockRank(l) \in 0..7
BY DEF LockNames, LockRank

Modes == {"lock", "share"}
LockStep == {"lock", "share", "free"} \X LockNames
Flushing == <<"flush", "lock">>
Rotating == <<"memtable", "lock">>

-----------------------------------------------------------------------------
(* What a call holds along its way                                         *)

\* The locks taken in the first n steps of s and not given back in them.
HeldAfter(s, n) ==
    {h \in LockNames \X Modes :
        \E i \in 1..n : /\ s[i] = <<h[2], h[1]>>
                        /\ \A k \in (i + 1)..n : s[k] # <<"free", h[1]>>}

\* A step that takes a lock, by a call that holds those of H: the lock of the memtables is
\* taken exclusively by a thread that flushes alone, and the lock is above all of H, unless it
\* is the look of a flush at the active memtable.
Allowed(s, H) ==
    /\ s = <<"lock", "memtable">> => Flushing \in H
    /\ \/ s = <<"share", "memtable">> /\ Flushing \in H /\ \A h \in H : h[1] # "memtable"
       \/ \A h \in H : LockRank(h[1]) < LockRank(s[2])

\* A part of a call that may be made while the locks of H are held: it leaves them alone,
\* takes what it may take, and gives back what it took.
Safe(s, H) ==
    /\ s \in Seq(LockStep)
    /\ HeldAfter(s, Len(s)) = {}
    /\ \A j \in 1..Len(s) : \A h \in H : s[j][2] # h[1]
    /\ \A j \in 1..Len(s) : s[j][1] # "free" => Allowed(s[j], H \cup HeldAfter(s, j - 1))
    /\ \A j \in 1..Len(s) : Rotating \in HeldAfter(s, j) => Flushing \in H \cup HeldAfter(s, j)

LEMMA HeldAtStart == \A s : HeldAfter(s, 0) = {}
BY DEF HeldAfter

LEMMA HeldAreLocks == \A s, n : HeldAfter(s, n) \subseteq LockNames \X Modes
BY DEF HeldAfter

\* Taking a lock adds it.
LEMMA HeldAfterTaking ==
    ASSUME NEW s, NEW n \in Nat, NEW l \in LockNames, NEW m \in Modes, s[n + 1] = <<m, l>>
    PROVE  HeldAfter(s, n + 1) = HeldAfter(s, n) \cup {<<l, m>>}
<1>1. <<m, l>>[1] # "free"
  BY DEF Modes
<1>2. \A h : s[n + 1] # <<"free", h>>
  BY <1>1
<1>3. ASSUME NEW h \in HeldAfter(s, n + 1) PROVE h \in HeldAfter(s, n) \cup {<<l, m>>}
  <2>1. PICK i \in 1..(n + 1) : /\ s[i] = <<h[2], h[1]>>
                                /\ \A k \in (i + 1)..(n + 1) : s[k] # <<"free", h[1]>>
    BY DEF HeldAfter
  <2>2. h \in LockNames \X Modes
    BY DEF HeldAfter
  <2>3. CASE i = n + 1
    <3>1. h[1] = l /\ h[2] = m
      BY <2>1, <2>3
    <3> QED BY <2>2, <3>1
  <2>4. CASE i # n + 1
    <3>1. i \in 1..n /\ \A k \in (i + 1)..n : k \in (i + 1)..(n + 1)
      BY <2>4
    <3> QED BY <2>1, <2>2, <3>1 DEF HeldAfter
  <2> QED BY <2>3, <2>4
<1>4. ASSUME NEW h \in HeldAfter(s, n) PROVE h \in HeldAfter(s, n + 1)
  <2>1. PICK i \in 1..n : /\ s[i] = <<h[2], h[1]>>
                          /\ \A k \in (i + 1)..n : s[k] # <<"free", h[1]>>
    BY DEF HeldAfter
  <2>2. h \in LockNames \X Modes
    BY DEF HeldAfter
  <2>3. \A k \in (i + 1)..(n + 1) : k \in (i + 1)..n \/ k = n + 1
    OBVIOUS
  <2>4. i \in 1..(n + 1)
    OBVIOUS
  <2> QED BY <1>2, <2>1, <2>2, <2>3, <2>4 DEF HeldAfter
<1>5. <<l, m>> \in HeldAfter(s, n + 1)
  <2>1. n + 1 \in 1..(n + 1) /\ \A k \in (n + 1 + 1)..(n + 1) : FALSE
    OBVIOUS
  <2> QED BY <2>1 DEF HeldAfter
<1> QED BY <1>3, <1>4, <1>5

\* Giving a lock back takes it away, whatever its mode.
LEMMA HeldAfterFreeing ==
    ASSUME NEW s, NEW n \in Nat, NEW l \in LockNames, s[n + 1] = <<"free", l>>
    PROVE  HeldAfter(s, n + 1) = {h \in HeldAfter(s, n) : h[1] # l}
<1>1. ASSUME NEW h \in HeldAfter(s, n + 1) PROVE h \in HeldAfter(s, n) /\ h[1] # l
  <2>1. PICK i \in 1..(n + 1) : /\ s[i] = <<h[2], h[1]>>
                                /\ \A k \in (i + 1)..(n + 1) : s[k] # <<"free", h[1]>>
    BY DEF HeldAfter
  <2>2. h \in LockNames \X Modes
    BY DEF HeldAfter
  <2>3. i # n + 1
    <3>1. h[2] # "free"
      BY <2>2 DEF Modes
    <3> QED BY <2>1, <3>1
  <2>4. i \in 1..n /\ n + 1 \in (i + 1)..(n + 1) /\ \A k \in (i + 1)..n : k \in (i + 1)..(n + 1)
    BY <2>3
  <2>5. h[1] # l
    BY <2>1, <2>4
  <2> QED BY <2>1, <2>2, <2>4, <2>5 DEF HeldAfter
<1>2. ASSUME NEW h \in HeldAfter(s, n), h[1] # l PROVE h \in HeldAfter(s, n + 1)
  <2>1. PICK i \in 1..n : /\ s[i] = <<h[2], h[1]>>
                          /\ \A k \in (i + 1)..n : s[k] # <<"free", h[1]>>
    BY DEF HeldAfter
  <2>2. h \in LockNames \X Modes
    BY DEF HeldAfter
  <2>3. \A k \in (i + 1)..(n + 1) : k \in (i + 1)..n \/ k = n + 1
    OBVIOUS
  <2>4. i \in 1..(n + 1)
    OBVIOUS
  <2>5. s[n + 1] # <<"free", h[1]>>
    BY <1>2
  <2> QED BY <2>1, <2>2, <2>3, <2>4, <2>5 DEF HeldAfter
<1> QED BY <1>1, <1>2

\* What a call holds depends on the steps taken alone.
LEMMA HeldOfSame ==
    ASSUME NEW s, NEW u, NEW n \in Nat, \A i \in 1..n : s[i] = u[i]
    PROVE  HeldAfter(s, n) = HeldAfter(u, n)
<1>1. \A i \in 1..n : \A k \in (i + 1)..n : k \in 1..n
  OBVIOUS
<1>2. \A h : \A i \in 1..n :
        s[i] = <<h[2], h[1]>> /\ (\A k \in (i + 1)..n : s[k] # <<"free", h[1]>>) <=>
        u[i] = <<h[2], h[1]>> /\ (\A k \in (i + 1)..n : u[k] # <<"free", h[1]>>)
  BY <1>1
<1>3. HeldAfter(s, n) \subseteq HeldAfter(u, n)
  BY <1>2 DEF HeldAfter
<1>4. HeldAfter(u, n) \subseteq HeldAfter(s, n)
  BY <1>2 DEF HeldAfter
<1> QED BY <1>3, <1>4

-----------------------------------------------------------------------------
(* Calls put together                                                      *)

LEMMA ConcatIs ==
    ASSUME NEW s \in Seq(LockStep), NEW u \in Seq(LockStep)
    PROVE  /\ s \o u \in Seq(LockStep) /\ Len(s \o u) = Len(s) + Len(u)
           /\ Len(s) \in Nat /\ Len(u) \in Nat
           /\ \A i \in 1..Len(s) : (s \o u)[i] = s[i]
           /\ \A i \in 1..Len(u) : (s \o u)[Len(s) + i] = u[i]
OBVIOUS

\* A second call starts with nothing held by the first.
LEMMA HeldOfConcat ==
    ASSUME NEW s \in Seq(LockStep), NEW u \in Seq(LockStep), HeldAfter(s, Len(s)) = {}
    PROVE  /\ \A n \in 0..Len(s) : HeldAfter(s \o u, n) = HeldAfter(s, n)
           /\ \A n \in 0..Len(u) : HeldAfter(s \o u, Len(s) + n) = HeldAfter(u, n)
<1> DEFINE w == s \o u
           a == Len(s)
           b == Len(u)
<1>1. /\ a \in Nat /\ b \in Nat
      /\ \A i \in 1..a : w[i] = s[i]
      /\ \A i \in 1..b : w[a + i] = u[i]
  BY ConcatIs
<1>2. HeldAfter(s, a) = {}
  OBVIOUS
<1> HIDE DEF w, a, b
<1>3. \A n \in 0..a : HeldAfter(w, n) = HeldAfter(s, n)
  <2> TAKE n \in 0..a
  <2>1. \A i \in 1..n : w[i] = s[i]
    BY <1>1
  <2>2. n \in Nat
    BY <1>1
  <2> QED BY <2>1, <2>2, HeldOfSame
<1>4. ASSUME NEW n \in 0..b, NEW h \in HeldAfter(w, a + n) PROVE h \in HeldAfter(u, n)
  <2>1. PICK i \in 1..(a + n) : /\ w[i] = <<h[2], h[1]>>
                                /\ \A k \in (i + 1)..(a + n) : w[k] # <<"free", h[1]>>
    BY DEF HeldAfter
  <2>2. h \in LockNames \X Modes
    BY DEF HeldAfter
  <2>3. CASE i <= a
    <3>1. i \in 1..a /\ \A k \in (i + 1)..a : k \in 1..a /\ k \in (i + 1)..(a + n)
      BY <1>1, <2>3
    <3>2. s[i] = <<h[2], h[1]>> /\ \A k \in (i + 1)..a : s[k] # <<"free", h[1]>>
      BY <1>1, <2>1, <3>1
    <3>3. h \in HeldAfter(s, a)
      BY <2>2, <3>1, <3>2 DEF HeldAfter
    <3> QED BY <1>2, <3>3
  <2>4. CASE i > a
    <3>1. PICK j \in 1..n : i = a + j
      <4>1. i - a \in 1..n /\ i = a + (i - a)
        BY <1>1, <2>4
      <4> QED BY <4>1
    <3>2. j \in 1..b /\ \A k \in (j + 1)..n : k \in 1..b /\ a + k \in (i + 1)..(a + n)
      BY <1>1, <3>1
    <3>3. u[j] = <<h[2], h[1]>> /\ \A k \in (j + 1)..n : u[k] # <<"free", h[1]>>
      BY <1>1, <2>1, <3>1, <3>2
    <3> QED BY <2>2, <3>3 DEF HeldAfter
  <2> QED BY <1>1, <2>1, <2>3, <2>4
<1>5. ASSUME NEW n \in 0..b, NEW h \in HeldAfter(u, n) PROVE h \in HeldAfter(w, a + n)
  <2>1. PICK i \in 1..n : /\ u[i] = <<h[2], h[1]>>
                          /\ \A k \in (i + 1)..n : u[k] # <<"free", h[1]>>
    BY DEF HeldAfter
  <2>2. h \in LockNames \X Modes
    BY DEF HeldAfter
  <2>3. /\ i \in 1..b /\ a + i \in 1..(a + n)
        /\ \A k \in (a + i + 1)..(a + n) : \E j \in (i + 1)..n : j \in 1..b /\ k = a + j
    <3>1. i \in 1..b /\ a + i \in 1..(a + n)
      BY <1>1
    <3>2. ASSUME NEW k \in (a + i + 1)..(a + n)
          PROVE  \E j \in (i + 1)..n : j \in 1..b /\ k = a + j
      <4>1. k - a \in (i + 1)..n /\ k - a \in 1..b /\ k = a + (k - a)
        BY <1>1
      <4> QED BY <4>1
    <3> QED BY <3>1, <3>2
  <2>4. w[a + i] = <<h[2], h[1]>>
    BY <1>1, <2>1, <2>3
  <2>5. ASSUME NEW k \in (a + i + 1)..(a + n) PROVE w[k] # <<"free", h[1]>>
    <3>1. PICK j \in (i + 1)..n : j \in 1..b /\ k = a + j
      BY <2>3
    <3>2. w[k] = u[j]
      BY <1>1, <3>1
    <3> QED BY <2>1, <3>2
  <2> QED BY <2>2, <2>3, <2>4, <2>5 DEF HeldAfter
<1>6. \A n \in 0..b : HeldAfter(w, a + n) = HeldAfter(u, n)
  BY <1>4, <1>5
<1> QED BY <1>3, <1>6 DEF w, a, b

\* What holds of each part of two holds of each step of both.
LEMMA StepOfConcat ==
    ASSUME NEW a \in Nat, NEW b \in Nat, NEW j \in 1..(a + b)
    PROVE  j \in 1..a \/ \E i \in 1..b : j = a + i
<1>1. CASE j <= a
  BY <1>1
<1>2. CASE j > a
  <2>1. j - a \in 1..b /\ j = a + (j - a)
    BY <1>2
  <2> QED BY <2>1
<1> QED BY <1>1, <1>2

LEMMA SafeConcat ==
    ASSUME NEW H, NEW s, NEW u, Safe(s, H), Safe(u, H)
    PROVE  Safe(s \o u, H)
<1>1. /\ s \in Seq(LockStep) /\ u \in Seq(LockStep)
      /\ HeldAfter(s, Len(s)) = {} /\ HeldAfter(u, Len(u)) = {}
  BY DEF Safe
<1> DEFINE w == s \o u
           a == Len(s)
           b == Len(u)
<1>2. /\ w \in Seq(LockStep) /\ Len(w) = a + b /\ a \in Nat /\ b \in Nat
      /\ \A i \in 1..a : w[i] = s[i]
      /\ \A i \in 1..b : w[a + i] = u[i]
  BY <1>1, ConcatIs
<1>3. /\ \A n \in 0..a : HeldAfter(w, n) = HeldAfter(s, n)
      /\ \A n \in 0..b : HeldAfter(w, a + n) = HeldAfter(u, n)
  BY <1>1, HeldOfConcat
<1>4. Len(s) = a /\ Len(u) = b
  OBVIOUS
<1> HIDE DEF w, a, b
<1>5. HeldAfter(w, Len(w)) = {}
  <2>1. b \in 0..b
    BY <1>2
  <2> QED BY <1>1, <1>2, <1>3, <1>4, <2>1
<1>6. ASSUME NEW j \in 1..(a + b)
      PROVE  /\ \A h \in H : w[j][2] # h[1]
             /\ w[j][1] # "free" => Allowed(w[j], H \cup HeldAfter(w, j - 1))
             /\ Rotating \in HeldAfter(w, j) => Flushing \in H \cup HeldAfter(w, j)
  <2>1. CASE j \in 1..a
    <3>1. j - 1 \in 0..a /\ j \in 0..a
      BY <1>2, <2>1
    <3>2. w[j] = s[j] /\ HeldAfter(w, j) = HeldAfter(s, j) /\ HeldAfter(w, j - 1) = HeldAfter(s, j - 1)
      BY <1>2, <1>3, <2>1, <3>1
    <3> QED BY <1>4, <2>1, <3>2 DEF Safe
  <2>2. CASE \E i \in 1..b : j = a + i
    <3>1. PICK i \in 1..b : j = a + i
      BY <2>2
    <3>2. i - 1 \in 0..b /\ i \in 0..b /\ j - 1 = a + (i - 1)
      BY <1>2, <3>1
    <3>3. w[j] = u[i] /\ HeldAfter(w, j) = HeldAfter(u, i) /\ HeldAfter(w, j - 1) = HeldAfter(u, i - 1)
      BY <1>2, <1>3, <3>1, <3>2
    <3> QED BY <1>4, <3>1, <3>3 DEF Safe
  <2> QED BY <1>2, <2>1, <2>2, StepOfConcat
<1>7. Safe(w, H)
  BY <1>2, <1>5, <1>6 DEF Safe
<1> QED BY <1>7 DEF w

LEMMA SafeNothing == \A H : Safe(<< >>, H)
BY HeldAtStart DEF Safe

\* A call made while one more lock is held.
Around(m, l, inner) == <<<<m, l>>>> \o inner \o <<<<"free", l>>>>

LEMMA AroundIs ==
    ASSUME NEW m \in Modes, NEW l \in LockNames, NEW inner \in Seq(LockStep)
    PROVE  LET w == Around(m, l, inner)
           IN  /\ w \in Seq(LockStep) /\ Len(w) = Len(inner) + 2 /\ Len(inner) \in Nat
               /\ w[1] = <<m, l>> /\ w[Len(inner) + 2] = <<"free", l>>
               /\ \A i \in 1..Len(inner) : w[i + 1] = inner[i]
<1> DEFINE first == <<m, l>>
           last == <<"free", l>>
<1>1. first \in LockStep /\ last \in LockStep
  BY DEF LockStep, Modes
<1> HIDE DEF first, last
<1> DEFINE front == <<first>>
           back == <<last>>
<1>2. front \in Seq(LockStep) /\ Len(front) = 1 /\ front[1] = first
  BY <1>1
<1>3. back \in Seq(LockStep) /\ Len(back) = 1 /\ back[1] = last
  BY <1>1
<1> HIDE DEF front, back
<1>4. /\ front \o inner \in Seq(LockStep) /\ Len(front \o inner) = Len(inner) + 1
      /\ Len(inner) \in Nat
      /\ (front \o inner)[1] = first
      /\ \A i \in 1..Len(inner) : (front \o inner)[i + 1] = inner[i]
  <2>1. /\ front \o inner \in Seq(LockStep) /\ Len(front \o inner) = 1 + Len(inner)
        /\ Len(inner) \in Nat /\ 1 \in 1..Len(front)
        /\ \A i \in 1..Len(front) : (front \o inner)[i] = front[i]
        /\ \A i \in 1..Len(inner) : (front \o inner)[Len(front) + i] = inner[i]
    BY <1>2, ConcatIs
  <2>2. (front \o inner)[1] = first
    BY <1>2, <2>1
  <2>3. ASSUME NEW i \in 1..Len(inner) PROVE (front \o inner)[i + 1] = inner[i]
    <3>1. i + 1 = Len(front) + i
      BY <1>2
    <3> QED BY <2>1, <3>1
  <2> QED BY <2>1, <2>2, <2>3
<1> DEFINE most == front \o inner
<1> HIDE DEF most
<1>5. /\ most \o back \in Seq(LockStep) /\ Len(most \o back) = Len(inner) + 2
      /\ (most \o back)[1] = first
      /\ (most \o back)[Len(inner) + 2] = last
      /\ \A i \in 1..Len(inner) : (most \o back)[i + 1] = most[i + 1]
  BY <1>3, <1>4, SMTT(30) DEF most
<1>6. most \o back = Around(m, l, inner)
  BY DEF most, front, back, first, last, Around
<1> QED BY <1>4, <1>5, <1>6 DEF most, first, last

\* What is held inside is held with the lock around it.
LEMMA HeldAround ==
    ASSUME NEW m \in Modes, NEW l \in LockNames, NEW inner \in Seq(LockStep),
           \A j \in 1..Len(inner) : inner[j][2] # l,
           NEW n \in 0..Len(inner)
    PROVE  HeldAfter(Around(m, l, inner), n + 1) = {<<l, m>>} \cup HeldAfter(inner, n)
<1> DEFINE w == Around(m, l, inner)
           c == Len(inner)
<1>1. /\ c \in Nat /\ w[1] = <<m, l>>
      /\ \A i \in 1..c : w[i + 1] = inner[i]
  BY AroundIs
<1>2. \A j \in 1..c : inner[j][2] # l
  OBVIOUS
<1> HIDE DEF w, c
<1>3. ASSUME NEW h \in HeldAfter(w, n + 1) PROVE h \in {<<l, m>>} \cup HeldAfter(inner, n)
  <2>1. PICK i \in 1..(n + 1) : /\ w[i] = <<h[2], h[1]>>
                                /\ \A k \in (i + 1)..(n + 1) : w[k] # <<"free", h[1]>>
    BY DEF HeldAfter
  <2>2. h \in LockNames \X Modes
    BY DEF HeldAfter
  <2>3. CASE i = 1
    <3>1. h[1] = l /\ h[2] = m
      BY <1>1, <2>1, <2>3
    <3> QED BY <2>2, <3>1
  <2>4. CASE i # 1
    <3>1. PICK j \in 1..n : i = j + 1
      <4>1. i - 1 \in 1..n /\ i = (i - 1) + 1
        BY <1>1, <2>4
      <4> QED BY <4>1
    <3>2. j \in 1..c /\ \A k \in (j + 1)..n : k \in 1..c /\ k + 1 \in (i + 1)..(n + 1)
      BY <1>1, <3>1 DEF c
    <3>3. inner[j] = <<h[2], h[1]>> /\ \A k \in (j + 1)..n : inner[k] # <<"free", h[1]>>
      BY <1>1, <2>1, <3>1, <3>2
    <3> QED BY <2>2, <3>3 DEF HeldAfter
  <2> QED BY <2>3, <2>4
<1>4. ASSUME NEW h \in HeldAfter(inner, n) PROVE h \in HeldAfter(w, n + 1)
  <2>1. PICK i \in 1..n : /\ inner[i] = <<h[2], h[1]>>
                          /\ \A k \in (i + 1)..n : inner[k] # <<"free", h[1]>>
    BY DEF HeldAfter
  <2>2. h \in LockNames \X Modes
    BY DEF HeldAfter
  <2>3. i \in 1..c /\ i + 1 \in 1..(n + 1)
    BY <1>1 DEF c
  <2>4. w[i + 1] = <<h[2], h[1]>>
    BY <1>1, <2>1, <2>3
  <2>5. ASSUME NEW k \in (i + 1 + 1)..(n + 1) PROVE w[k] # <<"free", h[1]>>
    <3>1. k - 1 \in (i + 1)..n /\ k - 1 \in 1..c /\ k = (k - 1) + 1
      BY <1>1 DEF c
    <3>2. w[k] = inner[k - 1]
      BY <1>1, <3>1
    <3> QED BY <2>1, <3>1, <3>2
  <2> QED BY <2>2, <2>3, <2>4, <2>5 DEF HeldAfter
<1>5. <<l, m>> \in HeldAfter(w, n + 1)
  <2>1. 1 \in 1..(n + 1)
    OBVIOUS
  <2>2. ASSUME NEW k \in (1 + 1)..(n + 1) PROVE w[k] # <<"free", l>>
    <3>1. k - 1 \in 1..c /\ k = (k - 1) + 1
      BY <1>1 DEF c
    <3>2. w[k] = inner[k - 1] /\ inner[k - 1][2] # l
      BY <1>1, <1>2, <3>1
    <3> QED BY <3>2
  <2>3. <<l, m>> \in LockNames \X Modes
    OBVIOUS
  <2> QED BY <1>1, <2>1, <2>2, <2>3 DEF HeldAfter
<1>6. HeldAfter(w, n + 1) = {<<l, m>>} \cup HeldAfter(inner, n)
  BY <1>3, <1>4, <1>5
<1> QED BY <1>6 DEF w

LEMMA SafeAround ==
    ASSUME NEW H, NEW m \in Modes, NEW l \in LockNames, NEW inner,
           Allowed(<<m, l>>, H), \A h \in H : h[1] # l,
           Safe(inner, H \cup {<<l, m>>})
    PROVE  Safe(Around(m, l, inner), H)
<1> DEFINE w == Around(m, l, inner)
           c == Len(inner)
           O == H \cup {<<l, m>>}
<1>1. /\ inner \in Seq(LockStep) /\ HeldAfter(inner, c) = {}
      /\ \A j \in 1..c : \A h \in O : inner[j][2] # h[1]
      /\ \A j \in 1..c : inner[j][1] # "free" => Allowed(inner[j], O \cup HeldAfter(inner, j - 1))
      /\ \A j \in 1..c : Rotating \in HeldAfter(inner, j) => Flushing \in O \cup HeldAfter(inner, j)
  BY DEF Safe
<1>2. \A j \in 1..c : inner[j][2] # l
  <2>1. <<l, m>> \in O /\ <<l, m>>[1] = l
    OBVIOUS
  <2> QED BY <1>1, <2>1
<1>3. /\ w \in Seq(LockStep) /\ Len(w) = c + 2 /\ c \in Nat
      /\ w[1] = <<m, l>> /\ w[c + 2] = <<"free", l>>
      /\ \A i \in 1..c : w[i + 1] = inner[i]
  BY <1>1, AroundIs
<1>4. \A n \in 0..c : HeldAfter(w, n + 1) = {<<l, m>>} \cup HeldAfter(inner, n)
  BY <1>1, <1>2, HeldAround
<1> HIDE DEF w, c
<1>5. HeldAfter(w, c + 1) = {<<l, m>>}
  <2>1. c \in 0..c
    BY <1>3
  <2>2. HeldAfter(w, c + 1) = {<<l, m>>} \cup HeldAfter(inner, c)
    BY <1>4, <2>1
  <2>3. HeldAfter(inner, c) = {}
    BY <1>1
  <2> QED BY <2>2, <2>3
<1>6. HeldAfter(w, c + 2) = {}
  <2> DEFINE n == c + 1
  <2>1. n \in Nat /\ n + 1 = c + 2
    BY <1>3
  <2>2. w[n + 1] = <<"free", l>>
    BY <1>3, <2>1
  <2>3. HeldAfter(w, n) = {<<l, m>>}
    BY <1>5
  <2> HIDE DEF n
  <2>4. HeldAfter(w, n + 1) = {h \in HeldAfter(w, n) : h[1] # l}
    BY <2>1, <2>2, HeldAfterFreeing
  <2>5. {h \in HeldAfter(w, n) : h[1] # l} = {}
    BY <2>3
  <2> QED BY <2>1, <2>4, <2>5
<1>7. ASSUME NEW j \in 1..(c + 2)
      PROVE  /\ \A h \in H : w[j][2] # h[1]
             /\ w[j][1] # "free" => Allowed(w[j], H \cup HeldAfter(w, j - 1))
             /\ Rotating \in HeldAfter(w, j) => Flushing \in H \cup HeldAfter(w, j)
  <2>1. CASE j = 1
    <3>1. w[j] = <<m, l>> /\ HeldAfter(w, j - 1) = {}
      BY <1>3, <2>1, HeldAtStart
    <3>2. HeldAfter(w, j) = {<<l, m>>}
      <4>1. 0 \in 0..c /\ 0 + 1 = j
        BY <1>3, <2>1
      <4>2. HeldAfter(w, j) = {<<l, m>>} \cup HeldAfter(inner, 0)
        BY <1>4, <4>1
      <4> QED BY <4>2, HeldAtStart
    <3>3. Rotating = <<l, m>> => Flushing \in H
      BY DEF Allowed, Rotating
    <3>4. Allowed(w[j], H \cup HeldAfter(w, j - 1))
      <4>1. H \cup {} = H
        OBVIOUS
      <4> QED BY <3>1, <4>1
    <3> QED BY <3>1, <3>2, <3>3, <3>4
  <2>2. CASE \E i \in 1..c : j = 1 + i
    <3>1. PICK i \in 1..c : j = 1 + i
      BY <2>2
    <3>2. i - 1 \in 0..c /\ i \in 0..c /\ j - 1 = (i - 1) + 1 /\ j = i + 1
      BY <1>3, <3>1
    <3>3. /\ w[j] = inner[i]
          /\ H \cup HeldAfter(w, j - 1) = O \cup HeldAfter(inner, i - 1)
          /\ HeldAfter(w, j) = {<<l, m>>} \cup HeldAfter(inner, i)
      BY <1>3, <1>4, <3>2
    <3>4. \A h \in H : w[j][2] # h[1]
      BY <1>1, <3>3
    <3>5. w[j][1] # "free" => Allowed(w[j], H \cup HeldAfter(w, j - 1))
      BY <1>1, <3>3
    <3>6. Rotating \in HeldAfter(w, j) => Flushing \in H \cup HeldAfter(w, j)
      <4>1. CASE Rotating = <<l, m>>
        BY <4>1 DEF Allowed, Rotating
      <4>2. CASE Rotating # <<l, m>>
        <5>1. Rotating \in HeldAfter(w, j) => Flushing \in O \cup HeldAfter(inner, i)
          BY <1>1, <3>3, <4>2
        <5> QED BY <3>3, <5>1
      <4> QED BY <4>1, <4>2
    <3> QED BY <3>4, <3>5, <3>6
  <2>3. CASE j = c + 2
    BY <1>3, <1>6, <2>3
  <2>4. j = 1 \/ (\E i \in 1..c : j = 1 + i) \/ j = c + 2
    <3>1. CASE j = 1 \/ j = c + 2
      BY <3>1
    <3>2. CASE j # 1 /\ j # c + 2
      <4>1. j - 1 \in 1..c /\ j = 1 + (j - 1)
        BY <1>3, <3>2
      <4> QED BY <4>1
    <3> QED BY <3>1, <3>2
  <2> QED BY <2>1, <2>2, <2>3, <2>4
<1>8. Safe(w, H)
  BY <1>3, <1>6, <1>7 DEF Safe
<1> QED BY <1>8 DEF w

\* All locks of H are below rank r.
Below(H, r) == \A h \in H : LockRank(h[1]) \in 0..7 /\ LockRank(h[1]) < r

LEMMA BelowNone == \A r : Below({}, r)
BY DEF Below

\* A lock above all those held may be taken.
LEMMA SafeHold ==
    ASSUME NEW H, NEW l \in LockNames, l # "memtable", Below(H, LockRank(l)),
           NEW inner, Safe(inner, H \cup {<<l, "lock">>})
    PROVE  Safe(Hold(l, inner), H)
<1>1. Allowed(<<"lock", l>>, H)
  BY DEF Allowed, Below
<1>2. \A h \in H : h[1] # l
  BY DEF Below
<1>3. Safe(Around("lock", l, inner), H)
  BY <1>1, <1>2, SafeAround DEF Modes
<1> QED BY <1>3 DEF Hold, Around

LEMMA SafeShare ==
    ASSUME NEW H, NEW l \in LockNames, Below(H, LockRank(l)),
           NEW inner, Safe(inner, H \cup {<<l, "share">>})
    PROVE  Safe(Share(l, inner), H)
<1>1. Allowed(<<"share", l>>, H)
  BY DEF Allowed, Below
<1>2. \A h \in H : h[1] # l
  BY DEF Below
<1>3. Safe(Around("share", l, inner), H)
  BY <1>1, <1>2, SafeAround DEF Modes
<1> QED BY <1>3 DEF Share, Around

-----------------------------------------------------------------------------
(* The calls                                                               *)

LEMMA Ranks ==
    /\ LockRank("providers") = 0 /\ LockRank("rag") = 1 /\ LockRank("agent") = 1
    /\ LockRank("flush") = 2 /\ LockRank("compact") = 2
    /\ LockRank("wal") = 3 /\ LockRank("memtable") = 4 /\ LockRank("imm") = 5
    /\ LockRank("version") = 6 /\ LockRank("manifest") = 6
    /\ LockRank("tools") = 6 /\ LockRank("prompts") = 6 /\ LockRank("level") = 6
    /\ LockRank("observers") = 6
    /\ LockRank("cache") = 7 /\ LockRank("table") = 7 /\ LockRank("collected") = 7
BY DEF LockRank

\* A lock that is taken and given back at once.
LEMMA SafeTouch ==
    ASSUME NEW H, NEW l \in LockNames, Below(H, LockRank(l))
    PROVE  /\ Safe(Share(l, << >>), H)
           /\ l # "memtable" => Safe(Hold(l, << >>), H)
BY SafeNothing, SafeHold, SafeShare

LEMMA SafeTable ==
    ASSUME NEW H, Below(H, 7)
    PROVE  Safe(TableInsert, H) /\ Safe(TableRead, H)
<1>1. "table" \in LockNames
  BY DEF LockNames
<1> QED BY <1>1, Ranks, SafeTouch DEF TableInsert, TableRead

\* A look at a memtable under the lock of the active one or of the list of the others.
LEMMA SafeMemTable ==
    ASSUME NEW H, Below(H, 4)
    PROVE  /\ Safe(Share("memtable", TableInsert), H)
           /\ Safe(Share("memtable", TableRead), H)
           /\ Safe(Share("imm", TableRead), H)
<1>1. "memtable" \in LockNames /\ "imm" \in LockNames
  BY DEF LockNames
<1>2. /\ Below(H \cup {<<"memtable", "share">>}, 7)
      /\ Below(H \cup {<<"imm", "share">>}, 7)
  <2>1. \A l \in {"memtable", "imm"} : l \in LockNames /\ LockRank(l) < 7
    BY <1>1, Ranks
  <2>2. \A l \in {"memtable", "imm"} : Below(H \cup {<<l, "share">>}, 7)
    BY <2>1, Ranks DEF Below
  <2> QED BY <2>2
<1>3. Below(H, 5)
  BY DEF Below
<1> QED BY <1>1, <1>2, <1>3, SafeTable, SafeShare, Ranks

\* Calls made with nothing held, or the lock of a provider or of an engine over the store.
Outside(H) == Below(H, 2)

LEMMA OutsideIs == \A H : Outside(H) => \A r \in 2..7 : Below(H, r)
BY DEF Outside, Below

LEMMA OutsideTouch ==
    ASSUME NEW H, Outside(H)
    PROVE  \A l \in LockNames : LockRank(l) >= 2 =>
             /\ Safe(Share(l, << >>), H)
             /\ l # "memtable" => Safe(Hold(l, << >>), H)
<1> SUFFICES ASSUME NEW l \in LockNames, LockRank(l) >= 2
             PROVE  Safe(Share(l, << >>), H) /\ (l # "memtable" => Safe(Hold(l, << >>), H))
  OBVIOUS
<1>1. LockRank(l) \in 2..7
  BY RankIsNumber
<1> QED BY <1>1, OutsideIs, SafeTouch

LEMMA SafeWrite == ASSUME NEW H, Outside(H) PROVE Safe(WriteLocks, H)
<1>1. "wal" \in LockNames /\ "memtable" \in LockNames
  BY DEF LockNames
<1>2. Safe(Hold("wal", << >>), H) /\ Safe(Share("memtable", << >>), H)
  BY <1>1, OutsideTouch, Ranks
<1>3. Safe(Share("memtable", TableInsert), H)
  BY OutsideIs, SafeMemTable
<1> DEFINE a == Hold("wal", << >>)
           b == Share("memtable", TableInsert)
           c == Share("memtable", << >>)
<1> HIDE DEF a, b, c
<1>4. Safe(a \o b, H)
  BY <1>2, <1>3, SafeConcat DEF a, b
<1>5. Safe((a \o b) \o c, H)
  BY <1>2, <1>4, SafeConcat DEF c
<1> QED BY <1>5 DEF WriteLocks, a, b, c

LEMMA SafeGet ==
    ASSUME NEW H, Outside(H)
    PROVE  Safe(GetActiveLocks, H) /\ Safe(GetImmLocks, H) /\ Safe(GetTablesLocks, H)
<1>1. Safe(GetActiveLocks, H) /\ Safe(Share("imm", TableRead), H)
  BY OutsideIs, SafeMemTable DEF GetActiveLocks
<1>2. "version" \in LockNames /\ "cache" \in LockNames
  BY DEF LockNames
<1>3. Safe(Share("version", << >>), H) /\ Safe(Hold("cache", << >>), H)
  BY <1>2, OutsideTouch, Ranks
<1> DEFINE imms == Share("imm", TableRead)
           version == Share("version", << >>)
           cache == Hold("cache", << >>)
<1> HIDE DEF imms, version, cache
<1>4. Safe(GetActiveLocks \o imms, H)
  BY <1>1, SafeConcat DEF imms
<1>5. Safe(GetImmLocks, H)
  BY <1>4 DEF GetImmLocks, imms
<1>6. Safe(GetImmLocks \o version, H)
  BY <1>3, <1>5, SafeConcat DEF version
<1>7. Safe((GetImmLocks \o version) \o cache, H)
  BY <1>3, <1>6, SafeConcat DEF cache
<1>8. Safe(GetTablesLocks, H)
  BY <1>7 DEF GetTablesLocks, version, cache
<1> QED BY <1>1, <1>5, <1>8

LEMMA SafeScan == ASSUME NEW H, Outside(H) PROVE Safe(ScanLocks, H)
<1>1. Safe(Share("memtable", TableRead), H) /\ Safe(Share("imm", TableRead), H)
  BY OutsideIs, SafeMemTable
<1>2. "version" \in LockNames /\ "cache" \in LockNames
  BY DEF LockNames
<1>3. Safe(Share("version", << >>), H) /\ Safe(Hold("cache", << >>), H)
  BY <1>2, OutsideTouch, Ranks
<1> DEFINE active == Share("memtable", TableRead)
           imms == Share("imm", TableRead)
           version == Share("version", << >>)
           cache == Hold("cache", << >>)
<1> HIDE DEF active, imms, version, cache
<1>4. Safe(version \o cache, H)
  BY <1>3, SafeConcat DEF version, cache
<1>5. Safe((version \o cache) \o imms, H)
  BY <1>1, <1>4, SafeConcat DEF imms
<1>6. Safe(((version \o cache) \o imms) \o active, H)
  BY <1>1, <1>5, SafeConcat DEF active
<1> QED BY <1>6 DEF ScanLocks, active, imms, version, cache

\* What a flush holds.
LEMMA FlushHolds ==
    ASSUME NEW H, Outside(H)
    PROVE  /\ \A r \in 3..7 : Below(H \cup {Flushing}, r)
           /\ \A h \in H \cup {Flushing} : h[1] \notin {"wal", "memtable", "imm"}
<1>1. "flush" \in LockNames
  BY DEF LockNames
<1>2. Below(H \cup {<<"flush", "lock">>}, 3)
  BY <1>1, Ranks DEF Outside, Below
<1>3. Below(H \cup {Flushing}, 3)
  BY <1>2 DEF Flushing
<1>4. \A l \in {"wal", "memtable", "imm"} : ~ LockRank(l) < 3
  BY Ranks
<1> QED BY <1>3, <1>4 DEF Below

LEMMA SafeRotate == ASSUME NEW H, Outside(H) PROVE Safe(RotateLocks, H \cup {Flushing})
<1> DEFINE F == H \cup {Flushing}
           G == F \cup {<<"memtable", "lock">>}
<1>1. "memtable" \in LockNames /\ "imm" \in LockNames
  BY DEF LockNames
<1>2. Below(F, 4) /\ \A h \in F : h[1] # "memtable"
  <2>1. 4 \in 3..7
    OBVIOUS
  <2> QED BY <2>1, FlushHolds
<1>3. Flushing \in F
  OBVIOUS
<1> HIDE DEF F
<1>4. Below(G, 5)
  BY <1>1, <1>2, Ranks DEF Below
<1>5. Below(G, 7)
  BY <1>4 DEF Below
<1> HIDE DEF G
<1>6. Safe(TableRead, G) /\ Safe(Hold("imm", << >>), G)
  BY <1>1, <1>4, <1>5, SafeTable, SafeTouch, Ranks
<1>7. Safe(TableRead \o Hold("imm", << >>), G)
  BY <1>6, SafeConcat
<1>8. Allowed(<<"lock", "memtable">>, F)
  BY <1>2, <1>3, Ranks DEF Allowed, Below
<1>9. Safe(Around("lock", "memtable", TableRead \o Hold("imm", << >>)), F)
  BY <1>1, <1>2, <1>7, <1>8, SafeAround DEF G, Modes
<1> QED BY <1>9 DEF RotateLocks, Hold, Around, F

\* The one look that goes against the ranks.
LEMMA SafeRewrite == ASSUME NEW H, Outside(H) PROVE Safe(RewriteLocks, H \cup {Flushing})
<1> DEFINE F == H \cup {Flushing}
           W == F \cup {<<"wal", "lock">>}
           I == W \cup {<<"imm", "lock">>}
           M == I \cup {<<"memtable", "share">>}
<1>1. "wal" \in LockNames /\ "memtable" \in LockNames /\ "imm" \in LockNames
  BY DEF LockNames
<1>2. Below(F, 3) /\ \A h \in F : h[1] # "memtable"
  <2>1. 3 \in 3..7
    OBVIOUS
  <2> QED BY <2>1, FlushHolds
<1>3. \A h \in I : h[1] # "memtable"
  BY <1>2
<1>4. Flushing \in I
  OBVIOUS
<1> HIDE DEF F
<1>5. Below(W, 5)
  BY <1>1, <1>2, Ranks DEF Below
<1> HIDE DEF W
<1>6. Below(I, 6)
  BY <1>1, <1>5, Ranks DEF Below
<1> HIDE DEF I
<1>7. Below(M, 7)
  BY <1>1, <1>6, Ranks DEF Below
<1>8. Below(I, 7)
  BY <1>6 DEF Below
<1> HIDE DEF M
<1>9. Safe(TableRead, I) /\ Safe(TableRead, M)
  BY <1>7, <1>8, SafeTable
<1>10. Allowed(<<"share", "memtable">>, I)
  BY <1>3, <1>4 DEF Allowed
<1>11. Safe(Around("share", "memtable", TableRead), I)
  BY <1>1, <1>3, <1>9, <1>10, SafeAround DEF M, Modes
<1>12. Safe(Share("memtable", TableRead), I)
  BY <1>11 DEF Share, Around
<1> DEFINE looks == TableRead \o Share("memtable", TableRead)
<1>13. Safe(looks, I)
  BY <1>9, <1>12, SafeConcat
<1> HIDE DEF looks
<1>14. Safe(Hold("imm", looks), W)
  BY <1>1, <1>5, <1>13, SafeHold, Ranks DEF I
<1>15. Safe(Hold("wal", Hold("imm", looks)), F)
  BY <1>1, <1>2, <1>14, SafeHold, Ranks DEF W
<1> QED BY <1>15 DEF RewriteLocks, looks, F

LEMMA SafeFlush ==
    ASSUME NEW H, Outside(H)
    PROVE  Safe(FlushLocks, H) /\ Safe(NothingToFlushLocks, H)
<1> DEFINE F == H \cup {Flushing}
           manifest == Hold("manifest", << >>)
           version == Hold("version", << >>)
<1>1. {"flush", "memtable", "manifest", "version"} \subseteq LockNames
  BY DEF LockNames
<1>2. Safe(RotateLocks, F) /\ Safe(RewriteLocks, F)
  BY SafeRotate, SafeRewrite
<1>3. Below(F, 6) /\ Below(F, 7) /\ Below(F, 4) /\ \A h \in F : h[1] # "memtable"
  <2>1. 4 \in 3..7 /\ 6 \in 3..7 /\ 7 \in 3..7
    OBVIOUS
  <2> QED BY <2>1, FlushHolds
<1>4. Flushing \in F
  OBVIOUS
<1> HIDE DEF F
<1>5. Safe(TableRead, F) /\ Safe(manifest, F) /\ Safe(version, F)
  BY <1>1, <1>3, SafeTable, SafeTouch, Ranks
<1> HIDE DEF manifest, version
<1>6. Safe(manifest \o version, F)
  BY <1>5, SafeConcat
<1>7. Safe(EditLocks, F)
  BY <1>6 DEF EditLocks, manifest, version
<1>8. Safe(RotateLocks \o TableRead, F)
  BY <1>2, <1>5, SafeConcat
<1>9. Safe((RotateLocks \o TableRead) \o EditLocks, F)
  BY <1>7, <1>8, SafeConcat
<1>10. Safe(((RotateLocks \o TableRead) \o EditLocks) \o RewriteLocks, F)
  BY <1>2, <1>9, SafeConcat
<1> DEFINE G == F \cup {<<"memtable", "lock">>}
<1>11. Below(G, 7)
  BY <1>1, <1>3, Ranks DEF Below
<1> HIDE DEF G
<1>12. Safe(TableRead, G)
  BY <1>11, SafeTable
<1>13. Allowed(<<"lock", "memtable">>, F)
  BY <1>3, <1>4, Ranks DEF Allowed, Below
<1>14. Safe(Around("lock", "memtable", TableRead), F)
  BY <1>1, <1>3, <1>12, <1>13, SafeAround DEF G, Modes
<1>15. Safe(Hold("memtable", TableRead), F)
  BY <1>14 DEF Hold, Around
<1>16. \A inner : Safe(inner, F) => Safe(Hold("flush", inner), H)
  <2>1. \A inner : Safe(inner, H \cup {<<"flush", "lock">>}) => Safe(Hold("flush", inner), H)
    BY <1>1, SafeHold, Ranks DEF Outside
  <2> QED BY <2>1 DEF F, Flushing
<1> QED BY <1>10, <1>15, <1>16 DEF FlushLocks, NothingToFlushLocks

LEMMA SafeCompact == ASSUME NEW H, Outside(H) PROVE Safe(CompactLocks, H)
<1> DEFINE C == H \cup {<<"compact", "lock">>}
           look == Share("version", << >>)
           log == Hold("manifest", << >>)
           apply == Hold("version", << >>)
<1>1. {"compact", "manifest", "version"} \subseteq LockNames
  BY DEF LockNames
<1>2. Below(C, 6)
  BY <1>1, Ranks DEF Outside, Below
<1> HIDE DEF C
<1>3. Safe(look, C) /\ Safe(log, C) /\ Safe(apply, C)
  BY <1>1, <1>2, SafeTouch, Ranks
<1> HIDE DEF look, log, apply
<1>4. Safe(log \o apply, C)
  BY <1>3, SafeConcat
<1>5. Safe(look \o (log \o apply), C)
  BY <1>3, <1>4, SafeConcat
<1>6. Safe((look \o (log \o apply)) \o look, C)
  BY <1>3, <1>5, SafeConcat
<1>7. Safe(Hold("compact", (look \o (log \o apply)) \o look), H)
  BY <1>1, <1>6, SafeHold, Ranks DEF Outside, C
<1> QED BY <1>7 DEF CompactLocks, EditLocks, look, log, apply

LEMMA SafeStats == ASSUME NEW H, Outside(H) PROVE Safe(StatsLocks, H)
<1> DEFINE M == H \cup {<<"memtable", "share">>}
<1>1. {"memtable", "imm", "version"} \subseteq LockNames
  BY DEF LockNames
<1>2. Below(M, 5)
  BY <1>1, Ranks DEF Outside, Below
<1> HIDE DEF M
<1>3. Safe(Share("imm", << >>), M)
  BY <1>1, <1>2, SafeTouch, Ranks
<1>4. Below(H, 4)
  BY OutsideIs
<1>5. Safe(Share("memtable", Share("imm", << >>)), H)
  BY <1>1, <1>3, <1>4, SafeShare, Ranks DEF M
<1>6. Safe(Share("version", << >>), H)
  BY <1>1, OutsideTouch, Ranks
<1> QED BY <1>5, <1>6, SafeConcat DEF StatsLocks

\* Every call of the engine and of the server takes its locks in the order of their ranks.
LEMMA CallsSafe == \A call \in EngineCalls \cup ServerCalls : Safe(call, {})
<1>1. Outside({})
  BY BelowNone DEF Outside
<1>2. /\ Safe(WriteLocks, {}) /\ Safe(FlushLocks, {}) /\ Safe(NothingToFlushLocks, {})
      /\ Safe(GetActiveLocks, {}) /\ Safe(GetImmLocks, {}) /\ Safe(GetTablesLocks, {})
      /\ Safe(ScanLocks, {}) /\ Safe(CompactLocks, {}) /\ Safe(StatsLocks, {})
  BY <1>1, SafeWrite, SafeFlush, SafeGet, SafeScan, SafeCompact, SafeStats
<1>3. \A l \in LockNames : /\ Safe(Share(l, << >>), {})
                           /\ l # "memtable" => Safe(Hold(l, << >>), {})
  <2> SUFFICES ASSUME NEW l \in LockNames
               PROVE  Safe(Share(l, << >>), {}) /\ (l # "memtable" => Safe(Hold(l, << >>), {}))
    OBVIOUS
  <2> QED BY BelowNone, SafeTouch
<1>4. {"wal", "observers", "collected", "level", "tools", "prompts", "providers", "rag", "agent"}
        \subseteq LockNames
  BY DEF LockNames
<1>5. ASSUME NEW call \in EngineCalls PROVE Safe(call, {})
  <2>1. Safe(WriteLocks \o FlushLocks, {}) /\ Safe(WriteLocks \o NothingToFlushLocks, {})
    BY <1>2, SafeConcat
  <2>2. Safe(CloseLocks, {})
    BY <1>3, <1>4 DEF CloseLocks
  <2> QED BY <1>2, <2>1, <2>2 DEF EngineCalls
<1>6. Safe(BroadcastLocks, {})
  <2> DEFINE O == {} \cup {<<"observers", "share">>}
  <2>1. Below(O, 7)
    BY Ranks DEF Below
  <2> HIDE DEF O
  <2>2. Safe(Hold("collected", << >>), O)
    BY <1>4, <2>1, SafeTouch, Ranks
  <2> QED BY <1>4, <2>2, SafeShare, BelowNone DEF BroadcastLocks, O
<1>7. Safe(LogLocks, {})
  BY <1>3, <1>4, <1>6, SafeConcat DEF LogLocks
<1>8. Safe(RegisterLocks("tools"), {}) /\ Safe(RegisterLocks("prompts"), {})
  <2>1. Safe(Hold("tools", << >>), {}) /\ Safe(Hold("prompts", << >>), {})
    BY <1>3, <1>4
  <2> QED BY <1>6, <2>1, SafeConcat DEF RegisterLocks
<1>9. Safe(Hold("agent", WriteLocks \o FlushLocks), {})
  <2> DEFINE A == {} \cup {<<"agent", "lock">>}
  <2>1. Outside(A)
    BY Ranks DEF Outside, Below
  <2> HIDE DEF A
  <2>2. Safe(WriteLocks \o FlushLocks, A)
    BY <2>1, SafeWrite, SafeFlush, SafeConcat
  <2> QED BY <1>4, <2>2, SafeHold, BelowNone DEF A
<1>10. \A call : Safe(call, {}) => Safe(ToolLocks(call), {})
  <2>1. Safe(Share("tools", << >>), {})
    BY <1>3, <1>4
  <2> QED BY <2>1, SafeConcat DEF ToolLocks
<1>11. Safe(ReadResourceLocks(StatsLocks), {})
  <2> DEFINE P == {} \cup {<<"providers", "share">>}
  <2>1. Outside(P)
    BY Ranks DEF Outside, Below
  <2> HIDE DEF P
  <2>2. Safe(StatsLocks, P)
    BY <2>1, SafeStats
  <2> QED BY <1>4, <2>2, SafeShare, BelowNone DEF ReadResourceLocks, P
<1>12. Safe(ReadResourceLocks(Share("rag", << >>) \o Share("agent", << >>)), {})
  <2> DEFINE P == {} \cup {<<"providers", "share">>}
  <2>1. Below(P, 1)
    BY Ranks DEF Below
  <2> HIDE DEF P
  <2>2. Safe(Share("rag", << >>), P) /\ Safe(Share("agent", << >>), P)
    BY <1>4, <2>1, SafeTouch, Ranks
  <2>3. Safe(Share("rag", << >>) \o Share("agent", << >>), P)
    BY <2>2, SafeConcat
  <2> QED BY <1>4, <2>3, SafeShare, BelowNone DEF ReadResourceLocks, P
<1>13. ASSUME NEW call \in ServerCalls PROVE Safe(call, {})
  <2>1. /\ Safe(Hold("observers", << >>), {}) /\ Safe(Hold("providers", << >>), {})
        /\ Safe(Hold("level", << >>), {}) /\ Safe(Hold("rag", << >>), {})
        /\ Safe(Share("tools", << >>), {}) /\ Safe(Share("providers", << >>), {})
        /\ Safe(Share("prompts", << >>), {})
    BY <1>3, <1>4
  <2>2. /\ Safe(ToolLocks(WriteLocks), {}) /\ Safe(ToolLocks(StatsLocks), {})
        /\ Safe(ToolLocks(Hold("rag", << >>)), {})
        /\ Safe(ToolLocks(Hold("agent", WriteLocks \o FlushLocks)), {})
    BY <1>2, <1>9, <1>10, <2>1
  <2> QED BY <1>7, <1>8, <1>11, <1>12, <2>1, <2>2 DEF ServerCalls
<1> QED BY <1>5, <1>13

-----------------------------------------------------------------------------
(* The threads                                                             *)

\* What a thread has still to do, and what it holds, are those of a point of a safe call.
OnCall(todo, holds) ==
    \E call : /\ Safe(call, {})
              /\ todo \in Seq(LockStep)
              /\ \E n \in 0..Len(call) :
                    /\ Len(todo) = Len(call) - n
                    /\ \A i \in 1..Len(todo) : todo[i] = call[n + i]
                    /\ holds = HeldAfter(call, n)

LEMMA OnCallStart == ASSUME NEW call, Safe(call, {}) PROVE OnCall(call, {})
<1>1. call \in Seq(LockStep)
  BY DEF Safe
<1>2. /\ 0 \in 0..Len(call) /\ Len(call) = Len(call) - 0
      /\ \A i \in 1..Len(call) : call[i] = call[0 + i]
  BY <1>1
<1>3. {} = HeldAfter(call, 0)
  BY HeldAtStart
<1> QED BY <1>1, <1>2, <1>3 DEF OnCall

LEMMA OnCallFacts ==
    ASSUME NEW todo, NEW holds, OnCall(todo, holds)
    PROVE  /\ todo \in Seq(LockStep)
           /\ todo = << >> => holds = {}
           /\ Rotating \in holds => Flushing \in holds
           /\ todo # << >> =>
                /\ Head(todo) \in LockStep
                /\ Head(todo)[1] # "free" => Allowed(Head(todo), holds)
<1>1. PICK call : /\ Safe(call, {})
                  /\ todo \in Seq(LockStep)
                  /\ \E n \in 0..Len(call) :
                       /\ Len(todo) = Len(call) - n
                       /\ \A i \in 1..Len(todo) : todo[i] = call[n + i]
                       /\ holds = HeldAfter(call, n)
  BY DEF OnCall
<1>2. PICK n \in 0..Len(call) : /\ Len(todo) = Len(call) - n
                                /\ \A i \in 1..Len(todo) : todo[i] = call[n + i]
                                /\ holds = HeldAfter(call, n)
  BY <1>1
<1>3. /\ call \in Seq(LockStep) /\ Len(call) \in Nat /\ n \in Nat /\ HeldAfter(call, Len(call)) = {}
      /\ \A j \in 1..Len(call) :
           /\ call[j][1] # "free" => Allowed(call[j], {} \cup HeldAfter(call, j - 1))
           /\ Rotating \in HeldAfter(call, j) => Flushing \in {} \cup HeldAfter(call, j)
  BY <1>1 DEF Safe
<1>4. todo = << >> => holds = {}
  <2> SUFFICES ASSUME todo = << >> PROVE holds = {}
    OBVIOUS
  <2>1. Len(todo) = 0
    OBVIOUS
  <2>2. n = Len(call)
    BY <1>2, <1>3, <2>1
  <2> QED BY <1>2, <1>3, <2>2
<1>5. Rotating \in holds => Flushing \in holds
  <2>1. CASE n = 0
    BY <1>2, <2>1, HeldAtStart
  <2>2. CASE n # 0
    <3>1. n \in 1..Len(call)
      BY <1>3, <2>2
    <3> QED BY <1>2, <1>3, <3>1
  <2> QED BY <2>1, <2>2
<1>6. ASSUME todo # << >>
      PROVE  /\ Head(todo) \in LockStep
             /\ Head(todo)[1] # "free" => Allowed(Head(todo), holds)
  <2>1. Head(todo) \in LockStep /\ Head(todo) = todo[1] /\ 1 \in 1..Len(todo)
    BY <1>1, <1>6
  <2>2. n + 1 \in 1..Len(call) /\ (n + 1) - 1 = n
    BY <1>2, <1>3, <2>1
  <2>3. Head(todo) = call[n + 1]
    BY <1>2, <2>1
  <2>4. call[n + 1][1] # "free" => Allowed(call[n + 1], {} \cup HeldAfter(call, n))
    BY <1>3, <2>2
  <2>5. {} \cup HeldAfter(call, n) = holds
    BY <1>2
  <2> QED BY <2>1, <2>3, <2>4, <2>5
<1> QED BY <1>1, <1>4, <1>5, <1>6

LEMMA OnCallNext ==
    ASSUME NEW todo, NEW holds, OnCall(todo, holds), todo # << >>
    PROVE  LET s == Head(todo)
           IN  /\ s[1] # "free" => OnCall(Tail(todo), holds \cup {<<s[2], s[1]>>})
               /\ s[1] = "free" => OnCall(Tail(todo), {h \in holds : h[1] # s[2]})
<1>1. PICK call : /\ Safe(call, {})
                  /\ todo \in Seq(LockStep)
                  /\ \E n \in 0..Len(call) :
                       /\ Len(todo) = Len(call) - n
                       /\ \A i \in 1..Len(todo) : todo[i] = call[n + i]
                       /\ holds = HeldAfter(call, n)
  BY DEF OnCall
<1>2. PICK n \in 0..Len(call) : /\ Len(todo) = Len(call) - n
                                /\ \A i \in 1..Len(todo) : todo[i] = call[n + i]
                                /\ holds = HeldAfter(call, n)
  BY <1>1
<1> DEFINE s == Head(todo)
           rest == Tail(todo)
<1>3. /\ call \in Seq(LockStep) /\ Len(call) \in Nat /\ n \in Nat
      /\ s \in LockStep /\ s = todo[1] /\ 1 \in 1..Len(todo)
      /\ rest \in Seq(LockStep) /\ Len(rest) = Len(todo) - 1 /\ Len(todo) \in Nat
      /\ \A i \in 1..Len(rest) : rest[i] = todo[i + 1]
  BY <1>1 DEF Safe
<1>4. n + 1 \in 0..Len(call) /\ s = call[n + 1]
  BY <1>2, <1>3
<1> HIDE DEF s, rest
<1>5. Len(rest) = Len(call) - (n + 1) /\ \A i \in 1..Len(rest) : rest[i] = call[(n + 1) + i]
  <2>1. ASSUME NEW i \in 1..Len(rest) PROVE rest[i] = call[(n + 1) + i]
    <3>1. i + 1 \in 1..Len(todo) /\ n + (i + 1) = (n + 1) + i
      BY <1>3
    <3> QED BY <1>2, <1>3, <3>1
  <2> QED BY <1>2, <1>3, <2>1
<1>6. \A after : after = HeldAfter(call, n + 1) => OnCall(rest, after)
  BY <1>1, <1>3, <1>4, <1>5 DEF OnCall
<1>7. s = <<s[1], s[2]>> /\ s[1] \in {"lock", "share", "free"} /\ s[2] \in LockNames
  BY <1>3 DEF LockStep
<1>8. ASSUME s[1] # "free" PROVE OnCall(rest, holds \cup {<<s[2], s[1]>>})
  <2>1. s[1] \in Modes
    BY <1>7, <1>8 DEF Modes
  <2>2. HeldAfter(call, n + 1) = HeldAfter(call, n) \cup {<<s[2], s[1]>>}
    <3> DEFINE m == s[1]
               l == s[2]
    <3>1. call[n + 1] = <<m, l>>
      BY <1>4, <1>7
    <3>2. m \in Modes
      BY <2>1
    <3>3. l \in LockNames
      BY <1>7
    <3>4. n \in Nat
      BY <1>3
    <3> HIDE DEF m, l
    <3>5. HeldAfter(call, n + 1) = HeldAfter(call, n) \cup {<<l, m>>}
      BY <3>1, <3>2, <3>3, <3>4, HeldAfterTaking
    <3> QED BY <3>5 DEF m, l
  <2> QED BY <1>2, <1>6, <2>2
<1>9. ASSUME s[1] = "free" PROVE OnCall(rest, {h \in holds : h[1] # s[2]})
  <2>1. HeldAfter(call, n + 1) = {h \in HeldAfter(call, n) : h[1] # s[2]}
    <3> DEFINE l == s[2]
    <3>1. call[n + 1] = <<"free", l>> /\ l \in LockNames
      BY <1>4, <1>7, <1>9
    <3>2. n \in Nat
      BY <1>3
    <3> HIDE DEF l
    <3>3. HeldAfter(call, n + 1) = {h \in HeldAfter(call, n) : h[1] # l}
      BY <3>1, <3>2, HeldAfterFreeing
    <3> QED BY <3>3 DEF l
  <2> QED BY <1>2, <1>6, <2>1
<1> QED BY <1>8, <1>9 DEF s, rest

\* The inductive invariant: who asks for a lock has a lock to take next, and one thread
\* flushes at a time.
LocksInv ==
    /\ asking \subseteq Threads
    /\ steps = [t \in Threads |-> steps[t]]
    /\ held = [t \in Threads |-> held[t]]
    /\ \A t \in Threads : OnCall(steps[t], held[t])
    /\ \A t \in asking : steps[t] # << >> /\ Next1(t)[1] = "lock"
    /\ \A t, u \in Threads : Flushing \in held[t] /\ Flushing \in held[u] => t = u

LEMMA InitLocks == LocksInit => LocksInv
<1> SUFFICES ASSUME LocksInit PROVE LocksInv
  OBVIOUS
<1>1. OnCall(<< >>, {})
  BY SafeNothing, OnCallStart
<1>2. \A t \in Threads : OnCall(steps[t], held[t])
  BY <1>1 DEF LocksInit
<1> QED BY <1>2 DEF LocksInit, LocksInv

\* A step of t that leaves the others alone.
LEMMA OthersKept ==
    ASSUME LocksInv, NEW t \in Threads, NEW todo, NEW holds, NEW waiting,
           OnCall(todo, holds), waiting \subseteq asking \cup {t},
           t \in waiting => todo # << >> /\ Head(todo)[1] = "lock",
           Flushing \in holds => \A u \in Threads \ {t} : Flushing \notin held[u],
           steps' = [steps EXCEPT ![t] = todo], held' = [held EXCEPT ![t] = holds],
           asking' = waiting
    PROVE  LocksInv'
<1>1. /\ steps = [u \in Threads |-> steps[u]] /\ held = [u \in Threads |-> held[u]]
      /\ asking \subseteq Threads
      /\ \A u \in Threads : OnCall(steps[u], held[u])
      /\ \A u \in asking : steps[u] # << >> /\ Next1(u)[1] = "lock"
      /\ \A u, v \in Threads : Flushing \in held[u] /\ Flushing \in held[v] => u = v
  BY DEF LocksInv
<1>2. /\ steps' = [u \in Threads |-> steps'[u]] /\ held' = [u \in Threads |-> held'[u]]
      /\ steps'[t] = todo /\ held'[t] = holds
      /\ \A u \in Threads \ {t} : steps'[u] = steps[u] /\ held'[u] = held[u]
  BY <1>1
<1>3. \A u \in Threads : OnCall(steps'[u], held'[u])
  BY <1>1, <1>2
<1>4. asking' \subseteq Threads
  BY <1>1
<1>5. ASSUME NEW u \in asking' PROVE steps'[u] # << >> /\ Next1(u)'[1] = "lock"
  <2>1. CASE u = t
    BY <1>2, <2>1 DEF Next1
  <2>2. CASE u # t
    BY <1>1, <1>2, <1>4, <2>2 DEF Next1
  <2> QED BY <2>1, <2>2
<1>6. \A u, v \in Threads : Flushing \in held'[u] /\ Flushing \in held'[v] => u = v
  BY <1>1, <1>2
<1> QED BY <1>2, <1>3, <1>4, <1>5, <1>6 DEF LocksInv

LEMMA NextLocks == LocksInv /\ [LocksNext]_lvars => LocksInv'
<1> SUFFICES ASSUME LocksInv, [LocksNext]_lvars PROVE LocksInv'
  OBVIOUS
<1>1. ASSUME NEW t \in Threads, MakeCall(t) PROVE LocksInv'
  <2>1. OnCall(steps[t], held[t]) /\ steps[t] = << >>
    BY <1>1 DEF LocksInv, MakeCall
  <2>2. held[t] = {}
    BY <2>1, OnCallFacts
  <2>3. PICK call \in EngineCalls \cup ServerCalls : steps' = [steps EXCEPT ![t] = call]
    BY <1>1 DEF MakeCall
  <2>4. OnCall(call, {})
    BY CallsSafe, OnCallStart
  <2>5. held' = [held EXCEPT ![t] = {}] /\ asking' = asking /\ t \notin asking
    BY <1>1, <2>1, <2>2 DEF MakeCall, LocksInv
  <2> QED BY <2>3, <2>4, <2>5, OthersKept
<1>2. ASSUME NEW t \in Threads, Ask(t) PROVE LocksInv'
  <2>1. /\ steps' = [steps EXCEPT ![t] = steps[t]] /\ held' = [held EXCEPT ![t] = held[t]]
        /\ asking' = asking \cup {t}
    BY <1>2 DEF Ask, LocksInv
  <2>2. /\ OnCall(steps[t], held[t]) /\ steps[t] # << >> /\ Head(steps[t])[1] = "lock"
        /\ Flushing \in held[t] => \A u \in Threads \ {t} : Flushing \notin held[u]
    BY <1>2 DEF Ask, LocksInv, Next1
  <2> QED BY <2>1, <2>2, OthersKept
<1>3. ASSUME NEW t \in Threads, Acquire(t) PROVE LocksInv'
  <2> DEFINE s == Head(steps[t])
             holds == held[t] \cup {<<s[2], s[1]>>}
  <2>1. OnCall(steps[t], held[t]) /\ steps[t] # << >> /\ s[1] = "lock"
    BY <1>3 DEF Acquire, LocksInv, Next1
  <2>2. OnCall(Tail(steps[t]), holds)
    BY <2>1, OnCallNext
  <2>3. /\ steps' = [steps EXCEPT ![t] = Tail(steps[t])] /\ held' = [held EXCEPT ![t] = holds]
        /\ asking' = asking \ {t}
    BY <1>3, <2>1 DEF Acquire, Next1
  <2>4. Flushing \in holds => \A u \in Threads \ {t} : Flushing \notin held[u]
    <3>1. CASE Flushing \in held[t]
      BY <3>1 DEF LocksInv
    <3>2. CASE Flushing = <<s[2], s[1]>>
      <4>1. s[2] = "flush"
        BY <3>2 DEF Flushing
      <4>2. \A u \in Threads : \A m \in {"lock", "share"} : <<s[2], m>> \notin held[u]
        BY <1>3 DEF Acquire, Held, Next1
      <4> QED BY <4>1, <4>2 DEF Flushing
    <3> QED BY <3>1, <3>2
  <2> HIDE DEF holds
  <2> QED BY <2>2, <2>3, <2>4, OthersKept
<1>4. ASSUME NEW t \in Threads, AcquireShared(t) PROVE LocksInv'
  <2> DEFINE s == Head(steps[t])
             holds == held[t] \cup {<<s[2], s[1]>>}
  <2>1. OnCall(steps[t], held[t]) /\ steps[t] # << >> /\ s[1] = "share"
    BY <1>4 DEF AcquireShared, LocksInv, Next1
  <2>2. OnCall(Tail(steps[t]), holds)
    BY <2>1, OnCallNext
  <2>3. /\ steps' = [steps EXCEPT ![t] = Tail(steps[t])] /\ held' = [held EXCEPT ![t] = holds]
        /\ asking' = asking
    BY <1>4, <2>1 DEF AcquireShared, Next1
  <2>4. t \notin asking
    BY <2>1 DEF LocksInv, Next1
  <2>5. Flushing \in holds => \A u \in Threads \ {t} : Flushing \notin held[u]
    <3>1. Flushing # <<s[2], s[1]>>
      BY <2>1 DEF Flushing
    <3> QED BY <3>1 DEF LocksInv
  <2> HIDE DEF holds
  <2> QED BY <2>2, <2>3, <2>4, <2>5, OthersKept
<1>5. ASSUME NEW t \in Threads, Release(t) PROVE LocksInv'
  <2> DEFINE s == Head(steps[t])
             holds == {h \in held[t] : h[1] # s[2]}
  <2>1. OnCall(steps[t], held[t]) /\ steps[t] # << >> /\ s[1] = "free"
    BY <1>5 DEF Release, LocksInv, Next1
  <2>2. OnCall(Tail(steps[t]), holds)
    BY <2>1, OnCallNext
  <2>3. /\ steps' = [steps EXCEPT ![t] = Tail(steps[t])] /\ held' = [held EXCEPT ![t] = holds]
        /\ asking' = asking
    BY <1>5 DEF Release, Next1
  <2>4. t \notin asking
    BY <2>1 DEF LocksInv, Next1
  <2>5. Flushing \in holds => \A u \in Threads \ {t} : Flushing \notin held[u]
    BY DEF LocksInv
  <2> HIDE DEF holds
  <2> QED BY <2>2, <2>3, <2>4, <2>5, OthersKept
<1>6. ASSUME NEW t \in Threads, Fails(t) PROVE LocksInv'
  <2>1. OnCall(<< >>, {})
    BY SafeNothing, OnCallStart
  <2>2. /\ steps' = [steps EXCEPT ![t] = << >>] /\ held' = [held EXCEPT ![t] = {}]
        /\ asking' = asking /\ t \notin asking
    BY <1>6 DEF Fails
  <2> QED BY <2>1, <2>2, OthersKept
<1>7. CASE UNCHANGED lvars
  BY <1>7 DEF lvars, LocksInv, Next1
<1> QED BY <1>1, <1>2, <1>3, <1>4, <1>5, <1>6, <1>7 DEF LocksNext

-----------------------------------------------------------------------------
(* No circle                                                               *)

\* The rank of the lock that a thread takes next.
WantsRank(t) == LockRank(Next1(t)[2])

\* In a circle of threads that block each other a thread wants a lock above all it holds:
\* the look of a flush is blocked by no thread.
LEMMA BlockedWantsMore ==
    ASSUME LocksInv, NEW S \in SUBSET Threads, \A t \in S : \E u \in S : Blocks(u, t),
           NEW t \in S
    PROVE  /\ Next1(t) \in LockStep /\ Next1(t)[1] # "free" /\ WantsRank(t) \in 0..7
           /\ \A h \in held[t] : LockRank(h[1]) < WantsRank(t)
<1>1. \A v \in S : /\ OnCall(steps[v], held[v]) /\ steps[v] # << >>
                   /\ Next1(v)[1] = "lock" \/ Next1(v)[1] = "share"
  BY DEF LocksInv, Blocks
<1>2. \A v \in S : Next1(v) \in LockStep /\ Allowed(Next1(v), held[v])
  BY <1>1, OnCallFacts DEF Next1
<1>3. \A v \in Threads : Rotating \in held[v] => Flushing \in held[v]
  BY OnCallFacts DEF LocksInv
<1>4. WantsRank(t) \in 0..7
  <2>1. Next1(t)[2] \in LockNames
    BY <1>2 DEF LockStep
  <2> QED BY <2>1, RankIsNumber DEF WantsRank
<1>5. ~ (/\ Next1(t) = <<"share", "memtable">> /\ Flushing \in held[t]
         /\ \A h \in held[t] : h[1] # "memtable")
  <2> SUFFICES ASSUME Next1(t) = <<"share", "memtable">>, Flushing \in held[t],
                      \A h \in held[t] : h[1] # "memtable"
               PROVE  FALSE
    OBVIOUS
  <2>1. PICK u \in S : Blocks(u, t)
    OBVIOUS
  <2>2. CASE <<"memtable", "lock">> \in held[u]
    <3>1. Flushing \in held[u]
      BY <1>3, <2>2 DEF Rotating
    <3>2. u = t
      BY <3>1 DEF LocksInv
    <3> QED BY <2>2, <3>2
  <2>3. CASE u # t /\ u \in asking /\ Next1(u) = <<"lock", "memtable">>
    <3>1. Flushing \in held[u]
      BY <1>2, <2>3 DEF Allowed
    <3> QED BY <2>3, <3>1 DEF LocksInv
  <2> QED BY <2>1, <2>2, <2>3 DEF Blocks
<1> QED BY <1>1, <1>2, <1>4, <1>5 DEF Allowed, WantsRank

\* So there is always one that wants more.
LEMMA CircleClimbs ==
    ASSUME LocksInv, NEW S \in SUBSET Threads, \A t \in S : \E u \in S : Blocks(u, t),
           NEW t \in S
    PROVE  \E u \in S : WantsRank(u) > WantsRank(t)
<1>1. \A v \in S : /\ WantsRank(v) \in 0..7
                   /\ \A h \in held[v] : LockRank(h[1]) < WantsRank(v)
  BY BlockedWantsMore
<1>2. ASSUME NEW v \in S, NEW u \in S, NEW m, <<Next1(v)[2], m>> \in held[u]
      PROVE  WantsRank(v) < WantsRank(u)
  <2>1. LockRank(<<Next1(v)[2], m>>[1]) < WantsRank(u)
    BY <1>1, <1>2
  <2> QED BY <2>1 DEF WantsRank
<1>3. PICK u \in S : Blocks(u, t)
  OBVIOUS
<1>4. CASE \E m \in {"lock", "share"} : <<Next1(t)[2], m>> \in held[u]
  BY <1>2, <1>4
<1>5. CASE Next1(u) = <<"lock", Next1(t)[2]>>
  <2>1. PICK v \in S : Blocks(v, u)
    OBVIOUS
  <2>2. \E m \in {"lock", "share"} : <<Next1(u)[2], m>> \in held[v]
    BY <1>5, <2>1 DEF Blocks
  <2>3. WantsRank(u) < WantsRank(v)
    BY <1>2, <2>2
  <2>4. WantsRank(u) = WantsRank(t)
    BY <1>5 DEF WantsRank
  <2> QED BY <2>3, <2>4
<1> QED BY <1>3, <1>4, <1>5 DEF Blocks

\* However many threads call the engine or the server, no threads wait for each other in a
\* circle: not even those that flush, which lock the memtables before the WAL and after it
\* (engine.rs:277-375).
THEOREM LocksNeverDeadlock == LocksSpec => []NoDeadlock
<1>1. LocksInv => NoDeadlock
  <2> SUFFICES ASSUME LocksInv, NEW S \in SUBSET Threads, S # {},
                      \A t \in S : \E u \in S : Blocks(u, t)
               PROVE  FALSE
    BY DEF NoDeadlock
  <2> DEFINE Reaches(n) == \E t \in S : WantsRank(t) >= n
  <2>1. \A t \in S : WantsRank(t) \in 0..7
    BY BlockedWantsMore
  <2>2. \A t \in S : \E u \in S : WantsRank(u) > WantsRank(t)
    BY CircleClimbs
  <2>3. Reaches(0)
    BY <2>1
  <2>4. ASSUME NEW n \in 0..7, Reaches(n) PROVE Reaches(n + 1)
    <3>1. PICK t \in S : WantsRank(t) >= n
      BY <2>4
    <3>2. PICK u \in S : WantsRank(u) > WantsRank(t)
      BY <2>2
    <3>3. WantsRank(u) >= n + 1
      BY <2>1, <3>1, <3>2
    <3> QED BY <3>3
  <2>5. ~ Reaches(8)
    BY <2>1
  <2> HIDE DEF Reaches
  <2>6. /\ Reaches(1) /\ Reaches(2) /\ Reaches(3) /\ Reaches(4)
        /\ Reaches(5) /\ Reaches(6) /\ Reaches(7) /\ Reaches(8)
    <3>1. /\ 0 \in 0..7 /\ 1 \in 0..7 /\ 2 \in 0..7 /\ 3 \in 0..7 /\ 4 \in 0..7 /\ 5 \in 0..7
          /\ 6 \in 0..7 /\ 7 \in 0..7
      OBVIOUS
    <3> QED BY <2>3, <2>4, <3>1
  <2> QED BY <2>5, <2>6
<1> QED BY <1>1, InitLocks, NextLocks, PTL DEF LocksSpec

-----------------------------------------------------------------------------
(* The block cache: nodes and the writes to them                           *)

Cells(K, V) == [key : K, value : V, prev : Nat, next : Nat]

Caches(K, V) ==
    [nodes : Seq(Cells(K, V) \cup {Cache!Vacant}), free : Seq(Nat),
     map : UNION {[D -> Nat] : D \in SUBSET K}, head : Nat, tail : Nat]

Used(c) == {i \in 1..Len(c.nodes) : c.nodes[i] # Cache!Vacant}

\* Only links differ.
Relinked(c, d) ==
    /\ d.free = c.free /\ d.map = c.map /\ Len(d.nodes) = Len(c.nodes) /\ Used(d) = Used(c)
    /\ \A u \in Used(c) : /\ d.nodes[u].key = c.nodes[u].key
                          /\ d.nodes[u].value = c.nodes[u].value

LEMMA CellIsNotVacant ==
    ASSUME NEW K, NEW V, NEW x \in Cells(K, V)
    PROVE  x # Cache!Vacant
<1>1. "key" \in DOMAIN x
  BY DEF Cells
<1>2. DOMAIN << >> = {}
  OBVIOUS
<1> QED BY <1>1, <1>2 DEF Cache!Vacant

LEMMA UsedAreCells ==
    ASSUME NEW K, NEW V, NEW c \in Caches(K, V), NEW u \in Used(c)
    PROVE  u \in 1..Len(c.nodes) /\ u \in Nat \ {0} /\ c.nodes[u] \in Cells(K, V)
<1>1. c.nodes \in Seq(Cells(K, V) \cup {Cache!Vacant})
  BY DEF Caches
<1> QED BY <1>1 DEF Used

\* A cell in the place of another.
Replaced(c, d, i, x) ==
    /\ d.head = c.head /\ d.tail = c.tail /\ d.free = c.free /\ d.map = c.map
    /\ Len(d.nodes) = Len(c.nodes) /\ Used(d) = Used(c)
    /\ d.nodes[i] = x
    /\ \A u \in 1..Len(c.nodes) : u # i => d.nodes[u] = c.nodes[u]

LEMMA CellReplaced ==
    ASSUME NEW K, NEW V, NEW c \in Caches(K, V), NEW i \in Used(c), NEW x \in Cells(K, V),
           NEW d, d = [c EXCEPT !.nodes = [c.nodes EXCEPT ![i] = x]]
    PROVE  d \in Caches(K, V) /\ Replaced(c, d, i, x)
<1> DEFINE T == Cells(K, V) \cup {Cache!Vacant}
<1>1. c.nodes \in Seq(T) /\ i \in 1..Len(c.nodes)
  BY UsedAreCells DEF Caches
<1>2. c = [nodes |-> c.nodes, free |-> c.free, map |-> c.map, head |-> c.head, tail |-> c.tail]
  BY DEF Caches
<1>3. d = [nodes |-> [c.nodes EXCEPT ![i] = x], free |-> c.free, map |-> c.map,
           head |-> c.head, tail |-> c.tail]
  BY <1>2
<1>4. x \in T
  OBVIOUS
<1>5. d.nodes \in Seq(T) /\ Len(d.nodes) = Len(c.nodes) /\ d.nodes[i] = x
      /\ \A u \in 1..Len(c.nodes) : u # i => d.nodes[u] = c.nodes[u]
  <2>1. d.nodes = [c.nodes EXCEPT ![i] = x]
    BY <1>3
  <2> HIDE DEF T
  <2> QED BY <1>1, <1>4, <2>1
<1>6. Used(d) = Used(c)
  <2>1. x # Cache!Vacant /\ c.nodes[i] # Cache!Vacant
    BY CellIsNotVacant DEF Used
  <2> QED BY <1>1, <1>5, <2>1 DEF Used
<1>7. d \in Caches(K, V)
  BY <1>3, <1>5 DEF Caches
<1> QED BY <1>3, <1>5, <1>6, <1>7 DEF Replaced

\* The single writes of detach and attach_head.
SetPrev(c, i, p) == [c EXCEPT !.nodes[i].prev = p]
SetNext(c, i, n) == [c EXCEPT !.nodes[i].next = n]
SetHead(c, i) == [c EXCEPT !.head = i]
SetTail(c, i) == [c EXCEPT !.tail = i]

\* What such a write changes.
PrevIs(c, d, i, p) ==
    /\ Relinked(c, d) /\ d.head = c.head /\ d.tail = c.tail
    /\ \A u \in Used(c) : /\ d.nodes[u].prev = IF u = i THEN p ELSE c.nodes[u].prev
                          /\ d.nodes[u].next = c.nodes[u].next
NextIs(c, d, i, n) ==
    /\ Relinked(c, d) /\ d.head = c.head /\ d.tail = c.tail
    /\ \A u \in Used(c) : /\ d.nodes[u].next = IF u = i THEN n ELSE c.nodes[u].next
                          /\ d.nodes[u].prev = c.nodes[u].prev
HeadIs(c, d, i) == Relinked(c, d) /\ d.nodes = c.nodes /\ d.tail = c.tail /\ d.head = i
TailIs(c, d, i) == Relinked(c, d) /\ d.nodes = c.nodes /\ d.head = c.head /\ d.tail = i

LEMMA PrevWritten ==
    ASSUME NEW K, NEW V, NEW c \in Caches(K, V), NEW i \in Used(c), NEW p \in Nat
    PROVE  SetPrev(c, i, p) \in Caches(K, V) /\ PrevIs(c, SetPrev(c, i, p), i, p)
<1> DEFINE x == [c.nodes[i] EXCEPT !.prev = p]
           d == SetPrev(c, i, p)
<1>1. c.nodes[i] \in Cells(K, V)
  BY UsedAreCells
<1>2. /\ x \in Cells(K, V) /\ x.key = c.nodes[i].key /\ x.value = c.nodes[i].value
      /\ x.prev = p /\ x.next = c.nodes[i].next
  BY <1>1 DEF Cells
<1>3. d = [c EXCEPT !.nodes = [c.nodes EXCEPT ![i] = x]]
  BY DEF SetPrev
<1> HIDE DEF x, d
<1>4. x \in Cells(K, V)
  BY <1>2
<1>5. d \in Caches(K, V) /\ Replaced(c, d, i, x)
  BY <1>3, <1>4, CellReplaced
<1>6. \A u \in Used(c) : u \in 1..Len(c.nodes)
  BY DEF Used
<1>7. d \in Caches(K, V) /\ PrevIs(c, d, i, p)
  BY <1>2, <1>5, <1>6 DEF Relinked, Replaced, PrevIs
<1> QED BY <1>7 DEF d

LEMMA NextWritten ==
    ASSUME NEW K, NEW V, NEW c \in Caches(K, V), NEW i \in Used(c), NEW n \in Nat
    PROVE  SetNext(c, i, n) \in Caches(K, V) /\ NextIs(c, SetNext(c, i, n), i, n)
<1> DEFINE x == [c.nodes[i] EXCEPT !.next = n]
           d == SetNext(c, i, n)
<1>1. c.nodes[i] \in Cells(K, V)
  BY UsedAreCells
<1>2. /\ x \in Cells(K, V) /\ x.key = c.nodes[i].key /\ x.value = c.nodes[i].value
      /\ x.next = n /\ x.prev = c.nodes[i].prev
  BY <1>1 DEF Cells
<1>3. d = [c EXCEPT !.nodes = [c.nodes EXCEPT ![i] = x]]
  BY DEF SetNext
<1> HIDE DEF x, d
<1>4. x \in Cells(K, V)
  BY <1>2
<1>5. d \in Caches(K, V) /\ Replaced(c, d, i, x)
  BY <1>3, <1>4, CellReplaced
<1>6. \A u \in Used(c) : u \in 1..Len(c.nodes)
  BY DEF Used
<1>7. d \in Caches(K, V) /\ NextIs(c, d, i, n)
  BY <1>2, <1>5, <1>6 DEF Relinked, Replaced, NextIs
<1> QED BY <1>7 DEF d

LEMMA EndsWritten ==
    ASSUME NEW K, NEW V, NEW c \in Caches(K, V), NEW i \in Nat
    PROVE  /\ SetHead(c, i) \in Caches(K, V) /\ HeadIs(c, SetHead(c, i), i)
           /\ SetTail(c, i) \in Caches(K, V) /\ TailIs(c, SetTail(c, i), i)
BY DEF Caches, Relinked, Used, SetHead, SetTail, HeadIs, TailIs

LEMMA RelinkedTwice ==
    ASSUME NEW b, NEW c, NEW d, Relinked(b, c), Relinked(c, d)
    PROVE  Relinked(b, d)
BY DEF Relinked

-----------------------------------------------------------------------------
(* Detaching and attaching                                                 *)

\* The neighbours p and n of node i close the gap.
DetachIs(c, d, i, p, n) ==
    /\ Relinked(c, d)
    /\ d.head = IF p = 0 THEN n ELSE c.head
    /\ d.tail = IF n = 0 THEN p ELSE c.tail
    /\ \A u \in Used(c) : u # i =>
          /\ d.nodes[u].next = IF u = p THEN n ELSE c.nodes[u].next
          /\ d.nodes[u].prev = IF u = n THEN p ELSE c.nodes[u].prev

LEMMA DetachWrites ==
    ASSUME NEW K, NEW V, NEW c \in Caches(K, V), NEW i \in Used(c), NEW p, NEW n,
           p = c.nodes[i].prev, n = c.nodes[i].next,
           p \in Used(c) \cup {0}, n \in Used(c) \cup {0}
    PROVE  Cache!Detach(c, i) \in Caches(K, V) /\ DetachIs(c, Cache!Detach(c, i), i, p, n)
<1> DEFINE a == IF p # 0 THEN SetNext(c, p, n) ELSE SetHead(c, n)
           b == IF n # 0 THEN SetPrev(a, n, p) ELSE SetTail(a, p)
           e == SetPrev(b, i, 0)
           f == SetNext(e, i, 0)
<1>1. Cache!Detach(c, i) = f
  BY DEF Cache!Detach, SetPrev, SetNext, SetHead, SetTail
<1>2. 0 \notin Used(c)
  BY UsedAreCells
<1>3. p \in Nat /\ n \in Nat /\ 0 \in Nat
  BY UsedAreCells
<1>4. a \in Caches(K, V) /\ IF p # 0 THEN NextIs(c, a, p, n) ELSE HeadIs(c, a, n)
  <2>1. CASE p # 0
    <3>1. p \in Used(c)
      BY <2>1
    <3> QED BY <1>3, <2>1, <3>1, NextWritten
  <2>2. CASE p = 0
    BY <1>3, <2>2, EndsWritten
  <2> QED BY <2>1, <2>2
<1> HIDE DEF a
<1>5. Used(a) = Used(c)
  BY <1>4 DEF NextIs, HeadIs, Relinked
<1>6. b \in Caches(K, V) /\ IF n # 0 THEN PrevIs(a, b, n, p) ELSE TailIs(a, b, p)
  <2>1. CASE n # 0
    <3>1. n \in Used(a)
      BY <1>5, <2>1
    <3> QED BY <1>3, <1>4, <2>1, <3>1, PrevWritten
  <2>2. CASE n = 0
    BY <1>3, <1>4, <2>2, EndsWritten
  <2> QED BY <2>1, <2>2
<1> HIDE DEF b
<1>7. Used(b) = Used(c)
  BY <1>5, <1>6 DEF PrevIs, TailIs, Relinked
<1>8. e \in Caches(K, V) /\ PrevIs(b, e, i, 0)
  BY <1>3, <1>6, <1>7, PrevWritten
<1> HIDE DEF e
<1>9. Used(e) = Used(c)
  BY <1>7, <1>8 DEF PrevIs, Relinked
<1>10. f \in Caches(K, V) /\ NextIs(e, f, i, 0)
  BY <1>3, <1>8, <1>9, NextWritten
<1> HIDE DEF f
<1>11. Relinked(c, f)
  BY <1>4, <1>6, <1>8, <1>10, RelinkedTwice DEF PrevIs, NextIs, HeadIs, TailIs
<1>12. f.head = (IF p = 0 THEN n ELSE c.head) /\ f.tail = (IF n = 0 THEN p ELSE c.tail)
  BY <1>4, <1>6, <1>8, <1>10 DEF PrevIs, NextIs, HeadIs, TailIs
<1>13. ASSUME NEW u \in Used(c), u # i
       PROVE  /\ f.nodes[u].next = IF u = p THEN n ELSE c.nodes[u].next
              /\ f.nodes[u].prev = IF u = n THEN p ELSE c.nodes[u].prev
  <2>1. /\ a.nodes[u].next = (IF u = p THEN n ELSE c.nodes[u].next)
        /\ a.nodes[u].prev = c.nodes[u].prev
    BY <1>2, <1>4 DEF NextIs, HeadIs
  <2>2. /\ b.nodes[u].prev = (IF u = n THEN p ELSE a.nodes[u].prev)
        /\ b.nodes[u].next = a.nodes[u].next
    BY <1>2, <1>5, <1>6 DEF PrevIs, TailIs
  <2>3. f.nodes[u].next = b.nodes[u].next /\ f.nodes[u].prev = b.nodes[u].prev
    BY <1>7, <1>8, <1>9, <1>10, <1>13 DEF PrevIs, NextIs
  <2> QED BY <2>1, <2>2, <2>3
<1> QED BY <1>1, <1>10, <1>11, <1>12, <1>13 DEF DetachIs

\* Node i is the first, before node h.
AttachIs(c, d, i, h) ==
    /\ Relinked(c, d)
    /\ d.head = i
    /\ d.tail = IF h = 0 THEN i ELSE c.tail
    /\ \A u \in Used(c) :
          /\ d.nodes[u].next = IF u = i THEN h ELSE c.nodes[u].next
          /\ d.nodes[u].prev = IF u = i THEN 0 ELSE IF u = h THEN i ELSE c.nodes[u].prev

LEMMA AttachWrites ==
    ASSUME NEW K, NEW V, NEW c \in Caches(K, V), NEW i \in Used(c), NEW h,
           h = c.head, h \in Used(c) \cup {0}, h # i
    PROVE  Cache!AttachHead(c, i) \in Caches(K, V) /\ AttachIs(c, Cache!AttachHead(c, i), i, h)
<1> DEFINE e == SetPrev(c, i, 0)
           a == SetNext(e, i, h)
           b == IF h # 0 THEN SetPrev(a, h, i) ELSE SetTail(a, i)
           f == SetHead(b, i)
<1>1. Cache!AttachHead(c, i) = f
  <2>1. a.head = h
    <3>1. c.head = h /\ c \in Caches(K, V)
      OBVIOUS
    <3> QED BY <3>1 DEF Caches, SetPrev, SetNext
  <2> QED BY <2>1 DEF Cache!AttachHead, SetPrev, SetNext, SetHead, SetTail
<1>2. 0 \notin Used(c)
  BY UsedAreCells
<1>3. i \in Nat /\ h \in Nat /\ 0 \in Nat
  BY UsedAreCells
<1>4. e \in Caches(K, V) /\ PrevIs(c, e, i, 0)
  BY <1>3, PrevWritten
<1> HIDE DEF e
<1>5. Used(e) = Used(c)
  BY <1>4 DEF PrevIs, Relinked
<1>6. a \in Caches(K, V) /\ NextIs(e, a, i, h)
  BY <1>3, <1>4, <1>5, NextWritten
<1> HIDE DEF a
<1>7. Used(a) = Used(c)
  BY <1>5, <1>6 DEF NextIs, Relinked
<1>8. b \in Caches(K, V) /\ IF h # 0 THEN PrevIs(a, b, h, i) ELSE TailIs(a, b, i)
  <2>1. CASE h # 0
    <3>1. h \in Used(a)
      BY <1>7, <2>1
    <3> QED BY <1>3, <1>6, <2>1, <3>1, PrevWritten
  <2>2. CASE h = 0
    BY <1>3, <1>6, <2>2, EndsWritten
  <2> QED BY <2>1, <2>2
<1> HIDE DEF b
<1>9. f \in Caches(K, V) /\ HeadIs(b, f, i)
  BY <1>3, <1>8, EndsWritten
<1> HIDE DEF f
<1>10. Relinked(c, f)
  BY <1>4, <1>6, <1>8, <1>9, RelinkedTwice DEF PrevIs, NextIs, HeadIs, TailIs
<1>11. f.head = i /\ f.tail = IF h = 0 THEN i ELSE c.tail
  BY <1>4, <1>6, <1>8, <1>9 DEF PrevIs, NextIs, HeadIs, TailIs
<1>12. ASSUME NEW u \in Used(c)
       PROVE  /\ f.nodes[u].next = IF u = i THEN h ELSE c.nodes[u].next
              /\ f.nodes[u].prev = IF u = i THEN 0 ELSE IF u = h THEN i ELSE c.nodes[u].prev
  <2>1. /\ e.nodes[u].prev = (IF u = i THEN 0 ELSE c.nodes[u].prev)
        /\ e.nodes[u].next = c.nodes[u].next
    BY <1>4 DEF PrevIs
  <2>2. /\ a.nodes[u].next = (IF u = i THEN h ELSE e.nodes[u].next)
        /\ a.nodes[u].prev = e.nodes[u].prev
    BY <1>5, <1>6 DEF NextIs
  <2>3. /\ b.nodes[u].prev = (IF u = h THEN i ELSE a.nodes[u].prev)
        /\ b.nodes[u].next = a.nodes[u].next
    BY <1>2, <1>7, <1>8 DEF PrevIs, TailIs
  <2>4. f.nodes = b.nodes
    BY <1>9 DEF HeadIs
  <2> QED BY <2>1, <2>2, <2>3, <2>4
<1> QED BY <1>1, <1>9, <1>10, <1>11, <1>12 DEF AttachIs

-----------------------------------------------------------------------------
(* The list                                                                *)

\* The slots from head to tail are s[1] to s[N], except for those of L, which are not linked.
Chain(c, s, N, L) ==
    /\ \A j, k \in 1..N : s[j] = s[k] => j = k
    /\ \A j \in 1..N : s[j] \in Used(c) \ L
    /\ \A u \in Used(c) \ L : \E j \in 1..N : s[j] = u
    /\ \A j \in 1..N : /\ c.nodes[s[j]].prev = IF j = 1 THEN 0 ELSE s[j - 1]
                       /\ c.nodes[s[j]].next = IF j = N THEN 0 ELSE s[j + 1]
    /\ c.head = IF N = 0 THEN 0 ELSE s[1]
    /\ c.tail = IF N = 0 THEN 0 ELSE s[N]

LEMMA DetachLinks ==
    ASSUME NEW K, NEW V, NEW c \in Caches(K, V), NEW s, NEW N \in Nat, Chain(c, s, N, {}),
           NEW m \in 1..N, NEW d, d = Cache!Detach(c, s[m]),
           NEW t, \A j \in 1..(N - 1) : t[j] = IF j < m THEN s[j] ELSE s[j + 1]
    PROVE  /\ d \in Caches(K, V) /\ Relinked(c, d) /\ Chain(d, t, N - 1, {s[m]})
<1> DEFINE i == s[m]
           p == c.nodes[i].prev
           n == c.nodes[i].next
<1>1. N \in Nat /\ m \in Nat /\ 1 <= m /\ m <= N
  OBVIOUS
<1>2. \A j \in 1..(N - 1) : t[j] = IF j < m THEN s[j] ELSE s[j + 1]
  OBVIOUS
<1>3. /\ \A j \in 1..N : s[j] \in Used(c)
      /\ \A j, k \in 1..N : s[j] = s[k] => j = k
      /\ \A u \in Used(c) : \E j \in 1..N : s[j] = u
      /\ \A j \in 1..N : /\ c.nodes[s[j]].prev = IF j = 1 THEN 0 ELSE s[j - 1]
                         /\ c.nodes[s[j]].next = IF j = N THEN 0 ELSE s[j + 1]
      /\ c.head = s[1] /\ c.tail = s[N]
  BY <1>1 DEF Chain
<1>4. i \in Used(c) /\ p = (IF m = 1 THEN 0 ELSE s[m - 1]) /\ n = IF m = N THEN 0 ELSE s[m + 1]
  BY <1>1, <1>3
<1>5. m # 1 => m - 1 \in 1..N
  BY <1>1
<1>6. m # N => m + 1 \in 1..N
  BY <1>1
<1>7. p \in Used(c) \cup {0} /\ n \in Used(c) \cup {0}
  BY <1>3, <1>4, <1>5, <1>6
<1> HIDE DEF p, n
<1>8. d \in Caches(K, V) /\ DetachIs(c, d, i, p, n)
  BY <1>4, <1>7, DetachWrites DEF p, n
<1>9. Relinked(c, d) /\ Used(d) = Used(c)
  BY <1>8 DEF DetachIs, Relinked
<1>10. \A j \in 1..N : s[j] # 0
  BY <1>3, UsedAreCells
<1>11. \A j \in 1..(N - 1) : t[j] \in Used(d) \ {i}
  BY <1>1, <1>2, <1>3, <1>9
<1>12. \A j, k \in 1..(N - 1) : t[j] = t[k] => j = k
  BY <1>1, <1>2, <1>3
<1>13. ASSUME NEW u \in Used(d) \ {i} PROVE \E j \in 1..(N - 1) : t[j] = u
  <2>1. PICK j \in 1..N : s[j] = u
    BY <1>3, <1>9
  <2>2. CASE j < m
    BY <1>1, <1>2, <2>1, <2>2
  <2>3. CASE j > m
    <3>1. j - 1 \in 1..(N - 1) /\ t[j - 1] = s[j]
      BY <1>1, <1>2, <2>3
    <3> QED BY <2>1, <3>1
  <2>4. j # m
    BY <2>1
  <2> QED BY <1>1, <2>2, <2>3, <2>4
<1>14. ASSUME NEW j \in 1..(N - 1)
       PROVE  d.nodes[t[j]].prev = IF j = 1 THEN 0 ELSE t[j - 1]
  <2>1. t[j] \in Used(c) /\ t[j] # i
    BY <1>9, <1>11
  <2>2. d.nodes[t[j]].prev = IF t[j] = n THEN p ELSE c.nodes[t[j]].prev
    BY <1>8, <2>1 DEF DetachIs
  <2>3. CASE j < m
    <3>1. t[j] = s[j] /\ t[j] # n
      BY <1>1, <1>2, <1>3, <1>4, <1>10, <2>3
    <3>2. j # 1 => t[j - 1] = s[j - 1]
      BY <1>1, <1>2, <2>3
    <3> QED BY <1>1, <1>2, <1>3, <2>2, <3>1, <3>2
  <2>4. CASE j = m
    <3>1. t[j] = s[m + 1] /\ n = s[m + 1]
      BY <1>1, <1>2, <1>4, <2>4
    <3>2. j # 1 => t[j - 1] = s[m - 1]
      BY <1>1, <1>2, <2>4
    <3> QED BY <1>4, <2>2, <2>4, <3>1, <3>2
  <2>5. CASE j > m
    <3>1. t[j] = s[j + 1] /\ t[j] # n
      BY <1>1, <1>2, <1>3, <1>4, <1>10, <2>5
    <3>2. t[j - 1] = s[j] /\ j # 1
      BY <1>1, <1>2, <2>5
    <3>3. j + 1 \in 1..N /\ j + 1 # 1 /\ (j + 1) - 1 = j
      BY <1>1, <1>2
    <3> QED BY <1>3, <2>2, <3>1, <3>2, <3>3
  <2> QED BY <1>1, <2>3, <2>4, <2>5
<1>15. ASSUME NEW j \in 1..(N - 1)
       PROVE  d.nodes[t[j]].next = IF j = (N - 1) THEN 0 ELSE t[j + 1]
  <2>1. t[j] \in Used(c) /\ t[j] # i
    BY <1>9, <1>11
  <2>2. d.nodes[t[j]].next = IF t[j] = p THEN n ELSE c.nodes[t[j]].next
    BY <1>8, <2>1 DEF DetachIs
  <2>3. CASE j < m - 1
    <3>1. t[j] = s[j] /\ t[j] # p
      BY <1>1, <1>2, <1>3, <1>4, <1>10, <2>3
    <3>2. j # (N - 1) /\ t[j + 1] = s[j + 1]
      BY <1>1, <1>2, <2>3
    <3> QED BY <1>1, <1>2, <1>3, <2>2, <3>1, <3>2
  <2>4. CASE j = m - 1
    <3>1. t[j] = s[m - 1] /\ p = s[m - 1]
      BY <1>1, <1>2, <1>4, <2>4
    <3>2. (j = (N - 1) <=> m = N) /\ (j # (N - 1) => t[j + 1] = s[m + 1])
      BY <1>1, <1>2, <2>4
    <3> QED BY <1>4, <2>2, <3>1, <3>2
  <2>5. CASE j >= m
    <3>1. t[j] = s[j + 1] /\ t[j] # p
      BY <1>1, <1>2, <1>3, <1>4, <1>10, <2>5
    <3>2. j # (N - 1) => t[j + 1] = s[j + 2]
      BY <1>1, <1>2, <2>5
    <3>3. j + 1 \in 1..N /\ (j + 1 = N <=> j = (N - 1)) /\ (j + 1) + 1 = j + 2
      BY <1>1, <1>2
    <3> QED BY <1>3, <2>2, <3>1, <3>2, <3>3
  <2> QED BY <1>1, <2>3, <2>4, <2>5
<1>16. d.head = IF (N - 1) = 0 THEN 0 ELSE t[1]
  <2>1. d.head = IF p = 0 THEN n ELSE c.head
    BY <1>8 DEF DetachIs
  <2>2. CASE m = 1
    <3>1. p = 0 /\ n = (IF N = 1 THEN 0 ELSE s[2]) /\ ((N - 1) # 0 => t[1] = s[2])
      BY <1>1, <1>2, <1>4, <2>2
    <3> QED BY <1>1, <1>2, <2>1, <3>1
  <2>3. CASE m # 1
    <3>1. p # 0 /\ (N - 1) # 0 /\ t[1] = s[1]
      BY <1>1, <1>2, <1>4, <1>5, <1>10, <2>3
    <3> QED BY <1>3, <2>1, <3>1
  <2> QED BY <2>2, <2>3
<1>17. d.tail = IF (N - 1) = 0 THEN 0 ELSE t[(N - 1)]
  <2>1. d.tail = IF n = 0 THEN p ELSE c.tail
    BY <1>8 DEF DetachIs
  <2>2. CASE m = N
    <3>1. n = 0 /\ p = (IF N = 1 THEN 0 ELSE s[N - 1])
          /\ ((N - 1) # 0 => t[(N - 1)] = s[N - 1])
      BY <1>1, <1>2, <1>4, <2>2
    <3> QED BY <1>1, <1>2, <2>1, <3>1
  <2>3. CASE m # N
    <3>1. n # 0 /\ (N - 1) # 0 /\ t[(N - 1)] = s[N]
      BY <1>1, <1>2, <1>4, <1>6, <1>10, <2>3
    <3> QED BY <1>3, <2>1, <3>1
  <2> QED BY <2>2, <2>3
<1>18. Chain(d, t, N - 1, {i})
  BY <1>2, <1>11, <1>12, <1>13, <1>14, <1>15, <1>16, <1>17 DEF Chain
<1> QED BY <1>8, <1>9, <1>18

LEMMA AttachLinks ==
    ASSUME NEW K, NEW V, NEW c \in Caches(K, V), NEW s, NEW N \in Nat, NEW i \in Used(c),
           Chain(c, s, N, {i}), NEW d, d = Cache!AttachHead(c, i),
           NEW t, t[1] = i, \A j \in 1..N : t[j + 1] = s[j]
    PROVE  d \in Caches(K, V) /\ Relinked(c, d) /\ Chain(d, t, N + 1, {})
<1> DEFINE h == c.head
<1>1. N \in Nat /\ i \in Nat
  BY UsedAreCells
<1>2. t[1] = i /\ \A j \in 1..N : t[j + 1] = s[j]
  OBVIOUS
<1>3. /\ \A j \in 1..N : s[j] \in Used(c) /\ s[j] # i
      /\ \A j, k \in 1..N : s[j] = s[k] => j = k
      /\ \A u \in Used(c) : u # i => \E j \in 1..N : s[j] = u
      /\ \A j \in 1..N : /\ c.nodes[s[j]].prev = IF j = 1 THEN 0 ELSE s[j - 1]
                         /\ c.nodes[s[j]].next = IF j = N THEN 0 ELSE s[j + 1]
      /\ h = (IF N = 0 THEN 0 ELSE s[1]) /\ c.tail = IF N = 0 THEN 0 ELSE s[N]
  BY DEF Chain
<1>4. i # 0 /\ \A j \in 1..N : s[j] # 0
  BY <1>3, UsedAreCells
<1>5. h \in Used(c) \cup {0} /\ h # i
  BY <1>1, <1>3, <1>4
<1>6. h = c.head
  OBVIOUS
<1> HIDE DEF h
<1>7. d \in Caches(K, V) /\ AttachIs(c, d, i, h)
  BY <1>5, <1>6, AttachWrites
<1>8. Relinked(c, d) /\ Used(d) = Used(c)
  BY <1>7 DEF AttachIs, Relinked
<1>9. \A j \in 1..(N + 1) : j = 1 \/ (j - 1 \in 1..N /\ t[j] = s[j - 1])
  BY <1>1, <1>2
<1>10. \A j \in 1..(N + 1) : t[j] \in Used(d)
  BY <1>2, <1>3, <1>8, <1>9
<1>11. \A j, k \in 1..(N + 1) : t[j] = t[k] => j = k
  BY <1>1, <1>2, <1>3, <1>9
<1>12. ASSUME NEW u \in Used(d) PROVE \E j \in 1..(N + 1) : t[j] = u
  <2>1. CASE u = i
    BY <1>1, <1>2, <2>1
  <2>2. CASE u # i
    <3>1. PICK j \in 1..N : s[j] = u
      BY <1>3, <1>8, <2>2
    <3>2. j + 1 \in 1..(N + 1) /\ t[j + 1] = u
      BY <1>1, <1>2, <3>1
    <3> QED BY <3>2
  <2> QED BY <2>1, <2>2
<1>13. ASSUME NEW j \in 1..(N + 1)
       PROVE  /\ d.nodes[t[j]].prev = IF j = 1 THEN 0 ELSE t[j - 1]
              /\ d.nodes[t[j]].next = IF j = (N + 1) THEN 0 ELSE t[j + 1]
  <2>1. t[j] \in Used(c)
    BY <1>8, <1>10
  <2>2. /\ d.nodes[t[j]].next = IF t[j] = i THEN h ELSE c.nodes[t[j]].next
        /\ d.nodes[t[j]].prev = IF t[j] = i THEN 0 ELSE IF t[j] = h THEN i ELSE c.nodes[t[j]].prev
    BY <1>7, <2>1 DEF AttachIs
  <2>3. CASE j = 1
    <3>1. t[j] = i /\ (j # (N + 1) => t[j + 1] = s[1]) /\ (j = (N + 1) <=> N = 0)
      BY <1>1, <1>2, <2>3
    <3> QED BY <1>3, <2>2, <2>3, <3>1
  <2>4. CASE j # 1
    <3> DEFINE k == j - 1
    <3>1. k \in 1..N /\ t[j] = s[k] /\ k + 1 = j
      BY <1>1, <1>9, <2>4
    <3>2. t[j] # i /\ (t[j] = h <=> k = 1)
      BY <1>1, <1>3, <3>1
    <3>3. (j = (N + 1) <=> k = N) /\ (k # N => t[j + 1] = s[k + 1])
      BY <1>1, <1>2, <3>1
    <3>4. k = 1 => t[j - 1] = i
      BY <1>2, <3>1
    <3>5. k # 1 => t[j - 1] = s[k - 1]
      BY <1>1, <1>2, <3>1
    <3> HIDE DEF k
    <3> QED BY <1>3, <2>2, <2>4, <3>1, <3>2, <3>3, <3>4, <3>5
  <2> QED BY <2>3, <2>4
<1>14. d.head = t[1] /\ d.tail = t[(N + 1)]
  <2>1. d.head = i /\ d.tail = IF h = 0 THEN i ELSE c.tail
    BY <1>7 DEF AttachIs
  <2>2. CASE N = 0
    BY <1>2, <1>3, <2>1, <2>2
  <2>3. CASE N # 0
    <3>1. h # 0 /\ t[(N + 1)] = s[N]
      BY <1>1, <1>2, <1>3, <1>4, <2>3
    <3> QED BY <1>2, <1>3, <2>1, <2>3, <3>1
  <2> QED BY <2>2, <2>3
<1>15. Chain(d, t, N + 1, {})
  BY <1>1, <1>2, <1>10, <1>11, <1>12, <1>13, <1>14 DEF Chain
<1> QED BY <1>7, <1>8, <1>15

\* There are as many slots in the list as are used and as the map has keys, and no more
\* than there are nodes.
Mapped(c) ==
    /\ \A k \in DOMAIN c.map : c.map[k] \in Used(c) /\ c.nodes[c.map[k]].key = k
    /\ \A u \in Used(c) : c.nodes[u].key \in DOMAIN c.map /\ c.map[c.nodes[u].key] = u

LEMMA Counted ==
    ASSUME NEW K, NEW V, NEW c \in Caches(K, V), NEW s, NEW N \in Nat, Chain(c, s, N, {})
    PROVE  /\ IsFiniteSet(Used(c)) /\ Cardinality(Used(c)) = N /\ N <= Len(c.nodes)
           /\ Mapped(c) => Cardinality(DOMAIN c.map) = N
<1> DEFINE f == [j \in 1..N |-> s[j]]
           g == [u \in Used(c) |-> c.nodes[u].key]
<1>1. c.nodes \in Seq(Cells(K, V) \cup {Cache!Vacant})
  BY DEF Caches
<1>2. Len(c.nodes) \in Nat
  BY <1>1
<1>3. IsFiniteSet(1..Len(c.nodes)) /\ Cardinality(1..Len(c.nodes)) = Len(c.nodes)
  <2> DEFINE n == Len(c.nodes)
  <2>1. 1 \in Int /\ n \in Int
    BY <1>2
  <2>2. IsFiniteSet(1..n) /\ Cardinality(1..n) = IF 1 > n THEN 0 ELSE n - 1 + 1
    <3> HIDE DEF n
    <3> QED BY <2>1, FS_Interval
  <2>3. (IF 1 > n THEN 0 ELSE n - 1 + 1) = n
    BY <1>2
  <2> QED BY <2>2, <2>3
<1>4. Used(c) \subseteq 1..Len(c.nodes)
  BY DEF Used
<1>5. IsFiniteSet(Used(c)) /\ Cardinality(Used(c)) <= Len(c.nodes)
  BY <1>3, <1>4, FS_Subset
<1>6. f \in Bijection(1..N, Used(c))
  BY DEF Chain, Bijection, Injection, Surjection, IsInjective
<1>7. ExistsBijection(1..N, Used(c))
  BY <1>6 DEF ExistsBijection
<1>8. Cardinality(Used(c)) = N
  BY <1>7, FS_CountingElements
<1>9. ASSUME Mapped(c) PROVE Cardinality(DOMAIN c.map) = N
  <2>1. g \in Bijection(Used(c), DOMAIN c.map)
    BY <1>9 DEF Mapped, Bijection, Injection, Surjection, IsInjective
  <2>2. ExistsBijection(Used(c), DOMAIN c.map)
    BY <2>1 DEF ExistsBijection
  <2> QED BY <1>5, <1>8, <2>2, FS_Bijection
<1> QED BY <1>5, <1>8, <1>9

\* Going from the head along next meets the slots of the list, then none.
LEMMA WalkIs ==
    ASSUME NEW K, NEW V, NEW c \in Caches(K, V), NEW s, NEW N \in Nat, Chain(c, s, N, {})
    PROVE  \A n \in 0..Len(c.nodes) : Cache!Walk(c)[n] = IF n < N THEN s[n + 1] ELSE 0
<1> DEFINE M == Len(c.nodes)
           g == [n \in 0..M |-> IF n < N THEN s[n + 1] ELSE 0]
           w == Cache!Walk(c)
<1>1. M \in Nat /\ N <= M
  <2>1. c.nodes \in Seq(Cells(K, V) \cup {Cache!Vacant})
    BY DEF Caches
  <2> QED BY <2>1, Counted
<1>2. /\ \A j \in 1..N : s[j] # 0 /\ c.nodes[s[j]].next = IF j = N THEN 0 ELSE s[j + 1]
      /\ c.head = IF N = 0 THEN 0 ELSE s[1]
  BY UsedAreCells DEF Chain
<1>3. w = CHOOSE at : at = [n \in 0..M |-> IF n = 0 THEN c.head
                               ELSE IF at[n - 1] = 0 THEN 0 ELSE c.nodes[at[n - 1]].next]
  BY DEF Cache!Walk
<1>4. g = [n \in 0..M |-> IF n = 0 THEN c.head
                          ELSE IF g[n - 1] = 0 THEN 0 ELSE c.nodes[g[n - 1]].next]
  <2>1. ASSUME NEW n \in 0..M
        PROVE  g[n] = IF n = 0 THEN c.head
                      ELSE IF g[n - 1] = 0 THEN 0 ELSE c.nodes[g[n - 1]].next
    <3>1. CASE n = 0
      BY <1>1, <1>2, <3>1
    <3>2. CASE n # 0 /\ n <= N
      <4>1. n - 1 \in 0..M /\ n - 1 < N /\ (n - 1) + 1 = n /\ n \in 1..N
        BY <1>1, <3>2
      <4>2. g[n - 1] = s[n]
        BY <4>1
      <4>3. g[n] = IF n = N THEN 0 ELSE s[n + 1]
        BY <1>1, <3>2
      <4> QED BY <1>2, <3>2, <4>1, <4>2, <4>3
    <3>3. CASE n > N
      <4>1. n - 1 \in 0..M /\ ~ (n - 1 < N) /\ ~ (n < N) /\ n # 0
        BY <1>1, <3>3
      <4> QED BY <4>1
    <3> QED BY <1>1, <3>1, <3>2, <3>3
  <2> QED BY <2>1
<1> HIDE DEF w
<1>5. w = [n \in 0..M |-> IF n = 0 THEN c.head
                          ELSE IF w[n - 1] = 0 THEN 0 ELSE c.nodes[w[n - 1]].next]
  <2> HIDE DEF g
  <2>1. \E at : at = [n \in 0..M |-> IF n = 0 THEN c.head
                         ELSE IF at[n - 1] = 0 THEN 0 ELSE c.nodes[at[n - 1]].next]
    BY <1>4
  <2> QED BY <1>3, <2>1
<1> HIDE DEF g
<1> DEFINE Bad == {n \in 0..M : w[n] # g[n]}
<1>6. Bad = {}
  <2>1. SUFFICES ASSUME Bad # {} PROVE FALSE
    OBVIOUS
  <2>2. Bad \in SUBSET Nat
    BY <1>1
  <2>3. PICK n \in Bad : \A k \in Bad : n <= k
    BY <2>1, <2>2, LeastExists
  <2>4. n \in 0..M /\ w[n] # g[n]
    OBVIOUS
  <2>5. n # 0
    BY <1>4, <1>5, <2>4
  <2>6. n - 1 \in 0..M /\ ~ (n <= n - 1)
    BY <1>1, <2>4, <2>5
  <2>7. w[n - 1] = g[n - 1]
    BY <2>3, <2>6
  <2> QED BY <1>4, <1>5, <2>4, <2>5, <2>7
<1>7. \A n \in 0..M : w[n] = g[n]
  BY <1>6
<1> QED BY <1>7 DEF g, w

LEMMA ListedIs ==
    ASSUME NEW K, NEW V, NEW c \in Caches(K, V), NEW s, NEW N \in Nat, Chain(c, s, N, {})
    PROVE  Cache!Listed(c) = [j \in 1..N |-> <<c.nodes[s[j]].key, c.nodes[s[j]].value>>]
<1> DEFINE M == Len(c.nodes)
           at == Cache!Walk(c)
           P(m) == at[m] = 0 /\ \A j \in 0..(m - 1) : at[j] # 0
           n == CHOOSE m \in 0..M : P(m)
<1>1. N \in 0..M /\ M \in Nat
  <2>1. c.nodes \in Seq(Cells(K, V) \cup {Cache!Vacant})
    BY DEF Caches
  <2> QED BY <2>1, Counted
<1>2. \A k \in 0..M : at[k] = IF k < N THEN s[k + 1] ELSE 0
  BY WalkIs
<1>3. \A j \in 1..N : s[j] # 0
  BY UsedAreCells DEF Chain
<1>4. Cache!Listed(c) = [j \in 1..n |-> <<c.nodes[at[j - 1]].key, c.nodes[at[j - 1]].value>>]
  BY DEF Cache!Listed
<1> HIDE DEF at
<1>5. P(N)
  <2>1. at[N] = 0
    BY <1>1, <1>2
  <2>2. ASSUME NEW j \in 0..(N - 1) PROVE at[j] # 0
    <3>1. j \in 0..M /\ j < N /\ j + 1 \in 1..N
      BY <1>1
    <3> QED BY <1>2, <1>3, <3>1
  <2> QED BY <2>1, <2>2
<1>6. ASSUME NEW m \in 0..M, P(m) PROVE m = N
  <2>1. CASE m < N
    <3>1. at[m] = s[m + 1] /\ m + 1 \in 1..N
      BY <1>1, <1>2, <2>1
    <3> QED BY <1>3, <1>6, <3>1
  <2>2. CASE m > N
    <3>1. N \in 0..(m - 1)
      BY <1>1, <2>2
    <3> QED BY <1>5, <1>6, <3>1
  <2> QED BY <1>1, <2>1, <2>2
<1>7. n = N
  <2> HIDE DEF P
  <2>1. \E m \in 0..M : P(m)
    BY <1>1, <1>5
  <2>2. n \in 0..M /\ P(n)
    BY <2>1
  <2> QED BY <1>6, <2>2
<1> HIDE DEF n
<1>8. ASSUME NEW j \in 1..N PROVE at[j - 1] = s[j]
  <2>1. j - 1 \in 0..M /\ j - 1 < N /\ (j - 1) + 1 = j
    BY <1>1
  <2> QED BY <1>2, <2>1
<1> QED BY <1>4, <1>7, <1>8

LEMMA CachesGrow ==
    ASSUME NEW K, NEW V, NEW c \in Caches(K, V), NEW k, NEW v
    PROVE  c \in Caches(K \cup {k}, V \cup {v})
<1> DEFINE A == K \cup {k}
           B == V \cup {v}
<1>1. Cells(K, V) \subseteq Cells(A, B)
  BY DEF Cells
<1>2. c.nodes \in Seq(Cells(K, V) \cup {Cache!Vacant})
  BY DEF Caches
<1>3. c.nodes \in Seq(Cells(A, B) \cup {Cache!Vacant})
  <2> HIDE DEF A, B
  <2> QED BY <1>1, <1>2
<1>4. c.map \in UNION {[D -> Nat] : D \in SUBSET A}
  <2>1. PICK D \in SUBSET K : c.map \in [D -> Nat]
    BY DEF Caches
  <2>2. D \in SUBSET A
    OBVIOUS
  <2> QED BY <2>1, <2>2
<1> QED BY <1>3, <1>4 DEF Caches

\* The free slots are the ones without a node, each of them once.
FreeListed(c) == Cache!IsInjective(c.free) /\ Cache!Range(c.free) = 1..Len(c.nodes) \ Used(c)

LEMMA RelinkedKeeps ==
    ASSUME NEW c, NEW d, Relinked(c, d), Mapped(c), FreeListed(c)
    PROVE  Mapped(d) /\ FreeListed(d)
<1>1. Mapped(d)
  BY DEF Relinked, Mapped
<1>2. FreeListed(d)
  BY DEF Relinked, FreeListed
<1> QED BY <1>1, <1>2

\* The positions when the one at m goes, and when it goes to the front.
LessOne(s, N, m) == [j \in 1..(N - 1) |-> IF j < m THEN s[j] ELSE s[j + 1]]
Fronted(s, N, m) ==
    [j \in 1..N |-> IF j = 1 THEN s[m] ELSE IF j - 1 < m THEN s[j - 1] ELSE s[j]]

LEMMA MoveToHeadLinks ==
    ASSUME NEW K, NEW V, NEW c \in Caches(K, V), NEW s, NEW N \in Nat, Chain(c, s, N, {}),
           NEW m \in 1..N, NEW d, d = Cache!MoveToHead(c, s[m])
    PROVE  d \in Caches(K, V) /\ Relinked(c, d) /\ Chain(d, Fronted(s, N, m), N, {})
<1> DEFINE b == Cache!Detach(c, s[m])
           t == LessOne(s, N, m)
           u == Fronted(s, N, m)
           i == s[m]
<1>1. \A j \in 1..(N - 1) : t[j] = IF j < m THEN s[j] ELSE s[j + 1]
  BY DEF LessOne
<1>2. d = Cache!AttachHead(b, i)
  BY DEF Cache!MoveToHead
<1>3. u[1] = i
  BY DEF Fronted
<1>4. ASSUME NEW j \in 1..(N - 1) PROVE u[j + 1] = t[j]
  <2>1. j + 1 \in 1..N /\ j + 1 # 1 /\ (j + 1) - 1 = j
    OBVIOUS
  <2> QED BY <1>1, <2>1 DEF Fronted
<1>5. N - 1 \in Nat /\ (N - 1) + 1 = N
  OBVIOUS
<1> HIDE DEF b, t, u
<1>6. b \in Caches(K, V) /\ Relinked(c, b) /\ Chain(b, t, N - 1, {i})
  BY <1>1, DetachLinks DEF b
<1>7. i \in Used(b)
  BY <1>6 DEF Relinked, Chain
<1> HIDE DEF i
<1>8. d \in Caches(K, V) /\ Relinked(b, d) /\ Chain(d, u, (N - 1) + 1, {})
  BY <1>2, <1>3, <1>4, <1>5, <1>6, <1>7, AttachLinks
<1>9. Relinked(c, d)
  BY <1>6, <1>8, RelinkedTwice
<1> QED BY <1>5, <1>8, <1>9 DEF u

-----------------------------------------------------------------------------
(* Giving up a slot, taking a slot                                         *)

LEMMA FreedIs ==
    ASSUME NEW f \in Seq(Nat), NEW i \in Nat, i \notin Cache!Range(f), Cache!IsInjective(f)
    PROVE  LET g == Append(f, i)
           IN  /\ g \in Seq(Nat) /\ g # << >>
               /\ Cache!IsInjective(g) /\ Cache!Range(g) = Cache!Range(f) \cup {i}
<1> DEFINE g == Append(f, i)
           n == Len(f)
<1>1. n \in Nat /\ DOMAIN f = 1..n /\ g \in Seq(Nat) /\ DOMAIN g = 1..(n + 1)
      /\ g[n + 1] = i /\ \A j \in 1..n : g[j] = f[j]
  OBVIOUS
<1>2. g # << >>
  <2>1. n + 1 \in DOMAIN g
    BY <1>1
  <2> QED BY <2>1
<1> HIDE DEF g, n
<1>3. \A j \in 1..n : f[j] # i
  BY <1>1 DEF Cache!Range
<1>4. \A j, k \in 1..n : f[j] = f[k] => j = k
  BY <1>1 DEF Cache!IsInjective
<1>5. ASSUME NEW j \in 1..(n + 1), NEW k \in 1..(n + 1), g[j] = g[k] PROVE j = k
  <2>1. j \in 1..n \/ j = n + 1
    BY <1>1
  <2>2. k \in 1..n \/ k = n + 1
    BY <1>1
  <2> QED BY <1>1, <1>3, <1>4, <1>5, <2>1, <2>2
<1>6. Cache!IsInjective(g)
  BY <1>1, <1>5 DEF Cache!IsInjective
<1>7. Cache!Range(g) \subseteq Cache!Range(f) \cup {i}
  <2> SUFFICES ASSUME NEW j \in 1..(n + 1) PROVE g[j] \in Cache!Range(f) \cup {i}
    BY <1>1 DEF Cache!Range
  <2>1. j \in 1..n \/ j = n + 1
    BY <1>1
  <2> QED BY <1>1, <2>1 DEF Cache!Range
<1>8. Cache!Range(f) \cup {i} \subseteq Cache!Range(g)
  <2>1. \A j \in 1..n : j \in 1..(n + 1)
    BY <1>1
  <2>2. n + 1 \in 1..(n + 1)
    BY <1>1
  <2> QED BY <1>1, <2>1, <2>2 DEF Cache!Range
<1> QED BY <1>1, <1>2, <1>6, <1>7, <1>8 DEF g

LEMMA TakenIs ==
    ASSUME NEW f \in Seq(Nat), f # << >>, Cache!IsInjective(f)
    PROVE  LET g == SubSeq(f, 1, Len(f) - 1)
           IN  /\ g \in Seq(Nat) /\ f[Len(f)] \in Cache!Range(f)
               /\ Cache!IsInjective(g) /\ Cache!Range(g) = Cache!Range(f) \ {f[Len(f)]}
<1> DEFINE n == Len(f)
           g == SubSeq(f, 1, n - 1)
<1>1. n \in Nat /\ n > 0 /\ DOMAIN f = 1..n /\ g \in Seq(Nat) /\ DOMAIN g = 1..(n - 1)
      /\ \A j \in 1..(n - 1) : g[j] = f[j]
  OBVIOUS
<1> HIDE DEF g, n
<1>2. n \in 1..n /\ \A j \in 1..(n - 1) : j \in 1..n /\ j # n
  BY <1>1
<1>3. \A j \in 1..n : j = n \/ j \in 1..(n - 1)
  BY <1>1
<1>4. Cache!IsInjective(g)
  BY <1>1, <1>2 DEF Cache!IsInjective
<1>5. Cache!Range(g) = Cache!Range(f) \ {f[n]}
  BY <1>1, <1>2, <1>3 DEF Cache!IsInjective, Cache!Range
<1>6. f[n] \in Cache!Range(f)
  BY <1>1, <1>2 DEF Cache!Range
<1> QED BY <1>1, <1>4, <1>5, <1>6 DEF g, n

\* A cache of N blocks whose slots from head to tail are s[1] to s[N].
Sound(c, K, V, s, N) ==
    c \in Caches(K, V) /\ N \in Nat /\ Chain(c, s, N, {}) /\ Mapped(c) /\ FreeListed(c)

\* The blocks of d are at least those of c at slots t[1] to t[N].
SameBlocks(c, d, t, N) ==
    \A j \in 1..N : /\ t[j] \in Used(c)
                    /\ d.nodes[t[j]].key = c.nodes[t[j]].key
                    /\ d.nodes[t[j]].value = c.nodes[t[j]].value

Surrendered(c, i, k) ==
    [c EXCEPT !.nodes[i] = Cache!Vacant,
              !.map = Cache!Restrict(c.map, DOMAIN c.map \ {k}),
              !.free = Append(c.free, i)]

LEMMA SurrenderedIs ==
    ASSUME NEW K, NEW V, NEW c \in Caches(K, V), NEW i \in Used(c), Mapped(c), FreeListed(c),
           NEW k, k = c.nodes[i].key, NEW d, d = Surrendered(c, i, k)
    PROVE  /\ d \in Caches(K, V) /\ Mapped(d) /\ FreeListed(d)
           /\ Used(d) = Used(c) \ {i} /\ Len(d.nodes) = Len(c.nodes) /\ d.free # << >>
           /\ d.head = c.head /\ d.tail = c.tail
           /\ DOMAIN d.map = DOMAIN c.map \ {k}
           /\ \A u \in Used(d) : d.nodes[u] = c.nodes[u]
<1> DEFINE T == Cells(K, V) \cup {Cache!Vacant}
           E == DOMAIN c.map \ {k}
           ns == [c.nodes EXCEPT ![i] = Cache!Vacant]
           mp == Cache!Restrict(c.map, E)
           fr == Append(c.free, i)
<1>1. c.nodes \in Seq(T) /\ i \in 1..Len(c.nodes) /\ i \in Nat /\ c.free \in Seq(Nat)
  BY UsedAreCells DEF Caches
<1>2. c = [nodes |-> c.nodes, free |-> c.free, map |-> c.map, head |-> c.head, tail |-> c.tail]
  BY DEF Caches
<1>3. d = [nodes |-> ns, free |-> fr, map |-> mp, head |-> c.head, tail |-> c.tail]
  BY <1>2 DEF Surrendered
<1>4. ns \in Seq(T) /\ Len(ns) = Len(c.nodes) /\ ns[i] = Cache!Vacant
      /\ \A u \in 1..Len(c.nodes) : u # i => ns[u] = c.nodes[u]
  <2>1. Cache!Vacant \in T
    OBVIOUS
  <2> HIDE DEF T
  <2> QED BY <1>1, <2>1
<1>5. Used(d) = Used(c) \ {i}
  BY <1>3, <1>4 DEF Used
<1>6. mp = [j \in E |-> c.map[j]]
  BY DEF Cache!Restrict
<1>7. PICK D \in SUBSET K : c.map \in [D -> Nat]
  BY DEF Caches
<1>8. mp \in UNION {[B -> Nat] : B \in SUBSET K}
  <2>1. mp \in [E -> Nat] /\ E \in SUBSET K
    BY <1>6, <1>7
  <2> QED BY <2>1
<1>9. i \notin Cache!Range(c.free)
  BY DEF FreeListed
<1>10. /\ fr \in Seq(Nat) /\ fr # << >>
       /\ Cache!IsInjective(fr) /\ Cache!Range(fr) = Cache!Range(c.free) \cup {i}
  BY <1>1, <1>9, FreedIs DEF FreeListed
<1> HIDE DEF ns, mp, fr
<1>11. d \in Caches(K, V)
  BY <1>3, <1>4, <1>8, <1>10 DEF Caches
<1>12. \A u \in Used(d) : d.nodes[u] = c.nodes[u]
  BY <1>3, <1>4, <1>5 DEF Used
<1>13. DOMAIN d.map = E /\ \A j \in E : d.map[j] = c.map[j]
  BY <1>3, <1>6
<1>14. Mapped(d)
  <2>1. ASSUME NEW j \in E PROVE d.map[j] \in Used(d) /\ d.nodes[d.map[j]].key = j
    <3>1. c.map[j] \in Used(c) /\ c.nodes[c.map[j]].key = j /\ c.map[j] # i
      BY DEF Mapped
    <3> QED BY <1>5, <1>12, <1>13, <3>1
  <2>2. ASSUME NEW u \in Used(d)
        PROVE  d.nodes[u].key \in E /\ d.map[d.nodes[u].key] = u
    <3>1. u \in Used(c) /\ u # i /\ d.nodes[u] = c.nodes[u]
      BY <1>5, <1>12
    <3>2. c.nodes[u].key \in DOMAIN c.map /\ c.map[c.nodes[u].key] = u /\ c.map[k] = i
      BY <3>1 DEF Mapped
    <3> QED BY <1>13, <3>1, <3>2
  <2> QED BY <1>13, <2>1, <2>2 DEF Mapped
<1>15. FreeListed(d)
  BY <1>1, <1>3, <1>4, <1>5, <1>10 DEF FreeListed, Used
<1> QED BY <1>3, <1>4, <1>5, <1>10, <1>11, <1>12, <1>13, <1>14, <1>15

\* The same list, in a cache that differs in other slots or in what the slots hold.
SameLinks(c, d, L, M) ==
    /\ Used(d) \ M = Used(c) \ L /\ d.head = c.head /\ d.tail = c.tail
    /\ \A u \in Used(c) \ L : /\ d.nodes[u].prev = c.nodes[u].prev
                              /\ d.nodes[u].next = c.nodes[u].next

LEMMA ChainStays ==
    ASSUME NEW c, NEW d, NEW s, NEW N, NEW L, NEW M, Chain(c, s, N, L), SameLinks(c, d, L, M)
    PROVE  Chain(d, s, N, M)
<1>1. \A j \in 1..N : /\ s[j] \in Used(c) \ L
                      /\ d.nodes[s[j]].prev = c.nodes[s[j]].prev
                      /\ d.nodes[s[j]].next = c.nodes[s[j]].next
  BY DEF Chain, SameLinks
<1>2. \A j \in 1..N : /\ d.nodes[s[j]].prev = IF j = 1 THEN 0 ELSE s[j - 1]
                      /\ d.nodes[s[j]].next = IF j = N THEN 0 ELSE s[j + 1]
  BY <1>1 DEF Chain
<1> QED BY <1>2 DEF Chain, SameLinks

LEMMA DroppedIs ==
    ASSUME NEW K, NEW V, NEW c, NEW s, NEW N, Sound(c, K, V, s, N), NEW m \in 1..N,
           NEW d, d = Surrendered(Cache!Detach(c, s[m]), s[m], c.nodes[s[m]].key)
    PROVE  /\ Sound(d, K, V, LessOne(s, N, m), N - 1)
           /\ Len(d.nodes) = Len(c.nodes) /\ d.free # << >>
           /\ DOMAIN d.map = DOMAIN c.map \ {c.nodes[s[m]].key}
           /\ SameBlocks(c, d, LessOne(s, N, m), N - 1)
<1> DEFINE b == Cache!Detach(c, s[m])
           t == LessOne(s, N, m)
           i == s[m]
           k == c.nodes[i].key
<1>1. c \in Caches(K, V) /\ N \in Nat /\ Chain(c, s, N, {}) /\ Mapped(c) /\ FreeListed(c)
  BY DEF Sound
<1>2. \A j \in 1..(N - 1) : t[j] = IF j < m THEN s[j] ELSE s[j + 1]
  BY DEF LessOne
<1> HIDE DEF b, t
<1>3. b \in Caches(K, V) /\ Relinked(c, b) /\ Chain(b, t, N - 1, {i})
  BY <1>1, <1>2, DetachLinks DEF b
<1>4. i \in Used(b) /\ k = b.nodes[i].key /\ b.map = c.map
  BY <1>1, <1>3 DEF Relinked, Chain
<1>5. Mapped(b) /\ FreeListed(b)
  BY <1>1, <1>3, RelinkedKeeps
<1>6. d = Surrendered(b, i, k)
  BY DEF b
<1> HIDE DEF i, k
<1>7. /\ d \in Caches(K, V) /\ Mapped(d) /\ FreeListed(d)
      /\ Used(d) = Used(b) \ {i} /\ Len(d.nodes) = Len(b.nodes) /\ d.free # << >>
      /\ d.head = b.head /\ d.tail = b.tail
      /\ DOMAIN d.map = DOMAIN b.map \ {k}
      /\ \A u \in Used(d) : d.nodes[u] = b.nodes[u]
  BY <1>3, <1>4, <1>5, <1>6, SurrenderedIs
<1>8. Chain(d, t, N - 1, {})
  <2>1. /\ Used(d) \ {} = Used(b) \ {i}
        /\ \A u \in Used(b) \ {i} : /\ d.nodes[u].prev = b.nodes[u].prev
                                    /\ d.nodes[u].next = b.nodes[u].next
    BY <1>7
  <2>2. SameLinks(b, d, {i}, {})
    BY <1>7, <2>1 DEF SameLinks
  <2>3. Chain(b, t, N - 1, {i})
    BY <1>3
  <2> QED BY <2>2, <2>3, ChainStays
<1>9. N - 1 \in Nat
  BY <1>1
<1>10. SameBlocks(c, d, t, N - 1)
  <2>1. /\ Used(b) = Used(c)
        /\ \A u \in Used(c) : /\ b.nodes[u].key = c.nodes[u].key
                              /\ b.nodes[u].value = c.nodes[u].value
    BY <1>3 DEF Relinked
  <2>2. \A j \in 1..(N - 1) : t[j] \in Used(b) \ {i}
    BY <1>3 DEF Chain
  <2>3. Used(d) = Used(b) \ {i} /\ \A u \in Used(d) : d.nodes[u] = b.nodes[u]
    BY <1>7
  <2> QED BY <2>1, <2>2, <2>3 DEF SameBlocks
<1>11. Len(d.nodes) = Len(c.nodes)
  BY <1>3, <1>7 DEF Relinked
<1>12. Sound(d, K, V, t, N - 1)
  BY <1>7, <1>8, <1>9 DEF Sound
<1>13. Sound(d, K, V, LessOne(s, N, m), N - 1) /\ SameBlocks(c, d, LessOne(s, N, m), N - 1)
  BY <1>10, <1>12 DEF t
<1>14. DOMAIN d.map = DOMAIN c.map \ {c.nodes[s[m]].key}
  <2>1. DOMAIN d.map = DOMAIN c.map \ {k}
    BY <1>4, <1>7
  <2> QED BY <2>1 DEF i, k
<1>15. d.free # << >>
  BY <1>7
<1> QED BY <1>11, <1>13, <1>14, <1>15

Cell(id, b) == [key |-> id, value |-> b, prev |-> 0, next |-> 0]

\* The slot that a new node gets: the one that was freed last, or a new one.
FreeSlot(c) == IF c.free # << >> THEN c.free[Len(c.free)] ELSE Len(c.nodes) + 1

\* A node of id in the slot i: the one that was freed last, or a new one.
Seated(c, i, id, b) ==
    IF c.free # << >>
      THEN [c EXCEPT !.nodes[i] = Cell(id, b), !.free = SubSeq(c.free, 1, Len(c.free) - 1)]
    ELSE [c EXCEPT !.nodes = Append(c.nodes, Cell(id, b))]

LEMMA SeatedIs ==
    ASSUME NEW K, NEW V, NEW c \in Caches(K, V), FreeListed(c), NEW id \in K, NEW b \in V,
           NEW i, i = FreeSlot(c),
           NEW d, d = Seated(c, i, id, b)
    PROVE  /\ d \in Caches(K, V) /\ FreeListed(d) /\ i \in Nat /\ i \notin Used(c)
           /\ Used(d) = Used(c) \cup {i} /\ d.map = c.map
           /\ d.head = c.head /\ d.tail = c.tail
           /\ d.nodes[i] = Cell(id, b) /\ \A u \in Used(c) : d.nodes[u] = c.nodes[u]
           /\ IF c.free # << >> THEN Len(d.nodes) = Len(c.nodes)
              ELSE Used(c) = 1..Len(c.nodes) /\ Len(d.nodes) = Len(c.nodes) + 1
<1> DEFINE T == Cells(K, V) \cup {Cache!Vacant}
           x == Cell(id, b)
           n == Len(c.nodes)
<1>1. c.nodes \in Seq(T) /\ n \in Nat /\ c.free \in Seq(Nat)
  BY DEF Caches
<1>2. c = [nodes |-> c.nodes, free |-> c.free, map |-> c.map, head |-> c.head, tail |-> c.tail]
  BY DEF Caches
<1>3. x \in T /\ x # Cache!Vacant
  <2>1. x \in Cells(K, V)
    BY DEF Cells, Cell
  <2> QED BY <2>1, CellIsNotVacant
<1>4. Cache!IsInjective(c.free) /\ Cache!Range(c.free) = (1..n) \ Used(c)
  BY DEF FreeListed
<1> HIDE DEF x
<1>5. CASE c.free # << >>
  <2> DEFINE fr == SubSeq(c.free, 1, Len(c.free) - 1)
             ns == [c.nodes EXCEPT ![i] = x]
  <2>1. i = c.free[Len(c.free)]
    BY <1>5 DEF FreeSlot
  <2>2. /\ fr \in Seq(Nat) /\ i \in Cache!Range(c.free)
        /\ Cache!IsInjective(fr) /\ Cache!Range(fr) = Cache!Range(c.free) \ {i}
    BY <1>1, <1>4, <1>5, <2>1, TakenIs
  <2>3. i \in 1..n /\ i \notin Used(c)
    BY <1>4, <2>2
  <2>4. ns \in Seq(T) /\ Len(ns) = n /\ ns[i] = x /\ \A u \in 1..n : u # i => ns[u] = c.nodes[u]
    <3> HIDE DEF T
    <3> QED BY <1>1, <1>3, <2>3
  <2>5. d = [nodes |-> ns, free |-> fr, map |-> c.map, head |-> c.head, tail |-> c.tail]
    BY <1>2, <1>5 DEF Seated, x
  <2> HIDE DEF ns, fr
  <2>6. d \in Caches(K, V)
    BY <2>2, <2>4, <2>5 DEF Caches
  <2>7. Used(d) = Used(c) \cup {i}
    BY <1>3, <2>3, <2>4, <2>5 DEF Used
  <2>8. FreeListed(d)
    BY <1>4, <2>2, <2>3, <2>4, <2>5, <2>7 DEF FreeListed
  <2>9. \A u \in Used(c) : d.nodes[u] = c.nodes[u]
    BY <2>3, <2>4, <2>5 DEF Used
  <2> QED BY <1>1, <1>5, <2>3, <2>4, <2>5, <2>6, <2>7, <2>8, <2>9 DEF x
<1>6. CASE c.free = << >>
  <2> DEFINE ns == Append(c.nodes, x)
  <2>1. i = n + 1
    BY <1>6 DEF FreeSlot
  <2>2. Cache!Range(c.free) = {}
    BY <1>6 DEF Cache!Range
  <2>3. Used(c) = 1..n
    BY <1>4, <2>2 DEF Used
  <2>4. ns \in Seq(T) /\ Len(ns) = n + 1 /\ ns[i] = x /\ \A u \in 1..n : ns[u] = c.nodes[u]
    <3> HIDE DEF T
    <3> QED BY <1>1, <1>3, <2>1
  <2>5. d = [nodes |-> ns, free |-> c.free, map |-> c.map, head |-> c.head, tail |-> c.tail]
    BY <1>2, <1>6 DEF Seated, x
  <2> HIDE DEF ns
  <2>6. d \in Caches(K, V)
    BY <1>2, <2>4, <2>5 DEF Caches
  <2>7. 1..(n + 1) = (1..n) \cup {i} /\ i \notin 1..n /\ i \in Nat
    BY <1>1, <2>1
  <2>8. Used(d) = Used(c) \cup {i}
    <3>1. \A u \in 1..n : c.nodes[u] # Cache!Vacant
      BY <2>3 DEF Used
    <3> QED BY <1>3, <2>3, <2>4, <2>5, <2>7, <3>1 DEF Used
  <2>9. FreeListed(d)
    BY <1>4, <2>2, <2>3, <2>4, <2>5, <2>7, <2>8 DEF FreeListed
  <2>10. \A u \in Used(c) : d.nodes[u] = c.nodes[u]
    BY <2>3, <2>4, <2>5
  <2> QED BY <1>6, <2>3, <2>4, <2>5, <2>6, <2>7, <2>8, <2>9, <2>10 DEF x
<1> QED BY <1>5, <1>6

\* Slot i before those of the list.
Behind(i, s, N) == [j \in 1..(N + 1) |-> IF j = 1 THEN i ELSE s[j - 1]]

IsPlaced(c, d, K, V, s, N, id, b, i) ==
    /\ Sound(d, K \cup {id}, V \cup {b}, Behind(i, s, N), N + 1)
    /\ d.nodes[i].key = id /\ d.nodes[i].value = b
    /\ SameBlocks(c, d, s, N)
    /\ IF c.free # << >> THEN Len(d.nodes) = Len(c.nodes)
       ELSE N = Len(c.nodes) /\ Len(d.nodes) = N + 1

LEMMA PlacedIs ==
    ASSUME NEW K, NEW V, NEW c, NEW s, NEW N, Sound(c, K, V, s, N), NEW id, NEW b,
           id \notin DOMAIN c.map,
           NEW i, i = FreeSlot(c),
           NEW d, d = Cache!Placed(c, id, b)
    PROVE  IsPlaced(c, d, K, V, s, N, id, b, i)
<1> DEFINE A == K \cup {id}
           B == V \cup {b}
           e == Seated(c, i, id, b)
           f == Cache!AttachHead(e, i)
           t == Behind(i, s, N)
           E == DOMAIN c.map \cup {id}
           mp == [k \in E |-> IF k = id THEN i ELSE c.map[k]]
<1>1. c \in Caches(K, V) /\ N \in Nat /\ Chain(c, s, N, {}) /\ Mapped(c) /\ FreeListed(c)
  BY DEF Sound
<1>2. c \in Caches(A, B)
  BY <1>1, CachesGrow
<1>3. id \in A /\ b \in B
  OBVIOUS
<1>4. d = [f EXCEPT !.map = mp]
  <2>1. d = [Cache!AttachHead(IF c.free # << >>
               THEN [c EXCEPT !.nodes[i] = Cell(id, b),
                              !.free = SubSeq(c.free, 1, Len(c.free) - 1)]
               ELSE [c EXCEPT !.nodes = Append(c.nodes, Cell(id, b))], i) EXCEPT !.map = mp]
    BY DEF Cache!Placed, Cell, FreeSlot
  <2> QED BY <2>1 DEF Seated
<1>5. t[1] = i /\ \A j \in 1..N : t[j + 1] = s[j]
  <2>1. t[1] = i
    BY <1>1 DEF Behind
  <2>2. ASSUME NEW j \in 1..N PROVE t[j + 1] = s[j]
    <3>1. j + 1 \in 1..(N + 1) /\ j + 1 # 1 /\ (j + 1) - 1 = j
      BY <1>1
    <3> QED BY <3>1 DEF Behind
  <2> QED BY <2>1, <2>2
<1> HIDE DEF A, B, e, f, t
<1>6. /\ e \in Caches(A, B) /\ FreeListed(e) /\ i \in Nat /\ i \notin Used(c)
      /\ Used(e) = Used(c) \cup {i} /\ e.map = c.map
      /\ e.head = c.head /\ e.tail = c.tail
      /\ e.nodes[i] = Cell(id, b) /\ \A u \in Used(c) : e.nodes[u] = c.nodes[u]
      /\ IF c.free # << >> THEN Len(e.nodes) = Len(c.nodes)
         ELSE Used(c) = 1..Len(c.nodes) /\ Len(e.nodes) = Len(c.nodes) + 1
  BY <1>1, <1>2, <1>3, SeatedIs DEF e
<1>7. Chain(e, s, N, {i})
  <2>1. /\ Used(e) \ {i} = Used(c) \ {}
        /\ \A u \in Used(c) \ {} : /\ e.nodes[u].prev = c.nodes[u].prev
                                   /\ e.nodes[u].next = c.nodes[u].next
    BY <1>6
  <2>2. SameLinks(c, e, {}, {i})
    BY <1>6, <2>1 DEF SameLinks
  <2>3. Chain(c, s, N, {})
    BY <1>1
  <2> QED BY <2>2, <2>3, ChainStays
<1>8. f \in Caches(A, B) /\ Relinked(e, f) /\ Chain(f, t, N + 1, {})
  <2>1. i \in Used(e)
    BY <1>6
  <2>2. e \in Caches(A, B)
    BY <1>6
  <2>3. N \in Nat
    BY <1>1
  <2>4. f = Cache!AttachHead(e, i)
    BY DEF f
  <2>5. t[1] = i
    BY <1>5
  <2>6. \A j \in 1..N : t[j + 1] = s[j]
    BY <1>5
  <2> QED BY <1>7, <2>1, <2>2, <2>3, <2>4, <2>5, <2>6, AttachLinks
<1>9. mp \in UNION {[D -> Nat] : D \in SUBSET A}
  <2>1. PICK D \in SUBSET K : c.map \in [D -> Nat]
    BY <1>1 DEF Caches
  <2>2. E \in SUBSET A /\ mp \in [E -> Nat]
    BY <1>6, <2>1 DEF A
  <2> QED BY <2>2
<1> HIDE DEF mp
<1>10. /\ d \in Caches(A, B) /\ d.nodes = f.nodes /\ d.free = f.free /\ d.map = mp
       /\ d.head = f.head /\ d.tail = f.tail
  BY <1>4, <1>8, <1>9 DEF Caches
<1>11. Used(d) = Used(f)
  BY <1>10 DEF Used
<1>12. Chain(d, t, N + 1, {})
  <2>1. SameLinks(f, d, {}, {})
    BY <1>10, <1>11 DEF SameLinks
  <2> QED BY <1>8, <2>1, ChainStays
<1>13. /\ Used(d) = Used(c) \cup {i} /\ Len(d.nodes) = Len(e.nodes)
       /\ \A u \in Used(c) : /\ d.nodes[u].key = c.nodes[u].key
                             /\ d.nodes[u].value = c.nodes[u].value
       /\ d.nodes[i].key = id /\ d.nodes[i].value = b
  BY <1>6, <1>8, <1>10, <1>11 DEF Relinked, Cell
<1>14. Mapped(d)
  <2>1. DOMAIN d.map = E /\ \A k \in E : d.map[k] = IF k = id THEN i ELSE c.map[k]
    BY <1>10 DEF mp
  <2>2. ASSUME NEW k \in E PROVE d.map[k] \in Used(d) /\ d.nodes[d.map[k]].key = k
    <3>1. CASE k = id
      BY <1>13, <2>1, <3>1
    <3>2. CASE k # id
      <4>1. k \in DOMAIN c.map /\ d.map[k] = c.map[k]
        BY <2>1, <3>2
      <4> QED BY <1>1, <1>13, <4>1 DEF Mapped
    <3> QED BY <3>1, <3>2
  <2>3. ASSUME NEW u \in Used(d)
        PROVE  d.nodes[u].key \in E /\ d.map[d.nodes[u].key] = u
    <3>1. CASE u = i
      BY <1>13, <2>1, <3>1
    <3>2. CASE u # i
      <4>1. u \in Used(c) /\ d.nodes[u].key = c.nodes[u].key
        BY <1>13, <3>2
      <4>2. c.nodes[u].key \in DOMAIN c.map /\ c.map[c.nodes[u].key] = u
        BY <1>1, <4>1 DEF Mapped
      <4> QED BY <2>1, <4>1, <4>2
    <3> QED BY <3>1, <3>2
  <2> QED BY <2>1, <2>2, <2>3 DEF Mapped
<1>15. FreeListed(d)
  BY <1>6, <1>8, <1>10, <1>11 DEF FreeListed, Relinked
<1>16. SameBlocks(c, d, s, N)
  BY <1>1, <1>13 DEF SameBlocks, Chain
<1>17. c.free = << >> => N = Len(c.nodes)
  <2>1. SUFFICES ASSUME c.free = << >> PROVE N = Len(c.nodes)
    OBVIOUS
  <2>2. Used(c) = 1..Len(c.nodes) /\ Len(c.nodes) \in Nat
    <3>1. c.nodes \in Seq(Cells(K, V) \cup {Cache!Vacant})
      BY <1>1 DEF Caches
    <3> QED BY <1>6, <2>1, <3>1
  <2>3. Cardinality(Used(c)) = N
    BY <1>1, Counted
  <2>4. Cardinality(1..Len(c.nodes)) = Len(c.nodes)
    <3> DEFINE n == Len(c.nodes)
    <3>1. 1 \in Int /\ n \in Int
      BY <2>2
    <3>2. Cardinality(1..n) = IF 1 > n THEN 0 ELSE n - 1 + 1
      <4> HIDE DEF n
      <4> QED BY <3>1, FS_Interval
    <3>3. (IF 1 > n THEN 0 ELSE n - 1 + 1) = n
      BY <2>2
    <3> QED BY <3>2, <3>3
  <2> QED BY <2>2, <2>3, <2>4
<1>18. N + 1 \in Nat
  BY <1>1
<1> QED BY <1>6, <1>10, <1>12, <1>13, <1>14, <1>15, <1>16, <1>17, <1>18
          DEF IsPlaced, Sound, A, B, t

LEMMA MappedStays ==
    ASSUME NEW c, NEW d, Mapped(c), d.map = c.map, Used(d) = Used(c),
           \A u \in Used(c) : d.nodes[u].key = c.nodes[u].key
    PROVE  Mapped(d)
BY DEF Mapped

\* A block in the place of another.
Revalued(c, i, b) == [c EXCEPT !.nodes[i].value = b]

IsRevalued(c, d, K, V, s, N, i, b) ==
    /\ Sound(d, K, V \cup {b}, s, N)
    /\ Len(d.nodes) = Len(c.nodes) /\ Used(d) = Used(c) /\ d.map = c.map
    /\ d.nodes[i].key = c.nodes[i].key /\ d.nodes[i].value = b
    /\ \A u \in Used(c) : u # i => /\ d.nodes[u].key = c.nodes[u].key
                                   /\ d.nodes[u].value = c.nodes[u].value

LEMMA ValueIs ==
    ASSUME NEW K, NEW V, NEW c, NEW s, NEW N, Sound(c, K, V, s, N), NEW i \in Used(c), NEW b,
           NEW d, d = Revalued(c, i, b)
    PROVE  IsRevalued(c, d, K, V, s, N, i, b)
<1> DEFINE B == V \cup {b}
           x == [c.nodes[i] EXCEPT !.value = b]
<1>1. c \in Caches(K, V) /\ N \in Nat /\ Chain(c, s, N, {}) /\ Mapped(c) /\ FreeListed(c)
  BY DEF Sound
<1>2. c \in Caches(K, B)
  <2>1. c \in Caches(K \cup {0}, B)
    BY <1>1, CachesGrow
  <2>2. Cells(K, V) \subseteq Cells(K, B)
    BY DEF Cells
  <2>3. c.nodes \in Seq(Cells(K, V) \cup {Cache!Vacant})
    BY <1>1 DEF Caches
  <2>4. c.nodes \in Seq(Cells(K, B) \cup {Cache!Vacant})
    <3> HIDE DEF B
    <3> QED BY <2>2, <2>3
  <2> QED BY <1>1, <2>4 DEF Caches
<1>3. c.nodes[i] \in Cells(K, V)
  BY <1>1, UsedAreCells
<1>4. /\ x \in Cells(K, B) /\ x.key = c.nodes[i].key /\ x.value = b
      /\ x.prev = c.nodes[i].prev /\ x.next = c.nodes[i].next
  BY <1>3 DEF Cells
<1>5. d = [c EXCEPT !.nodes = [c.nodes EXCEPT ![i] = x]]
  BY DEF Revalued
<1> HIDE DEF x, B
<1>6. x \in Cells(K, B)
  BY <1>4
<1>7. d \in Caches(K, B) /\ Replaced(c, d, i, x)
  BY <1>2, <1>5, <1>6, CellReplaced
<1>8. \A u \in Used(c) : u \in 1..Len(c.nodes)
  BY DEF Used
<1>9. \A u \in Used(c) : /\ d.nodes[u].prev = c.nodes[u].prev
                         /\ d.nodes[u].next = c.nodes[u].next
                         /\ d.nodes[u].key = c.nodes[u].key
                         /\ u # i => d.nodes[u].value = c.nodes[u].value
  BY <1>4, <1>7, <1>8 DEF Replaced
<1>10. Chain(d, s, N, {})
  <2>1. Used(d) \ {} = Used(c) \ {} /\ d.head = c.head /\ d.tail = c.tail
    BY <1>7 DEF Replaced
  <2>2. \A u \in Used(c) \ {} : /\ d.nodes[u].prev = c.nodes[u].prev
                                /\ d.nodes[u].next = c.nodes[u].next
    BY <1>9
  <2>3. SameLinks(c, d, {}, {})
    BY <2>1, <2>2 DEF SameLinks
  <2>4. Chain(c, s, N, {})
    BY <1>1
  <2> QED BY <2>3, <2>4, ChainStays
<1>11. Mapped(d)
  <2>1. d.map = c.map /\ Used(d) = Used(c)
    BY <1>7 DEF Replaced
  <2>2. \A u \in Used(c) : d.nodes[u].key = c.nodes[u].key
    BY <1>9
  <2> QED BY <1>1, <2>1, <2>2, MappedStays
<1>12. FreeListed(d)
  BY <1>1, <1>7 DEF FreeListed, Replaced
<1> QED BY <1>1, <1>4, <1>7, <1>9, <1>10, <1>11, <1>12 DEF IsRevalued, Sound, B, Replaced

-----------------------------------------------------------------------------
(* The list that the calls change                                          *)

RemovedAt(r, m) == Cache!Recency!RemovedAt(r, m)
Without(r, id) == Cache!Recency!Without(r, id)

IsShorter(t, P, r, m, n) ==
    t \in Seq(P) /\ Len(t) = n - 1 /\ \A j \in 1..(n - 1) : t[j] = IF j < m THEN r[j] ELSE r[j + 1]

LEMMA RemovedAtIs ==
    ASSUME NEW P, NEW r \in Seq(P), NEW m \in 1..Len(r)
    PROVE  IsShorter(RemovedAt(r, m), P, r, m, Len(r))
<1> DEFINE t == RemovedAt(r, m)
<1>1. t = [j \in 1..(Len(r) - 1) |-> IF j < m THEN r[j] ELSE r[j + 1]]
  BY DEF Cache!Recency!RemovedAt, RemovedAt
<1>2. Len(r) - 1 \in Nat
  OBVIOUS
<1>3. \A j \in 1..(Len(r) - 1) : (IF j < m THEN r[j] ELSE r[j + 1]) \in P
  OBVIOUS
<1> HIDE DEF t
<1>4. t \in Seq(P) /\ Len(t) = Len(r) - 1
      /\ \A j \in 1..(Len(r) - 1) : t[j] = IF j < m THEN r[j] ELSE r[j + 1]
  BY <1>1, <1>2, <1>3
<1> QED BY <1>4 DEF t, IsShorter

\* One of the pairs has the id.
LEMMA WithoutIs ==
    ASSUME NEW r, NEW id, NEW m \in 1..Len(r),
           \A j \in 1..Len(r) : r[j][1] = id <=> j = m
    PROVE  Without(r, id) = RemovedAt(r, m)
<1> DEFINE At == {i \in 1..Len(r) : r[i][1] = id}
<1>1. At = {m}
  OBVIOUS
<1>2. (CHOOSE i \in At : TRUE) = m
  BY <1>1
<1>3. Without(r, id) = IF At = {} THEN r
                       ELSE Cache!Recency!RemovedAt(r, CHOOSE i \in At : TRUE)
  BY DEF Cache!Recency!Without, Without
<1> HIDE DEF At
<1> QED BY <1>1, <1>2, <1>3 DEF RemovedAt

LEMMA WithoutNone ==
    ASSUME NEW r, NEW id, \A j \in 1..Len(r) : r[j][1] # id
    PROVE  Without(r, id) = r
<1>1. {i \in 1..Len(r) : r[i][1] = id} = {}
  OBVIOUS
<1> QED BY <1>1 DEF Cache!Recency!Without, Without

InFront(x, t) == <<x>> \o t

LEMMA FrontedList ==
    ASSUME NEW P, NEW r \in Seq(P), NEW m \in 1..Len(r), NEW q \in Seq(P), NEW x \in P,
           Len(q) = Len(r), q[1] = x,
           \A j \in 1..(Len(r) - 1) : q[j + 1] = IF j < m THEN r[j] ELSE r[j + 1]
    PROVE  q = InFront(x, RemovedAt(r, m))
<1> DEFINE t == RemovedAt(r, m)
           n == Len(r)
<1>1. n \in Nat /\ n > 0
  OBVIOUS
<1>2. t \in Seq(P) /\ Len(t) = n - 1 /\ \A j \in 1..(n - 1) : t[j] = q[j + 1]
  <2> HIDE DEF t
  <2>1. IsShorter(t, P, r, m, n)
    BY RemovedAtIs DEF t
  <2> QED BY <2>1 DEF IsShorter
<1> HIDE DEF t, n
<1> DEFINE u == <<x>> \o t
<1>3. u \in Seq(P) /\ Len(u) = 1 + Len(t) /\ u[1] = x /\ \A j \in 1..Len(t) : u[j + 1] = t[j]
  BY <1>2
<1> HIDE DEF u
<1>4. Len(q) = Len(u)
  BY <1>1, <1>2, <1>3 DEF n
<1>5. ASSUME NEW j \in 1..Len(q) PROVE q[j] = u[j]
  <2>1. Len(q) = n
    BY DEF n
  <2>2. CASE j = 1
    BY <1>3, <2>2
  <2>3. CASE j # 1
    <3> DEFINE k == j - 1
    <3>1. k \in 1..(n - 1) /\ k + 1 = j
      BY <1>1, <2>1, <2>3
    <3> HIDE DEF k
    <3> QED BY <1>2, <1>3, <3>1
  <2> QED BY <2>2, <2>3
<1>6. q = u
  BY <1>3, <1>4, <1>5, SeqEqual
<1> QED BY <1>6 DEF u, t, InFront

LEMMA BehindList ==
    ASSUME NEW P, NEW r \in Seq(P), NEW q \in Seq(P), NEW x \in P,
           Len(q) = Len(r) + 1, q[1] = x, \A j \in 1..Len(r) : q[j + 1] = r[j]
    PROVE  q = InFront(x, r)
<1> DEFINE n == Len(r)
           u == <<x>> \o r
<1>1. n \in Nat
  OBVIOUS
<1>2. u \in Seq(P) /\ Len(u) = n + 1 /\ u[1] = x /\ \A j \in 1..n : u[j + 1] = r[j]
  OBVIOUS
<1> HIDE DEF u, n
<1>3. ASSUME NEW j \in 1..(n + 1) PROVE q[j] = u[j]
  <2>1. CASE j = 1
    BY <1>2, <2>1
  <2>2. CASE j # 1
    <3> DEFINE k == j - 1
    <3>1. k \in 1..n /\ k + 1 = j
      BY <1>1, <2>2
    <3>2. q[k + 1] = r[k]
      BY <3>1 DEF n
    <3> HIDE DEF k
    <3> QED BY <1>2, <3>1, <3>2
  <2> QED BY <2>1, <2>2
<1>4. Len(q) = n + 1
  BY DEF n
<1>5. q = u
  BY <1>2, <1>3, <1>4, SeqEqual
<1> QED BY <1>5 DEF u, InFront

IsStart(q, P, r, m) == q \in Seq(P) /\ Len(q) = m /\ \A j \in 1..m : q[j] = r[j]

LEMMA ShortensTo ==
    ASSUME NEW P, NEW r \in Seq(P), NEW n \in Nat, NEW m, m = IF Len(r) < n THEN Len(r) ELSE n
    PROVE  IsStart(Cache!Recency!ShortenTo(r, n), P, r, m)
<1> DEFINE q == Cache!Recency!ShortenTo(r, n)
<1>1. q = SubSeq(r, 1, m)
  BY DEF Cache!Recency!ShortenTo
<1>2. m \in Nat /\ m <= Len(r)
  OBVIOUS
<1>3. q \in Seq(P) /\ Len(q) = m /\ \A j \in 1..m : q[j] = r[j]
  BY <1>1, <1>2
<1> QED BY <1>3 DEF IsStart

\* The blocks from head to tail.
ListOf(c, s, N) == [j \in 1..N |-> <<c.nodes[s[j]].key, c.nodes[s[j]].value>>]

IsListOf(r, K, V, c, s, N) ==
    /\ r \in Seq(K \X V) /\ Len(r) = N /\ Cache!Listed(c) = r
    /\ \A j \in 1..N : /\ r[j] = <<c.nodes[s[j]].key, c.nodes[s[j]].value>>
                       /\ r[j][1] = c.nodes[s[j]].key
                       /\ s[j] \in Used(c)
    /\ \A i, j \in 1..N : r[i][1] = r[j][1] => i = j
    /\ \A j \in 1..N : r[j][1] \in DOMAIN c.map
    /\ \A id \in DOMAIN c.map : \E j \in 1..N : c.map[id] = s[j] /\ r[j][1] = id

LEMMA ListOfIs ==
    ASSUME NEW K, NEW V, NEW c, NEW s, NEW N, Sound(c, K, V, s, N)
    PROVE  IsListOf(ListOf(c, s, N), K, V, c, s, N)
<1> DEFINE r == ListOf(c, s, N)
<1>1. c \in Caches(K, V) /\ N \in Nat /\ Chain(c, s, N, {}) /\ Mapped(c)
  BY DEF Sound
<1>2. r = [j \in 1..N |-> <<c.nodes[s[j]].key, c.nodes[s[j]].value>>]
  BY DEF ListOf
<1> HIDE DEF r
<1>3. \A j \in 1..N : s[j] \in Used(c)
  BY <1>1 DEF Chain
<1>4. \A j \in 1..N : c.nodes[s[j]] \in Cells(K, V)
  BY <1>1, <1>3, UsedAreCells
<1>5. \A j \in 1..N : c.nodes[s[j]].key \in K /\ c.nodes[s[j]].value \in V
  BY <1>4 DEF Cells
<1>6. r \in Seq(K \X V) /\ Len(r) = N
  <2>1. \A j \in 1..N : r[j] \in K \X V
    BY <1>2, <1>5
  <2> QED BY <1>1, <1>2, <2>1
<1>7. \A j \in 1..N : /\ r[j] = <<c.nodes[s[j]].key, c.nodes[s[j]].value>>
                      /\ r[j][1] = c.nodes[s[j]].key
  BY <1>2
<1>8. Cache!Listed(c) = r
  BY <1>1, <1>2, ListedIs
<1>9. \A i, j \in 1..N : r[i][1] = r[j][1] => i = j
  <2>1. \A j \in 1..N : c.map[r[j][1]] = s[j]
    BY <1>1, <1>3, <1>7 DEF Mapped
  <2>2. \A i, j \in 1..N : s[i] = s[j] => i = j
    BY <1>1 DEF Chain
  <2> QED BY <2>1, <2>2
<1>10. \A j \in 1..N : r[j][1] \in DOMAIN c.map
  BY <1>1, <1>3, <1>7 DEF Mapped
<1>11. ASSUME NEW id \in DOMAIN c.map PROVE \E j \in 1..N : c.map[id] = s[j] /\ r[j][1] = id
  <2>1. c.map[id] \in Used(c) /\ c.nodes[c.map[id]].key = id
    BY <1>1 DEF Mapped
  <2>2. PICK j \in 1..N : s[j] = c.map[id]
    BY <1>1, <2>1 DEF Chain
  <2> QED BY <1>7, <2>1, <2>2
<1>12. IsListOf(r, K, V, c, s, N)
  BY <1>3, <1>6, <1>7, <1>8, <1>9, <1>10, <1>11 DEF IsListOf
<1> QED BY <1>12 DEF r

-----------------------------------------------------------------------------
(* Every call keeps the cache sound and does to the list what it should    *)

LEMMA ShortEnough ==
    ASSUME NEW P, NEW r \in Seq(P), NEW n \in Nat, Len(r) <= n
    PROVE  Cache!Recency!ShortenTo(r, n) = r
<1> DEFINE q == Cache!Recency!ShortenTo(r, n)
<1>1. Len(r) = IF Len(r) < n THEN Len(r) ELSE n
  OBVIOUS
<1>2. q \in Seq(P) /\ Len(q) = Len(r) /\ \A j \in 1..Len(r) : q[j] = r[j]
  <2> HIDE DEF q
  <2>1. IsStart(q, P, r, Len(r))
    BY <1>1, ShortensTo DEF q
  <2> QED BY <2>1 DEF IsStart
<1> HIDE DEF q
<1>3. q = r
  BY <1>2, SeqEqual
<1> QED BY <1>3 DEF q

LEMMA SoundGrow ==
    ASSUME NEW K, NEW V, NEW c, NEW s, NEW N, Sound(c, K, V, s, N), NEW k, NEW v
    PROVE  Sound(c, K \cup {k}, V \cup {v}, s, N)
<1>1. c \in Caches(K, V)
  BY DEF Sound
<1>2. c \in Caches(K \cup {k}, V \cup {v})
  BY <1>1, CachesGrow
<1> QED BY <1>2 DEF Sound

IsMoved(r, q, m, v) == q[1] = <<r[m][1], v>> /\ q = InFront(q[1], Without(r, r[m][1]))

\* The block at m goes to the front, in a cache that has the other blocks of c.
LEMMA MovedList ==
    ASSUME NEW K, NEW V, NEW c, NEW s, NEW N, Sound(c, K, V, s, N), NEW m \in 1..N,
           NEW d, Sound(d, K, V, Fronted(s, N, m), N),
           d.nodes[s[m]].key = c.nodes[s[m]].key,
           \A u \in Used(c) : u # s[m] => /\ d.nodes[u].key = c.nodes[u].key
                                          /\ d.nodes[u].value = c.nodes[u].value,
           NEW r, r = ListOf(c, s, N), NEW q, q = ListOf(d, Fronted(s, N, m), N)
    PROVE  IsMoved(r, q, m, d.nodes[s[m]].value)
<1> DEFINE t == Fronted(s, N, m)
<1>1. /\ r \in Seq(K \X V) /\ Len(r) = N
      /\ \A j \in 1..N : r[j] = <<c.nodes[s[j]].key, c.nodes[s[j]].value>>
      /\ \A j \in 1..N : r[j][1] = c.nodes[s[j]].key /\ s[j] \in Used(c)
      /\ \A i, j \in 1..N : r[i][1] = r[j][1] => i = j
  <2>1. IsListOf(r, K, V, c, s, N)
    BY ListOfIs
  <2> QED BY <2>1 DEF IsListOf
<1>2. \A j \in 1..N : t[j] = IF j = 1 THEN s[m] ELSE IF j - 1 < m THEN s[j - 1] ELSE s[j]
  BY DEF Fronted
<1> HIDE DEF t
<1>3. q = ListOf(d, t, N) /\ Sound(d, K, V, t, N)
  BY DEF t
<1>4. /\ q \in Seq(K \X V) /\ Len(q) = N
      /\ \A j \in 1..N : q[j] = <<d.nodes[t[j]].key, d.nodes[t[j]].value>>
  <2>1. IsListOf(q, K, V, d, t, N)
    BY <1>3, ListOfIs
  <2> QED BY <2>1 DEF IsListOf
<1>5. N \in Nat /\ 1 \in 1..N
  BY DEF Sound
<1>6. q[1] = <<r[m][1], d.nodes[s[m]].value>>
  BY <1>1, <1>2, <1>4, <1>5
<1>7. q[1] \in K \X V
  BY <1>4, <1>5
<1>8. \A i, j \in 1..N : s[i] = s[j] => i = j
  BY DEF Sound, Chain
<1>9. ASSUME NEW j \in 1..(N - 1) PROVE q[j + 1] = IF j < m THEN r[j] ELSE r[j + 1]
  <2>1. j + 1 \in 1..N /\ j + 1 # 1 /\ (j + 1) - 1 = j /\ j \in 1..N
    BY <1>5
  <2>2. CASE j < m
    <3>1. t[j + 1] = s[j] /\ j # m
      BY <1>2, <1>5, <2>1, <2>2
    <3>2. s[j] # s[m] /\ s[j] \in Used(c)
      BY <1>1, <1>8, <2>1, <3>1
    <3>3. d.nodes[s[j]].key = c.nodes[s[j]].key /\ d.nodes[s[j]].value = c.nodes[s[j]].value
      BY <3>2
    <3>4. q[j + 1] = <<d.nodes[s[j]].key, d.nodes[s[j]].value>>
      BY <1>4, <2>1, <3>1
    <3>5. r[j] = <<c.nodes[s[j]].key, c.nodes[s[j]].value>>
      BY <1>1, <2>1
    <3>6. q[j + 1] = r[j]
      BY <3>3, <3>4, <3>5
    <3> QED BY <2>2, <3>6
  <2>3. CASE ~ (j < m)
    <3>1. t[j + 1] = s[j + 1] /\ j + 1 # m
      BY <1>2, <1>5, <2>1, <2>3
    <3>2. s[j + 1] # s[m] /\ s[j + 1] \in Used(c)
      BY <1>1, <1>8, <2>1, <3>1
    <3>3. /\ d.nodes[s[j + 1]].key = c.nodes[s[j + 1]].key
          /\ d.nodes[s[j + 1]].value = c.nodes[s[j + 1]].value
      BY <3>2
    <3>4. q[j + 1] = <<d.nodes[s[j + 1]].key, d.nodes[s[j + 1]].value>>
      BY <1>4, <2>1, <3>1
    <3>5. r[j + 1] = <<c.nodes[s[j + 1]].key, c.nodes[s[j + 1]].value>>
      BY <1>1, <2>1
    <3>6. q[j + 1] = r[j + 1]
      BY <3>3, <3>4, <3>5
    <3> QED BY <2>3, <3>6
  <2> QED BY <2>2, <2>3
<1>10. q = InFront(q[1], RemovedAt(r, m))
  <2> DEFINE P == K \X V
             x == q[1]
  <2>1. m \in 1..Len(r) /\ Len(q) = Len(r) /\ q[1] = x
    BY <1>1, <1>4
  <2>2. \A j \in 1..(Len(r) - 1) : q[j + 1] = IF j < m THEN r[j] ELSE r[j + 1]
    BY <1>1, <1>9
  <2>3. r \in Seq(P) /\ q \in Seq(P) /\ x \in P
    BY <1>1, <1>4, <1>7
  <2> HIDE DEF P, x
  <2>4. q = InFront(x, RemovedAt(r, m))
    BY <2>1, <2>2, <2>3, FrontedList, SMTT(30)
  <2> QED BY <2>4 DEF x
<1>11. Without(r, r[m][1]) = RemovedAt(r, m)
  BY <1>1, WithoutIs
<1> QED BY <1>6, <1>10, <1>11 DEF IsMoved

\* The block at m is gone.
LEMMA RemovedList ==
    ASSUME NEW K, NEW V, NEW c, NEW s, NEW N, Sound(c, K, V, s, N), NEW m \in 1..N,
           NEW d, SameBlocks(c, d, LessOne(s, N, m), N - 1),
           NEW r, r = ListOf(c, s, N), NEW q, q = ListOf(d, LessOne(s, N, m), N - 1)
    PROVE  q = RemovedAt(r, m) /\ Without(r, r[m][1]) = RemovedAt(r, m)
<1> DEFINE t == LessOne(s, N, m)
<1>1. /\ Len(r) = N
      /\ \A j \in 1..N : r[j] = <<c.nodes[s[j]].key, c.nodes[s[j]].value>>
      /\ \A i, j \in 1..N : r[i][1] = r[j][1] => i = j
  <2>1. IsListOf(r, K, V, c, s, N)
    BY ListOfIs
  <2> QED BY <2>1 DEF IsListOf
<1>2. \A j \in 1..(N - 1) : t[j] = IF j < m THEN s[j] ELSE s[j + 1]
  BY DEF LessOne
<1>3. q = [j \in 1..(N - 1) |-> <<d.nodes[t[j]].key, d.nodes[t[j]].value>>]
  BY DEF ListOf
<1> HIDE DEF t
<1>4. RemovedAt(r, m) = [j \in 1..(N - 1) |-> IF j < m THEN r[j] ELSE r[j + 1]]
  BY <1>1 DEF RemovedAt, Cache!Recency!RemovedAt
<1>5. N \in Nat
  BY DEF Sound
<1>6. ASSUME NEW j \in 1..(N - 1)
      PROVE  <<d.nodes[t[j]].key, d.nodes[t[j]].value>> = IF j < m THEN r[j] ELSE r[j + 1]
  <2>1. d.nodes[t[j]].key = c.nodes[t[j]].key /\ d.nodes[t[j]].value = c.nodes[t[j]].value
    BY DEF SameBlocks, t
  <2>2. j \in 1..N /\ j + 1 \in 1..N
    BY <1>5
  <2> QED BY <1>1, <1>2, <2>1, <2>2
<1>7. q = RemovedAt(r, m)
  BY <1>3, <1>4, <1>6
<1>8. Without(r, r[m][1]) = RemovedAt(r, m)
  BY <1>1, WithoutIs
<1> QED BY <1>7, <1>8

\* A cache that is sound and has no more nodes than it may have.
Fits(c) == Len(c.nodes) <= Capacity /\ \E K, V, s, N : Sound(c, K, V, s, N)

Fronts(r, q) == \E m \in 1..Len(r) : q = InFront(r[m], Without(r, r[m][1]))
Drops(r, q) == \E m \in 1..Len(r) : q = Without(r, r[m][1])
Puts(r, q, id, b) ==
    /\ q # << >> /\ q[1] = <<id, b>>
    /\ q = Cache!Recency!ShortenTo(InFront(q[1], Without(r, q[1][1])), Capacity)

LEMMA TouchedFits ==
    ASSUME NEW c, Fits(c), NEW id \in DOMAIN c.map, NEW d, d = Cache!Touched(c, id)
    PROVE  Fits(d) /\ (d = c \/ Fronts(Cache!Listed(c), Cache!Listed(d)))
<1>1. PICK K, V, s, N : Sound(c, K, V, s, N)
  BY DEF Fits
<1> DEFINE r == ListOf(c, s, N)
<1>2. IsListOf(r, K, V, c, s, N)
  BY <1>1, ListOfIs
<1> HIDE DEF r
<1>3. PICK m \in 1..N : c.map[id] = s[m]
  BY <1>2 DEF IsListOf
<1>4. CASE c.head = c.map[id]
  BY <1>4 DEF Cache!Touched
<1>5. CASE c.head # c.map[id]
  <2>1. d = Cache!MoveToHead(c, s[m])
    BY <1>3, <1>5 DEF Cache!Touched
  <2>2. c \in Caches(K, V) /\ N \in Nat /\ Chain(c, s, N, {}) /\ Mapped(c) /\ FreeListed(c)
    BY <1>1 DEF Sound
  <2>3. d \in Caches(K, V) /\ Relinked(c, d) /\ Chain(d, Fronted(s, N, m), N, {})
    BY <2>1, <2>2, MoveToHeadLinks
  <2>4. Mapped(d) /\ FreeListed(d)
    BY <2>2, <2>3, RelinkedKeeps
  <2>5. Sound(d, K, V, Fronted(s, N, m), N)
    BY <2>2, <2>3, <2>4 DEF Sound
  <2>6. Fits(d)
    BY <2>3, <2>5 DEF Fits, Relinked
  <2>7. \A u \in Used(c) : d.nodes[u].key = c.nodes[u].key /\ d.nodes[u].value = c.nodes[u].value
    BY <2>3 DEF Relinked
  <2>8. /\ Len(r) = N /\ Cache!Listed(c) = r
        /\ r[m] = <<c.nodes[s[m]].key, c.nodes[s[m]].value>> /\ r[m][1] = c.nodes[s[m]].key
        /\ s[m] \in Used(c)
    BY <1>2 DEF IsListOf
  <2>9. Cache!Listed(d) = ListOf(d, Fronted(s, N, m), N)
    <3>1. IsListOf(ListOf(d, Fronted(s, N, m), N), K, V, d, Fronted(s, N, m), N)
      BY <2>5, ListOfIs
    <3> QED BY <3>1 DEF IsListOf
  <2> DEFINE l == ListOf(d, Fronted(s, N, m), N)
  <2>10. l[1] = <<r[m][1], d.nodes[s[m]].value>> /\ l = InFront(l[1], Without(r, r[m][1]))
    <3>1. r = ListOf(c, s, N)
      BY DEF r
    <3> HIDE DEF l
    <3>2. l = ListOf(d, Fronted(s, N, m), N)
      BY DEF l
    <3>3. IsMoved(r, l, m, d.nodes[s[m]].value)
      BY <1>1, <2>5, <2>7, <2>8, <3>1, <3>2, MovedList
    <3> QED BY <3>3 DEF IsMoved
  <2> HIDE DEF l
  <2>11. l[1] = r[m]
    BY <2>7, <2>8, <2>10
  <2>12. Fronts(r, l)
    BY <2>8, <2>10, <2>11 DEF Fronts
  <2> QED BY <2>6, <2>8, <2>9, <2>12 DEF l
<1> QED BY <1>4, <1>5

LEMMA DetachKeeps ==
    ASSUME NEW K, NEW V, NEW c, NEW s, NEW N, Sound(c, K, V, s, N), NEW m \in 1..N
    PROVE  Cache!Detach(c, s[m]).map = c.map /\ Cache!Detach(c, s[m]).free = c.free
<1> DEFINE b == Cache!Detach(c, s[m])
           t == LessOne(s, N, m)
<1>1. c \in Caches(K, V) /\ N \in Nat /\ Chain(c, s, N, {}) /\ Mapped(c) /\ FreeListed(c)
  BY DEF Sound
<1>2. \A j \in 1..(N - 1) : t[j] = IF j < m THEN s[j] ELSE s[j + 1]
  BY DEF LessOne
<1> HIDE DEF b, t
<1>3. b \in Caches(K, V) /\ Relinked(c, b) /\ Chain(b, t, N - 1, {s[m]})
  BY <1>1, <1>2, DetachLinks DEF b
<1> QED BY <1>3 DEF Relinked, b

LEMMA RemovedFits ==
    ASSUME NEW c, Fits(c), NEW id \in DOMAIN c.map, NEW d, d = Cache!Removed(c, id)
    PROVE  Fits(d) /\ Drops(Cache!Listed(c), Cache!Listed(d))
<1>1. PICK K, V, s, N : Sound(c, K, V, s, N)
  BY DEF Fits
<1> DEFINE r == ListOf(c, s, N)
<1>2. IsListOf(r, K, V, c, s, N)
  BY <1>1, ListOfIs
<1>3. PICK m \in 1..N : c.map[id] = s[m] /\ r[m][1] = id
  <2> HIDE DEF r
  <2> QED BY <1>2 DEF IsListOf
<1> DEFINE t == LessOne(s, N, m)
           q == ListOf(d, t, N - 1)
<1>4. c.nodes[s[m]].key = id /\ Cache!Listed(c) = r /\ Len(r) = N
  <2> HIDE DEF r
  <2> QED BY <1>2, <1>3 DEF IsListOf
<1>5. d = Surrendered(Cache!Detach(c, s[m]), s[m], c.nodes[s[m]].key)
  <2>1. Cache!Detach(c, s[m]).map = c.map /\ Cache!Detach(c, s[m]).free = c.free
    BY <1>1, DetachKeeps
  <2> HIDE DEF r, t
  <2> QED BY <1>3, <1>4, <2>1 DEF Surrendered, Cache!Removed
<1>6. /\ Sound(d, K, V, t, N - 1) /\ Len(d.nodes) = Len(c.nodes) /\ SameBlocks(c, d, t, N - 1)
  BY <1>1, <1>5, DroppedIs
<1>7. q = RemovedAt(r, m) /\ Without(r, r[m][1]) = RemovedAt(r, m)
  BY <1>1, <1>6, RemovedList
<1>8. Cache!Listed(d) = q
  <2> HIDE DEF q, r
  <2>1. IsListOf(ListOf(d, t, N - 1), K, V, d, t, N - 1)
    BY <1>6, ListOfIs
  <2> QED BY <2>1 DEF IsListOf, q
<1> HIDE DEF q, r, t
<1>9. Drops(r, q)
  BY <1>4, <1>7 DEF Drops
<1>10. Fits(d)
  BY <1>6 DEF Fits
<1> QED BY <1>4, <1>8, <1>9, <1>10

HasInFront(q, r, K, V, id, b, N) ==
    /\ q \in Seq((K \cup {id}) \X (V \cup {b})) /\ Len(q) = N + 1
    /\ r \in Seq((K \cup {id}) \X (V \cup {b})) /\ Len(r) = N
    /\ q[1] = <<id, b>> /\ q = InFront(<<id, b>>, r)

\* A new block before those there are, with room for one more.
LEMMA RoomFits ==
    ASSUME NEW K, NEW V, NEW c, NEW s, NEW N, Sound(c, K, V, s, N), NEW id, NEW b,
           id \notin DOMAIN c.map, Len(c.nodes) <= Capacity,
           c.free # << >> \/ N < Capacity, NEW d, d = Cache!Placed(c, id, b)
    PROVE  Fits(d) /\ HasInFront(Cache!Listed(d), ListOf(c, s, N), K, V, id, b, N)
<1> DEFINE A == K \cup {id}
           B == V \cup {b}
           i == FreeSlot(c)
           t == Behind(i, s, N)
           r == ListOf(c, s, N)
           q == ListOf(d, t, N + 1)
           P == A \X B
           x == <<id, b>>
<1>0. i = FreeSlot(c)
  OBVIOUS
<1> HIDE DEF i, q, r
<1>1. /\ Sound(d, A, B, t, N + 1)
      /\ d.nodes[i].key = id /\ d.nodes[i].value = b
      /\ SameBlocks(c, d, s, N)
      /\ IF c.free # << >> THEN Len(d.nodes) = Len(c.nodes)
         ELSE N = Len(c.nodes) /\ Len(d.nodes) = N + 1
  <2> HIDE DEF A, B, t, P, x
  <2>1. IsPlaced(c, d, K, V, s, N, id, b, i)
    BY <1>0, PlacedIs
  <2> QED BY <2>1 DEF IsPlaced, A, B, t
<1>2. N \in Nat
  BY DEF Sound
<1>3. t[1] = i /\ \A j \in 1..N : t[j + 1] = s[j]
  <2>1. t[1] = i
    BY <1>2 DEF Behind
  <2>2. ASSUME NEW j \in 1..N PROVE t[j + 1] = s[j]
    <3>1. j + 1 \in 1..(N + 1) /\ j + 1 # 1 /\ (j + 1) - 1 = j
      BY <1>2
    <3> QED BY <3>1 DEF Behind
  <2> QED BY <2>1, <2>2
<1>4. Sound(c, A, B, s, N)
  BY SoundGrow
<1> HIDE DEF A, B, t
<1>5. IsListOf(q, A, B, d, t, N + 1)
  BY <1>1, ListOfIs DEF q
<1>6. IsListOf(r, A, B, c, s, N)
  BY <1>4, ListOfIs DEF r
<1>7. Len(d.nodes) <= Capacity
  BY <1>1, <1>2, CapacityIsACount
<1>8. Fits(d)
  BY <1>1, <1>7 DEF Fits
<1> HIDE DEF P
<1>9. /\ q \in Seq(P) /\ Len(q) = N + 1 /\ Cache!Listed(d) = q
      /\ \A j \in 1..(N + 1) : q[j] = <<d.nodes[t[j]].key, d.nodes[t[j]].value>>
  BY <1>5 DEF IsListOf, P
<1>10. /\ r \in Seq(P) /\ Len(r) = N
       /\ \A j \in 1..N : r[j] = <<c.nodes[s[j]].key, c.nodes[s[j]].value>>
  BY <1>6 DEF IsListOf, P
<1>11. 1 \in 1..(N + 1)
  BY <1>2
<1>12. q[1] = x
  <2>1. q[1] = <<d.nodes[i].key, d.nodes[i].value>>
    BY <1>3, <1>9, <1>11
  <2> QED BY <1>1, <2>1
<1>13. x \in P
  BY DEF P, A, B
<1> HIDE DEF x
<1>14. ASSUME NEW j \in 1..N PROVE q[j + 1] = r[j]
  <2>1. j + 1 \in 1..(N + 1)
    BY <1>2
  <2>2. q[j + 1] = <<d.nodes[s[j]].key, d.nodes[s[j]].value>>
    BY <1>3, <1>9, <2>1
  <2>3. d.nodes[s[j]].key = c.nodes[s[j]].key /\ d.nodes[s[j]].value = c.nodes[s[j]].value
    BY <1>1 DEF SameBlocks
  <2> QED BY <1>10, <2>2, <2>3
<1>15. q = InFront(x, r)
  <2>1. Len(q) = Len(r) + 1 /\ \A j \in 1..Len(r) : q[j + 1] = r[j]
    BY <1>9, <1>10, <1>14
  <2> QED BY <1>9, <1>10, <1>12, <1>13, <2>1, BehindList
<1> QED BY <1>8, <1>9, <1>10, <1>12, <1>15 DEF r, x, P, A, B, HasInFront

\* The block that was last makes room for another.
LEMMA LastFallsOut ==
    ASSUME NEW P, NEW r \in Seq(P), NEW x \in P, NEW n \in Nat \ {0}, Len(r) = n
    PROVE  InFront(x, RemovedAt(r, n)) = Cache!Recency!ShortenTo(InFront(x, r), n)
<1> DEFINE t == RemovedAt(r, n)
           u == InFront(x, t)
           v == InFront(x, r)
           w == Cache!Recency!ShortenTo(v, n)
<1>1. n \in 1..Len(r)
  OBVIOUS
<1>2. t \in Seq(P) /\ Len(t) = n - 1 /\ \A j \in 1..(n - 1) : t[j] = r[j]
  <2> HIDE DEF t
  <2>1. IsShorter(t, P, r, n, n)
    BY <1>1, RemovedAtIs DEF t
  <2> QED BY <2>1 DEF IsShorter
<1> HIDE DEF t
<1>3. u \in Seq(P) /\ Len(u) = n /\ u[1] = x /\ \A j \in 1..(n - 1) : u[j + 1] = r[j]
  BY <1>2 DEF InFront
<1>4. v \in Seq(P) /\ Len(v) = n + 1 /\ v[1] = x /\ \A j \in 1..n : v[j + 1] = r[j]
  BY DEF InFront
<1> HIDE DEF u, v
<1>5. n = IF Len(v) < n THEN Len(v) ELSE n
  BY <1>4
<1>6. w \in Seq(P) /\ Len(w) = n /\ \A j \in 1..n : w[j] = v[j]
  <2> HIDE DEF w
  <2>1. IsStart(w, P, v, n)
    BY <1>4, <1>5, ShortensTo DEF w
  <2> QED BY <2>1 DEF IsStart
<1> HIDE DEF w
<1>7. ASSUME NEW j \in 1..n PROVE u[j] = w[j]
  <2>1. CASE j = 1
    BY <1>3, <1>4, <1>6, <2>1
  <2>2. CASE j # 1
    <3> DEFINE k == j - 1
    <3>1. k \in 1..(n - 1) /\ k \in 1..n /\ k + 1 = j
      BY <2>2
    <3> HIDE DEF k
    <3> QED BY <1>3, <1>4, <1>6, <3>1
  <2> QED BY <2>1, <2>2
<1>8. u = w
  BY <1>3, <1>6, <1>7, SeqEqual
<1> QED BY <1>8 DEF t, u, v, w

\* The pair in front, and then what was there, with room for it.
LEMMA PutIs ==
    ASSUME NEW P, NEW q \in Seq(P), Len(q) <= Capacity, NEW r, NEW id, NEW b,
           q # << >>, q[1] = <<id, b>>, q = InFront(q[1], Without(r, q[1][1]))
    PROVE  Puts(r, q, id, b)
BY ShortEnough, CapacityIsACount DEF Puts

\* A block that is there gets another value and goes to the front.
LEMMA RelistMoves ==
    ASSUME NEW K, NEW V, NEW c, NEW s, NEW N, Sound(c, K, V, s, N), Len(c.nodes) <= Capacity,
           NEW m \in 1..N, NEW b, NEW e, IsRevalued(c, e, K, V, s, N, s[m], b),
           NEW d, d = Cache!MoveToHead(e, s[m])
    PROVE  Fits(d) /\ Puts(Cache!Listed(c), Cache!Listed(d), c.nodes[s[m]].key, b)
<1> DEFINE B == V \cup {b}
           r == ListOf(c, s, N)
           i == s[m]
           t == Fronted(s, N, m)
           q == ListOf(d, t, N)
<1> HIDE DEF t, q, r
<1>1. c \in Caches(K, V) /\ N \in Nat /\ Chain(c, s, N, {}) /\ Mapped(c)
  BY DEF Sound
<1>2. IsListOf(r, K, V, c, s, N)
  BY ListOfIs DEF r
<1>3. /\ Sound(e, K, B, s, N) /\ Len(e.nodes) = Len(c.nodes) /\ Used(e) = Used(c)
      /\ e.nodes[i].key = c.nodes[i].key /\ e.nodes[i].value = b
      /\ \A u \in Used(c) : u # i => /\ e.nodes[u].key = c.nodes[u].key
                                     /\ e.nodes[u].value = c.nodes[u].value
  BY DEF IsRevalued
<1> HIDE DEF B, i
<1>4. e \in Caches(K, B) /\ Chain(e, s, N, {}) /\ Mapped(e) /\ FreeListed(e)
  BY <1>3 DEF Sound
<1>5. i \in Used(c) /\ c.nodes[i].key = r[m][1]
  BY <1>2 DEF IsListOf, i
<1>6. d \in Caches(K, B) /\ Relinked(e, d) /\ Chain(d, t, N, {})
  BY <1>1, <1>4, MoveToHeadLinks DEF t
<1>7. Mapped(d) /\ FreeListed(d)
  BY <1>4, <1>6, RelinkedKeeps
<1>8. Sound(d, K, B, t, N)
  BY <1>1, <1>6, <1>7 DEF Sound
<1>9. /\ d.nodes[i].key = c.nodes[i].key /\ d.nodes[i].value = b
      /\ \A u \in Used(c) : u # i => /\ d.nodes[u].key = c.nodes[u].key
                                     /\ d.nodes[u].value = c.nodes[u].value
  BY <1>3, <1>5, <1>6 DEF Relinked
<1>10. Len(d.nodes) = Len(c.nodes)
  BY <1>3, <1>6 DEF Relinked
<1>11. Fits(d)
  BY <1>8, <1>10 DEF Fits
<1>12. Sound(c, K, B, s, N)
  <2>1. Cells(K, V) \subseteq Cells(K, B)
    BY DEF Cells, B
  <2>2. c.nodes \in Seq(Cells(K, V) \cup {Cache!Vacant})
    BY <1>1 DEF Caches
  <2>3. c.nodes \in Seq(Cells(K, B) \cup {Cache!Vacant})
    BY <2>1, <2>2
  <2>4. c \in Caches(K, B)
    BY <1>1, <2>3 DEF Caches
  <2> QED BY <2>4 DEF Sound
<1>13. IsMoved(r, q, m, d.nodes[s[m]].value)
  <2>1. r = ListOf(c, s, N) /\ q = ListOf(d, Fronted(s, N, m), N)
    BY DEF r, q, t
  <2>2. /\ Sound(d, K, B, Fronted(s, N, m), N)
        /\ d.nodes[s[m]].key = c.nodes[s[m]].key
        /\ \A u \in Used(c) : u # s[m] => /\ d.nodes[u].key = c.nodes[u].key
                                          /\ d.nodes[u].value = c.nodes[u].value
    BY <1>8, <1>9 DEF t, i
  <2> QED BY <1>12, <2>1, <2>2, MovedList
<1>14. q[1] = <<r[m][1], b>> /\ q[1][1] = r[m][1] /\ q = InFront(q[1], Without(r, r[m][1]))
  BY <1>9, <1>13 DEF IsMoved, i
<1>15. IsListOf(q, K, B, d, t, N)
  BY <1>8, ListOfIs DEF q
<1>16. q \in Seq(K \X B) /\ Len(q) = N /\ Cache!Listed(d) = q
  BY <1>15 DEF IsListOf
<1>17. N <= Capacity
  <2>1. d.nodes \in Seq(Cells(K, B) \cup {Cache!Vacant})
    BY <1>6 DEF Caches
  <2>2. Len(d.nodes) \in Nat
    BY <2>1
  <2>3. N <= Len(d.nodes)
    BY <1>1, <1>6, Counted
  <2> QED BY <1>1, <1>10, <2>2, <2>3, CapacityIsACount
<1>18. q # << >>
  BY <1>1, <1>16
<1>19. Puts(r, q, c.nodes[i].key, b)
  <2>1. /\ q = InFront(q[1], Without(r, q[1][1])) /\ Len(q) <= Capacity
        /\ q[1] = <<c.nodes[i].key, b>>
    BY <1>5, <1>14, <1>16, <1>17
  <2> QED BY <1>16, <1>18, <2>1, PutIs
<1>20. Cache!Listed(c) = r
  BY <1>2 DEF IsListOf
<1> QED BY <1>11, <1>16, <1>19, <1>20 DEF i

LEMMA RelistFits ==
    ASSUME NEW c, Fits(c), NEW id \in DOMAIN c.map, NEW b,
           NEW e, e = Revalued(c, c.map[id], b)
    PROVE  LET d == Cache!MoveToHead(e, c.map[id])
           IN  Fits(d) /\ Puts(Cache!Listed(c), Cache!Listed(d), id, b)
<1>1. PICK K, V, s, N : Sound(c, K, V, s, N)
  BY DEF Fits
<1>2. IsListOf(ListOf(c, s, N), K, V, c, s, N)
  BY <1>1, ListOfIs
<1>3. PICK m \in 1..N : c.map[id] = s[m] /\ ListOf(c, s, N)[m][1] = id
  BY <1>2 DEF IsListOf
<1>4. s[m] \in Used(c)
  BY <1>2 DEF IsListOf
<1>5. IsRevalued(c, e, K, V, s, N, s[m], b)
  BY <1>1, <1>3, <1>4, ValueIs
<1>6. Len(c.nodes) <= Capacity
  BY DEF Fits
<1> DEFINE d == Cache!MoveToHead(e, c.map[id])
<1>7. d = Cache!MoveToHead(e, s[m])
  BY <1>3
<1> HIDE DEF d
<1>8. Fits(d) /\ Puts(Cache!Listed(c), Cache!Listed(d), c.nodes[s[m]].key, b)
  BY <1>1, <1>5, <1>6, <1>7, RelistMoves
<1>9. c.nodes[s[m]].key = id
  BY <1>2, <1>3 DEF IsListOf
<1> QED BY <1>8, <1>9 DEF d

\* With room a new block goes in front of all others.
LEMMA RoomPuts ==
    ASSUME NEW r, NEW K, NEW V, NEW id, NEW b, NEW N \in Nat, N < Capacity,
           NEW q, HasInFront(q, r, K, V, id, b, N), Without(r, id) = r
    PROVE  Puts(r, q, id, b)
<1> DEFINE P == (K \cup {id}) \X (V \cup {b})
<1>1. q \in Seq(P) /\ Len(q) = N + 1 /\ q[1] = <<id, b>> /\ q = InFront(<<id, b>>, r)
  BY DEF HasInFront
<1> HIDE DEF P
<1>2. q[1][1] = id
  BY <1>1
<1>3. q # << >>
  BY <1>1
<1>4. Len(q) <= Capacity
  BY <1>1, CapacityIsACount
<1>5. q = InFront(q[1], Without(r, q[1][1]))
  BY <1>1, <1>2
<1> QED BY <1>1, <1>3, <1>4, <1>5, PutIs

\* Without room, in the place of the last one.
LEMMA FullPuts ==
    ASSUME NEW r, NEW K, NEW V, NEW id, NEW b, Capacity # 0,
           NEW q, HasInFront(q, RemovedAt(r, Capacity), K, V, id, b, Capacity - 1),
           r \in Seq(K \X V), Len(r) = Capacity, Without(r, id) = r
    PROVE  Puts(r, q, id, b)
<1> DEFINE P == (K \cup {id}) \X (V \cup {b})
           x == <<id, b>>
<1>1. q \in Seq(P) /\ Len(q) = Capacity - 1 + 1 /\ q[1] = x
      /\ q = InFront(x, RemovedAt(r, Capacity))
  BY DEF HasInFront
<1>2. r \in Seq(P)
  <2>1. K \X V \subseteq P
    OBVIOUS
  <2> HIDE DEF P
  <2> QED BY <2>1
<1>3. x \in P
  OBVIOUS
<1>4. q[1][1] = id
  BY <1>1
<1> HIDE DEF P, x
<1>5. Capacity \in Nat \ {0}
  BY CapacityIsACount
<1>6. q # << >>
  BY <1>1, <1>5
<1>7. InFront(x, RemovedAt(r, Capacity)) = Cache!Recency!ShortenTo(InFront(x, r), Capacity)
  BY <1>2, <1>3, <1>5, LastFallsOut
<1> QED BY <1>1, <1>4, <1>6, <1>7 DEF Puts, x

LEMMA SameCardinality == \A S : Cache!Cardinality(S) = Cardinality(S)
BY DEF Cardinality, IsFiniteSet, Cache!Cardinality, Cache!IsFiniteSet

LEMMA InsertedFits ==
    ASSUME NEW c, Fits(c), NEW id, NEW b, NEW d, d = Cache!Inserted(c, id, b)
    PROVE  Fits(d) /\ (d = c \/ Puts(Cache!Listed(c), Cache!Listed(d), id, b))
<1>1. PICK K, V, s, N : Sound(c, K, V, s, N)
  BY DEF Fits
<1> DEFINE r == ListOf(c, s, N)
           q == Cache!Listed(d)
           e == Cache!Evicted(c)
<1> HIDE DEF r, q, e
<1>2. IsListOf(r, K, V, c, s, N)
  BY <1>1, ListOfIs DEF r
<1>3. Cache!Listed(c) = r /\ r \in Seq(K \X V) /\ Len(r) = N
  BY <1>2 DEF IsListOf
<1>4. c \in Caches(K, V) /\ N \in Nat /\ Chain(c, s, N, {}) /\ Mapped(c)
  BY <1>1 DEF Sound
<1>5. CASE Capacity = 0
  BY <1>5 DEF Cache!Inserted
<1>6. CASE Capacity # 0 /\ id \in DOMAIN c.map
  <2> DEFINE a == Revalued(c, c.map[id], b)
  <2>1. d = Cache!MoveToHead(a, c.map[id])
    BY <1>6 DEF Cache!Inserted, Revalued
  <2>2. a = Revalued(c, c.map[id], b)
    OBVIOUS
  <2> HIDE DEF a
  <2>3. Fits(d) /\ Puts(Cache!Listed(c), Cache!Listed(d), id, b)
    BY <1>6, <2>1, <2>2, RelistFits
  <2> QED BY <2>3
<1>7. CASE Capacity # 0 /\ id \notin DOMAIN c.map
  <2>1. d = Cache!Placed(e, id, b)
    BY <1>7 DEF Cache!Inserted, e
  <2>2. Cardinality(DOMAIN c.map) = N /\ N <= Len(c.nodes) /\ Len(c.nodes) <= Capacity
    BY <1>4, Counted DEF Fits
  <2>3. Len(c.nodes) \in Nat
    <3>1. c.nodes \in Seq(Cells(K, V) \cup {Cache!Vacant})
      BY <1>4 DEF Caches
    <3> QED BY <3>1
  <2>4. Without(r, id) = r
    <3>1. \A j \in 1..N : r[j][1] \in DOMAIN c.map
      BY <1>2 DEF IsListOf
    <3>2. \A j \in 1..Len(r) : r[j][1] # id
      BY <1>3, <1>7, <3>1
    <3> QED BY <3>2, WithoutNone
  <2>5. CASE N < Capacity
    <3>1. e = c
      BY <2>2, <2>5, SameCardinality DEF Cache!Evicted, e
    <3>2. Fits(d) /\ HasInFront(q, r, K, V, id, b, N)
      BY <1>1, <1>7, <2>1, <2>2, <2>5, <3>1, RoomFits DEF q, r
    <3>3. Puts(r, q, id, b)
      BY <1>4, <2>4, <2>5, <3>2, RoomPuts
    <3> QED BY <1>3, <3>2, <3>3 DEF q
  <2>6. CASE ~ (N < Capacity)
    <3>1. N = Capacity /\ N \in 1..N
      BY <1>4, <1>7, <2>2, <2>3, <2>6, CapacityIsACount
    <3>2. c.tail = s[N]
      BY <1>4, <3>1 DEF Chain
    <3>3. Cache!Detach(c, s[N]).map = c.map /\ Cache!Detach(c, s[N]).free = c.free
      BY <1>1, <3>1, DetachKeeps
    <3>4. e = Surrendered(Cache!Detach(c, s[N]), s[N], c.nodes[s[N]].key)
      <4>1. ~ (Cache!Cardinality(DOMAIN c.map) < Capacity)
        BY <2>2, <2>6, SameCardinality
      <4> DEFINE h == Cache!Detach(c, s[N])
                 k == c.nodes[s[N]].key
      <4> HIDE DEF h
      <4>2. e = [h EXCEPT !.nodes[s[N]] = Cache!Vacant,
                          !.map = Cache!Restrict(c.map, DOMAIN c.map \ {k}),
                          !.free = Append(c.free, s[N])]
        BY <3>2, <4>1 DEF Cache!Evicted, e, h
      <4>3. h.map = c.map /\ h.free = c.free
        BY <3>3 DEF h
      <4> QED BY <4>2, <4>3 DEF Surrendered, h
    <3> DEFINE t == LessOne(s, N, N)
               l == ListOf(e, t, N - 1)
    <3> HIDE DEF t, l
    <3>5. /\ Sound(e, K, V, t, N - 1)
          /\ Len(e.nodes) = Len(c.nodes) /\ e.free # << >>
          /\ DOMAIN e.map = DOMAIN c.map \ {c.nodes[s[N]].key}
          /\ SameBlocks(c, e, t, N - 1)
      BY <1>1, <3>1, <3>4, DroppedIs DEF t
    <3>6. l = RemovedAt(r, N)
      BY <1>1, <3>1, <3>5, RemovedList DEF l, r, t
    <3>7. id \notin DOMAIN e.map /\ Len(e.nodes) <= Capacity
      BY <1>7, <2>2, <3>5
    <3>8. Fits(d) /\ HasInFront(q, l, K, V, id, b, N - 1)
      BY <2>1, <3>5, <3>7, RoomFits DEF q, l
    <3>9. HasInFront(q, RemovedAt(r, Capacity), K, V, id, b, Capacity - 1)
      BY <3>1, <3>6, <3>8
    <3>10. Puts(r, q, id, b)
      BY <1>3, <1>7, <2>4, <3>1, <3>9, FullPuts
    <3> QED BY <1>3, <3>8, <3>10 DEF q
  <2> QED BY <2>5, <2>6
<1> QED BY <1>5, <1>6, <1>7

LEMMA NewFits == Fits(Cache!NewCache) /\ Cache!Listed(Cache!NewCache) = << >>
<1> DEFINE c == Cache!NewCache
<1>1. c = [nodes |-> << >>, free |-> << >>, map |-> [id \in {} |-> 0], head |-> 0, tail |-> 0]
  BY DEF Cache!NewCache
<1> HIDE DEF c
<1>2. c \in Caches({}, {})
  <2>1. c.map \in [{} -> Nat] /\ {} \in SUBSET {}
    BY <1>1
  <2>2. c.map \in UNION {[D -> Nat] : D \in SUBSET {}}
    BY <2>1
  <2>3. << >> \in Seq(Cells({}, {}) \cup {Cache!Vacant}) /\ << >> \in Seq(Nat)
    OBVIOUS
  <2> QED BY <1>1, <2>2, <2>3 DEF Caches
<1>3. Used(c) = {} /\ Len(c.nodes) = 0
  BY <1>1 DEF Used
<1>4. Chain(c, << >>, 0, {})
  BY <1>1, <1>3 DEF Chain
<1>5. Mapped(c)
  BY <1>1, <1>3 DEF Mapped
<1>6. FreeListed(c)
  BY <1>1, <1>3 DEF FreeListed, Cache!IsInjective, Cache!Range
<1>7. Sound(c, {}, {}, << >>, 0)
  BY <1>2, <1>4, <1>5, <1>6 DEF Sound
<1>8. Fits(c)
  BY <1>3, <1>7, CapacityIsACount DEF Fits
<1>9. IsListOf(ListOf(c, << >>, 0), {}, {}, c, << >>, 0)
  BY <1>7, ListOfIs
<1>10. Cache!Listed(c) \in Seq({} \X {}) /\ Len(Cache!Listed(c)) = 0
  BY <1>9 DEF IsListOf
<1>11. Cache!Listed(c) = << >>
  BY <1>10
<1> QED BY <1>8, <1>11 DEF c

-----------------------------------------------------------------------------
(* The cache among readers of tables                                       *)

CacheStep ==
    \/ lru' = lru
    \/ \E id \in DOMAIN lru.map : lru' = Cache!Touched(lru, id) \/ lru' = Cache!Removed(lru, id)
    \/ \E id, b : lru' = Cache!Inserted(lru, id, b)
    \/ lru' = Cache!NewCache

LEMMA StepsOfTheCache ==
    ASSUME [TablesNext]_tableReadVars
    PROVE  CacheStep
<1>1. ASSUME NEW t \in Tables, WriteTable(t) PROVE CacheStep
  BY <1>1 DEF WriteTable, CacheStep
<1>2. ASSUME NEW t \in Readers, NEW n \in 1..Len(files), NEW k \in Keys, Open(t, n, k)
      PROVE  CacheStep
  BY <1>2 DEF Open, CacheStep
<1>3. ASSUME NEW t \in Readers, LookInCache(t) PROVE CacheStep
  BY <1>3 DEF LookInCache, Cache!CacheGet, CacheStep
<1>4. ASSUME NEW t \in Readers, ReadBlock(t) PROVE CacheStep
  <2> DEFINE id == <<rd[t].num, rd[t].block>>
             raw == RawBlock(OpenTable(files[rd[t].num]), rd[t].block)
  <2>1. lru' = Cache!Inserted(lru, id, raw)
    BY <1>4 DEF ReadBlock, Cache!CacheInsert
  <2> HIDE DEF id, raw
  <2> QED BY <2>1 DEF CacheStep
<1>5. CASE OthersUseCache
  <2>1. ASSUME NEW id \in DOMAIN lru.map, Cache!CacheGet(id) \/ Cache!CacheRemove(id)
        PROVE  CacheStep
    BY <2>1 DEF Cache!CacheGet, Cache!CacheRemove, CacheStep
  <2>2. ASSUME NEW n \in 1..Len(files), NEW i \in 1..Len(OpenTable(files[n]).offsets),
               Cache!CacheInsert(<<n, i>>, RawBlock(OpenTable(files[n]), i))
        PROVE  CacheStep
    BY <2>2 DEF Cache!CacheInsert, CacheStep
  <2>3. ASSUME Cache!CacheClear PROVE CacheStep
    BY <2>3 DEF Cache!CacheClear, CacheStep
  <2> QED BY <1>5, <2>1, <2>2, <2>3 DEF OthersUseCache
<1>6. CASE UNCHANGED tableReadVars
  BY <1>6 DEF tableReadVars, CacheStep
<1> QED BY <1>1, <1>2, <1>3, <1>4, <1>5, <1>6 DEF TablesNext

LEMMA CacheStepFits ==
    ASSUME Fits(lru), CacheStep
    PROVE  /\ Fits(lru')
           /\ \/ Cache!Listed(lru') = Cache!Listed(lru)
              \/ Fronts(Cache!Listed(lru), Cache!Listed(lru'))
              \/ Drops(Cache!Listed(lru), Cache!Listed(lru'))
              \/ \E id, b : Puts(Cache!Listed(lru), Cache!Listed(lru'), id, b)
              \/ Cache!Listed(lru') = << >>
<1>1. CASE lru' = lru
  BY <1>1
<1>2. ASSUME NEW id \in DOMAIN lru.map, lru' = Cache!Touched(lru, id)
      PROVE  /\ Fits(lru')
             /\ lru' = lru \/ Fronts(Cache!Listed(lru), Cache!Listed(lru'))
  BY <1>2, TouchedFits
<1>3. ASSUME NEW id \in DOMAIN lru.map, lru' = Cache!Removed(lru, id)
      PROVE  Fits(lru') /\ Drops(Cache!Listed(lru), Cache!Listed(lru'))
  BY <1>3, RemovedFits
<1>4. ASSUME NEW id, NEW b, lru' = Cache!Inserted(lru, id, b)
      PROVE  /\ Fits(lru')
             /\ lru' = lru \/ Puts(Cache!Listed(lru), Cache!Listed(lru'), id, b)
  BY <1>4, InsertedFits
<1>5. CASE lru' = Cache!NewCache
  BY <1>5, NewFits
<1> QED BY <1>1, <1>2, <1>3, <1>4, <1>5 DEF CacheStep

\* In every reachable state the slots from head to tail are a sequence that the map, the
\* free slots and the links agree with, and there are no more slots than the capacity: the
\* inductive invariant of the cache under get, insert, remove and clear (cache/mod.rs:50-170).
THEOREM CacheFits == TablesSpec => []Fits(lru)
<1>1. TablesInit => Fits(lru)
  BY NewFits DEF TablesInit, Cache!CacheInit
<1>2. Fits(lru) /\ [TablesNext]_tableReadVars => Fits(lru)'
  BY StepsOfTheCache, CacheStepFits
<1> QED BY <1>1, <1>2, PTL DEF TablesSpec

\* What the invariant says of slots, map and links.
LEMMA FitsIsLinked ==
    ASSUME Fits(lru)
    PROVE  CacheLinked
<1> DEFINE used == {i \in 1..Len(lru.nodes) : lru.nodes[i] # Cache!Vacant}
<1>1. PICK K, V, s, N : Sound(lru, K, V, s, N)
  BY DEF Fits
<1>2. lru \in Caches(K, V) /\ N \in Nat /\ Chain(lru, s, N, {}) /\ Mapped(lru) /\ FreeListed(lru)
  BY <1>1 DEF Sound
<1>3. used = Used(lru)
  BY DEF Used
<1> HIDE DEF used
<1>4. \A id \in DOMAIN lru.map : lru.map[id] \in used /\ lru.nodes[lru.map[id]].key = id
  BY <1>2, <1>3 DEF Mapped
<1>5. ASSUME NEW i \in used
      PROVE  /\ lru.nodes[i].key \in DOMAIN lru.map /\ lru.map[lru.nodes[i].key] = i
             /\ IF lru.nodes[i].next = 0 THEN lru.tail = i
                ELSE lru.nodes[i].next \in used /\ lru.nodes[lru.nodes[i].next].prev = i
             /\ IF lru.nodes[i].prev = 0 THEN lru.head = i
                ELSE lru.nodes[i].prev \in used /\ lru.nodes[lru.nodes[i].prev].next = i
  <2>1. PICK j \in 1..N : s[j] = i
    BY <1>2, <1>3 DEF Chain
  <2>2. \A k \in 1..N : s[k] \in used /\ s[k] # 0
    BY <1>2, <1>3, UsedAreCells DEF Chain
  <2>3. /\ lru.nodes[i].prev = IF j = 1 THEN 0 ELSE s[j - 1]
        /\ lru.nodes[i].next = IF j = N THEN 0 ELSE s[j + 1]
    BY <1>2, <2>1 DEF Chain
  <2>4. IF lru.nodes[i].next = 0 THEN lru.tail = i
        ELSE lru.nodes[i].next \in used /\ lru.nodes[lru.nodes[i].next].prev = i
    <3>1. CASE j = N
      BY <1>2, <2>1, <2>3, <3>1 DEF Chain
    <3>2. CASE j # N
      <4>1. j + 1 \in 1..N /\ j + 1 # 1 /\ (j + 1) - 1 = j
        BY <1>2, <3>2
      <4>2. lru.nodes[s[j + 1]].prev = i
        BY <1>2, <2>1, <4>1 DEF Chain
      <4> QED BY <2>2, <2>3, <3>2, <4>1, <4>2
    <3> QED BY <3>1, <3>2
  <2>5. IF lru.nodes[i].prev = 0 THEN lru.head = i
        ELSE lru.nodes[i].prev \in used /\ lru.nodes[lru.nodes[i].prev].next = i
    <3>1. CASE j = 1
      BY <1>2, <2>1, <2>3, <3>1 DEF Chain
    <3>2. CASE j # 1
      <4>1. j - 1 \in 1..N /\ j - 1 # N /\ (j - 1) + 1 = j
        BY <1>2, <3>2
      <4>2. lru.nodes[s[j - 1]].next = i
        BY <1>2, <2>1, <4>1 DEF Chain
      <4> QED BY <2>2, <2>3, <3>2, <4>1, <4>2
    <3> QED BY <3>1, <3>2
  <2>6. lru.nodes[i].key \in DOMAIN lru.map /\ lru.map[lru.nodes[i].key] = i
    BY <1>2, <1>3 DEF Mapped
  <2> QED BY <2>4, <2>5, <2>6
<1>6. (used = {}) <=> (lru.head = 0 /\ lru.tail = 0)
  <2>1. CASE N = 0
    BY <1>2, <1>3, <2>1 DEF Chain
  <2>2. CASE N # 0
    <3>1. 1 \in 1..N
      BY <1>2, <2>2
    <3>2. s[1] \in used /\ s[1] # 0 /\ lru.head = s[1]
      BY <1>2, <1>3, <2>2, <3>1, UsedAreCells DEF Chain
    <3> QED BY <3>2
  <2> QED BY <2>1, <2>2
<1>7. Cache!IsInjective(lru.free) /\ Cache!Range(lru.free) = 1..Len(lru.nodes) \ used
  BY <1>2, <1>3 DEF FreeListed
<1>8. Cache!Cardinality(used) <= Capacity /\ Len(lru.nodes) <= Capacity
  <2>1. Len(lru.nodes) \in Nat
    <3>1. lru.nodes \in Seq(Cells(K, V) \cup {Cache!Vacant})
      BY <1>2 DEF Caches
    <3> QED BY <3>1
  <2>2. Cardinality(used) = N /\ N <= Len(lru.nodes)
    BY <1>2, <1>3, Counted
  <2>3. Len(lru.nodes) <= Capacity
    BY DEF Fits
  <2> QED BY <1>2, <2>1, <2>2, <2>3, SameCardinality, CapacityIsACount
<1> QED BY <1>4, <1>5, <1>6, <1>7, <1>8 DEF CacheLinked, Cache!CacheLinked, used

\* Whatever readers and others ask the cache for in whatever order, every key of the map
\* names the slot that holds it, every other slot is free once, and next and prev are each
\* other's inverse: no call loses a slot or hands one out twice (cache/mod.rs:109-162).
THEOREM CacheStaysLinked == TablesSpec => []CacheLinked
<1>1. Fits(lru) => CacheLinked
  BY FitsIsLinked
<1> QED BY <1>1, CacheFits, PTL

\* The linked slots do what the list of RecencyList does: a block asked for moves to the
\* front, one put in comes first, and at capacity it is the least recent one that falls out,
\* for every capacity (cache/mod.rs:50-170).
THEOREM CacheIsRecencyList == TablesSpec => ImplementsRecency
<1>1. TablesInit => Cache!Recency!RecentInit
  BY NewFits DEF TablesInit, Cache!CacheInit, Cache!Recency!RecentInit
<1>2. Fits(lru) /\ [TablesNext]_tableReadVars
        => [Cache!Recency!RecentNext]_(Cache!Listed(lru))
  <2> SUFFICES ASSUME Fits(lru), [TablesNext]_tableReadVars
               PROVE  [Cache!Recency!RecentNext]_(Cache!Listed(lru))
    OBVIOUS
  <2>1. CacheStep
    BY StepsOfTheCache
  <2>2. \/ Cache!Listed(lru') = Cache!Listed(lru)
        \/ Fronts(Cache!Listed(lru), Cache!Listed(lru'))
        \/ Drops(Cache!Listed(lru), Cache!Listed(lru'))
        \/ \E id, b : Puts(Cache!Listed(lru), Cache!Listed(lru'), id, b)
        \/ Cache!Listed(lru') = << >>
    BY <2>1, CacheStepFits
  <2>3. ASSUME Fronts(Cache!Listed(lru), Cache!Listed(lru')) PROVE Cache!Recency!RecentNext
    BY <2>3 DEF Fronts, InFront, Without, Cache!Recency!RecentNext, Cache!Recency!Touch
  <2>4. ASSUME Drops(Cache!Listed(lru), Cache!Listed(lru')) PROVE Cache!Recency!RecentNext
    BY <2>4 DEF Drops, Without, Cache!Recency!RecentNext, Cache!Recency!Drop
  <2>5. ASSUME NEW id, NEW b, Puts(Cache!Listed(lru), Cache!Listed(lru'), id, b)
        PROVE  Cache!Recency!RecentNext
    BY <2>5 DEF Puts, InFront, Without, Cache!Recency!RecentNext, Cache!Recency!Put
  <2>6. ASSUME Cache!Listed(lru') = << >> PROVE Cache!Recency!RecentNext
    BY <2>6 DEF Cache!Recency!RecentNext, Cache!Recency!DropAll
  <2> QED BY <2>2, <2>3, <2>4, <2>5, <2>6
<1> QED BY <1>1, <1>2, CacheFits, PTL
        DEF TablesSpec, ImplementsRecency, Cache!ImplementsRecency, Cache!Recency!RecencySpec

-----------------------------------------------------------------------------
(* The merging iterator                                                    *)

\* The members of S below k.
Lesser(S, k) == {j \in S : j < k}

RankIn(S, k) == Cardinality(Lesser(S, k))

LEMMA RankClimbs ==
    ASSUME NEW S \in SUBSET Int, IsFiniteSet(S), NEW k \in S
    PROVE  /\ RankIn(S, k) \in 0..(Cardinality(S) - 1)
           /\ \A l \in S : k < l => RankIn(S, k) < RankIn(S, l)
<1> DEFINE B == Lesser(S, k)
<1>1. IsFiniteSet(B) /\ k \notin B
  BY FS_Subset DEF Lesser
<1>2. Cardinality(B) \in Nat /\ Cardinality(S) \in Nat
  BY <1>1, FS_CardinalityType
<1>3. IsFiniteSet(B \cup {k}) /\ Cardinality(B \cup {k}) = Cardinality(B) + 1
  BY <1>1, FS_AddElement
<1>4. Cardinality(B \cup {k}) <= Cardinality(S)
  <2>1. B \cup {k} \in SUBSET S
    BY DEF Lesser
  <2> HIDE DEF B
  <2> QED BY <2>1, FS_Subset
<1>5. ASSUME NEW l \in S, k < l PROVE RankIn(S, k) < RankIn(S, l)
  <2>1. B \cup {k} \in SUBSET Lesser(S, l)
    <3>1. k \in Int /\ l \in Int /\ k < l
      BY <1>5
    <3>2. ASSUME NEW j \in S, j < k PROVE j < l
      <4>1. j \in Int
        OBVIOUS
      <4> QED BY <3>1, <3>2, <4>1
    <3> QED BY <3>1, <3>2 DEF Lesser
  <2>2. IsFiniteSet(Lesser(S, l))
    BY FS_Subset DEF Lesser
  <2>3. Cardinality(Lesser(S, l)) \in Nat
    BY <2>2, FS_CardinalityType
  <2>4. Cardinality(B \cup {k}) <= Cardinality(Lesser(S, l))
    <3> HIDE DEF B
    <3> QED BY <2>1, <2>2, FS_Subset
  <2> QED BY <1>2, <1>3, <2>3, <2>4 DEF RankIn
<1> QED BY <1>2, <1>3, <1>4, <1>5 DEF RankIn

\* Every rank below the number of members is the rank of exactly one of them.
LEMMA RanksAreOnto ==
    ASSUME NEW S \in SUBSET Int, IsFiniteSet(S)
    PROVE  /\ Cardinality(S) \in Nat
           /\ \A i \in 1..Cardinality(S) : \E k \in S : RankIn(S, k) = i - 1
           /\ \A k, l \in S : RankIn(S, k) = RankIn(S, l) => k = l
<1> DEFINE n == Cardinality(S)
           f == [k \in S |-> RankIn(S, k) + 1]
<1>1. n \in Nat
  BY FS_CardinalityType
<1> HIDE DEF n
<1>2. \A k \in S : RankIn(S, k) \in 0..(n - 1)
  BY RankClimbs DEF n
<1>3. \A k, l \in S : RankIn(S, k) = RankIn(S, l) => k = l
  <2> SUFFICES ASSUME NEW k \in S, NEW l \in S, RankIn(S, k) = RankIn(S, l), k # l PROVE FALSE
    OBVIOUS
  <2>1. k < l \/ l < k
    OBVIOUS
  <2>2. RankIn(S, k) < RankIn(S, l) \/ RankIn(S, l) < RankIn(S, k)
    BY <2>1, RankClimbs
  <2>3. RankIn(S, k) \in Int /\ RankIn(S, l) \in Int
    BY <1>1, <1>2
  <2> QED BY <2>2, <2>3
<1>4. f \in [S -> 1..n]
  BY <1>1, <1>2
<1>5. \A k, l \in S : f[k] = f[l] => k = l
  BY <1>1, <1>2, <1>3
<1> HIDE DEF f
<1>6. f \in Injection(S, 1..n)
  BY <1>4, <1>5 DEF Injection, IsInjective
<1>7. IsFiniteSet(1..n) /\ Cardinality(1..n) = n
  <2>1. 1 \in Int /\ n \in Int
    BY <1>1
  <2>2. IsFiniteSet(1..n) /\ Cardinality(1..n) = IF 1 > n THEN 0 ELSE n - 1 + 1
    BY <2>1, FS_Interval
  <2>3. (IF 1 > n THEN 0 ELSE n - 1 + 1) = n
    BY <1>1
  <2> QED BY <2>2, <2>3
<1>8. f \in Surjection(S, 1..n)
  <2>1. Cardinality(S) = Cardinality(1..n)
    BY <1>7 DEF n
  <2> QED BY <1>6, <1>7, <2>1, FS_Injection
<1>9. ASSUME NEW i \in 1..n PROVE \E k \in S : RankIn(S, k) = i - 1
  <2>1. PICK k \in S : f[k] = i
    BY <1>8 DEF Surjection
  <2>2. f[k] = RankIn(S, k) + 1
    BY DEF f
  <2> QED BY <1>1, <1>2, <2>1, <2>2
<1> QED BY <1>1, <1>3, <1>9 DEF n

\* q lists the members of S, which are n, in ascending order.
Ascends(q, S, n) ==
    /\ q = [i \in 1..n |-> q[i]]
    /\ \A i \in 1..n : q[i] \in S
    /\ \A k \in S : \E i \in 1..n : q[i] = k
    /\ \A i, j \in 1..n : i < j => q[i] < q[j]

LEMMA SortedAscends ==
    ASSUME NEW S \in SUBSET Int, IsFiniteSet(S)
    PROVE  Cardinality(S) \in Nat /\ Ascends(Sorted(S), S, Cardinality(S))
<1> DEFINE n == Cardinality(S)
           q == Sorted(S)
<1>1. n \in Nat
  BY FS_CardinalityType
<1>2. q = [i \in 1..n |-> CHOOSE k \in S : RankIn(S, k) = i - 1]
  BY DEF Sorted, RankIn, Lesser
<1> HIDE DEF n, q
<1>3. \A i \in 1..n : q[i] \in S /\ RankIn(S, q[i]) = i - 1
  <2> SUFFICES ASSUME NEW i \in 1..n PROVE q[i] \in S /\ RankIn(S, q[i]) = i - 1
    OBVIOUS
  <2>1. \E k \in S : RankIn(S, k) = i - 1
    BY RanksAreOnto DEF n
  <2>2. q[i] = CHOOSE k \in S : RankIn(S, k) = i - 1
    BY <1>2
  <2> QED BY <2>1, <2>2
<1>4. ASSUME NEW k \in S PROVE \E i \in 1..n : q[i] = k
  <2>1. RankIn(S, k) \in 0..(n - 1)
    BY RankClimbs DEF n
  <2>2. RankIn(S, k) + 1 \in 1..n /\ (RankIn(S, k) + 1) - 1 = RankIn(S, k)
    BY <1>1, <2>1
  <2>3. q[RankIn(S, k) + 1] \in S /\ RankIn(S, q[RankIn(S, k) + 1]) = RankIn(S, k)
    BY <1>3, <2>2
  <2>4. \A l \in S : RankIn(S, l) = RankIn(S, k) => l = k
    BY RanksAreOnto
  <2>5. q[RankIn(S, k) + 1] = k
    BY <2>3, <2>4
  <2> QED BY <2>2, <2>5
<1>5. ASSUME NEW i \in 1..n, NEW j \in 1..n, i < j PROVE q[i] < q[j]
  <2>1. q[i] \in Int /\ q[j] \in Int
    BY <1>3
  <2>2. ~ (q[j] < q[i])
    <3>1. SUFFICES ASSUME q[j] < q[i] PROVE FALSE
      OBVIOUS
    <3>2. RankIn(S, q[j]) < RankIn(S, q[i])
      BY <1>3, <3>1, RankClimbs
    <3> QED BY <1>1, <1>3, <1>5, <3>2
  <2>3. q[i] # q[j]
    BY <1>1, <1>3, <1>5
  <2> QED BY <2>1, <2>2, <2>3
<1>6. q = [i \in 1..n |-> q[i]]
  BY <1>2
<1>7. Ascends(q, S, n)
  BY <1>3, <1>4, <1>5, <1>6 DEF Ascends
<1> QED BY <1>1, <1>7 DEF n, q

\* Every source lists a set of keys in ascending order.
SourcesInv == \A s \in Sources : \E S \in SUBSET MergeKeys : sources[s] = Sorted(S)

KeysOf(s) == {sources[s][i] : i \in 1..Len(sources[s])}

AllKeys == UNION {KeysOf(s) : s \in Sources}

HasKey(k) == {s \in Sources : \E j \in 1..Len(sources[s]) : sources[s][j] = k}

LEMMA SourcesAscend ==
    ASSUME SourcesInv, NEW s \in Sources
    PROVE  /\ Len(sources[s]) \in Nat
           /\ \A i \in 1..Len(sources[s]) : sources[s][i] \in MergeKeys
           /\ \A i, j \in 1..Len(sources[s]) : i < j => sources[s][i] < sources[s][j]
<1>1. PICK S \in SUBSET MergeKeys : sources[s] = Sorted(S)
  BY DEF SourcesInv
<1>2. S \in SUBSET Int /\ IsFiniteSet(S)
  BY SourcesAreFinite, FS_Subset
<1> DEFINE n == Cardinality(S)
           q == Sorted(S)
<1>3. n \in Nat /\ Ascends(q, S, n)
  BY <1>2, SortedAscends
<1> HIDE DEF n, q
<1>4. Len(q) = n
  <2>1. q = [i \in 1..n |-> q[i]]
    BY <1>3 DEF Ascends
  <2>2. DOMAIN q = 1..n
    BY <2>1
  <2>3. q \in Seq(S)
    BY <1>3, <2>1 DEF Ascends
  <2> QED BY <1>3, <2>2, <2>3
<1>5. sources[s] = q
  BY <1>1 DEF q
<1> QED BY <1>3, <1>4, <1>5 DEF Ascends

LEMMA AllKeysAre ==
    ASSUME SourcesInv
    PROVE  /\ AllKeys \in SUBSET MergeKeys /\ AllKeys \in SUBSET Int /\ IsFiniteSet(AllKeys)
           /\ Cardinality(AllKeys) \in Nat
           /\ Ascends(Sorted(AllKeys), AllKeys, Cardinality(AllKeys))
<1>1. AllKeys \in SUBSET MergeKeys
  BY SourcesAscend DEF AllKeys, KeysOf
<1>2. AllKeys \in SUBSET Int /\ IsFiniteSet(AllKeys)
  BY <1>1, SourcesAreFinite, FS_Subset
<1> QED BY <1>1, <1>2, SortedAscends

\* The sources have moved past the first m keys of q, and no further.
Positioned(c, q, m) ==
    \A s \in Sources :
        /\ c[s] \in Nat \ {0}
        /\ \A i \in 1..Len(sources[s]) : i < c[s] <=> (m > 0 /\ sources[s][i] <= q[m])

\* The heap has the next key on top, of the first source that has it.
LEMMA TopIs ==
    ASSUME SourcesInv, NEW q, NEW n \in Nat, Ascends(q, AllKeys, n), NEW m \in 0..n,
           NEW c, Positioned(c, q, m)
    PROVE  /\ Heap(c) = {} => m = n
           /\ Heap(c) # {} => /\ m + 1 \in 1..n
                              /\ Top(c) \in HasKey(q[m + 1])
                              /\ \A o \in HasKey(q[m + 1]) : Top(c) <= o
                              /\ KeyAt(c, Top(c)) = q[m + 1]
           /\ \A s \in Heap(c) : m + 1 \in 1..n /\ q[m + 1] <= KeyAt(c, s)
<1>1. /\ \A i \in 1..n : q[i] \in AllKeys /\ q[i] \in Int
      /\ \A i, j \in 1..n : i < j => q[i] < q[j]
      /\ \A k \in AllKeys : \E i \in 1..n : q[i] = k
  BY AllKeysAre DEF Ascends
<1>2. ASSUME NEW s \in Heap(c)
      PROVE  m + 1 \in 1..n /\ q[m + 1] <= KeyAt(c, s)
  <2>1. s \in Sources /\ c[s] <= Len(sources[s])
    BY DEF Heap, Valid
  <2>2. c[s] \in 1..Len(sources[s])
    <3>1. c[s] \in Nat \ {0} /\ Len(sources[s]) \in Nat
      BY <2>1, SourcesAscend DEF Positioned
    <3> QED BY <2>1, <3>1
  <2>3. KeyAt(c, s) = sources[s][c[s]]
    BY DEF KeyAt
  <2>4. KeyAt(c, s) \in AllKeys
    BY <2>1, <2>2, <2>3 DEF AllKeys, KeysOf
  <2>5. PICK j \in 1..n : q[j] = KeyAt(c, s)
    BY <1>1, <2>4
  <2>6. ~ (m > 0 /\ KeyAt(c, s) <= q[m])
    <3>1. c[s] < c[s] <=> (m > 0 /\ KeyAt(c, s) <= q[m])
      BY <2>1, <2>2, <2>3 DEF Positioned
    <3> QED BY <2>2, <3>1
  <2>7. j > m
    <3>1. SUFFICES ASSUME j <= m PROVE FALSE
      OBVIOUS
    <3>2. m \in 1..n /\ m > 0
      BY <3>1
    <3>3. j = m \/ j < m
      BY <3>1
    <3>4. q[j] <= q[m]
      BY <1>1, <3>2, <3>3
    <3> QED BY <2>5, <2>6, <3>2, <3>4
  <2>8. m + 1 \in 1..n /\ (m + 1 = j \/ m + 1 < j)
    BY <2>7
  <2>9. q[m + 1] <= q[j]
    BY <1>1, <2>8
  <2> QED BY <2>5, <2>8, <2>9
<1>3. ASSUME m < n
      PROVE  /\ m + 1 \in 1..n /\ HasKey(q[m + 1]) # {}
             /\ \A o \in HasKey(q[m + 1]) : o \in Heap(c) /\ KeyAt(c, o) = q[m + 1]
  <2>1. m + 1 \in 1..n /\ q[m + 1] \in AllKeys
    BY <1>1, <1>3
  <2>2. HasKey(q[m + 1]) # {}
    BY <2>1 DEF AllKeys, KeysOf, HasKey
  <2>3. ASSUME NEW o \in HasKey(q[m + 1]) PROVE o \in Heap(c) /\ KeyAt(c, o) = q[m + 1]
    <3>1. o \in Sources
      BY DEF HasKey
    <3>2. PICK j \in 1..Len(sources[o]) : sources[o][j] = q[m + 1]
      BY DEF HasKey
    <3>3. ~ (m > 0 /\ q[m + 1] <= q[m])
      <4>1. SUFFICES ASSUME m > 0 PROVE q[m] < q[m + 1]
        <5>1. m > 0 => m \in 1..n
          OBVIOUS
        <5> QED BY <1>1, <2>1, <5>1
      <4>2. m \in 1..n /\ m < m + 1
        BY <4>1
      <4> QED BY <1>1, <2>1, <4>2
    <3>4. c[o] \in Nat \ {0} /\ (j < c[o] <=> (m > 0 /\ q[m + 1] <= q[m]))
      BY <3>1, <3>2 DEF Positioned
    <3>5. c[o] \in 1..Len(sources[o]) /\ (c[o] = j \/ c[o] < j)
      <4>1. Len(sources[o]) \in Nat
        BY <3>1, SourcesAscend
      <4> QED BY <3>3, <3>4, <4>1
    <3>6. o \in Heap(c)
      BY <3>1, <3>5 DEF Heap, Valid
    <3>7. KeyAt(c, o) <= q[m + 1]
      <4>1. /\ \A i \in 1..Len(sources[o]) : sources[o][i] \in Int
            /\ \A i, k \in 1..Len(sources[o]) : i < k => sources[o][i] < sources[o][k]
        BY <3>1, SourcesAscend, SourcesAreFinite
      <4>2. sources[o][c[o]] <= sources[o][j]
        BY <3>5, <4>1
      <4> QED BY <3>2, <4>2 DEF KeyAt
    <3>8. KeyAt(c, o) \in Int
      BY <3>1, <3>5, SourcesAscend, SourcesAreFinite DEF KeyAt
    <3>9. q[m + 1] \in Int /\ q[m + 1] <= KeyAt(c, o)
      BY <1>1, <1>2, <2>1, <3>6
    <3> QED BY <3>6, <3>7, <3>8, <3>9
  <2> QED BY <2>1, <2>2, <2>3
<1>4. Heap(c) = {} => m = n
  BY <1>3
<1>5. ASSUME Heap(c) # {}
      PROVE  /\ m + 1 \in 1..n /\ Top(c) \in HasKey(q[m + 1])
             /\ \A o \in HasKey(q[m + 1]) : Top(c) <= o
             /\ KeyAt(c, Top(c)) = q[m + 1]
  <2>1. m < n /\ m + 1 \in 1..n
    BY <1>2, <1>5
  <2> DEFINE H == HasKey(q[m + 1])
             First(s) == \A o \in Heap(c) \ {s} :
                 KeyAt(c, s) < KeyAt(c, o) \/ (KeyAt(c, s) = KeyAt(c, o) /\ s < o)
  <2>2. H # {} /\ \A o \in H : o \in Heap(c) /\ KeyAt(c, o) = q[m + 1]
    BY <1>3, <2>1
  <2>3. \A o \in Heap(c) : KeyAt(c, o) = q[m + 1] => o \in H
    BY SourcesAscend DEF HasKey, Heap, Valid, KeyAt, Positioned
  <2>4. H \in SUBSET Nat /\ Heap(c) \in SUBSET Nat
    BY SourcesAreFinite DEF HasKey, Heap, Sources
  <2> HIDE DEF H
  <2>5. PICK t \in H : \A o \in H : t <= o
    BY <2>2, <2>4, LeastExists
  <2>6. q[m + 1] \in Int /\ \A o \in Heap(c) : q[m + 1] <= KeyAt(c, o) /\ KeyAt(c, o) \in Int
    <3>1. ASSUME NEW o \in Heap(c) PROVE KeyAt(c, o) \in Int
      <4>1. o \in Sources /\ c[o] <= Len(sources[o])
        BY DEF Heap, Valid
      <4>2. c[o] \in Nat \ {0} /\ Len(sources[o]) \in Nat
        BY <4>1, SourcesAscend DEF Positioned
      <4>3. c[o] \in 1..Len(sources[o])
        BY <4>1, <4>2
      <4>4. sources[o][c[o]] \in MergeKeys
        BY <4>1, <4>3, SourcesAscend
      <4> QED BY <4>4, SourcesAreFinite DEF KeyAt
    <3> QED BY <1>1, <1>2, <2>1, <3>1
  <2>7. t \in Heap(c) /\ First(t)
    BY <2>2, <2>3, <2>4, <2>5, <2>6
  <2>8. Top(c) = CHOOSE s \in Heap(c) : First(s)
    BY DEF Top
  <2>9. Top(c) \in Heap(c) /\ First(Top(c))
    <3> HIDE DEF First
    <3> QED BY <2>7, <2>8
  <2>10. Top(c) = t
    <3>1. SUFFICES ASSUME Top(c) # t PROVE FALSE
      OBVIOUS
    <3>2. KeyAt(c, Top(c)) < KeyAt(c, t) \/ (KeyAt(c, Top(c)) = KeyAt(c, t) /\ Top(c) < t)
      BY <2>7, <2>9, <3>1
    <3>3. KeyAt(c, t) = q[m + 1]
      BY <2>2, <2>5
    <3>4. KeyAt(c, Top(c)) = q[m + 1] /\ Top(c) < t
      BY <2>6, <2>9, <3>2, <3>3
    <3>5. Top(c) \in H
      BY <2>3, <2>9, <3>4
    <3>6. t <= Top(c) /\ t \in Nat /\ Top(c) \in Nat
      BY <2>4, <2>5, <3>5
    <3> QED BY <3>4, <3>6
  <2> QED BY <2>1, <2>2, <2>5, <2>10 DEF H
<1> QED BY <1>2, <1>4, <1>5

\* Next only moves the sources that are at the next key, each past that key.
LEMMA AdvancedIs ==
    ASSUME SourcesInv, NEW q, NEW n \in Nat, Ascends(q, AllKeys, n), NEW m \in 0..n,
           NEW c, Positioned(c, q, m), Heap(c) # {}
    PROVE  Positioned(Advanced(c, Top(c)), q, m + 1)
<1> DEFINE t == Top(c)
           k == q[m + 1]
<1>1. m + 1 \in 1..n /\ KeyAt(c, t) = k
  BY TopIs
<1>2. k \in Int /\ m + 1 > 0 /\ m \in Nat
  BY <1>1, AllKeysAre DEF Ascends
<1>3. m > 0 => q[m] \in Int /\ q[m] < k
  <2>1. m > 0 => m \in 1..n /\ m < m + 1
    OBVIOUS
  <2> QED BY <1>1, <2>1, AllKeysAre DEF Ascends
<1>4. \A s \in Sources : c[s] <= Len(sources[s]) => k <= KeyAt(c, s)
  BY TopIs DEF Heap, Valid
<1> HIDE DEF k, t
<1>5. ASSUME NEW s \in Sources, NEW d, d = Advanced(c, t)[s]
      PROVE  d \in Nat \ {0} /\ \A i \in 1..Len(sources[s]) : i < d <=> sources[s][i] <= k
  <2> DEFINE L == Len(sources[s])
             r == sources[s]
             a == c[s]
  <2>1. /\ L \in Nat
        /\ \A i \in 1..L : r[i] \in Int
        /\ \A i, j \in 1..L : i < j => r[i] < r[j]
    BY SourcesAscend, SourcesAreFinite
  <2>2. a \in Nat \ {0} /\ \A i \in 1..L : i < a <=> (m > 0 /\ r[i] <= q[m])
    BY DEF Positioned
  <2>3. d = IF a <= L /\ r[a] = k THEN a + 1 ELSE a
    BY <1>1, <1>5 DEF Advanced, Valid, KeyAt
  <2>4. a <= L => k <= r[a]
    BY <1>4 DEF KeyAt
  <2> HIDE DEF L, r, a
  <2>5. ASSUME NEW i \in 1..L, i < a PROVE r[i] <= k
    BY <1>2, <1>3, <2>1, <2>2, <2>5
  <2>6. ASSUME NEW i \in 1..L, i > a PROVE ~ (r[i] <= k)
    <3>1. a \in 1..L /\ a < i
      BY <2>1, <2>2, <2>6
    <3>2. r[a] < r[i] /\ k <= r[a] /\ r[a] \in Int /\ r[i] \in Int
      BY <2>1, <2>4, <3>1
    <3> QED BY <1>2, <3>2
  <2>7. ASSUME NEW i \in 1..L, i = a PROVE r[i] <= k <=> r[a] = k
    <3>1. a <= L /\ r[a] \in Int
      BY <2>1, <2>7
    <3> QED BY <1>2, <2>4, <2>7, <3>1
  <2>8. ASSUME NEW i \in 1..L PROVE i < d <=> r[i] <= k
    <3>1. CASE i < a
      <4>1. i < d
        BY <2>2, <2>3, <3>1
      <4> QED BY <2>5, <3>1, <4>1
    <3>2. CASE i > a
      <4>1. ~ (i < d)
        BY <2>2, <2>3, <3>2
      <4> QED BY <2>6, <3>2, <4>1
    <3>3. CASE i = a
      <4>1. a <= L
        BY <2>1, <3>3
      <4>2. i < d <=> r[a] = k
        BY <2>2, <2>3, <3>3, <4>1
      <4> QED BY <2>7, <3>3, <4>2
    <3> QED BY <2>2, <3>1, <3>2, <3>3
  <2>9. d \in Nat \ {0}
    BY <2>2, <2>3
  <2> QED BY <2>8, <2>9 DEF L, r
<1> QED BY <1>2, <1>5 DEF Positioned, k, t

KeyList == Sorted(AllKeys)

\* The merge gives the n keys in the order of q, each with the first source that has it.
IsMerge(q, n) ==
    /\ n \in Nat /\ Ascends(q, AllKeys, n) /\ Merged \in Seq(Int \X Nat)
    /\ \A i \in 1..n : \A t \in HasKey(q[i]) :
         (\A o \in HasKey(q[i]) : t <= o) => Merged[i] = <<q[i], t>>

LEMMA MergedIs ==
    ASSUME SourcesInv, NEW q, q = KeyList, NEW n, n = Len(Merged)
    PROVE  IsMerge(q, n)
<1> DEFINE c == Cardinality(AllKeys)
           First(i) == CHOOSE s \in HasKey(q[i]) : \A o \in HasKey(q[i]) : s <= o
<1>1. c \in Nat /\ Ascends(q, AllKeys, c) /\ AllKeys \in SUBSET Int
  BY AllKeysAre DEF KeyList
<1>2. Merged = [i \in 1..c |-> <<q[i], First(i)>>]
  BY DEF Merged, AllKeys, KeysOf, HasKey, KeyList
<1> HIDE DEF c
<1>3. ASSUME NEW i \in 1..c
      PROVE  /\ HasKey(q[i]) # {} /\ HasKey(q[i]) \in SUBSET Nat /\ q[i] \in Int
             /\ First(i) \in HasKey(q[i]) /\ \A o \in HasKey(q[i]) : First(i) <= o
  <2>1. q[i] \in AllKeys
    BY <1>1 DEF Ascends
  <2>2. HasKey(q[i]) # {}
    BY <2>1 DEF AllKeys, KeysOf, HasKey
  <2>3. HasKey(q[i]) \in SUBSET Nat
    BY SourcesAreFinite DEF HasKey, Sources
  <2>4. \E s \in HasKey(q[i]) : \A o \in HasKey(q[i]) : s <= o
    BY <2>2, <2>3, LeastExists
  <2>5. First(i) \in HasKey(q[i]) /\ \A o \in HasKey(q[i]) : First(i) <= o
    BY <2>4
  <2> QED BY <1>1, <2>1, <2>2, <2>3, <2>5
<1> HIDE DEF First
<1>4. \A i \in 1..c : <<q[i], First(i)>> \in Int \X Nat
  BY <1>3
<1>5. Merged \in Seq(Int \X Nat) /\ Len(Merged) = c
  BY <1>1, <1>2, <1>4
<1>6. ASSUME NEW i \in 1..c, NEW t \in HasKey(q[i]), \A o \in HasKey(q[i]) : t <= o
      PROVE  Merged[i] = <<q[i], t>>
  <2>1. Merged[i] = <<q[i], First(i)>>
    BY <1>2
  <2>2. t \in Nat /\ First(i) \in Nat /\ t <= First(i) /\ First(i) <= t
    BY <1>3, <1>6
  <2>3. t = First(i)
    BY <2>2
  <2> QED BY <2>1, <2>3
<1> QED BY <1>1, <1>5, <1>6 DEF IsMerge

\* What was emitted is the beginning of the merge, and the sources have moved past it.
MergeInv ==
    /\ SourcesInv
    /\ emitted \in Seq(Int \X Nat) /\ Len(emitted) <= Len(Merged)
    /\ \A i \in 1..Len(emitted) : emitted[i] = Merged[i]
    /\ Positioned(cursor, KeyList, Len(emitted))
    /\ current = << >> => Len(emitted) = Len(Merged)

LEMMA MergeInitInv == MergeInit => MergeInv
<1> SUFFICES ASSUME MergeInit PROVE MergeInv
  OBVIOUS
<1> DEFINE start == [s \in Sources |-> 1]
           t == Top(start)
           q == KeyList
           n == Len(Merged)
<1>1. SourcesInv
  <2>1. PICK content \in [Sources -> SUBSET MergeKeys] :
          sources = [s \in Sources |-> Sorted(content[s])]
    BY DEF MergeInit
  <2>2. \A s \in Sources : content[s] \in SUBSET MergeKeys /\ sources[s] = Sorted(content[s])
    BY <2>1
  <2> QED BY <2>2 DEF SourcesInv
<1>0. IsMerge(q, n)
  BY <1>1, MergedIs
<1>2. n \in Nat /\ Ascends(q, AllKeys, n) /\ Merged \in Seq(Int \X Nat)
  <2> HIDE DEF q, n
  <2> QED BY <1>0 DEF IsMerge
<1> HIDE DEF q, n
<1>3. 0 \in 0..n /\ 0 + 1 = 1
  BY <1>2
<1>4. Positioned(start, q, 0)
  BY SourcesAscend, <1>1 DEF Positioned
<1> HIDE DEF start
<1>5. CASE Heap(start) = {}
  <2>1. cursor = start /\ current = << >> /\ emitted = << >>
    BY <1>5 DEF MergeInit, start
  <2>2. n = 0
    BY <1>1, <1>2, <1>3, <1>4, <1>5, TopIs
  <2>3. emitted \in Seq(Int \X Nat) /\ Len(emitted) = 0
    BY <2>1
  <2> QED BY <1>1, <1>4, <2>1, <2>2, <2>3 DEF MergeInv, q, n
<1>6. CASE Heap(start) # {}
  <2>1. cursor = Advanced(start, t) /\ current = <<KeyAt(start, t), t>> /\ emitted = <<current>>
    BY <1>6 DEF MergeInit, start
  <2> HIDE DEF t
  <2>2. /\ 1 \in 1..n /\ t \in HasKey(q[1]) /\ \A o \in HasKey(q[1]) : t <= o
        /\ KeyAt(start, t) = q[1]
    BY <1>1, <1>2, <1>3, <1>4, <1>6, TopIs DEF t
  <2>3. Positioned(cursor, q, 1)
    BY <1>1, <1>2, <1>3, <1>4, <1>6, <2>1, AdvancedIs DEF t
  <2>4. Merged[1] = <<q[1], t>>
    BY <1>0, <2>2 DEF IsMerge
  <2>5. current = Merged[1] /\ current # << >>
    BY <2>1, <2>2, <2>4
  <2>6. Merged[1] \in Int \X Nat
    <3>1. \A S, r : r \in Seq(S) /\ 1 \in 1..Len(r) => r[1] \in S
      OBVIOUS
    <3> QED BY <1>2, <2>2, <3>1 DEF n
  <2>7. emitted \in Seq(Int \X Nat) /\ Len(emitted) = 1 /\ emitted[1] = Merged[1]
    BY <2>1, <2>5, <2>6
  <2>8. 1 <= n /\ \A i \in 1..1 : i = 1
    BY <1>2, <2>2
  <2> QED BY <1>1, <2>3, <2>5, <2>7, <2>8 DEF MergeInv, q, n
<1> QED BY <1>5, <1>6

LEMMA MergeNextInv == MergeInv /\ [MergeNext]_mergeVars => MergeInv'
<1> SUFFICES ASSUME MergeInv, [MergeNext]_mergeVars PROVE MergeInv'
  OBVIOUS
<1> DEFINE m == Len(emitted)
           t == Top(cursor)
           q == KeyList
           n == Len(Merged)
           x == <<KeyAt(cursor, t), t>>
<1>1. /\ SourcesInv /\ emitted \in Seq(Int \X Nat) /\ \A i \in 1..m : emitted[i] = Merged[i]
      /\ m <= n /\ Positioned(cursor, q, m) /\ (current = << >> => m = n)
  BY DEF MergeInv
<1>0. IsMerge(q, n)
  BY <1>1, MergedIs
<1>2. n \in Nat /\ Ascends(q, AllKeys, n) /\ Merged \in Seq(Int \X Nat)
  <2> HIDE DEF q, n
  <2> QED BY <1>0 DEF IsMerge
<1>3. sources' = sources
  BY DEF MergeNext, Advance, mergeVars
<1>4. AllKeys' = AllKeys
  BY <1>3 DEF AllKeys, KeysOf
<1>5. /\ SourcesInv' /\ KeyList' = q /\ Merged' = Merged
      /\ \A c, r, i : Positioned(c, r, i)' <=> Positioned(c, r, i)
  BY <1>1, <1>3, <1>4 DEF SourcesInv, KeyList, Merged, Positioned
<1>6. m \in 0..n
  BY <1>1, <1>2
<1>7. CASE current # << >> /\ Heap(cursor) # {} /\ Advance
  <2>1. current' = x /\ cursor' = Advanced(cursor, t) /\ emitted' = Append(emitted, x)
    BY <1>7 DEF Advance
  <2> HIDE DEF m, t, q, n
  <2>2. Heap(cursor) # {} /\ n \in Nat
    BY <1>2, <1>7
  <2>3. /\ m + 1 \in 1..n /\ t \in HasKey(q[m + 1]) /\ \A o \in HasKey(q[m + 1]) : t <= o
        /\ KeyAt(cursor, t) = q[m + 1]
    BY <1>1, <1>2, <1>6, <2>2, TopIs DEF t
  <2>4. Positioned(cursor', q, m + 1)
    BY <1>1, <1>2, <1>6, <2>1, <2>2, AdvancedIs DEF t
  <2>5. x = Merged[m + 1]
    BY <1>0, <2>3 DEF IsMerge, x
  <2>6. x \in Int \X Nat /\ x # << >>
    <3>1. q[m + 1] \in Int /\ t \in Nat
      BY <1>1, <1>2, <2>3, AllKeysAre, SourcesAreFinite DEF Ascends, HasKey, Sources
    <3> QED BY <2>3, <3>1
  <2> HIDE DEF x
  <2>7. /\ emitted' \in Seq(Int \X Nat) /\ Len(emitted') = m + 1
        /\ emitted'[m + 1] = x /\ \A i \in 1..m : emitted'[i] = emitted[i]
    BY <1>1, <2>1, <2>6 DEF m
  <2>8. \A i \in 1..(m + 1) : emitted'[i] = Merged[i]
    <3>1. \A i \in 1..m : emitted'[i] = Merged[i]
      BY <1>1, <2>7
    <3>2. \A i \in 1..(m + 1) : i \in 1..m \/ i = m + 1
      BY <1>2, <1>6
    <3> QED BY <2>5, <2>7, <3>1, <3>2
  <2>9. m + 1 <= n /\ current' # << >>
    BY <1>2, <2>1, <2>3, <2>6
  <2>10. /\ Positioned(cursor, KeyList, Len(emitted))'
         /\ (Len(emitted) <= Len(Merged))' /\ (\A i \in 1..Len(emitted) : emitted[i] = Merged[i])'
    <3>1. KeyList' = q /\ Len(emitted)' = m + 1 /\ Merged' = Merged
      BY <1>5, <2>7
    <3>2. Positioned(cursor, KeyList, Len(emitted))'
      BY <1>3, <2>4, <3>1 DEF Positioned
    <3>3. Len(Merged)' = n
      BY <3>1 DEF n
    <3>4. (Len(emitted) <= Len(Merged))'
      BY <2>9, <3>1, <3>3
    <3> QED BY <2>8, <3>1, <3>2, <3>4
  <2> QED BY <1>5, <2>7, <2>9, <2>10 DEF MergeInv
<1>8. CASE current = << >> \/ Heap(cursor) = {} \/ ~Advance
  <2>1. /\ cursor' = cursor /\ emitted' = emitted
        /\ current' = << >> => current = << >> \/ Heap(cursor) = {}
    BY <1>8 DEF MergeNext, Advance, mergeVars
  <2>2. current' = << >> => m = n
    <3> HIDE DEF m, n, q
    <3>1. SourcesInv /\ n \in Nat /\ Ascends(q, AllKeys, n) /\ Positioned(cursor, q, m)
      BY <1>1, <1>2
    <3>2. Heap(cursor) = {} => m = n
      BY <1>6, <3>1, TopIs
    <3>3. current = << >> => m = n
      BY <1>1
    <3> QED BY <2>1, <3>2, <3>3
  <2> QED BY <1>1, <1>5, <2>1, <2>2 DEF MergeInv
<1> QED BY <1>7, <1>8

LEMMA BeginningIs ==
    ASSUME NEW S, NEW e \in Seq(S), NEW f \in Seq(S), Len(e) <= Len(f),
           \A i \in 1..Len(e) : e[i] = f[i]
    PROVE  e = SubSeq(f, 1, Len(e)) /\ (Len(e) = Len(f) => e = f)
<1> DEFINE m == Len(e)
           g == SubSeq(f, 1, m)
<1>1. m \in Nat /\ Len(f) \in Nat /\ m <= Len(f)
  OBVIOUS
<1>2. g \in Seq(S) /\ Len(g) = m /\ \A i \in 1..m : g[i] = f[i]
  BY <1>1
<1>3. \A h \in Seq(S) : Len(h) = m /\ (\A i \in 1..m : h[i] = e[i]) => h = e
  <2>1. ASSUME NEW h \in Seq(S), Len(h) = m, \A i \in 1..m : h[i] = e[i] PROVE h = e
    <3>1. h = [i \in 1..m |-> h[i]] /\ e = [i \in 1..m |-> e[i]]
      BY <2>1
    <3> QED BY <2>1, <3>1
  <2> QED BY <2>1
<1>4. g = e
  <2> HIDE DEF g
  <2> QED BY <1>2, <1>3
<1>5. Len(e) = Len(f) => e = f
  BY <1>3
<1> QED BY <1>4, <1>5

LEMMA MergeInvIsExact == MergeInv => MergeIsExact
<1> SUFFICES ASSUME MergeInv PROVE MergeIsExact
  OBVIOUS
<1>1. /\ SourcesInv /\ emitted \in Seq(Int \X Nat) /\ Len(emitted) <= Len(Merged)
      /\ \A i \in 1..Len(emitted) : emitted[i] = Merged[i]
      /\ current = << >> => Len(emitted) = Len(Merged)
  BY DEF MergeInv
<1>2. Merged \in Seq(Int \X Nat)
  BY <1>1, MergedIs DEF IsMerge
<1>3. emitted = SubSeq(Merged, 1, Len(emitted)) /\ (Len(emitted) = Len(Merged) => emitted = Merged)
  BY <1>1, <1>2, BeginningIs
<1> QED BY <1>1, <1>3 DEF MergeIsExact

\* What the merging iterator yields is the merge of its sources, whatever they hold and
\* however many there are: no key is left out or comes twice, and of the entries of a key
\* the newest is shown (MergingIterator::new, advance, next).
THEOREM MergeYieldsTheNewest == MergeSpec => []MergeIsExact
<1>1. MergeInit => MergeInv
  BY MergeInitInv
<1>2. MergeInv /\ [MergeNext]_mergeVars => MergeInv'
  BY MergeNextInv
<1>3. MergeInv => MergeIsExact
  BY MergeInvIsExact
<1> QED BY <1>1, <1>2, <1>3, PTL DEF MergeSpec

-----------------------------------------------------------------------------
(* The builder of a table                                                  *)

TableCells == Entry \cup [count : Nat]

Builders ==
    [cells : Seq(TableCells), current : Seq(Entry), size : Nat, offsets : Seq(Nat),
     first : Seq(Keys), keys : SUBSET Keys]

\* The blocks end behind the entries cut[1], cut[2], ... of n.
Cuts(cut, m, n) ==
    /\ m \in Nat /\ n \in Nat /\ cut \in [0..m -> 0..n] /\ cut[0] = 0
    /\ \A i, j \in 0..m : i < j => cut[i] < cut[j]

\* The cells of the i-th block, whose trailer comes behind its entries.
InBlock(cells, at, E, cut, i) ==
    /\ at = cut[i - 1] + (i - 1)
    /\ \A j \in 1..(cut[i] - cut[i - 1]) : cells[at + j] = E[cut[i - 1] + j]
    /\ cells[cut[i] + i] = [count |-> cut[i] - cut[i - 1]]

InBlocks(b, E, m, cut) ==
    /\ Len(b.cells) = cut[m] + m /\ Len(b.offsets) = m
    /\ \A i \in 1..m : InBlock(b.cells, b.offsets[i], E, cut, i)

Rest(b, E, n, m, cut) ==
    /\ Len(b.current) = n - cut[m]
    /\ \A j \in 1..(n - cut[m]) : b.current[j] = E[cut[m] + j]

Firsts(b, E, n, m, cut) ==
    /\ Len(b.first) = IF cut[m] = n THEN m ELSE m + 1
    /\ \A i \in 1..Len(b.first) : b.first[i] = E[cut[i - 1] + 1].key

\* What a builder holds after the first n entries of E, m blocks of them full.
Laid(b, E, n, m, cut) ==
    /\ b \in Builders /\ E \in Seq(Entry) /\ n \in 0..Len(E) /\ Cuts(cut, m, n)
    /\ InBlocks(b, E, m, cut) /\ Rest(b, E, n, m, cut) /\ Firsts(b, E, n, m, cut)
    /\ b.keys = {E[j].key : j \in 1..n}

\* The builder with an entry more, before it looks whether the block is full.
Taken(b, e) ==
    [b EXCEPT !.first = IF b.current = << >> THEN Append(@, e.key) ELSE @,
              !.keys = @ \cup {e.key},
              !.size = @ + EntrySize(e),
              !.current = Append(@, e)]

LEMMA NewIsLaid ==
    ASSUME NEW E \in Seq(Entry)
    PROVE  NewBuilder \in Builders /\ Laid(NewBuilder, E, 0, 0, [i \in 0..0 |-> 0])
<1> DEFINE b == NewBuilder
           cut == [i \in 0..0 |-> 0]
<1>1. b = [cells |-> << >>, current |-> << >>, size |-> 0,
           offsets |-> << >>, first |-> << >>, keys |-> {}]
  BY DEF NewBuilder
<1> HIDE DEF b
<1>2. b \in Builders
  BY <1>1 DEF Builders
<1>3. Cuts(cut, 0, 0) /\ cut[0] = 0
  BY DEF Cuts
<1> HIDE DEF cut
<1>4. InBlocks(b, E, 0, cut)
  BY <1>1, <1>3 DEF InBlocks
<1>5. Rest(b, E, 0, 0, cut)
  BY <1>1, <1>3 DEF Rest
<1>6. Firsts(b, E, 0, 0, cut)
  BY <1>1, <1>3 DEF Firsts
<1>7. b.keys = {E[j].key : j \in 1..0}
  BY <1>1
<1> QED BY <1>2, <1>3, <1>4, <1>5, <1>6, <1>7 DEF Laid, b, cut

LEMMA TakenFields ==
    ASSUME NEW b \in Builders, NEW e \in Entry
    PROVE  /\ Taken(b, e) \in Builders
           /\ Taken(b, e).cells = b.cells /\ Taken(b, e).offsets = b.offsets
           /\ Taken(b, e).current = Append(b.current, e)
           /\ Taken(b, e).keys = b.keys \cup {e.key}
           /\ Taken(b, e).first = IF b.current = << >> THEN Append(b.first, e.key) ELSE b.first
<1> DEFINE f == IF b.current = << >> THEN Append(b.first, e.key) ELSE b.first
           k == b.keys \cup {e.key}
           s == b.size + EntrySize(e)
           u == Append(b.current, e)
<1>1. e.key \in Keys /\ EntrySize(e) \in Nat
  BY DEF Entry, EntrySize
<1>2. /\ b.current \in Seq(Entry) /\ b.size \in Nat /\ b.first \in Seq(Keys)
      /\ b.keys \in SUBSET Keys
  BY DEF Builders
<1>3. u \in Seq(Entry) /\ s \in Nat /\ f \in Seq(Keys) /\ k \in SUBSET Keys
  BY <1>1, <1>2
<1>4. Taken(b, e) = [b EXCEPT !.first = f, !.keys = k, !.size = s, !.current = u]
  BY DEF Taken
<1> HIDE DEF f, k, s, u
<1>5. /\ Taken(b, e) \in Builders
      /\ Taken(b, e).cells = b.cells /\ Taken(b, e).offsets = b.offsets
      /\ Taken(b, e).current = u /\ Taken(b, e).keys = k /\ Taken(b, e).first = f
  BY <1>3, <1>4 DEF Builders
<1> QED BY <1>5 DEF f, k, u

\* An entry goes to the rest, and its key to the first keys if the rest was empty.
LEMMA TakenIsLaid ==
    ASSUME NEW b, NEW E, NEW n, NEW m, NEW cut, Laid(b, E, n, m, cut), n < Len(E)
    PROVE  /\ Laid(Taken(b, E[n + 1]), E, n + 1, m, cut)
           /\ Taken(b, E[n + 1]).current # << >>
<1> DEFINE e == E[n + 1]
           c == Taken(b, e)
<1>1. /\ b \in Builders /\ E \in Seq(Entry) /\ n \in 0..Len(E) /\ Cuts(cut, m, n)
      /\ InBlocks(b, E, m, cut) /\ Rest(b, E, n, m, cut) /\ Firsts(b, E, n, m, cut)
      /\ b.keys = {E[j].key : j \in 1..n}
  BY DEF Laid
<1>2. n \in Nat /\ n + 1 \in 0..Len(E) /\ n + 1 \in 1..Len(E)
  BY <1>1
<1>3. e \in Entry
  BY <1>1, <1>2
<1>4. e = E[n + 1]
  OBVIOUS
<1> HIDE DEF e
<1>5. /\ c \in Builders /\ c.cells = b.cells /\ c.offsets = b.offsets
      /\ c.current = Append(b.current, e) /\ c.keys = b.keys \cup {e.key}
      /\ c.first = IF b.current = << >> THEN Append(b.first, e.key) ELSE b.first
  BY <1>1, <1>3, TakenFields
<1> HIDE DEF c
<1>6. m \in Nat /\ cut \in [0..m -> 0..n] /\ m \in 0..m /\ cut[m] \in 0..n
  BY <1>1 DEF Cuts
<1>7. Cuts(cut, m, n + 1)
  <2>1. cut \in [0..m -> 0..(n + 1)]
    BY <1>2, <1>6
  <2> QED BY <1>1, <1>2, <2>1 DEF Cuts
<1>8. InBlocks(c, E, m, cut)
  BY <1>1, <1>5 DEF InBlocks
<1>9. b.current \in Seq(Entry) /\ b.first \in Seq(Keys) /\ e.key \in Keys
  BY <1>1, <1>3 DEF Builders, Entry
<1>10. Len(b.current) = n - cut[m] /\ \A j \in 1..(n - cut[m]) : b.current[j] = E[cut[m] + j]
  BY <1>1 DEF Rest
<1>11. Rest(c, E, n + 1, m, cut)
  <2>1. Len(c.current) = n + 1 - cut[m]
    BY <1>2, <1>5, <1>6, <1>9, <1>10
  <2>2. ASSUME NEW j \in 1..(n + 1 - cut[m]) PROVE c.current[j] = E[cut[m] + j]
    <3>1. CASE j = n + 1 - cut[m]
      <4>1. j = Len(b.current) + 1 /\ cut[m] + j = n + 1
        BY <1>2, <1>6, <1>10, <3>1
      <4> QED BY <1>4, <1>5, <1>9, <4>1
    <3>2. CASE j # n + 1 - cut[m]
      <4>1. j \in 1..(n - cut[m])
        BY <1>2, <1>6, <3>2
      <4> QED BY <1>5, <1>9, <1>10, <4>1
    <3> QED BY <3>1, <3>2
  <2> QED BY <1>2, <1>6, <2>1, <2>2 DEF Rest
<1>12. /\ Len(b.first) = IF cut[m] = n THEN m ELSE m + 1
       /\ \A i \in 1..Len(b.first) : b.first[i] = E[cut[i - 1] + 1].key
  BY <1>1 DEF Firsts
<1>13. cut[m] # n + 1
  BY <1>2, <1>6
<1>14. Firsts(c, E, n + 1, m, cut)
  <2>1. CASE b.current = << >>
    <3>1. cut[m] = n
      BY <1>2, <1>6, <1>10, <2>1
    <3>2. Len(b.first) = m /\ c.first = Append(b.first, e.key)
      BY <1>5, <1>12, <2>1, <3>1
    <3>3. Len(c.first) = m + 1
      BY <1>9, <3>2
    <3>4. ASSUME NEW i \in 1..(m + 1) PROVE c.first[i] = E[cut[i - 1] + 1].key
      <4>1. CASE i = m + 1
        <5>1. i - 1 = m
          BY <1>6, <4>1
        <5> QED BY <1>4, <1>9, <3>1, <3>2, <4>1, <5>1
      <4>2. CASE i # m + 1
        <5>1. i \in 1..m
          BY <1>6, <4>2
        <5> QED BY <1>9, <1>12, <3>2, <5>1
      <4> QED BY <4>1, <4>2
    <3> QED BY <1>13, <3>3, <3>4 DEF Firsts
  <2>2. CASE b.current # << >>
    <3>1. cut[m] # n
      <4>1. Len(b.current) # 0
        BY <1>9, <2>2
      <4> QED BY <1>6, <1>10, <4>1
    <3>2. c.first = b.first
      BY <1>5, <2>2
    <3> QED BY <1>12, <1>13, <3>1, <3>2 DEF Firsts
  <2> QED BY <2>1, <2>2
<1>15. c.keys = {E[j].key : j \in 1..(n + 1)}
  <2>1. ASSUME NEW k \in c.keys PROVE \E j \in 1..(n + 1) : k = E[j].key
    <3>1. CASE k = e.key
      BY <1>2, <1>4, <3>1
    <3>2. CASE k # e.key
      <4>1. PICK j \in 1..n : k = E[j].key
        BY <1>1, <1>5, <3>2
      <4> QED BY <1>2, <4>1
    <3> QED BY <3>1, <3>2
  <2>2. ASSUME NEW j \in 1..(n + 1) PROVE E[j].key \in c.keys
    <3>1. j = n + 1 \/ j \in 1..n
      BY <1>2
    <3> QED BY <1>1, <1>4, <1>5, <3>1
  <2> QED BY <2>1, <2>2
<1>16. Laid(c, E, n + 1, m, cut)
  BY <1>1, <1>2, <1>5, <1>7, <1>8, <1>11, <1>14, <1>15 DEF Laid
<1>17. c.current # << >>
  <2>1. c.current = Append(b.current, e)
    BY <1>5
  <2> QED BY <1>9, <1>3, <2>1
<1> QED BY <1>16, <1>17 DEF c, e

LEMMA FlushedFields ==
    ASSUME NEW b \in Builders, b.current # << >>
    PROVE  /\ FlushBlock(b) \in Builders
           /\ FlushBlock(b).cells = b.cells \o Encode(b.current)
           /\ FlushBlock(b).offsets = Append(b.offsets, Len(b.cells))
           /\ FlushBlock(b).current = << >>
           /\ FlushBlock(b).keys = b.keys /\ FlushBlock(b).first = b.first
           /\ Encode(b.current) \in Seq(TableCells)
<1> DEFINE x == b.cells \o Encode(b.current)
           o == Append(b.offsets, Len(b.cells))
           t == [count |-> Len(b.current)]
<1>1. b.cells \in Seq(TableCells) /\ b.current \in Seq(Entry) /\ b.offsets \in Seq(Nat)
  BY DEF Builders
<1>2. t \in TableCells
  BY <1>1 DEF TableCells
<1>3. b.current \in Seq(TableCells)
  <2>1. Entry \subseteq TableCells
    BY DEF TableCells
  <2> QED BY <1>1, <2>1
<1>4. Encode(b.current) \in Seq(TableCells)
  BY <1>2, <1>3 DEF Encode
<1>5. x \in Seq(TableCells) /\ o \in Seq(Nat)
  BY <1>1, <1>4
<1>6. FlushBlock(b) = [b EXCEPT !.cells = x, !.offsets = o, !.current = << >>, !.size = 0]
  BY DEF FlushBlock
<1>7. << >> \in Seq(Entry) /\ 0 \in Nat
  OBVIOUS
<1> HIDE DEF x, o
<1>8. /\ FlushBlock(b) \in Builders
      /\ FlushBlock(b).cells = x /\ FlushBlock(b).offsets = o
      /\ FlushBlock(b).current = << >>
      /\ FlushBlock(b).keys = b.keys /\ FlushBlock(b).first = b.first
  BY <1>5, <1>6, <1>7 DEF Builders
<1> QED BY <1>4, <1>8 DEF x, o

CutAt(cut, m, n) == [i \in 0..(m + 1) |-> IF i <= m THEN cut[i] ELSE n]

LEMMA CutAtIs ==
    ASSUME NEW cut, NEW m, NEW n, Cuts(cut, m, n), cut[m] < n
    PROVE  /\ Cuts(CutAt(cut, m, n), m + 1, n)
           /\ CutAt(cut, m, n)[m + 1] = n
           /\ \A i \in 0..m : CutAt(cut, m, n)[i] = cut[i]
<1> DEFINE d == CutAt(cut, m, n)
<1>1. /\ m \in Nat /\ n \in Nat /\ cut \in [0..m -> 0..n] /\ cut[0] = 0
      /\ \A i, j \in 0..m : i < j => cut[i] < cut[j]
  BY DEF Cuts
<1>2. d = [i \in 0..(m + 1) |-> IF i <= m THEN cut[i] ELSE n]
  BY DEF CutAt
<1> HIDE DEF d
<1>3. m + 1 \in 0..(m + 1) /\ ~ (m + 1 <= m) /\ \A i \in 0..m : i \in 0..(m + 1) /\ i <= m
  BY <1>1
<1>4. d[m + 1] = n /\ \A i \in 0..m : d[i] = cut[i]
  BY <1>2, <1>3
<1>5. \A i \in 0..(m + 1) : i = m + 1 \/ i \in 0..m
  BY <1>1
<1>6. d \in [0..(m + 1) -> 0..n]
  <2>1. \A i \in 0..(m + 1) : d[i] \in 0..n
    BY <1>1, <1>4, <1>5
  <2> QED BY <1>2, <2>1
<1>7. d[0] = 0
  BY <1>1, <1>4
<1>8. ASSUME NEW i \in 0..(m + 1), NEW j \in 0..(m + 1), i < j PROVE d[i] < d[j]
  <2>1. i \in 0..m
    BY <1>1, <1>8
  <2>2. CASE j \in 0..m
    BY <1>1, <1>4, <1>8, <2>1, <2>2
  <2>3. CASE j = m + 1
    <3>1. i = m \/ cut[i] < cut[m]
      BY <1>1, <2>1
    <3>2. cut[i] \in 0..n /\ cut[m] \in 0..n
      BY <1>1, <2>1
    <3>3. cut[i] < n
      BY <1>1, <3>1, <3>2
    <3> QED BY <1>4, <2>1, <2>3, <3>3
  <2> QED BY <1>5, <2>2, <2>3
<1> QED BY <1>1, <1>4, <1>6, <1>7, <1>8 DEF Cuts, d

\* The cells of a block stay where they are when more come behind.
LEMMA BlocksStay ==
    ASSUME NEW cells, NEW more, NEW E, NEW cut, NEW m, NEW n, Cuts(cut, m, n), NEW i \in 1..m,
           NEW at, InBlock(cells, at, E, cut, i),
           \A j \in 1..(cut[m] + m) : more[j] = cells[j]
    PROVE  InBlock(more, at, E, cut, i)
<1>1. /\ m \in Nat /\ n \in Nat /\ i \in 0..m /\ i - 1 \in 0..m /\ m \in 0..m
      /\ cut \in [0..m -> 0..n]
      /\ \A j, k \in 0..m : j < k => cut[j] < cut[k]
  BY DEF Cuts
<1> DEFINE lo == cut[i - 1]
           hi == cut[i]
           end == cut[m]
<1>2. lo \in Nat /\ hi \in Nat /\ end \in Nat
  BY <1>1
<1>3. lo < hi /\ hi <= end
  <2>1. i = m \/ i < m
    BY <1>1
  <2>2. i - 1 < i
    BY <1>1
  <2> QED BY <1>1, <1>2, <2>1, <2>2
<1>4. /\ at = lo + (i - 1) /\ cells[hi + i] = [count |-> hi - lo]
      /\ \A j \in 1..(hi - lo) : cells[at + j] = E[lo + j]
  BY DEF InBlock
<1> HIDE DEF lo, hi, end
<1>5. \A j \in 1..(end + m) : more[j] = cells[j]
  BY DEF end
<1>6. hi + i \in 1..(end + m)
  BY <1>1, <1>2, <1>3
<1>7. \A j \in 1..(hi - lo) : at + j \in 1..(end + m)
  BY <1>1, <1>2, <1>3, <1>4
<1>8. /\ more[hi + i] = [count |-> hi - lo]
      /\ \A j \in 1..(hi - lo) : more[at + j] = E[lo + j]
  BY <1>4, <1>5, <1>6, <1>7
<1> QED BY <1>4, <1>8 DEF InBlock, lo, hi

IsWritten(cells, b, E, n, m, d) ==
    /\ Len(cells) = n + (m + 1)
    /\ \A j \in 1..Len(b.cells) : cells[j] = b.cells[j]
    /\ InBlock(cells, Len(b.cells), E, d, m + 1)

\* The block that is written holds the rest.
LEMMA NewBlock ==
    ASSUME NEW b, NEW E, NEW n, NEW m, NEW cut, Laid(b, E, n, m, cut), b.current # << >>,
           NEW cells, cells = b.cells \o Encode(b.current),
           NEW d, Cuts(d, m + 1, n), d[m + 1] = n, d[m] = cut[m]
    PROVE  IsWritten(cells, b, E, n, m, d)
<1> DEFINE lo == cut[m]
           q == Encode(b.current)
           c == b.cells
           l == Len(c)
<1>1. /\ b \in Builders /\ n \in Nat /\ m \in Nat /\ lo \in Nat /\ l = lo + m
      /\ Len(b.current) = n - lo /\ \A j \in 1..(n - lo) : b.current[j] = E[lo + j]
      /\ lo <= n
  <2>1. cut \in [0..m -> 0..n] /\ n \in Nat /\ m \in Nat
    BY DEF Laid, Cuts
  <2>2. cut[m] \in 0..n
    BY <2>1
  <2> QED BY <2>1, <2>2 DEF Laid, InBlocks, Rest
<1>2. c \in Seq(TableCells) /\ b.current \in Seq(Entry) /\ q \in Seq(TableCells)
  BY <1>1, FlushedFields DEF Builders
<1>3. /\ Len(q) = n - lo + 1 /\ q[n - lo + 1] = [count |-> n - lo]
      /\ \A j \in 1..(n - lo) : q[j] = E[lo + j]
  <2>1. q = Append(b.current, [count |-> Len(b.current)])
    BY DEF Encode
  <2>2. Len(q) = Len(b.current) + 1 /\ q[Len(b.current) + 1] = [count |-> Len(b.current)]
    BY <1>2, <2>1
  <2>3. \A j \in 1..Len(b.current) : q[j] = b.current[j]
    BY <1>2, <2>1
  <2> HIDE DEF q, lo
  <2> QED BY <1>1, <2>2, <2>3
<1>4. cells = c \o q
  OBVIOUS
<1> HIDE DEF c, q
<1>5. /\ Len(cells) = l + Len(q) /\ \A j \in 1..l : cells[j] = c[j]
      /\ \A j \in 1..Len(q) : cells[l + j] = q[j]
  BY <1>2, <1>4
<1>6. d[(m + 1) - 1] = lo /\ d[m + 1] = n
  <2>1. (m + 1) - 1 = m
    BY <1>1
  <2> QED BY <2>1
<1> HIDE DEF lo, l
<1>7. Len(cells) = n + (m + 1)
  BY <1>1, <1>3, <1>5
<1>8. l = lo + ((m + 1) - 1)
  BY <1>1
<1>9. cells[n + (m + 1)] = [count |-> n - lo]
  <2>1. n - lo + 1 \in 1..Len(q) /\ l + (n - lo + 1) = n + (m + 1)
    BY <1>1, <1>3
  <2> QED BY <1>3, <1>5, <2>1
<1>10. ASSUME NEW j \in 1..(n - lo) PROVE cells[l + j] = E[lo + j]
  <2>1. j \in 1..Len(q)
    BY <1>1, <1>3
  <2> QED BY <1>3, <1>5, <2>1
<1>11. InBlock(cells, l, E, d, m + 1)
  BY <1>1, <1>6, <1>8, <1>9, <1>10 DEF InBlock
<1> QED BY <1>5, <1>7, <1>11 DEF l, c, IsWritten

LEMMA FlushedIsLaid ==
    ASSUME NEW b, NEW E, NEW n, NEW m, NEW cut, Laid(b, E, n, m, cut), b.current # << >>
    PROVE  Laid(FlushBlock(b), E, n, m + 1, CutAt(cut, m, n))
<1> DEFINE c == FlushBlock(b)
           d == CutAt(cut, m, n)
<1>1. /\ b \in Builders /\ E \in Seq(Entry) /\ n \in 0..Len(E) /\ Cuts(cut, m, n)
      /\ InBlocks(b, E, m, cut) /\ Rest(b, E, n, m, cut) /\ Firsts(b, E, n, m, cut)
      /\ b.keys = {E[j].key : j \in 1..n}
  BY DEF Laid
<1>2. m \in Nat /\ n \in Nat /\ m \in 0..m /\ cut[m] \in 0..n
  BY <1>1 DEF Cuts
<1>3. b.cells \in Seq(TableCells) /\ b.current \in Seq(Entry) /\ b.offsets \in Seq(Nat)
      /\ b.first \in Seq(Keys)
  BY <1>1 DEF Builders
<1>4. cut[m] < n /\ cut[m] # n
  <2>1. Len(b.current) # 0
    BY <1>3
  <2>2. Len(b.current) = n - cut[m]
    BY <1>1 DEF Rest
  <2> QED BY <1>2, <2>1, <2>2
<1>5. /\ Cuts(d, m + 1, n) /\ d[m + 1] = n /\ \A i \in 0..m : d[i] = cut[i]
  BY <1>1, <1>4, CutAtIs
<1> HIDE DEF d
<1>6. /\ c \in Builders /\ c.cells = b.cells \o Encode(b.current)
      /\ c.offsets = Append(b.offsets, Len(b.cells)) /\ c.current = << >>
      /\ c.keys = b.keys /\ c.first = b.first
  BY <1>1, FlushedFields
<1> HIDE DEF c
<1>7. /\ Len(c.cells) = n + (m + 1)
      /\ \A j \in 1..Len(b.cells) : c.cells[j] = b.cells[j]
      /\ InBlock(c.cells, Len(b.cells), E, d, m + 1)
  <2>1. PICK cells : cells = b.cells \o Encode(b.current)
    OBVIOUS
  <2>2. d[m] = cut[m] /\ Cuts(d, m + 1, n) /\ d[m + 1] = n
    BY <1>2, <1>5
  <2>3. IsWritten(cells, b, E, n, m, d)
    BY <2>1, <2>2, NewBlock
  <2>4. c.cells = cells
    BY <1>6, <2>1
  <2> QED BY <2>3, <2>4 DEF IsWritten
<1>8. /\ Len(b.cells) = cut[m] + m /\ Len(b.offsets) = m
      /\ \A i \in 1..m : InBlock(b.cells, b.offsets[i], E, cut, i)
  BY <1>1 DEF InBlocks
<1>9. ASSUME NEW i \in 1..m PROVE InBlock(c.cells, b.offsets[i], E, d, i)
  <2>1. InBlock(c.cells, b.offsets[i], E, cut, i)
    <3>1. \A j \in 1..(cut[m] + m) : c.cells[j] = b.cells[j]
      BY <1>7, <1>8
    <3> QED BY <1>1, <1>8, <3>1, BlocksStay
  <2>2. d[i] = cut[i] /\ d[i - 1] = cut[i - 1]
    <3>1. i \in 0..m /\ i - 1 \in 0..m
      BY <1>2
    <3> QED BY <1>5, <3>1
  <2> QED BY <2>1, <2>2 DEF InBlock
<1>10. InBlocks(c, E, m + 1, d)
  <2>1. Len(c.offsets) = m + 1 /\ c.offsets[m + 1] = Len(b.cells)
        /\ \A i \in 1..m : c.offsets[i] = b.offsets[i]
    BY <1>3, <1>6, <1>8
  <2>2. ASSUME NEW i \in 1..(m + 1) PROVE InBlock(c.cells, c.offsets[i], E, d, i)
    <3>1. CASE i = m + 1
      BY <1>7, <2>1, <3>1
    <3>2. CASE i # m + 1
      <4>1. i \in 1..m
        BY <1>2, <3>2
      <4> QED BY <1>9, <2>1, <4>1
    <3> QED BY <3>1, <3>2
  <2> QED BY <1>5, <1>7, <2>1, <2>2 DEF InBlocks
<1>11. Rest(c, E, n, m + 1, d)
  <2>1. Len(c.current) = 0 /\ n - d[m + 1] = 0
    BY <1>2, <1>5, <1>6
  <2>2. \A j \in 1..0 : FALSE
    OBVIOUS
  <2> QED BY <2>1, <2>2 DEF Rest
<1>12. Firsts(c, E, n, m + 1, d)
  <2>1. /\ Len(b.first) = m + 1
        /\ \A i \in 1..(m + 1) : b.first[i] = E[cut[i - 1] + 1].key
    BY <1>1, <1>4 DEF Firsts
  <2>2. \A i \in 1..(m + 1) : i - 1 \in 0..m
    BY <1>2
  <2>3. \A i \in 1..(m + 1) : d[i - 1] = cut[i - 1]
    BY <1>5, <2>2
  <2>4. \A i \in 1..(m + 1) : c.first[i] = E[d[i - 1] + 1].key
    BY <1>6, <2>1, <2>3
  <2>5. Len(c.first) = m + 1
    BY <1>6, <2>1
  <2> QED BY <1>5, <2>4, <2>5 DEF Firsts
<1>13. Laid(c, E, n, m + 1, d)
  BY <1>1, <1>5, <1>6, <1>10, <1>11, <1>12 DEF Laid
<1> QED BY <1>13 DEF c, d

\* A builder that adds an entry holds that entry, too.
IsLaid(b, E, n) == \E m, cut : Laid(b, E, n, m, cut)

LEMMA AddedIsLaid ==
    ASSUME NEW b, NEW E, NEW n, IsLaid(b, E, n), n < Len(E)
    PROVE  IsLaid(AddEntry(b, E[n + 1]), E, n + 1)
<1>1. PICK m, cut : Laid(b, E, n, m, cut)
  BY DEF IsLaid
<1> DEFINE c == Taken(b, E[n + 1])
<1>2. Laid(c, E, n + 1, m, cut) /\ c.current # << >>
  BY <1>1, TakenIsLaid
<1>3. AddEntry(b, E[n + 1]) = IF c.size >= BlockSize THEN FlushBlock(c) ELSE c
  BY DEF AddEntry, Taken
<1> HIDE DEF c
<1>4. Laid(FlushBlock(c), E, n + 1, m + 1, CutAt(cut, m, n + 1))
  BY <1>2, FlushedIsLaid
<1> QED BY <1>2, <1>3, <1>4 DEF IsLaid

AddRun(f, E) ==
    f[0] = NewBuilder /\ \A n \in 1..Len(E) : f[n] = AddEntry(f[n - 1], E[n])

LEMMA AddEntryStays ==
    ASSUME NEW b \in Builders, NEW e \in Entry
    PROVE  AddEntry(b, e) \in Builders
<1> DEFINE c == Taken(b, e)
<1>1. c \in Builders /\ c.current = Append(b.current, e)
  BY TakenFields
<1>2. AddEntry(b, e) = IF c.size >= BlockSize THEN FlushBlock(c) ELSE c
  BY DEF AddEntry, Taken
<1>3. c.current # << >>
  <2>1. b.current \in Seq(Entry)
    BY DEF Builders
  <2>2. c.current = Append(b.current, e)
    BY <1>1
  <2> HIDE DEF c
  <2>3. Len(c.current) = Len(b.current) + 1 /\ Len(b.current) \in Nat
    BY <2>1, <2>2
  <2> QED BY <2>3
<1> HIDE DEF c
<1>4. FlushBlock(c) \in Builders
  BY <1>1, <1>3, FlushedFields
<1> QED BY <1>1, <1>2, <1>4

LEMMA AddedRuns ==
    ASSUME NEW E \in Seq(Entry)
    PROVE  AddRun(Added(E), E)
<1> DEFINE N == Len(E)
           G == [n \in 1..N |-> [b \in Builders |-> AddEntry(b, E[n])]]
           Body(f, n) == IF n = 0 THEN NewBuilder ELSE AddEntry(f[n - 1], E[n])
           Loop(f) == f = [n \in 0..N |-> Body(f, n)]
           h == CHOOSE f : Loop(f)
<1>1. N \in Nat /\ \A n \in 1..N : E[n] \in Entry
  OBVIOUS
<1>2. Added(E) = h
  BY DEF Added
<1>3. \A f : Body(f, 0) = NewBuilder
  OBVIOUS
<1>4. \A f : \A n \in 1..N : Body(f, n) = AddEntry(f[n - 1], E[n])
  BY <1>1
<1>5. NewBuilder \in Builders
  BY NewIsLaid
<1> HIDE DEF N, Body
<1>6. \A n \in 1..N : \A b \in Builders : G[n][b] = AddEntry(b, E[n])
  OBVIOUS
<1>7. G \in StepMaps(N, Builders)
  <2>1. \A n \in 1..N : \A b \in Builders : AddEntry(b, E[n]) \in Builders
    BY <1>1, AddEntryStays
  <2> QED BY <2>1 DEF StepMaps
<1> HIDE DEF G
<1>8. PICK f : StepRun(f, N, Builders, NewBuilder, G)
  BY <1>1, <1>5, <1>7, StepsExist
<1>9. /\ f \in [0..N -> Builders] /\ f[0] = NewBuilder
      /\ \A n \in 1..N : f[n] = G[n][f[n - 1]]
  BY <1>8 DEF StepRun
<1>10. \A n \in 0..N : f[n] = Body(f, n)
  <2> SUFFICES ASSUME NEW n \in 0..N PROVE f[n] = Body(f, n)
    OBVIOUS
  <2>1. CASE n = 0
    BY <1>3, <1>9, <2>1
  <2>2. CASE n # 0
    <3>1. n \in 1..N /\ n - 1 \in 0..N
      BY <1>1, <2>2
    <3>2. PICK b \in Builders : b = f[n - 1]
      BY <1>9, <3>1
    <3>3. f[n] = G[n][b]
      BY <1>9, <3>1, <3>2
    <3>4. Body(f, n) = AddEntry(b, E[n])
      BY <1>4, <3>1, <3>2
    <3> QED BY <1>6, <3>1, <3>3, <3>4
  <2> QED BY <2>1, <2>2
<1>11. Loop(f)
  BY <1>9, <1>10
<1>12. Loop(h)
  BY <1>11
<1> HIDE DEF h
<1>13. \A n \in 0..N : h[n] = Body(h, n)
  BY <1>12
<1>14. h[0] = NewBuilder /\ \A n \in 1..N : h[n] = AddEntry(h[n - 1], E[n])
  <2>1. 0 \in 0..N /\ \A n \in 1..N : n \in 0..N
    BY <1>1
  <2> QED BY <1>3, <1>4, <1>13, <2>1
<1> QED BY <1>2, <1>14 DEF AddRun, N

\* In the end all entries of E are in the builder.
LEMMA AllAreLaid ==
    ASSUME NEW E \in Seq(Entry)
    PROVE  IsLaid(Added(E)[Len(E)], E, Len(E))
<1> DEFINE N == Len(E)
           f == Added(E)
           S == {n \in 0..N : IsLaid(f[n], E, n)}
<1>1. N \in Nat
  OBVIOUS
<1>2. f[0] = NewBuilder /\ \A n \in 1..N : f[n] = AddEntry(f[n - 1], E[n])
  BY AddedRuns DEF AddRun
<1> HIDE DEF f
<1>3. 0 \in S
  <2>1. IsLaid(NewBuilder, E, 0)
    BY NewIsLaid DEF IsLaid
  <2> QED BY <1>1, <1>2, <2>1
<1>4. ASSUME NEW n \in 0..N, n < N, n \in S PROVE n + 1 \in S
  <2>1. n + 1 \in 1..N /\ (n + 1) - 1 = n /\ n + 1 \in 0..N
    BY <1>1, <1>4
  <2>2. f[n + 1] = AddEntry(f[n], E[n + 1])
    BY <1>2, <2>1
  <2>3. IsLaid(AddEntry(f[n], E[n + 1]), E, n + 1)
    BY <1>4, AddedIsLaid
  <2> QED BY <2>1, <2>2, <2>3
<1> HIDE DEF S
<1>5. \A n \in 0..N : n \in S
  BY <1>1, <1>3, <1>4, Climbing
<1>6. N \in S
  BY <1>1, <1>5
<1> QED BY <1>6 DEF S, f

-----------------------------------------------------------------------------
(* A table that is opened                                                  *)

KeysIn(E) == {E[j].key : j \in 1..Len(E)}

\* What a reader knows of a file of the entries E in m blocks.
Opened(r, E, m, cut) ==
    /\ E \in Seq(Entry) /\ Cuts(cut, m, Len(E)) /\ cut[m] = Len(E)
    /\ \E U : r.file \in Seq(U)
    /\ r.filterAt = Len(E) + m /\ Len(r.file) = Len(E) + m + 3
    /\ r.offsets \in Seq(Nat) /\ Len(r.offsets) = m
    /\ \A i \in 1..m : InBlock(r.file, r.offsets[i], E, cut, i)
    /\ Len(r.first) = m /\ \A i \in 1..m : r.first[i] = E[cut[i - 1] + 1].key
    /\ r.filter = BuildFilter(KeysIn(E))

IsReaderOf(r, file, cells, f, i, o) ==
    /\ r.file = file /\ r.filter = f /\ r.first = i /\ r.offsets = o
    /\ r.filterAt = Len(cells)
    /\ \E U : file \in Seq(U)
    /\ Len(file) = Len(cells) + 3
    /\ \A j \in 1..Len(cells) : file[j] = cells[j]

\* The three cells behind the blocks.
LEMMA OpenedFile ==
    ASSUME NEW cells \in Seq(TableCells), NEW f, NEW i, NEW o, NEW file,
           file = cells \o << [filter |-> f], [first |-> i, offsets |-> o],
                              [filterAt |-> Len(cells), indexAt |-> Len(cells) + 1] >>,
           NEW r, r = OpenTable(file)
    PROVE  IsReaderOf(r, file, cells, f, i, o)
<1> DEFINE n == Len(cells)
           x == [filter |-> f]
           y == [first |-> i, offsets |-> o]
           z == [filterAt |-> n, indexAt |-> n + 1]
           U == TableCells \cup {x, y, z}
           q == <<x, y, z>>
<1>1. n \in Nat
  OBVIOUS
<1>2. file = cells \o q
  OBVIOUS
<1>3. /\ x.filter = f /\ y.first = i /\ y.offsets = o /\ z.filterAt = n /\ z.indexAt = n + 1
  OBVIOUS
<1>4. cells \in Seq(U) /\ q \in Seq(U) /\ Len(q) = 3 /\ q[1] = x /\ q[2] = y /\ q[3] = z
  <2>1. TableCells \subseteq U /\ x \in U /\ y \in U /\ z \in U
    OBVIOUS
  <2> HIDE DEF x, y, z, U
  <2> QED BY <2>1
<1> HIDE DEF x, y, z, U, q
<1>5. /\ file \in Seq(U) /\ Len(file) = n + 3
      /\ \A j \in 1..n : file[j] = cells[j]
      /\ \A j \in 1..3 : file[n + j] = q[j]
  <2> HIDE DEF n
  <2>1. n = Len(cells)
    BY DEF n
  <2> QED BY <1>1, <1>2, <1>4, <2>1
<1>6. file[n + 1] = x /\ file[(n + 1) + 1] = y /\ file[Len(file)] = z
  <2>1. (n + 1) + 1 = n + 2 /\ Len(file) = n + 3
    BY <1>1, <1>5
  <2> QED BY <1>4, <1>5, <2>1
<1>7. r = [file |-> file, filter |-> file[n + 1].filter,
           first |-> file[(n + 1) + 1].first, offsets |-> file[(n + 1) + 1].offsets,
           filterAt |-> n]
  BY <1>3, <1>6, ZenonT(30) DEF OpenTable
<1>8. r.file = file /\ r.filterAt = n
  <2> HIDE DEF n
  <2> QED BY ONLY <1>7
<1>9. r.filter = f /\ r.first = i /\ r.offsets = o
  BY <1>3, <1>6, <1>7
<1>10. \E T : file \in Seq(T)
  BY <1>5
<1>11. Len(file) = n + 3 /\ \A j \in 1..n : file[j] = cells[j]
  BY <1>5
<1> QED BY <1>8, <1>9, <1>10, <1>11 DEF n, IsReaderOf

LEMMA FinishedIsOpened ==
    ASSUME NEW b, NEW E, IsLaid(b, E, Len(E))
    PROVE  \E m, cut : Opened(OpenTable(Finish(b)), E, m, cut)
<1> DEFINE N == Len(E)
           c == FlushBlock(b)
           file == Finish(b)
           r == OpenTable(file)
<1>1. PICK m, cut : Laid(c, E, N, m, cut) /\ c.current = << >>
  <2>1. PICK m, cut : Laid(b, E, N, m, cut)
    BY DEF IsLaid
  <2>2. CASE b.current = << >>
    BY <2>1, <2>2 DEF FlushBlock
  <2>3. CASE b.current # << >>
    <3>1. Laid(FlushBlock(b), E, N, m + 1, CutAt(cut, m, N))
      BY <2>1, <2>3, FlushedIsLaid
    <3>2. FlushBlock(b).current = << >>
      BY <2>1, <2>3, FlushedFields DEF Laid
    <3> QED BY <3>1, <3>2
  <2> QED BY <2>2, <2>3
<1>2. file = c.cells \o << [filter |-> BuildFilter(c.keys)],
                           [first |-> c.first, offsets |-> c.offsets],
                           [filterAt |-> Len(c.cells), indexAt |-> Len(c.cells) + 1] >>
  BY DEF Finish
<1> HIDE DEF c, file
<1>3. /\ c \in Builders /\ E \in Seq(Entry) /\ N \in Nat /\ Cuts(cut, m, N)
      /\ InBlocks(c, E, m, cut) /\ Rest(c, E, N, m, cut) /\ Firsts(c, E, N, m, cut)
      /\ c.keys = {E[j].key : j \in 1..N}
  BY <1>1 DEF Laid
<1>4. c.cells \in Seq(TableCells)
  BY <1>3 DEF Builders
<1>5. r = OpenTable(file)
  OBVIOUS
<1> HIDE DEF r
<1>6. /\ r.file = file /\ r.filter = BuildFilter(c.keys) /\ r.first = c.first
      /\ r.offsets = c.offsets
      /\ r.filterAt = Len(c.cells)
      /\ \E U : file \in Seq(U)
      /\ Len(file) = Len(c.cells) + 3
      /\ \A j \in 1..Len(c.cells) : file[j] = c.cells[j]
  <2>1. IsReaderOf(r, file, c.cells, BuildFilter(c.keys), c.first, c.offsets)
    BY <1>2, <1>4, <1>5, OpenedFile
  <2> QED BY <2>1 DEF IsReaderOf
<1>7. cut[m] = N /\ m \in Nat
  <2>1. Len(c.current) = 0 /\ Len(c.current) = N - cut[m]
    BY <1>1, <1>3 DEF Rest
  <2>2. cut[m] \in 0..N /\ m \in Nat
    BY <1>3 DEF Cuts
  <2> QED BY <1>3, <2>1, <2>2
<1>8. /\ Len(c.cells) = cut[m] + m /\ Len(c.offsets) = m
      /\ \A i \in 1..m : InBlock(c.cells, c.offsets[i], E, cut, i)
  BY <1>3 DEF InBlocks
<1>9. \A i \in 1..m : InBlock(r.file, r.offsets[i], E, cut, i)
  <2> SUFFICES ASSUME NEW i \in 1..m PROVE InBlock(r.file, r.offsets[i], E, cut, i)
    OBVIOUS
  <2>1. InBlock(c.cells, c.offsets[i], E, cut, i)
    BY <1>8
  <2>2. \A j \in 1..(cut[m] + m) : file[j] = c.cells[j]
    BY <1>6, <1>8
  <2>3. InBlock(file, c.offsets[i], E, cut, i)
    BY <1>3, <2>1, <2>2, BlocksStay
  <2> QED BY <1>6, <2>3
<1>10. Len(c.first) = m /\ \A i \in 1..m : c.first[i] = E[cut[i - 1] + 1].key
  BY <1>3, <1>7 DEF Firsts
<1>11. Opened(r, E, m, cut)
  <2>1. BuildFilter(c.keys) = BuildFilter(KeysIn(E))
    BY <1>3 DEF KeysIn
  <2>2. Len(c.cells) = N + m /\ Len(c.cells) + 3 = N + m + 3
    BY <1>7, <1>8
  <2>3. c.offsets \in Seq(Nat)
    BY <1>3 DEF Builders
  <2> QED BY <1>3, <1>6, <1>7, <1>8, <1>9, <1>10, <2>1, <2>2, <2>3 DEF Opened
<1> QED BY <1>11 DEF r, file

LEMMA TableIsOpened ==
    ASSUME NEW E \in Seq(Entry)
    PROVE  \E m, cut : Opened(OpenTable(TableFile(E)), E, m, cut)
BY AllAreLaid, FinishedIsOpened DEF TableFile

-----------------------------------------------------------------------------
(* What a reader gets from a table                                         *)

\* The entries behind lo up to hi.
IsPart(q, E, lo, hi) ==
    q \in Seq(Entry) /\ Len(q) = hi - lo /\ \A j \in 1..(hi - lo) : q[j] = E[lo + j]

LEMMA BlockIsPart ==
    ASSUME NEW r, NEW E, NEW m, NEW cut, Opened(r, E, m, cut), NEW i \in 1..m
    PROVE  IsPart(Decode(RawBlock(r, i)), E, cut[i - 1], cut[i])
<1> DEFINE lo == cut[i - 1]
           hi == cut[i]
           raw == RawBlock(r, i)
           N == Len(E)
<1>1. /\ m \in Nat /\ N \in Nat /\ cut \in [0..m -> 0..N] /\ E \in Seq(Entry) /\ cut[m] = N
      /\ \A j, k \in 0..m : j < k => cut[j] < cut[k]
  BY DEF Opened, Cuts
<1>2. i \in 0..m /\ i - 1 \in 0..m /\ m \in 0..m /\ i \in Nat /\ i - 1 < i
  BY <1>1
<1>3. lo \in Nat /\ hi \in Nat /\ lo < hi /\ hi <= N
  <2>1. lo \in 0..N /\ hi \in 0..N /\ lo < hi
    BY <1>1, <1>2
  <2> QED BY <1>1, <2>1
<1>4. /\ r.offsets[i] = lo + (i - 1)
      /\ \A j \in 1..(hi - lo) : r.file[r.offsets[i] + j] = E[lo + j]
      /\ r.file[hi + i] = [count |-> hi - lo]
  BY DEF Opened, InBlock
<1>5. (IF i < Len(r.offsets) THEN r.offsets[i + 1] ELSE r.filterAt) = hi + i
  <2>1. CASE i < m
    <3>1. i + 1 \in 1..m /\ (i + 1) - 1 = i
      BY <1>1, <2>1
    <3>2. r.offsets[i + 1] = cut[(i + 1) - 1] + ((i + 1) - 1)
      BY <3>1 DEF Opened, InBlock
    <3>3. Len(r.offsets) = m
      BY DEF Opened
    <3> QED BY <2>1, <3>1, <3>2, <3>3
  <2>2. CASE ~ (i < m)
    <3>1. i = m
      BY <1>1, <2>2
    <3>2. Len(r.offsets) = m /\ r.filterAt = N + m
      BY DEF Opened
    <3> QED BY <1>1, <2>2, <3>1, <3>2
  <2> QED BY <2>1, <2>2
<1>6. raw = SubSeq(r.file, lo + i, hi + i)
  <2>1. r.offsets[i] + 1 = lo + i
    BY <1>2, <1>3, <1>4
  <2>2. raw = SubSeq(r.file, r.offsets[i] + 1,
                     IF i < Len(r.offsets) THEN r.offsets[i + 1] ELSE r.filterAt)
    BY DEF RawBlock
  <2> HIDE DEF raw, lo, hi
  <2> QED BY <1>5, <2>1, <2>2
<1>7. PICK U : r.file \in Seq(U)
  BY DEF Opened
<1>8. Len(r.file) = N + m + 3
  BY DEF Opened
<1> HIDE DEF lo, hi, raw, N
<1>9. /\ raw \in Seq(U) /\ Len(raw) = hi - lo + 1
      /\ \A j \in 1..(hi - lo + 1) : raw[j] = r.file[lo + i + j - 1]
  <2>1. lo + i \in 1..Len(r.file) /\ hi + i \in 1..Len(r.file) /\ lo + i <= hi + i
    BY <1>1, <1>2, <1>3, <1>8
  <2>2. Len(raw) = (hi + i) - (lo + i) + 1
    BY <1>6, <1>7, <2>1
  <2>3. \A j \in 1..((hi + i) - (lo + i) + 1) : raw[j] = r.file[lo + i + j - 1]
    BY <1>6, <1>7, <2>1
  <2>4. raw \in Seq(U)
    BY <1>6, <1>7, <2>1
  <2>5. (hi + i) - (lo + i) + 1 = hi - lo + 1
    BY <1>2, <1>3
  <2> QED BY <2>2, <2>3, <2>4, <2>5
<1>10. raw[Len(raw)].count = hi - lo
  <2>1. hi - lo + 1 \in 1..(hi - lo + 1) /\ lo + i + (hi - lo + 1) - 1 = hi + i
    BY <1>2, <1>3
  <2>2. raw[Len(raw)] = r.file[hi + i]
    BY <1>9, <2>1
  <2> QED BY <1>4, <2>2
<1>11. PICK q : q = Decode(raw)
  OBVIOUS
<1>12. q = SubSeq(raw, 1, hi - lo)
  BY <1>10, <1>11 DEF Decode
<1>13. Len(q) = hi - lo /\ q \in Seq(U) /\ \A j \in 1..(hi - lo) : q[j] = raw[j]
  <2>1. hi - lo \in Nat /\ hi - lo <= Len(raw)
    BY <1>3, <1>9
  <2> QED BY <1>9, <1>12, <2>1
<1>14. \A j \in 1..(hi - lo) : q[j] = E[lo + j]
  <2> SUFFICES ASSUME NEW j \in 1..(hi - lo) PROVE q[j] = E[lo + j]
    OBVIOUS
  <2>1. j \in 1..(hi - lo + 1) /\ lo + i + j - 1 = (lo + (i - 1)) + j
    BY <1>2, <1>3
  <2>2. raw[j] = r.file[r.offsets[i] + j]
    BY <1>4, <1>9, <2>1
  <2> QED BY <1>4, <1>13, <2>2
<1>15. q \in Seq(Entry)
  <2>1. \A j \in 1..(hi - lo) : q[j] \in Entry
    <3>1. \A j \in 1..(hi - lo) : lo + j \in 1..Len(E)
      BY <1>3 DEF N
    <3> QED BY <1>1, <1>14, <3>1
  <2> QED BY <1>3, <1>13, <2>1
<1> QED BY <1>11, <1>13, <1>14, <1>15 DEF IsPart, lo, hi, raw

ReadRun(f, r) ==
    f[0] = << >> /\ \A n \in 1..Len(r.offsets) : f[n] = f[n - 1] \o Decode(RawBlock(r, n))

LEMMA ReadUpToRuns ==
    ASSUME NEW r, Len(r.offsets) \in Nat,
           \A i \in 1..Len(r.offsets) : Decode(RawBlock(r, i)) \in Seq(Entry)
    PROVE  ReadRun(ReadUpTo(r), r)
<1> DEFINE N == Len(r.offsets)
           S == Seq(Entry)
           D(n) == Decode(RawBlock(r, n))
           G == [n \in 1..N |-> [q \in S |-> q \o D(n)]]
           Body(f, n) == IF n = 0 THEN << >> ELSE f[n - 1] \o Decode(RawBlock(r, n))
           Loop(f) == f = [n \in 0..N |-> Body(f, n)]
           h == CHOOSE f : Loop(f)
<1>1. N \in Nat /\ \A n \in 1..N : D(n) \in Seq(Entry)
  OBVIOUS
<1>2. ReadUpTo(r) = h
  BY DEF ReadUpTo
<1>3. \A f : Body(f, 0) = << >>
  OBVIOUS
<1>4. \A f : \A n \in 1..N : Body(f, n) = f[n - 1] \o D(n)
  BY <1>1
<1>5. << >> \in S
  OBVIOUS
<1> HIDE DEF N, Body, D
<1>6. \A n \in 1..N : \A q \in S : G[n][q] = q \o D(n)
  OBVIOUS
<1>7. G \in StepMaps(N, S)
  <2>1. \A n \in 1..N : \A q \in S : q \o D(n) \in S
    BY <1>1
  <2> HIDE DEF S
  <2> QED BY <2>1 DEF StepMaps
<1> HIDE DEF G, S
<1>8. PICK f : StepRun(f, N, S, << >>, G)
  BY <1>1, <1>5, <1>7, StepsExist
<1>9. f \in [0..N -> S] /\ f[0] = << >> /\ \A n \in 1..N : f[n] = G[n][f[n - 1]]
  BY <1>8 DEF StepRun
<1>10. \A n \in 0..N : f[n] = Body(f, n)
  <2> SUFFICES ASSUME NEW n \in 0..N PROVE f[n] = Body(f, n)
    OBVIOUS
  <2>1. CASE n = 0
    BY <1>3, <1>9, <2>1
  <2>2. CASE n # 0
    <3>1. n \in 1..N /\ n - 1 \in 0..N
      BY <1>1, <2>2
    <3>2. PICK q \in S : q = f[n - 1]
      BY <1>9, <3>1
    <3>3. f[n] = G[n][q]
      BY <1>9, <3>1, <3>2
    <3>4. Body(f, n) = q \o D(n)
      BY <1>4, <3>1, <3>2
    <3> QED BY <1>6, <3>1, <3>3, <3>4
  <2> QED BY <2>1, <2>2
<1>11. Loop(f)
  BY <1>9, <1>10
<1>12. Loop(h)
  BY <1>11
<1> HIDE DEF h
<1>13. \A n \in 0..N : h[n] = Body(h, n)
  BY <1>12
<1>14. h[0] = << >> /\ \A n \in 1..N : h[n] = h[n - 1] \o D(n)
  <2>1. 0 \in 0..N /\ \A n \in 1..N : n \in 0..N
    BY <1>1
  <2> QED BY <1>3, <1>4, <1>13, <2>1
<1> QED BY <1>2, <1>14 DEF ReadRun, N, D

\* A start of E and the part behind it are a longer start.
LEMMA StartGrows ==
    ASSUME NEW E \in Seq(Entry), NEW lo \in Nat, NEW hi \in Nat, lo <= hi, hi <= Len(E),
           NEW q, IsStart(q, Entry, E, lo), NEW p, IsPart(p, E, lo, hi)
    PROVE  IsStart(q \o p, Entry, E, hi)
<1>1. q \in Seq(Entry) /\ Len(q) = lo /\ \A j \in 1..lo : q[j] = E[j]
  BY DEF IsStart
<1>2. p \in Seq(Entry) /\ Len(p) = hi - lo /\ \A j \in 1..(hi - lo) : p[j] = E[lo + j]
  BY DEF IsPart
<1>3. PICK w : w = q \o p
  OBVIOUS
<1>4. /\ w \in Seq(Entry) /\ Len(w) = Len(q) + Len(p)
      /\ \A j \in 1..Len(q) : w[j] = q[j]
      /\ \A j \in 1..Len(p) : w[Len(q) + j] = p[j]
  BY <1>1, <1>2, <1>3
<1>5. Len(w) = hi
  BY <1>1, <1>2, <1>4
<1>6. ASSUME NEW j \in 1..hi PROVE w[j] = E[j]
  <2>1. CASE j <= lo
    BY <1>1, <1>4, <2>1
  <2>2. CASE ~ (j <= lo)
    <3>1. j - lo \in 1..(hi - lo) /\ lo + (j - lo) = j
      BY <2>2
    <3> QED BY <1>1, <1>2, <1>4, <3>1
  <2> QED BY <2>1, <2>2
<1> QED BY <1>3, <1>4, <1>5, <1>6 DEF IsStart

\* Block after block gives all entries back.
LEMMA AllIsRead ==
    ASSUME NEW r, NEW E, NEW m, NEW cut, Opened(r, E, m, cut)
    PROVE  ReadAllEntries(r) = E
<1> DEFINE f == ReadUpTo(r)
           S == {n \in 0..m : IsStart(f[n], Entry, E, cut[n])}
<1>1. /\ m \in Nat /\ Len(E) \in Nat /\ cut \in [0..m -> 0..Len(E)] /\ E \in Seq(Entry)
      /\ cut[m] = Len(E) /\ cut[0] = 0
      /\ \A j, k \in 0..m : j < k => cut[j] < cut[k]
      /\ Len(r.offsets) = m
  BY DEF Opened, Cuts
<1>2. \A i \in 1..m : IsPart(Decode(RawBlock(r, i)), E, cut[i - 1], cut[i])
  BY BlockIsPart
<1>3. ReadRun(f, r)
  <2>1. \A i \in 1..m : Decode(RawBlock(r, i)) \in Seq(Entry)
    BY <1>2 DEF IsPart
  <2> QED BY <1>1, <2>1, ReadUpToRuns
<1>4. f[0] = << >> /\ \A n \in 1..m : f[n] = f[n - 1] \o Decode(RawBlock(r, n))
  BY <1>1, <1>3 DEF ReadRun
<1>5. ReadAllEntries(r) = f[m]
  BY <1>1 DEF ReadAllEntries
<1> HIDE DEF f
<1>6. 0 \in S
  <2>1. << >> \in Seq(Entry) /\ Len(<< >>) = 0 /\ \A j \in 1..0 : FALSE
    OBVIOUS
  <2>2. IsStart(<< >>, Entry, E, 0)
    BY <2>1 DEF IsStart
  <2>3. f[0] = << >> /\ cut[0] = 0 /\ 0 \in 0..m
    BY <1>1, <1>4
  <2> QED BY <2>2, <2>3
<1>7. ASSUME NEW n \in 0..m, n < m, n \in S PROVE n + 1 \in S
  <2>1. n + 1 \in 1..m /\ (n + 1) - 1 = n /\ n + 1 \in 0..m /\ n < n + 1
    BY <1>1, <1>7
  <2> DEFINE lo == cut[n]
             hi == cut[n + 1]
  <2>2. lo \in Nat /\ hi \in Nat /\ lo <= hi /\ hi <= Len(E)
    <3>1. lo \in 0..Len(E) /\ hi \in 0..Len(E) /\ lo < hi
      BY <1>1, <2>1
    <3> QED BY <1>1, <3>1
  <2>3. PICK p : p = Decode(RawBlock(r, n + 1))
    OBVIOUS
  <2>4. IsPart(p, E, lo, hi) /\ f[n + 1] = f[n] \o p
    BY <1>2, <1>4, <2>1, <2>3
  <2>5. IsStart(f[n], Entry, E, lo)
    BY <1>7
  <2> HIDE DEF lo, hi
  <2>6. IsStart(f[n] \o p, Entry, E, hi)
    BY <1>1, <2>2, <2>4, <2>5, StartGrows
  <2> QED BY <2>1, <2>4, <2>6 DEF hi
<1> HIDE DEF S
<1>8. \A n \in 0..m : n \in S
  BY <1>1, <1>6, <1>7, Climbing
<1>9. IsStart(f[m], Entry, E, Len(E))
  <2>1. m \in 0..m
    BY <1>1
  <2> QED BY <1>1, <1>8, <2>1 DEF S
<1>10. f[m] = E
  BY <1>1, <1>9, SeqEqual DEF IsStart
<1> QED BY <1>5, <1>10

LEMMA EntryKeys ==
    ASSUME NEW E \in Seq(Entry)
    PROVE  \A j \in 1..Len(E) : E[j].key \in Keys /\ E[j].key \in Int
<1> SUFFICES ASSUME NEW j \in 1..Len(E) PROVE E[j].key \in Keys /\ E[j].key \in Int
  OBVIOUS
<1>1. E[j] \in Entry
  OBVIOUS
<1>2. E[j].key \in Keys
  BY <1>1 DEF Entry
<1> QED BY <1>2, KeysAreFinite

\* The filter says yes to every key of the table.
LEMMA FilterHasAll ==
    ASSUME NEW E, NEW j \in 1..Len(E)
    PROVE  MayContain(BuildFilter(KeysIn(E)), E[j].key)
<1> DEFINE keys == KeysIn(E)
           k == E[j].key
           wanted == IF Cardinality(keys) * BitsPerKey < MinBits THEN MinBits
                     ELSE Cardinality(keys) * BitsPerKey
           bits == 8 * ((wanted + 7) \div 8)
           set == UNION {BitPositions(l, HashCount, bits) : l \in keys}
           f == BuildFilter(keys)
<1>1. k \in keys
  BY DEF KeysIn
<1> HIDE DEF keys, k
<1>2. f = [bits |-> bits, hashes |-> HashCount, set |-> set]
  BY <1>1 DEF BuildFilter
<1> HIDE DEF f, bits
<1>3. f.bits = bits /\ f.hashes = HashCount /\ f.set = set
  BY <1>2
<1>4. BitPositions(k, HashCount, bits) \subseteq set
  BY <1>1
<1> HIDE DEF set
<1>5. MayContain(f, k)
  BY <1>3, <1>4 DEF MayContain
<1> QED BY <1>5 DEF f, keys, k

\* The last block that starts at or below k, or the first one.
IsBlockFor(i, r, m, k) ==
    /\ i \in 1..m
    /\ \A j \in 1..m : j > i => k < r.first[j]
    /\ i > 1 => r.first[i] <= k

LEMMA BlockForIs ==
    ASSUME NEW r, NEW m \in Nat \ {0}, Len(r.first) = m,
           \A j \in 1..m : r.first[j] \in Int,
           \A i, j \in 1..m : i < j => r.first[i] < r.first[j],
           NEW k \in Int
    PROVE  IsBlockFor(BlockFor(r, k), r, m, k)
<1> DEFINE S == {i \in 1..m : r.first[i] <= k}
           Out == {i \in 1..(m + 1) : i \notin S}
<1>1. m + 1 \in Out
  OBVIOUS
<1>2. PICK u \in Out : \A x \in Out : u <= x
  <2>1. Out \in SUBSET Nat /\ Out # {}
    BY <1>1
  <2> HIDE DEF Out
  <2> QED BY <2>1, LeastExists
<1>3. u \in 1..(m + 1) /\ u \notin S /\ u \in Nat
  OBVIOUS
<1>4. S = 1..(u - 1)
  <2>1. ASSUME NEW i \in 1..(u - 1) PROVE i \in S
    <3>1. i \in 1..(m + 1) /\ ~ (u <= i)
      BY <1>3
    <3>2. i \notin Out
      BY <1>2, <3>1
    <3> QED BY <3>1, <3>2
  <2>2. ASSUME NEW i \in S PROVE i \in 1..(u - 1)
    <3>1. i \in 1..m /\ r.first[i] <= k
      OBVIOUS
    <3>2. i < u
      <4>1. SUFFICES ASSUME u < i PROVE FALSE
        BY <1>3, <3>1
      <4>2. u \in 1..m /\ r.first[u] < r.first[i]
        BY <1>3, <3>1, <4>1
      <4>3. r.first[u] <= k
        <5>1. r.first[u] \in Int /\ r.first[i] \in Int
          BY <3>1, <4>2
        <5> QED BY <3>1, <4>2, <5>1
      <4> QED BY <1>3, <4>2, <4>3
    <3> QED BY <1>3, <3>1, <3>2
  <2> HIDE DEF S
  <2> QED BY <2>1, <2>2
<1>5. Cardinality(S) = u - 1
  <2>1. u - 1 \in Nat
    BY <1>3
  <2>2. Cardinality(1..(u - 1)) = u - 1
    BY <2>1, CountTo
  <2> QED BY <1>4, <2>2
<1>6. BlockFor(r, k) = IF u - 1 = 0 THEN 1 ELSE u - 1
  <2>1. BlockFor(r, k) = IF Cardinality(S) = 0 THEN 1 ELSE Cardinality(S)
    BY DEF BlockFor
  <2> HIDE DEF S
  <2> QED BY <1>5, <2>1
<1>7. ASSUME NEW j \in 1..m, j > BlockFor(r, k) PROVE k < r.first[j]
  <2>1. j \notin S
    BY <1>3, <1>4, <1>6, <1>7
  <2>2. r.first[j] \in Int
    OBVIOUS
  <2> QED BY <2>1, <2>2
<1>8. BlockFor(r, k) > 1 => r.first[BlockFor(r, k)] <= k
  <2>1. SUFFICES ASSUME BlockFor(r, k) > 1 PROVE BlockFor(r, k) \in S
    OBVIOUS
  <2> QED BY <1>3, <1>4, <1>6, <2>1
<1>9. BlockFor(r, k) \in 1..m
  BY <1>3, <1>6
<1> QED BY <1>7, <1>8, <1>9 DEF IsBlockFor

\* Entries by ascending key.
Climbs(E) == \A i, j \in 1..Len(E) : i < j => E[i].key < E[j].key

Ranges(N) == {g \in [low : 1..(N + 1), high : 1..(N + 1)] : g.low <= g.high}

LEMMA BisectedIs ==
    ASSUME NEW q, NEW k, NEW N \in Nat, NEW g \in Ranges(N)
    PROVE  /\ Bisected(q, k, g) \in Ranges(N)
           /\ g.low >= g.high => Bisected(q, k, g) = g
           /\ g.low < g.high =>
                \E mid \in g.low..(g.high - 1) :
                    IF q[mid].key < k
                      THEN Bisected(q, k, g).low = mid + 1 /\ Bisected(q, k, g).high = g.high
                      ELSE Bisected(q, k, g).low = g.low /\ Bisected(q, k, g).high = mid
<1> DEFINE low == g.low
           high == g.high
           mid == low + (high - low) \div 2
<1>1. low \in 1..(N + 1) /\ high \in 1..(N + 1) /\ low <= high
  BY DEF Ranges
<1>2. Bisected(q, k, g) = IF low >= high THEN g
                          ELSE IF q[mid].key < k THEN [low |-> mid + 1, high |-> high]
                          ELSE [low |-> low, high |-> mid]
  BY DEF Bisected
<1>3. low < high => mid \in low..(high - 1)
  BY <1>1
<1> HIDE DEF mid, low, high
<1>4. CASE low >= high
  BY <1>1, <1>2, <1>4 DEF low, high
<1>5. CASE low < high /\ q[mid].key < k
  <2>1. mid \in low..(high - 1) /\ ~ (low >= high)
    BY <1>1, <1>3, <1>5
  <2>2. Bisected(q, k, g) = [low |-> mid + 1, high |-> high]
    BY <1>2, <1>5, <2>1
  <2>3. mid + 1 \in 1..(N + 1) /\ mid + 1 <= high
    BY <1>1, <2>1
  <2>4. [low |-> mid + 1, high |-> high] \in Ranges(N)
    BY <1>1, <2>3 DEF Ranges
  <2> QED BY <1>5, <2>1, <2>2, <2>4 DEF low, high
<1>6. CASE low < high /\ ~ (q[mid].key < k)
  <2>1. mid \in low..(high - 1) /\ ~ (low >= high)
    BY <1>1, <1>3, <1>6
  <2>2. Bisected(q, k, g) = [low |-> low, high |-> mid]
    BY <1>2, <1>6, <2>1
  <2>3. mid \in 1..(N + 1) /\ low <= mid
    BY <1>1, <2>1
  <2>4. [low |-> low, high |-> mid] \in Ranges(N)
    BY <1>1, <2>3 DEF Ranges
  <2> QED BY <1>6, <2>1, <2>2, <2>4 DEF low, high
<1> QED BY <1>1, <1>4, <1>5, <1>6

BisectRun(f, q, k) ==
    /\ f[0] = [low |-> 1, high |-> Len(q) + 1]
    /\ \A n \in 1..Len(q) : f[n] = Bisected(q, k, f[n - 1])

LEMMA BisectionRuns ==
    ASSUME NEW q, Len(q) \in Nat, NEW k
    PROVE  BisectRun(Bisection(q, k), q, k)
<1> DEFINE N == Len(q)
           S == Ranges(N)
           b == [low |-> 1, high |-> Len(q) + 1]
           G == [n \in 1..N |-> [g \in S |-> Bisected(q, k, g)]]
           Body(f, n) == IF n = 0 THEN [low |-> 1, high |-> Len(q) + 1]
                         ELSE Bisected(q, k, f[n - 1])
           Loop(f) == f = [n \in 0..N |-> Body(f, n)]
           h == CHOOSE f : Loop(f)
<1>1. N \in Nat
  OBVIOUS
<1>2. Bisection(q, k) = h
  BY DEF Bisection
<1>3. \A f : Body(f, 0) = b
  OBVIOUS
<1>4. \A f : \A n \in 1..N : Body(f, n) = Bisected(q, k, f[n - 1])
  BY <1>1
<1>5. b \in S
  BY DEF Ranges
<1> HIDE DEF N, Body, S, b
<1>6. \A n \in 1..N : \A g \in S : G[n][g] = Bisected(q, k, g)
  OBVIOUS
<1>7. G \in StepMaps(N, S)
  <2>1. \A g \in S : Bisected(q, k, g) \in S
    BY <1>1, BisectedIs DEF S
  <2> QED BY <2>1 DEF StepMaps
<1> HIDE DEF G
<1>8. PICK f : StepRun(f, N, S, b, G)
  BY <1>1, <1>5, <1>7, StepsExist
<1>9. f \in [0..N -> S] /\ f[0] = b /\ \A n \in 1..N : f[n] = G[n][f[n - 1]]
  BY <1>8 DEF StepRun
<1>10. \A n \in 0..N : f[n] = Body(f, n)
  <2> SUFFICES ASSUME NEW n \in 0..N PROVE f[n] = Body(f, n)
    OBVIOUS
  <2>1. CASE n = 0
    BY <1>3, <1>9, <2>1
  <2>2. CASE n # 0
    <3>1. n \in 1..N /\ n - 1 \in 0..N
      BY <1>1, <2>2
    <3>2. PICK g \in S : g = f[n - 1]
      BY <1>9, <3>1
    <3>3. f[n] = G[n][g]
      BY <1>9, <3>1, <3>2
    <3>4. Body(f, n) = Bisected(q, k, g)
      BY <1>4, <3>1, <3>2
    <3> QED BY <1>6, <3>1, <3>3, <3>4
  <2> QED BY <2>1, <2>2
<1>11. Loop(f)
  BY <1>9, <1>10
<1>12. Loop(h)
  BY <1>11
<1> HIDE DEF h
<1>13. \A n \in 0..N : h[n] = Body(h, n)
  BY <1>12
<1>14. h[0] = b /\ \A n \in 1..N : h[n] = Bisected(q, k, h[n - 1])
  <2>1. 0 \in 0..N /\ \A n \in 1..N : n \in 0..N
    BY <1>1
  <2> QED BY <1>3, <1>4, <1>13, <2>1
<1> QED BY <1>2, <1>14 DEF BisectRun, N, b

\* All entries in front of the range are below k, none behind its start are, and the range
\* is shorter by one for each turn.
Narrowed(g, q, k, n) ==
    /\ g \in Ranges(Len(q)) /\ g.high - g.low <= Len(q) - n
    /\ \A j \in 1..Len(q) : j < g.low => q[j].key < k
    /\ \A j \in 1..Len(q) : g.high <= j => ~ (q[j].key < k)

LEMMA NarrowsOn ==
    ASSUME NEW q \in Seq(Entry), Climbs(q), NEW k \in Int, NEW n \in 0..Len(q), n < Len(q),
           NEW g, Narrowed(g, q, k, n)
    PROVE  Narrowed(Bisected(q, k, g), q, k, n + 1)
<1> DEFINE N == Len(q)
<1>1. N \in Nat /\ g \in Ranges(N) /\ g.high - g.low <= N - n
      /\ (\A j \in 1..N : j < g.low => q[j].key < k)
      /\ (\A j \in 1..N : g.high <= j => ~ (q[j].key < k))
  BY DEF Narrowed
<1>2. g.low \in 1..(N + 1) /\ g.high \in 1..(N + 1) /\ g.low <= g.high
  BY <1>1 DEF Ranges
<1>3. \A j \in 1..N : q[j].key \in Int
  BY EntryKeys
<1>4. \A i, j \in 1..N : i < j => q[i].key < q[j].key
  BY DEF Climbs
<1> HIDE DEF N
<1>5. PICK h : h = Bisected(q, k, g)
  OBVIOUS
<1>6. h \in Ranges(N)
  BY <1>1, <1>5, BisectedIs
<1>7. CASE g.low >= g.high
  <2>1. h = g
    BY <1>1, <1>5, <1>7, BisectedIs
  <2>2. g.high - g.low <= N - (n + 1)
    BY <1>1, <1>2, <1>7 DEF N
  <2> QED BY <1>1, <1>5, <2>1, <2>2 DEF Narrowed, N
<1>8. CASE g.low < g.high
  <2>1. PICK mid \in g.low..(g.high - 1) :
            IF q[mid].key < k THEN h.low = mid + 1 /\ h.high = g.high
            ELSE h.low = g.low /\ h.high = mid
    BY <1>1, <1>5, <1>8, BisectedIs
  <2>2. mid \in 1..N /\ mid \in Nat
    BY <1>1, <1>2, <2>1
  <2>3. CASE q[mid].key < k
    <3>1. h.low = mid + 1 /\ h.high = g.high
      BY <2>1, <2>3
    <3>2. h.high - h.low <= N - (n + 1)
      BY <1>1, <1>2, <2>1, <2>2, <3>1
    <3>3. ASSUME NEW j \in 1..N, j < h.low PROVE q[j].key < k
      <4>1. j = mid \/ j < mid
        BY <2>2, <3>1, <3>3
      <4>2. j = mid \/ q[j].key < q[mid].key
        BY <1>4, <2>2, <4>1
      <4>3. q[j].key \in Int /\ q[mid].key \in Int
        BY <1>3, <2>2
      <4> QED BY <2>3, <4>2, <4>3
    <3>4. \A j \in 1..N : h.high <= j => ~ (q[j].key < k)
      BY <1>1, <3>1
    <3> QED BY <1>5, <1>6, <3>2, <3>3, <3>4 DEF Narrowed, N
  <2>4. CASE ~ (q[mid].key < k)
    <3>1. h.low = g.low /\ h.high = mid
      BY <2>1, <2>4
    <3>2. h.high - h.low <= N - (n + 1)
      BY <1>1, <1>2, <2>1, <2>2, <3>1
    <3>3. ASSUME NEW j \in 1..N, h.high <= j PROVE ~ (q[j].key < k)
      <4>1. j = mid \/ mid < j
        BY <2>2, <3>1, <3>3
      <4>2. j = mid \/ q[mid].key < q[j].key
        BY <1>4, <2>2, <4>1
      <4>3. q[j].key \in Int /\ q[mid].key \in Int
        BY <1>3, <2>2
      <4> QED BY <2>4, <4>2, <4>3
    <3>4. \A j \in 1..N : j < h.low => q[j].key < k
      BY <1>1, <3>1
    <3> QED BY <1>5, <1>6, <3>2, <3>3, <3>4 DEF Narrowed, N
  <2> QED BY <2>3, <2>4
<1> QED BY <1>2, <1>7, <1>8

\* The bisection ends at the first entry that is not below k.
LEMMA LowerBoundIs ==
    ASSUME NEW q \in Seq(Entry), Climbs(q), NEW k \in Int
    PROVE  /\ LowerBound(q, k) \in 1..(Len(q) + 1)
           /\ \A j \in 1..Len(q) : j < LowerBound(q, k) <=> q[j].key < k
<1> DEFINE N == Len(q)
           f == Bisection(q, k)
           S == {n \in 0..N : Narrowed(f[n], q, k, n)}
<1>1. N \in Nat
  OBVIOUS
<1>2. f[0] = [low |-> 1, high |-> N + 1] /\ \A n \in 1..N : f[n] = Bisected(q, k, f[n - 1])
  BY BisectionRuns DEF BisectRun
<1>3. LowerBound(q, k) = f[N].low
  BY DEF LowerBound
<1> HIDE DEF f
<1>4. 0 \in S
  <2>1. f[0].low = 1 /\ f[0].high = N + 1 /\ f[0] \in Ranges(N)
    BY <1>1, <1>2 DEF Ranges
  <2>2. \A j \in 1..N : ~ (j < 1) /\ ~ (N + 1 <= j)
    BY <1>1
  <2>3. (N + 1) - 1 <= N - 0 /\ 0 \in 0..N
    BY <1>1
  <2>4. Narrowed(f[0], q, k, 0)
    BY <2>1, <2>2, <2>3 DEF Narrowed
  <2> QED BY <2>3, <2>4
<1>5. ASSUME NEW n \in 0..N, n < N, n \in S PROVE n + 1 \in S
  <2>1. n + 1 \in 1..N /\ (n + 1) - 1 = n /\ n + 1 \in 0..N
    BY <1>1, <1>5
  <2>2. f[n + 1] = Bisected(q, k, f[n])
    BY <1>2, <2>1
  <2>3. Narrowed(f[n], q, k, n)
    BY <1>5
  <2>4. Narrowed(Bisected(q, k, f[n]), q, k, n + 1)
    BY <1>5, <2>3, NarrowsOn
  <2> QED BY <2>1, <2>2, <2>4
<1> HIDE DEF S
<1>6. \A n \in 0..N : n \in S
  BY <1>1, <1>4, <1>5, Climbing
<1>7. Narrowed(f[N], q, k, N)
  <2>1. N \in 0..N
    BY <1>1
  <2> QED BY <1>6, <2>1 DEF S
<1>8. /\ f[N].low \in 1..(N + 1) /\ f[N].high \in 1..(N + 1) /\ f[N].low <= f[N].high
      /\ f[N].high - f[N].low <= N - N
  BY <1>7 DEF Narrowed, Ranges
<1>9. f[N].high = f[N].low
  BY <1>1, <1>8
<1>10. ASSUME NEW j \in 1..N PROVE j < f[N].low <=> q[j].key < k
  <2>1. j < f[N].low \/ f[N].low <= j
    BY <1>1, <1>8
  <2>2. j < f[N].low => q[j].key < k
    BY <1>7 DEF Narrowed
  <2>3. f[N].high <= j => ~ (q[j].key < k)
    BY <1>7 DEF Narrowed
  <2> QED BY <1>9, <2>1, <2>2, <2>3
<1> QED BY <1>3, <1>8, <1>10

\* A block gives the value of the entry that has the key.
LEMMA BlockAnswers ==
    ASSUME NEW q \in Seq(Entry), Climbs(q), NEW k \in Int
    PROVE  /\ \A j \in 1..Len(q) : q[j].key = k => GetByKey(q, k) = q[j].value
           /\ (\A j \in 1..Len(q) : q[j].key # k) => GetByKey(q, k) = NotFound
<1> DEFINE i == LowerBound(q, k)
           N == Len(q)
<1>1. GetByKey(q, k) = IF i <= N /\ q[i].key = k THEN q[i].value ELSE NotFound
  BY DEF GetByKey
<1>2. N \in Nat /\ i \in 1..(N + 1) /\ \A j \in 1..N : j < i <=> q[j].key < k
  BY LowerBoundIs
<1>3. \A j \in 1..N : q[j].key \in Int
  BY EntryKeys
<1>4. \A l, j \in 1..N : l < j => q[l].key < q[j].key
  BY DEF Climbs
<1> HIDE DEF i, N
<1>5. ASSUME NEW j \in 1..N, q[j].key = k PROVE GetByKey(q, k) = q[j].value
  <2>1. ~ (j < i)
    BY <1>2, <1>3, <1>5
  <2>2. ~ (i < j)
    <3>1. SUFFICES ASSUME i < j PROVE FALSE
      OBVIOUS
    <3>2. i \in 1..N /\ q[i].key < q[j].key
      BY <1>2, <1>4, <3>1
    <3>3. i < i
      BY <1>2, <1>5, <3>2
    <3> QED BY <1>2, <3>3
  <2>3. i = j
    BY <1>2, <2>1, <2>2
  <2> QED BY <1>1, <1>2, <1>5, <2>3
<1>6. ASSUME \A j \in 1..N : q[j].key # k PROVE GetByKey(q, k) = NotFound
  <2>1. ~ (i <= N /\ q[i].key = k)
    <3>1. i <= N => i \in 1..N
      BY <1>2
    <3> QED BY <1>6, <3>1
  <2> QED BY <1>1, <2>1
<1> QED BY <1>5, <1>6 DEF N

\* What t has for k.
Found(t, k) == IF k \in DOMAIN t THEN t[k] ELSE NotFound

LEMMA AscendingIs ==
    ASSUME NEW t \in Tables
    PROVE  /\ Ascending(t) \in Seq(Entry) /\ Climbs(Ascending(t))
           /\ \A j \in 1..Len(Ascending(t)) : /\ Ascending(t)[j].key \in DOMAIN t
                                              /\ Ascending(t)[j].value = t[Ascending(t)[j].key]
           /\ \A k \in DOMAIN t : \E j \in 1..Len(Ascending(t)) : Ascending(t)[j].key = k
<1> DEFINE D == DOMAIN t
           n == Cardinality(D)
           Pick(i) == CHOOSE k \in D : RankIn(D, k) = i - 1
           E == Ascending(t)
<1>1. PICK D0 \in SUBSET Keys : t \in [D0 -> Contents]
  BY DEF Tables
<1>2. D \in SUBSET Keys /\ D \in SUBSET Int /\ IsFiniteSet(D) /\ \A k \in D : t[k] \in Contents
  <2>1. D = D0
    BY <1>1
  <2>2. D0 \in SUBSET Int /\ IsFiniteSet(D0)
    BY KeysAreFinite, FS_Subset
  <2> QED BY <1>1, <2>1, <2>2
<1>3. E = [i \in 1..n |-> [key |-> Pick(i), value |-> t[Pick(i)]]]
  BY DEF Ascending, RankIn, Lesser
<1> HIDE DEF D, E
<1>4. /\ n \in Nat
      /\ \A i \in 1..n : \E k \in D : RankIn(D, k) = i - 1
      /\ \A k, l \in D : RankIn(D, k) = RankIn(D, l) => k = l
  BY <1>2, RanksAreOnto
<1>5. \A k \in D : RankIn(D, k) \in 0..(n - 1) /\ \A l \in D : k < l => RankIn(D, k) < RankIn(D, l)
  BY <1>2, RankClimbs
<1> HIDE DEF n
<1>6. \A i \in 1..n : Pick(i) \in D /\ RankIn(D, Pick(i)) = i - 1
  BY <1>4
<1> HIDE DEF Pick
<1>7. \A i \in 1..n : E[i] = [key |-> Pick(i), value |-> t[Pick(i)]]
  BY <1>3
<1>8. \A i \in 1..n : E[i].key = Pick(i) /\ E[i].value = t[Pick(i)] /\ E[i] \in Entry
  <2> SUFFICES ASSUME NEW i \in 1..n
               PROVE  E[i].key = Pick(i) /\ E[i].value = t[Pick(i)] /\ E[i] \in Entry
    OBVIOUS
  <2>1. PICK k \in D : k = Pick(i)
    BY <1>6
  <2>2. k \in Keys /\ t[k] \in Contents /\ E[i] = [key |-> k, value |-> t[k]]
    BY <1>2, <1>7, <2>1
  <2> QED BY <2>1, <2>2 DEF Entry
<1>9. E \in Seq(Entry) /\ Len(E) = n
  <2>1. E \in [1..n -> Entry]
    BY <1>3, <1>8
  <2> QED BY <1>4, <2>1
<1>10. ASSUME NEW i \in 1..n, NEW j \in 1..n, i < j PROVE E[i].key < E[j].key
  <2>1. Pick(i) \in D /\ Pick(j) \in D /\ RankIn(D, Pick(i)) = i - 1 /\ RankIn(D, Pick(j)) = j - 1
    BY <1>6
  <2>2. Pick(i) \in Int /\ Pick(j) \in Int
    BY <1>2, <2>1
  <2>3. ~ (Pick(j) < Pick(i))
    <3>1. SUFFICES ASSUME Pick(j) < Pick(i) PROVE FALSE
      OBVIOUS
    <3>2. RankIn(D, Pick(j)) < RankIn(D, Pick(i))
      BY <1>5, <2>1, <3>1
    <3>3. j - 1 < i - 1
      BY <2>1, <3>2
    <3> QED BY <1>4, <1>10, <3>3
  <2>4. Pick(i) # Pick(j)
    <3>1. i - 1 # j - 1
      BY <1>4, <1>10
    <3> QED BY <2>1, <3>1
  <2>5. Pick(i) < Pick(j)
    BY <2>2, <2>3, <2>4
  <2> QED BY <1>8, <2>5
<1>11. ASSUME NEW k \in D PROVE \E j \in 1..n : E[j].key = k
  <2>1. RankIn(D, k) \in 0..(n - 1)
    BY <1>5
  <2>2. PICK j \in 1..n : j - 1 = RankIn(D, k)
    <3>1. RankIn(D, k) + 1 \in 1..n /\ (RankIn(D, k) + 1) - 1 = RankIn(D, k)
      BY <1>4, <2>1
    <3> QED BY <3>1
  <2>3. Pick(j) = k
    BY <1>4, <1>6, <2>2
  <2> QED BY <1>8, <2>3
<1> QED BY <1>6, <1>8, <1>9, <1>10, <1>11 DEF Climbs, E, D

\* A reader that the filter lets through finds in the block of the key what the table was
\* made of, and one that it turns away has nothing to find.
Answers(r, t, k) ==
    IF r.offsets # << >> /\ MayContain(r.filter, k)
      THEN /\ BlockFor(r, k) \in 1..Len(r.offsets)
           /\ GetByKey(Decode(RawBlock(r, BlockFor(r, k))), k) = Found(t, k)
      ELSE Found(t, k) = NotFound

LEMMA CutsInside ==
    ASSUME NEW E, NEW m, NEW cut, Cuts(cut, m, Len(E)), NEW j \in 1..m
    PROVE  /\ cut[j - 1] \in 0..Len(E) /\ cut[j] \in 0..Len(E) /\ cut[j - 1] < cut[j]
           /\ cut[j - 1] + 1 \in 1..Len(E)
<1>1. /\ m \in Nat /\ Len(E) \in Nat /\ cut \in [0..m -> 0..Len(E)]
      /\ \A i, l \in 0..m : i < l => cut[i] < cut[l]
  BY DEF Cuts
<1>2. j - 1 \in 0..m /\ j \in 0..m /\ j - 1 < j
  BY <1>1
<1>3. cut[j - 1] \in 0..Len(E) /\ cut[j] \in 0..Len(E) /\ cut[j - 1] < cut[j]
  BY <1>1, <1>2
<1> QED BY <1>1, <1>3

\* The reader looks into the last block whose first key is not above k, or the first one.
LEMMA BlockForInTable ==
    ASSUME NEW r, NEW E, NEW m, NEW cut, Opened(r, E, m, cut), Climbs(E), m # 0, NEW k \in Int
    PROVE  IsBlockFor(BlockFor(r, k), r, m, k)
<1> DEFINE N == Len(E)
<1>1. /\ m \in Nat \ {0} /\ N \in Nat /\ cut \in [0..m -> 0..N] /\ E \in Seq(Entry)
      /\ \A j, l \in 0..m : j < l => cut[j] < cut[l]
  BY DEF Opened, Cuts
<1>2. Len(r.first) = m /\ \A j \in 1..m : r.first[j] = E[cut[j - 1] + 1].key
  BY DEF Opened
<1>3. \A j \in 1..N : E[j].key \in Int
  BY <1>1, EntryKeys
<1>4. \A j, l \in 1..N : j < l => E[j].key < E[l].key
  BY DEF Climbs
<1>5. \A j \in 1..m : cut[j - 1] \in 0..N /\ cut[j - 1] + 1 \in 1..N
  BY CutsInside DEF Opened
<1>6. \A j \in 1..m : r.first[j] \in Int
  BY <1>2, <1>3, <1>5
<1> HIDE DEF N
<1>7. ASSUME NEW j \in 1..m, NEW l \in 1..m, j < l PROVE r.first[j] < r.first[l]
  <2>1. j - 1 \in 0..m /\ l - 1 \in 0..m /\ j - 1 < l - 1
    BY <1>1, <1>7
  <2>2. cut[j - 1] < cut[l - 1]
    BY <1>1, <2>1
  <2>3. cut[j - 1] + 1 < cut[l - 1] + 1
    BY <1>5, <2>2
  <2> QED BY <1>2, <1>4, <1>5, <2>3
<1> QED BY <1>1, <1>2, <1>6, <1>7, BlockForIs

\* The place of an entry is in the block whose first key is the last not above its own.
LEMMA BlockHasIt ==
    ASSUME NEW r, NEW E, NEW m, NEW cut, Opened(r, E, m, cut), Climbs(E), m # 0, NEW k \in Int,
           NEW p \in 1..Len(E), E[p].key = k
    PROVE  p \in (cut[BlockFor(r, k) - 1] + 1)..cut[BlockFor(r, k)]
<1> DEFINE N == Len(E)
           i == BlockFor(r, k)
<1>1. /\ m \in Nat \ {0} /\ N \in Nat /\ cut \in [0..m -> 0..N] /\ E \in Seq(Entry)
      /\ cut[m] = N /\ cut[0] = 0
      /\ \A j, l \in 0..m : j < l => cut[j] < cut[l]
  BY DEF Opened, Cuts
<1>2. Len(r.first) = m /\ \A j \in 1..m : r.first[j] = E[cut[j - 1] + 1].key
  BY DEF Opened
<1>3. \A j \in 1..N : E[j].key \in Int
  BY <1>1, EntryKeys
<1>4. \A j, l \in 1..N : j < l => E[j].key < E[l].key
  BY DEF Climbs
<1>5. \A j \in 1..m : /\ cut[j - 1] \in 0..N /\ cut[j] \in 0..N /\ cut[j - 1] < cut[j]
                      /\ cut[j - 1] + 1 \in 1..N
  BY CutsInside DEF Opened
<1>6. \A j \in 1..m : r.first[j] \in Int
  BY <1>2, <1>3, <1>5
<1>7. IsBlockFor(i, r, m, k)
  BY BlockForInTable
<1> HIDE DEF N, i
<1>9. /\ i \in 1..m
      /\ \A j \in 1..m : j > i => k < r.first[j]
      /\ i > 1 => r.first[i] <= k
  BY <1>7 DEF IsBlockFor
<1>10. p \in 1..N /\ p \in Nat
  BY DEF N
<1>11. cut[i - 1] < p
  <2>1. CASE i = 1
    <3>1. cut[i - 1] = 0
      BY <1>1, <2>1
    <3> QED BY <1>10, <3>1
  <2>2. CASE i # 1
    <3>1. r.first[i] <= k /\ r.first[i] = E[cut[i - 1] + 1].key
      <4>1. i > 1
        BY <1>1, <1>9, <2>2
      <4> QED BY <1>2, <1>9, <4>1
    <3>2. ~ (p < cut[i - 1] + 1)
      <4>1. SUFFICES ASSUME p < cut[i - 1] + 1 PROVE FALSE
        OBVIOUS
      <4>2. E[p].key < E[cut[i - 1] + 1].key
        BY <1>4, <1>5, <1>9, <1>10, <4>1
      <4>3. k < r.first[i]
        BY <3>1, <4>2
      <4> QED BY <1>6, <1>9, <3>1, <4>3
    <3> QED BY <1>5, <1>9, <1>10, <3>2
  <2> QED BY <2>1, <2>2
<1>12. p <= cut[i]
  <2>1. CASE i = m
    BY <1>1, <1>10, <2>1
  <2>2. CASE i # m
    <3>1. i + 1 \in 1..m /\ i + 1 > i /\ (i + 1) - 1 = i
      BY <1>1, <1>9, <2>2
    <3>2. k < E[cut[i] + 1].key /\ cut[i] + 1 \in 1..N
      <4>1. k < r.first[i + 1]
        BY <1>9, <3>1
      <4>2. r.first[i + 1] = E[cut[(i + 1) - 1] + 1].key /\ cut[(i + 1) - 1] + 1 \in 1..N
        BY <1>2, <1>5, <3>1
      <4> QED BY <3>1, <4>1, <4>2
    <3>3. ~ (cut[i] + 1 <= p)
      <4>1. SUFFICES ASSUME cut[i] + 1 <= p PROVE FALSE
        OBVIOUS
      <4>2. cut[i] + 1 = p \/ cut[i] + 1 < p
        BY <1>10, <3>2, <4>1
      <4>3. cut[i] + 1 = p \/ E[cut[i] + 1].key < E[p].key
        BY <1>4, <1>10, <3>2, <4>2
      <4>4. E[cut[i] + 1].key \in Int
        BY <1>3, <3>2
      <4> QED BY <3>2, <4>3, <4>4
    <3> QED BY <1>5, <1>9, <1>10, <3>3
  <2> QED BY <2>1, <2>2
<1>13. p \in (cut[i - 1] + 1)..cut[i]
  BY <1>5, <1>9, <1>10, <1>11, <1>12
<1> QED BY <1>13 DEF i

\* The blocks of ascending entries ascend.
LEMMA PartClimbs ==
    ASSUME NEW E \in Seq(Entry), Climbs(E), NEW lo \in Nat, NEW hi \in Nat, hi <= Len(E),
           NEW q, IsPart(q, E, lo, hi), lo <= hi
    PROVE  Climbs(q)
<1>1. Len(q) = hi - lo /\ \A j \in 1..(hi - lo) : q[j] = E[lo + j]
  BY DEF IsPart
<1>2. ASSUME NEW i \in 1..(hi - lo), NEW j \in 1..(hi - lo), i < j PROVE q[i].key < q[j].key
  <2>1. lo + i \in 1..Len(E) /\ lo + j \in 1..Len(E) /\ lo + i < lo + j
    BY <1>2
  <2>2. E[lo + i].key < E[lo + j].key
    BY <2>1 DEF Climbs
  <2> QED BY <1>1, <2>2
<1> QED BY <1>1, <1>2 DEF Climbs

\* The entries E stand for the table t.
Stand(E, t) ==
    /\ E \in Seq(Entry) /\ Climbs(E)
    /\ \A j \in 1..Len(E) : E[j].key \in DOMAIN t /\ E[j].value = t[E[j].key]
    /\ \A k \in DOMAIN t : \E j \in 1..Len(E) : E[j].key = k

LEMMA TableAnswers ==
    ASSUME NEW r, NEW E, NEW m, NEW cut, Opened(r, E, m, cut), NEW t, Stand(E, t),
           NEW k \in Int
    PROVE  Answers(r, t, k)
<1> DEFINE N == Len(E)
           i == BlockFor(r, k)
<1>1. /\ m \in Nat /\ N \in Nat /\ cut \in [0..m -> 0..N] /\ E \in Seq(Entry)
      /\ cut[m] = N /\ cut[0] = 0 /\ Len(r.offsets) = m
      /\ r.filter = BuildFilter(KeysIn(E))
  BY DEF Opened, Cuts
<1>2. /\ Climbs(E)
      /\ \A j \in 1..N : E[j].key \in DOMAIN t /\ E[j].value = t[E[j].key]
      /\ \A l \in DOMAIN t : \E j \in 1..N : E[j].key = l
  BY DEF Stand
<1> HIDE DEF N
<1>3. CASE r.offsets # << >> /\ MayContain(r.filter, k)
  <2>1. m # 0
    <3>1. r.offsets \in Seq(Nat)
      BY DEF Opened
    <3> QED BY <1>1, <1>3, <3>1
  <2>2. i \in 1..m
    BY <1>2, <2>1, BlockForInTable DEF IsBlockFor
  <2> DEFINE lo == cut[i - 1]
             hi == cut[i]
  <2>3. lo \in Nat /\ hi \in Nat /\ lo <= hi /\ hi <= N
    <3>1. lo \in 0..N /\ hi \in 0..N /\ lo < hi
      BY <2>2, CutsInside DEF Opened, N
    <3> QED BY <1>1, <3>1
  <2>4. PICK q : q = Decode(RawBlock(r, i))
    OBVIOUS
  <2>5. IsPart(q, E, lo, hi)
    BY <2>2, <2>4, BlockIsPart
  <2>6. \A p \in 1..N : E[p].key = k => p \in (lo + 1)..hi
    BY <1>2, <2>1, BlockHasIt DEF N
  <2> HIDE DEF lo, hi, i
  <2>7. Climbs(q)
    BY <1>1, <1>2, <2>3, <2>5, PartClimbs DEF N
  <2>8. q \in Seq(Entry) /\ Len(q) = hi - lo /\ \A j \in 1..(hi - lo) : q[j] = E[lo + j]
    BY <2>5 DEF IsPart
  <2>9. GetByKey(q, k) = Found(t, k)
    <3>1. CASE k \in DOMAIN t
      <4>1. PICK p \in 1..N : E[p].key = k
        BY <1>2, <3>1
      <4>2. p - lo \in 1..(hi - lo) /\ lo + (p - lo) = p
        BY <2>3, <2>6, <4>1
      <4>3. q[p - lo] = E[p] /\ p - lo \in 1..Len(q)
        BY <2>8, <4>2
      <4>4. GetByKey(q, k) = E[p].value
        BY <2>7, <2>8, <4>1, <4>3, BlockAnswers
      <4>5. E[p].value = t[k]
        BY <1>2, <4>1
      <4> QED BY <3>1, <4>4, <4>5 DEF Found
    <3>2. CASE k \notin DOMAIN t
      <4>1. ASSUME NEW j \in 1..Len(q) PROVE q[j].key # k
        <5>1. lo + j \in 1..N /\ q[j] = E[lo + j]
          BY <1>1, <2>3, <2>8
        <5> QED BY <1>2, <3>2, <5>1
      <4>2. GetByKey(q, k) = NotFound
        BY <2>7, <2>8, <4>1, BlockAnswers
      <4> QED BY <3>2, <4>2 DEF Found
    <3> QED BY <3>1, <3>2
  <2> QED BY <1>1, <1>3, <2>2, <2>4, <2>9 DEF Answers, i
<1>4. CASE ~ (r.offsets # << >> /\ MayContain(r.filter, k))
  <2>1. k \notin DOMAIN t
    <3>1. SUFFICES ASSUME k \in DOMAIN t PROVE FALSE
      OBVIOUS
    <3>2. PICK p \in 1..N : E[p].key = k
      BY <1>2, <3>1
    <3>3. MayContain(r.filter, k)
      BY <1>1, <3>2, FilterHasAll DEF N
    <3>4. m = 0
      <4>1. r.offsets = << >>
        BY <1>4, <3>3
      <4> QED BY <1>1, <4>1
    <3> QED BY <1>1, <3>2, <3>4
  <2> QED BY <1>4, <2>1 DEF Answers, Found
<1> QED BY <1>3, <1>4

\* All that a reader can get of the file of a table is what the table is.
LEMMA TableIsRight ==
    ASSUME NEW t \in Tables, NEW r, r = OpenTable(TableFile(Ascending(t)))
    PROVE  ReadAllEntries(r) = Ascending(t) /\ \A k \in Keys : Answers(r, t, k)
<1>1. Ascending(t) \in Seq(Entry) /\ Stand(Ascending(t), t)
  BY AscendingIs DEF Stand
<1>2. PICK m, cut : Opened(r, Ascending(t), m, cut)
  BY <1>1, TableIsOpened
<1>3. ReadAllEntries(r) = Ascending(t)
  BY <1>2, AllIsRead
<1>4. ASSUME NEW k \in Keys PROVE Answers(r, t, k)
  <2>1. k \in Int
    BY KeysAreFinite
  <2> QED BY <1>1, <1>2, <2>1, TableAnswers
<1> QED BY <1>3, <1>4

-----------------------------------------------------------------------------
(* Tables beside the cache                                                 *)

\* Blocks of tables under their ids.
BlocksOf(fs) ==
    UNION {{<<<<n, i>>, RawBlock(OpenTable(fs[n]), i)>> :
                i \in 1..Len(OpenTable(fs[n]).offsets)} : n \in 1..Len(fs)}

LEMMA BlockIsOf ==
    ASSUME NEW fs, NEW n \in 1..Len(fs), NEW i \in 1..Len(OpenTable(fs[n]).offsets)
    PROVE  <<<<n, i>>, RawBlock(OpenTable(fs[n]), i)>> \in BlocksOf(fs)
BY DEF BlocksOf

\* A list of blocks of tables remains one through every call of the cache.
LEMMA WithoutStays ==
    ASSUME NEW P, NEW r \in Seq(P), NEW id
    PROVE  Without(r, id) \in Seq(P)
<1> DEFINE At == {i \in 1..Len(r) : r[i][1] = id}
           m == CHOOSE i \in At : TRUE
<1>1. Without(r, id) = IF At = {} THEN r ELSE RemovedAt(r, m)
  BY DEF Cache!Recency!Without, Without, RemovedAt
<1>2. CASE At = {}
  BY <1>1, <1>2
<1>3. CASE At # {}
  <2>1. m \in At /\ At \subseteq 1..Len(r)
    BY <1>3
  <2>2. m \in 1..Len(r)
    BY <2>1
  <2> HIDE DEF m, At
  <2>3. IsShorter(RemovedAt(r, m), P, r, m, Len(r))
    BY <2>2, RemovedAtIs
  <2> QED BY <1>1, <1>3, <2>3 DEF IsShorter
<1> QED BY <1>2, <1>3

LEMMA FrontStays ==
    ASSUME NEW P, NEW r \in Seq(P), NEW x \in P
    PROVE  InFront(x, r) \in Seq(P)
BY DEF InFront

LEMMA ListStays ==
    ASSUME NEW P, NEW r \in Seq(P), NEW q
    PROVE  /\ Fronts(r, q) => q \in Seq(P)
           /\ Drops(r, q) => q \in Seq(P)
           /\ \A id, b : Puts(r, q, id, b) /\ <<id, b>> \in P => q \in Seq(P)
<1>1. ASSUME Fronts(r, q) PROVE q \in Seq(P)
  <2>1. PICK m \in 1..Len(r) : q = InFront(r[m], Without(r, r[m][1]))
    BY <1>1 DEF Fronts
  <2>2. r[m] \in P /\ Without(r, r[m][1]) \in Seq(P)
    BY WithoutStays
  <2> QED BY <2>1, <2>2, FrontStays
<1>2. ASSUME Drops(r, q) PROVE q \in Seq(P)
  BY <1>2, WithoutStays DEF Drops
<1>3. ASSUME NEW id, NEW b, Puts(r, q, id, b), <<id, b>> \in P PROVE q \in Seq(P)
  <2> DEFINE x == <<id, b>>
             w == InFront(x, Without(r, x[1]))
  <2>1. q = Cache!Recency!ShortenTo(w, Capacity)
    BY <1>3 DEF Puts
  <2>2. Without(r, x[1]) \in Seq(P) /\ x \in P
    BY <1>3, WithoutStays
  <2> HIDE DEF x
  <2>3. w \in Seq(P)
    BY <2>2, FrontStays
  <2> HIDE DEF w
  <2>4. PICK m : m = IF Len(w) < Capacity THEN Len(w) ELSE Capacity
    OBVIOUS
  <2>5. IsStart(Cache!Recency!ShortenTo(w, Capacity), P, w, m)
    BY <2>3, <2>4, CapacityIsACount, ShortensTo
  <2> QED BY <2>1, <2>5 DEF IsStart
<1> QED BY <1>1, <1>2, <1>3

\* What is found under an id is the block of that id.
LEMMA CacheGives ==
    ASSUME NEW c, Fits(c), NEW fs, Cache!Listed(c) \in Seq(BlocksOf(fs)),
           NEW n, NEW i, <<n, i>> \in DOMAIN c.map
    PROVE  c.nodes[c.map[<<n, i>>]].value = RawBlock(OpenTable(fs[n]), i)
<1> DEFINE id == <<n, i>>
           P == BlocksOf(fs)
<1>1. PICK K, V, s, N : Sound(c, K, V, s, N)
  BY DEF Fits
<1> DEFINE r == ListOf(c, s, N)
<1>2. IsListOf(r, K, V, c, s, N)
  BY <1>1, ListOfIs
<1> HIDE DEF r, id, P
<1>3. PICK j \in 1..N : c.map[id] = s[j] /\ r[j][1] = id
  BY <1>2 DEF IsListOf, id
<1>4. /\ r \in Seq(K \X V) /\ Len(r) = N /\ Cache!Listed(c) = r
      /\ r[j] = <<c.nodes[s[j]].key, c.nodes[s[j]].value>>
  BY <1>2 DEF IsListOf
<1>5. r[j] \in P
  <2>1. r \in Seq(P) /\ j \in 1..Len(r)
    BY <1>4 DEF P
  <2> QED BY <2>1
<1>6. PICK l \in 1..Len(fs) :
          \E h \in 1..Len(OpenTable(fs[l]).offsets) :
              r[j] = <<<<l, h>>, RawBlock(OpenTable(fs[l]), h)>>
  BY <1>5 DEF P, BlocksOf
<1>9. PICK h \in 1..Len(OpenTable(fs[l]).offsets) :
          r[j] = <<<<l, h>>, RawBlock(OpenTable(fs[l]), h)>>
  BY <1>6
<1>7. l = n /\ h = i
  BY <1>3, <1>9 DEF id
<1>8. r[j][2] = RawBlock(OpenTable(fs[n]), i) /\ r[j][2] = c.nodes[s[j]].value
  BY <1>4, <1>7, <1>9
<1> QED BY <1>3, <1>8 DEF id

\* Every file was written from the table that is kept for it.
Filed(fs, bs) ==
    /\ bs \in Seq(Tables) /\ Len(fs) = Len(bs)
    /\ fs \in Seq({TableFile(Ascending(t)) : t \in Tables})
    /\ \A n \in 1..Len(fs) : fs[n] = TableFile(Ascending(bs[n]))

\* A reader that goes for a block goes for one that has the answer to its question.
Asks(s, fs, bs) ==
    \E a \in {"cache", "read"}, n \in 1..Len(fs), k \in Keys, i \in Nat :
        /\ s = [at |-> a, num |-> n, key |-> k, block |-> i]
        /\ i \in 1..Len(OpenTable(fs[n]).offsets)
        /\ GetByKey(Decode(RawBlock(OpenTable(fs[n]), i)), k) = Found(bs[n], k)

Answered(s, fs, bs) ==
    \E n \in 1..Len(fs), k \in Keys :
        s = [at |-> "done", num |-> n, key |-> k, result |-> Found(bs[n], k)]

Reads(s, fs, bs) == s = Idle \/ Asks(s, fs, bs) \/ Answered(s, fs, bs)

TablesInv ==
    /\ Fits(lru) /\ Filed(files, built)
    /\ Cache!Listed(lru) \in Seq(BlocksOf(files))
    /\ rd = [t \in Readers |-> rd[t]]
    /\ \A t \in Readers : Reads(rd[t], files, built)

LEMMA TablesInitInv == TablesInit => TablesInv
<1> SUFFICES ASSUME TablesInit PROVE TablesInv
  OBVIOUS
<1>1. /\ files = << >> /\ built = << >> /\ lru = Cache!NewCache
      /\ rd = [t \in Readers |-> Idle]
  BY DEF TablesInit, Cache!CacheInit
<1>2. Fits(lru) /\ Cache!Listed(lru) = << >>
  BY <1>1, NewFits
<1>3. Cache!Listed(lru) \in Seq(BlocksOf(files))
  BY <1>2
<1>4. Filed(files, built)
  BY <1>1 DEF Filed
<1>5. rd = [t \in Readers |-> rd[t]] /\ \A t \in Readers : Reads(rd[t], files, built)
  BY <1>1 DEF Reads
<1> QED BY <1>2, <1>3, <1>4, <1>5 DEF TablesInv

\* Files and tables that begin with the ones there were.
Extended(fs, bs, gs, cs) ==
    /\ Len(fs) \in Nat /\ Len(gs) \in Nat /\ Len(fs) <= Len(gs)
    /\ \A n \in 1..Len(fs) : gs[n] = fs[n] /\ cs[n] = bs[n]

LEMMA BlocksGrow ==
    ASSUME NEW fs, NEW bs, NEW gs, NEW cs, Extended(fs, bs, gs, cs)
    PROVE  BlocksOf(fs) \subseteq BlocksOf(gs)
<1>1. ASSUME NEW n \in 1..Len(fs), NEW i \in 1..Len(OpenTable(fs[n]).offsets)
      PROVE  <<<<n, i>>, RawBlock(OpenTable(fs[n]), i)>> \in BlocksOf(gs)
  <2>1. n \in 1..Len(gs) /\ gs[n] = fs[n]
    BY DEF Extended
  <2>2. i \in 1..Len(OpenTable(gs[n]).offsets)
    BY <2>1
  <2>3. <<<<n, i>>, RawBlock(OpenTable(gs[n]), i)>> \in BlocksOf(gs)
    BY <2>1, <2>2, BlockIsOf
  <2> QED BY <2>1, <2>3
<1>2. ASSUME NEW x \in BlocksOf(fs) PROVE x \in BlocksOf(gs)
  <2>1. PICK n \in 1..Len(fs) :
            x \in {<<<<n, i>>, RawBlock(OpenTable(fs[n]), i)>> :
                        i \in 1..Len(OpenTable(fs[n]).offsets)}
    BY <1>2 DEF BlocksOf
  <2>2. PICK i \in 1..Len(OpenTable(fs[n]).offsets) :
            x = <<<<n, i>>, RawBlock(OpenTable(fs[n]), i)>>
    BY <2>1
  <2> QED BY <1>1, <2>2
<1> QED BY <1>2

LEMMA ReadsOn ==
    ASSUME NEW fs, NEW bs, NEW gs, NEW cs, Extended(fs, bs, gs, cs), NEW s, Reads(s, fs, bs)
    PROVE  Reads(s, gs, cs)
<1>1. \A n \in 1..Len(fs) : n \in 1..Len(gs) /\ gs[n] = fs[n] /\ cs[n] = bs[n]
  BY DEF Extended
<1>2. CASE s = Idle
  BY <1>2 DEF Reads
<1>3. CASE Asks(s, fs, bs)
  <2>1. PICK a \in {"cache", "read"}, n \in 1..Len(fs), k \in Keys, i \in Nat :
            /\ s = [at |-> a, num |-> n, key |-> k, block |-> i]
            /\ i \in 1..Len(OpenTable(fs[n]).offsets)
            /\ GetByKey(Decode(RawBlock(OpenTable(fs[n]), i)), k) = Found(bs[n], k)
    BY <1>3 DEF Asks
  <2>2. n \in 1..Len(gs) /\ gs[n] = fs[n] /\ cs[n] = bs[n]
    BY <1>1
  <2>3. Asks(s, gs, cs)
    BY <2>1, <2>2 DEF Asks
  <2> QED BY <2>3 DEF Reads
<1>4. CASE Answered(s, fs, bs)
  <2>1. PICK n \in 1..Len(fs), k \in Keys :
            s = [at |-> "done", num |-> n, key |-> k, result |-> Found(bs[n], k)]
    BY <1>4 DEF Answered
  <2>2. n \in 1..Len(gs) /\ cs[n] = bs[n]
    BY <1>1
  <2>3. Answered(s, gs, cs)
    BY <2>1, <2>2 DEF Answered
  <2> QED BY <2>3 DEF Reads
<1> QED BY <1>2, <1>3, <1>4 DEF Reads

LEMMA WriteTableInv ==
    ASSUME TablesInv, NEW t \in Tables, WriteTable(t)
    PROVE  TablesInv'
<1>1. /\ Fits(lru) /\ Filed(files, built)
      /\ Cache!Listed(lru) \in Seq(BlocksOf(files))
      /\ rd = [u \in Readers |-> rd[u]]
      /\ \A u \in Readers : Reads(rd[u], files, built)
  BY DEF TablesInv
<1>2. PICK f : f = TableFile(Ascending(t))
  OBVIOUS
<1>3. files' = Append(files, f) /\ built' = Append(built, t) /\ lru' = lru /\ rd' = rd
  BY <1>2 DEF WriteTable
<1>4. PICK S : S = {TableFile(Ascending(u)) : u \in Tables}
  OBVIOUS
<1>5. /\ files \in Seq(S) /\ built \in Seq(Tables) /\ Len(files) = Len(built) /\ f \in S
      /\ \A n \in 1..Len(files) : files[n] = TableFile(Ascending(built[n]))
  BY <1>1, <1>2, <1>4 DEF Filed
<1>6. /\ Len(files') = Len(files) + 1 /\ files' \in Seq(S) /\ Len(files) \in Nat
      /\ files'[Len(files) + 1] = f /\ \A n \in 1..Len(files) : files'[n] = files[n]
  BY <1>3, <1>5
<1>7. /\ Len(built') = Len(files) + 1 /\ built' \in Seq(Tables)
      /\ built'[Len(files) + 1] = t /\ \A n \in 1..Len(files) : built'[n] = built[n]
  BY <1>3, <1>5
<1>8. Filed(files', built')
  <2>1. ASSUME NEW n \in 1..Len(files') PROVE files'[n] = TableFile(Ascending(built'[n]))
    <3>1. CASE n = Len(files) + 1
      BY <1>2, <1>6, <1>7, <3>1
    <3>2. CASE n # Len(files) + 1
      <4>1. n \in 1..Len(files)
        BY <1>6, <3>2
      <4> QED BY <1>5, <1>6, <1>7, <4>1
    <3> QED BY <3>1, <3>2
  <2> QED BY <1>4, <1>6, <1>7, <2>1 DEF Filed
<1>9. Extended(files, built, files', built')
  BY <1>6, <1>7 DEF Extended
<1>10. Cache!Listed(lru') \in Seq(BlocksOf(files'))
  <2>1. BlocksOf(files) \subseteq BlocksOf(files')
    BY <1>9, BlocksGrow
  <2>2. Cache!Listed(lru) \in Seq(BlocksOf(files'))
    BY <1>1, <2>1
  <2> QED BY <1>3, <2>2
<1>11. \A u \in Readers : Reads(rd'[u], files', built')
  BY <1>1, <1>3, <1>9, ReadsOn
<1> QED BY <1>1, <1>3, <1>8, <1>10, <1>11 DEF TablesInv

\* The reader t goes on to s, and the cache keeps its blocks.
LEMMA ReaderInv ==
    ASSUME TablesInv, files' = files, built' = built, NEW t \in Readers, NEW s,
           rd' = [rd EXCEPT ![t] = s], Reads(s, files, built),
           Fits(lru)', Cache!Listed(lru') \in Seq(BlocksOf(files))
    PROVE  TablesInv'
<1>1. /\ Filed(files, built) /\ rd = [u \in Readers |-> rd[u]]
      /\ \A u \in Readers : Reads(rd[u], files, built)
  BY DEF TablesInv
<1>2. rd' = [u \in Readers |-> rd'[u]] /\ rd'[t] = s /\ \A u \in Readers : u # t => rd'[u] = rd[u]
  BY <1>1
<1>3. \A u \in Readers : Reads(rd'[u], files, built)
  BY <1>1, <1>2
<1>4. \A u \in Readers : Reads(rd'[u], files', built')
  BY <1>3
<1>5. Filed(files', built') /\ Cache!Listed(lru') \in Seq(BlocksOf(files'))
  BY <1>1
<1> QED BY <1>2, <1>4, <1>5 DEF TablesInv

LEMMA OpenInv ==
    ASSUME TablesInv, NEW t \in Readers, NEW n \in 1..Len(files), NEW k \in Keys, Open(t, n, k)
    PROVE  TablesInv'
<1>1. PICK r : r = OpenTable(files[n])
  OBVIOUS
<1>2. Filed(files, built) /\ Fits(lru) /\ Cache!Listed(lru) \in Seq(BlocksOf(files))
  BY DEF TablesInv
<1>3. PICK u \in Tables : u = built[n]
  <2>1. built \in Seq(Tables) /\ Len(files) = Len(built)
    BY <1>2 DEF Filed
  <2> QED BY <2>1
<1>4. r = OpenTable(TableFile(Ascending(u)))
  BY <1>1, <1>2, <1>3 DEF Filed
<1>5. Answers(r, u, k)
  BY <1>4, TableIsRight
<1> DEFINE i == BlockFor(r, k)
           wanted == [at |-> "cache", num |-> n, key |-> k, block |-> i]
           none == [at |-> "done", num |-> n, key |-> k, result |-> NotFound]
<1>6. /\ files' = files /\ built' = built /\ lru' = lru
      /\ rd' = [rd EXCEPT ![t] = IF r.offsets # << >> /\ MayContain(r.filter, k)
                                   THEN wanted ELSE none]
  BY <1>1 DEF Open
<1>7. CASE r.offsets # << >> /\ MayContain(r.filter, k)
  <2>1. i \in 1..Len(r.offsets) /\ GetByKey(Decode(RawBlock(r, i)), k) = Found(u, k)
    BY <1>5, <1>7 DEF Answers
  <2> HIDE DEF i
  <2>2. i \in Nat
    BY <2>1
  <2>3. Asks(wanted, files, built)
    BY <1>1, <1>3, <2>1, <2>2 DEF Asks
  <2>4. rd' = [rd EXCEPT ![t] = wanted]
    BY <1>6, <1>7
  <2>5. Reads(wanted, files, built)
    BY <2>3 DEF Reads
  <2> HIDE DEF wanted
  <2>6. Fits(lru)' /\ Cache!Listed(lru') \in Seq(BlocksOf(files))
    BY <1>2, <1>6
  <2> QED BY <1>6, <2>4, <2>5, <2>6, ReaderInv
<1>8. CASE ~ (r.offsets # << >> /\ MayContain(r.filter, k))
  <2>1. Found(u, k) = NotFound
    BY <1>5, <1>8 DEF Answers
  <2>2. Answered(none, files, built)
    BY <1>3, <2>1 DEF Answered
  <2>3. rd' = [rd EXCEPT ![t] = none]
    BY <1>6, <1>8
  <2>4. Reads(none, files, built)
    BY <2>2 DEF Reads
  <2> HIDE DEF none
  <2>5. Fits(lru)' /\ Cache!Listed(lru') \in Seq(BlocksOf(files))
    BY <1>2, <1>6
  <2> QED BY <1>6, <2>3, <2>4, <2>5, ReaderInv
<1> QED BY <1>7, <1>8


\* A reader at work has a table, a key and a block that has the answer.
LEMMA AtWork ==
    ASSUME TablesInv, NEW t \in Readers, rd[t].at \in {"cache", "read"}
    PROVE  /\ rd[t].num \in 1..Len(files) /\ rd[t].key \in Keys
           /\ rd[t].block \in 1..Len(OpenTable(files[rd[t].num]).offsets) /\ rd[t].block \in Nat
           /\ rd[t] = [at |-> rd[t].at, num |-> rd[t].num, key |-> rd[t].key,
                       block |-> rd[t].block]
           /\ GetByKey(Decode(RawBlock(OpenTable(files[rd[t].num]), rd[t].block)), rd[t].key)
                = Found(built[rd[t].num], rd[t].key)
<1>1. Reads(rd[t], files, built)
  BY DEF TablesInv
<1>2. rd[t] # Idle
  BY DEF Idle
<1>3. ASSUME Answered(rd[t], files, built) PROVE FALSE
  <2>1. PICK n \in 1..Len(files), k \in Keys :
            rd[t] = [at |-> "done", num |-> n, key |-> k, result |-> Found(built[n], k)]
    BY <1>3 DEF Answered
  <2>2. rd[t].at = "done"
    BY <2>1
  <2> QED BY <2>2
<1>4. Asks(rd[t], files, built)
  BY <1>1, <1>2, <1>3 DEF Reads
<1>5. PICK a \in {"cache", "read"}, n \in 1..Len(files), k \in Keys, i \in Nat :
          /\ rd[t] = [at |-> a, num |-> n, key |-> k, block |-> i]
          /\ i \in 1..Len(OpenTable(files[n]).offsets)
          /\ GetByKey(Decode(RawBlock(OpenTable(files[n]), i)), k) = Found(built[n], k)
  BY <1>4 DEF Asks
<1>6. rd[t].at = a /\ rd[t].num = n /\ rd[t].key = k /\ rd[t].block = i
  BY <1>5
<1> QED BY <1>5, <1>6

\* The answer of a reader at work.
Answering(s, fs, bs, result) ==
    /\ s.num \in 1..Len(fs) /\ s.key \in Keys /\ result = Found(bs[s.num], s.key)

LEMMA AnswerReads ==
    ASSUME NEW s, NEW fs, NEW bs, NEW result, Answering(s, fs, bs, result)
    PROVE  Reads([at |-> "done", num |-> s.num, key |-> s.key, result |-> result], fs, bs)
<1>1. Answered([at |-> "done", num |-> s.num, key |-> s.key, result |-> result], fs, bs)
  BY DEF Answering, Answered
<1> QED BY <1>1 DEF Reads

LEMMA LookInCacheInv ==
    ASSUME TablesInv, NEW t \in Readers, LookInCache(t)
    PROVE  TablesInv'
<1> DEFINE n == rd[t].num
           k == rd[t].key
           i == rd[t].block
           id == <<n, i>>
           raw == RawBlock(OpenTable(files[n]), i)
           known == lru.nodes[lru.map[id]].value
           result == GetByKey(Decode(known), k)
           hit == [at |-> "done", num |-> n, key |-> k, result |-> result]
           miss == [rd[t] EXCEPT !.at = "read"]
<1>1. rd[t].at = "cache" /\ files' = files /\ built' = built
  BY DEF LookInCache
<1>2. /\ n \in 1..Len(files) /\ k \in Keys /\ i \in 1..Len(OpenTable(files[n]).offsets)
      /\ i \in Nat /\ rd[t] = [at |-> "cache", num |-> n, key |-> k, block |-> i]
      /\ GetByKey(Decode(raw), k) = Found(built[n], k)
  BY <1>1, AtWork
<1>3. /\ Fits(lru) /\ Cache!Listed(lru) \in Seq(BlocksOf(files))
      /\ rd = [u \in Readers |-> rd[u]]
  BY DEF TablesInv
<1>4. CASE id \in DOMAIN lru.map
  <2>1. rd' = [rd EXCEPT ![t] = hit] /\ lru' = Cache!Touched(lru, id)
    BY <1>4 DEF LookInCache, Answer, Cache!CacheGet
  <2>2. known = raw
    BY <1>3, <1>4, CacheGives
  <2>3. Answering(rd[t], files, built, result)
    BY <1>2, <2>2 DEF Answering
  <2>4. Reads(hit, files, built)
    BY <2>3, AnswerReads
  <2> HIDE DEF hit, id
  <2>5. PICK c : c = Cache!Touched(lru, id)
    OBVIOUS
  <2>6. Fits(c) /\ (c = lru \/ Fronts(Cache!Listed(lru), Cache!Listed(c)))
    BY <1>3, <1>4, <2>5, TouchedFits
  <2>7. Cache!Listed(c) \in Seq(BlocksOf(files))
    BY <1>3, <2>6, ListStays
  <2>8. lru' = c
    BY <2>1, <2>5
  <2>9. Fits(lru)' /\ Cache!Listed(lru') \in Seq(BlocksOf(files))
    BY <2>6, <2>7, <2>8
  <2> QED BY <1>1, <2>1, <2>4, <2>9, ReaderInv
<1>5. CASE id \notin DOMAIN lru.map
  <2>1. rd' = [rd EXCEPT ![t].at = "read"] /\ lru' = lru
    BY <1>5 DEF LookInCache
  <2>2. rd' = [rd EXCEPT ![t] = miss]
    BY <2>1
  <2>3. miss = [at |-> "read", num |-> n, key |-> k, block |-> i]
    BY <1>2
  <2>4. Asks(miss, files, built)
    <3> HIDE DEF n, k, i, miss
    <3> QED BY <1>2, <2>3 DEF Asks
  <2>5. Reads(miss, files, built)
    BY <2>4 DEF Reads
  <2> HIDE DEF miss
  <2>6. Fits(lru)' /\ Cache!Listed(lru') \in Seq(BlocksOf(files))
    BY <1>3, <2>1
  <2> QED BY <1>1, <2>2, <2>5, <2>6, ReaderInv
<1> QED BY <1>4, <1>5

\* Putting in a block of a table leaves blocks of tables.
LEMMA PutInStays ==
    ASSUME Fits(lru), Cache!Listed(lru) \in Seq(BlocksOf(files)), NEW n \in 1..Len(files),
           NEW i \in 1..Len(OpenTable(files[n]).offsets), NEW c,
           c = Cache!Inserted(lru, <<n, i>>, RawBlock(OpenTable(files[n]), i))
    PROVE  Fits(c) /\ Cache!Listed(c) \in Seq(BlocksOf(files))
<1> DEFINE id == <<n, i>>
           b == RawBlock(OpenTable(files[n]), i)
<1>1. <<id, b>> \in BlocksOf(files)
  BY BlockIsOf
<1>2. c = Cache!Inserted(lru, id, b)
  OBVIOUS
<1> HIDE DEF id, b
<1>3. Fits(c) /\ (c = lru \/ Puts(Cache!Listed(lru), Cache!Listed(c), id, b))
  BY <1>2, InsertedFits
<1>4. Cache!Listed(c) \in Seq(BlocksOf(files))
  BY <1>1, <1>3, ListStays
<1> QED BY <1>3, <1>4

LEMMA ReadBlockInv ==
    ASSUME TablesInv, NEW t \in Readers, ReadBlock(t)
    PROVE  TablesInv'
<1> DEFINE n == rd[t].num
           k == rd[t].key
           i == rd[t].block
           raw == RawBlock(OpenTable(files[n]), i)
           result == GetByKey(Decode(raw), k)
           answer == [at |-> "done", num |-> n, key |-> k, result |-> result]
<1>1. /\ rd[t].at = "read" /\ files' = files /\ built' = built
      /\ rd' = [rd EXCEPT ![t] = answer] /\ lru' = Cache!Inserted(lru, <<n, i>>, raw)
  BY DEF ReadBlock, Answer, Cache!CacheInsert
<1>2. /\ n \in 1..Len(files) /\ k \in Keys /\ i \in 1..Len(OpenTable(files[n]).offsets)
      /\ result = Found(built[n], k)
  BY <1>1, AtWork
<1>3. Fits(lru) /\ Cache!Listed(lru) \in Seq(BlocksOf(files))
  BY DEF TablesInv
<1>4. Reads(answer, files, built)
  BY <1>2, AnswerReads DEF Answering
<1> HIDE DEF answer
<1>5. PICK c : c = Cache!Inserted(lru, <<n, i>>, raw)
  OBVIOUS
<1>6. Fits(c) /\ Cache!Listed(c) \in Seq(BlocksOf(files))
  <2> HIDE DEF n, i
  <2> QED BY <1>2, <1>3, <1>5, PutInStays
<1>7. lru' = c
  BY <1>1, <1>5
<1>8. Fits(lru)' /\ Cache!Listed(lru') \in Seq(BlocksOf(files))
  BY <1>6, <1>7
<1> QED BY <1>1, <1>4, <1>8, ReaderInv

\* What the others do to the cache leaves it with blocks of tables.
LEMMA OthersKeep ==
    ASSUME Fits(lru), Cache!Listed(lru) \in Seq(BlocksOf(files)), OthersUseCache
    PROVE  Fits(lru)' /\ Cache!Listed(lru') \in Seq(BlocksOf(files))
<1>1. ASSUME NEW id \in DOMAIN lru.map, lru' = Cache!Touched(lru, id)
      PROVE  Fits(lru)' /\ Cache!Listed(lru') \in Seq(BlocksOf(files))
  <2>1. PICK c : c = Cache!Touched(lru, id)
    OBVIOUS
  <2>2. Fits(c) /\ (c = lru \/ Fronts(Cache!Listed(lru), Cache!Listed(c)))
    BY <2>1, TouchedFits
  <2>3. Cache!Listed(c) \in Seq(BlocksOf(files))
    BY <2>2, ListStays
  <2>4. lru' = c
    BY <1>1, <2>1
  <2> QED BY <2>2, <2>3, <2>4
<1>2. ASSUME NEW id \in DOMAIN lru.map, lru' = Cache!Removed(lru, id)
      PROVE  Fits(lru)' /\ Cache!Listed(lru') \in Seq(BlocksOf(files))
  <2>1. PICK c : c = Cache!Removed(lru, id)
    OBVIOUS
  <2>2. Fits(c) /\ Drops(Cache!Listed(lru), Cache!Listed(c))
    BY <2>1, RemovedFits
  <2>3. Cache!Listed(c) \in Seq(BlocksOf(files))
    BY <2>2, ListStays
  <2>4. lru' = c
    BY <1>2, <2>1
  <2> QED BY <2>2, <2>3, <2>4
<1>3. ASSUME NEW n \in 1..Len(files), NEW i \in 1..Len(OpenTable(files[n]).offsets),
             lru' = Cache!Inserted(lru, <<n, i>>, RawBlock(OpenTable(files[n]), i))
      PROVE  Fits(lru)' /\ Cache!Listed(lru') \in Seq(BlocksOf(files))
  <2>1. PICK c : c = Cache!Inserted(lru, <<n, i>>, RawBlock(OpenTable(files[n]), i))
    OBVIOUS
  <2>2. Fits(c) /\ Cache!Listed(c) \in Seq(BlocksOf(files))
    BY <2>1, PutInStays
  <2>3. lru' = c
    BY <1>3, <2>1
  <2> QED BY <2>2, <2>3
<1>4. ASSUME lru' = Cache!NewCache
      PROVE  Fits(lru)' /\ Cache!Listed(lru') \in Seq(BlocksOf(files))
  <2>1. << >> \in Seq(BlocksOf(files))
    OBVIOUS
  <2> QED BY <1>4, <2>1, NewFits
<1> QED
  BY <1>1, <1>2, <1>3, <1>4
  DEF OthersUseCache, Cache!CacheGet, Cache!CacheRemove, Cache!CacheInsert, Cache!CacheClear

\* A step that neither a writer nor a reader takes.
LEMMA ElseInv ==
    ASSUME TablesInv, files' = files, built' = built, rd' = rd,
           Fits(lru)', Cache!Listed(lru') \in Seq(BlocksOf(files))
    PROVE  TablesInv'
<1>1. /\ Filed(files, built) /\ rd = [u \in Readers |-> rd[u]]
      /\ \A u \in Readers : Reads(rd[u], files, built)
  BY DEF TablesInv
<1>2. rd' = [u \in Readers |-> rd'[u]] /\ \A u \in Readers : Reads(rd'[u], files', built')
  BY <1>1
<1>3. Filed(files', built') /\ Cache!Listed(lru') \in Seq(BlocksOf(files'))
  BY <1>1
<1> QED BY <1>2, <1>3 DEF TablesInv

LEMMA TablesNextInv == TablesInv /\ [TablesNext]_tableReadVars => TablesInv'
<1> SUFFICES ASSUME TablesInv, [TablesNext]_tableReadVars PROVE TablesInv'
  OBVIOUS
<1>1. Fits(lru) /\ Cache!Listed(lru) \in Seq(BlocksOf(files))
  BY DEF TablesInv
<1>2. ASSUME NEW t \in Tables, WriteTable(t) PROVE TablesInv'
  BY <1>2, WriteTableInv
<1>3. ASSUME NEW t \in Readers, NEW n \in 1..Len(files), NEW k \in Keys, Open(t, n, k)
      PROVE  TablesInv'
  BY <1>3, OpenInv
<1>4. ASSUME NEW t \in Readers, LookInCache(t) PROVE TablesInv'
  BY <1>4, LookInCacheInv
<1>5. ASSUME NEW t \in Readers, ReadBlock(t) PROVE TablesInv'
  BY <1>5, ReadBlockInv
<1>6. CASE OthersUseCache
  <2>1. files' = files /\ built' = built /\ rd' = rd
    BY <1>6 DEF OthersUseCache
  <2>2. Fits(lru)' /\ Cache!Listed(lru') \in Seq(BlocksOf(files))
    BY <1>1, <1>6, OthersKeep
  <2> QED BY <2>1, <2>2, ElseInv
<1>7. CASE UNCHANGED tableReadVars
  <2>1. files' = files /\ built' = built /\ rd' = rd /\ lru' = lru
    BY <1>7 DEF tableReadVars
  <2>2. Fits(lru)' /\ Cache!Listed(lru') \in Seq(BlocksOf(files))
    BY <1>1, <2>1
  <2> QED BY <2>1, <2>2, ElseInv
<1> QED BY <1>2, <1>3, <1>4, <1>5, <1>6, <1>7 DEF TablesNext

LEMMA InvIsExact == TablesInv => TablesReadExactly
<1> SUFFICES ASSUME TablesInv PROVE TablesReadExactly
  OBVIOUS
<1>1. TableGetIsExact
  <2>1. ASSUME NEW t \in Readers, rd[t].at = "done"
        PROVE  rd[t].result = Found(built[rd[t].num], rd[t].key)
    <3>1. Reads(rd[t], files, built)
      BY DEF TablesInv
    <3>2. rd[t] # Idle
      BY <2>1 DEF Idle
    <3>3. ASSUME Asks(rd[t], files, built) PROVE FALSE
      <4>1. PICK a \in {"cache", "read"}, n \in 1..Len(files), k \in Keys, i \in Nat :
                rd[t] = [at |-> a, num |-> n, key |-> k, block |-> i]
        BY <3>3 DEF Asks
      <4>2. rd[t].at = a
        BY <4>1
      <4> QED BY <2>1, <4>2
    <3>4. Answered(rd[t], files, built)
      BY <3>1, <3>2, <3>3 DEF Reads
    <3> QED BY <3>4 DEF Answered
  <2> QED BY <2>1 DEF TableGetIsExact, Found
<1>2. ASSUME NEW n \in 1..Len(files)
      PROVE  ReadAllEntries(OpenTable(files[n])) = Ascending(built[n])
  <2>1. /\ built[n] \in Tables /\ files[n] = TableFile(Ascending(built[n]))
    <3>1. Filed(files, built)
      BY DEF TablesInv
    <3> QED BY <3>1 DEF Filed
  <2>2. OpenTable(files[n]) = OpenTable(TableFile(Ascending(built[n])))
    BY <2>1
  <2> QED BY <2>1, <2>2, TableIsRight
<1> QED BY <1>1, <1>2 DEF TablesReadExactly, TablesReadBack

\* A lookup in a table, through its filter, its index, the bisection of a block and the
\* cache that all readers share, finds exactly what the table was built from, and
\* read_all_entries gives it all back in order, for any keys, block size, filter and cache
\* (builder.rs:23-94, reader.rs:74-145, block.rs:80-110).
THEOREM TablesReadRight == TablesSpec => []TablesReadExactly
<1>1. TablesInit => TablesInv
  BY TablesInitInv
<1>2. TablesInv /\ [TablesNext]_tableReadVars => TablesInv'
  BY TablesNextInv
<1>3. TablesInv => TablesReadExactly
  BY InvIsExact
<1> QED BY <1>1, <1>2, <1>3, PTL DEF TablesSpec

-----------------------------------------------------------------------------
(* The counter of a memtable                                               *)

\* Numbers a multiple of W apart leave the same remainder.
LEMMA SameRemainder ==
    ASSUME NEW W \in Nat \ {0}, NEW a \in Int, NEW q \in Int
    PROVE  (a + q * W) % W = a % W
<1>1. PICK d \in Int, r \in 0..(W - 1) : d = a \div W /\ r = a % W /\ a = W * d + r
  OBVIOUS
<1>2. PICK b \in Int : b = a + q * W
  OBVIOUS
<1>3. PICK e \in Int, s \in 0..(W - 1) : e = b \div W /\ s = b % W /\ b = W * e + s
  OBVIOUS
<1>4. PICK u \in Int : u = d + q - e
  OBVIOUS
<1>5. W * u = s - r
  BY <1>1, <1>2, <1>3, <1>4
<1>6. u = 0
  <2>1. CASE u >= 1
    <3>1. W * u >= W
      BY <2>1
    <3> QED BY <1>1, <1>3, <1>5, <3>1
  <2>2. CASE u <= -1
    <3>1. W * u <= -W
      BY <2>2
    <3> QED BY <1>1, <1>3, <1>5, <3>1
  <2> QED BY <2>1, <2>2
<1>7. s = r
  BY <1>5, <1>6
<1> QED BY <1>1, <1>2, <1>3, <1>7

\* The counter is off by what is owed, and has wrapped some number of times.
SizeInv ==
    /\ sizeOf \in [SizedKeys -> Nat] /\ owed \in [SizeWriters -> Int] /\ counter \in Int
    /\ \E q \in Int : counter + SumFunction(owed) = SumFunction(sizeOf) + q * Words

LEMMA SizeInitInv == SizeInit => SizeInv
<1> SUFFICES ASSUME SizeInit PROVE SizeInv
  OBVIOUS
<1>1. /\ sizeOf = [k \in SizedKeys |-> 0] /\ owed = [w \in SizeWriters |-> 0] /\ counter = 0
      /\ Words \in Int
  BY SizesArePositive DEF SizeInit
<1>2. SumFunction(owed) = 0 /\ SumFunction(sizeOf) = 0
  BY <1>1, FiniteSizes, SumOfNothing
<1>3. counter + SumFunction(owed) = SumFunction(sizeOf) + 0 * Words
  BY <1>1, <1>2
<1> QED BY <1>1, <1>3 DEF SizeInv

LEMMA InsertInv ==
    ASSUME SizeInv, NEW w \in SizeWriters, NEW k \in SizedKeys, NEW size \in Sizes,
           Insert(w, k, size)
    PROVE  SizeInv'
<1>1. /\ sizeOf \in [SizedKeys -> Nat] /\ owed \in [SizeWriters -> Int] /\ counter \in Int
      /\ size \in Nat /\ Words \in Int
  BY SizesArePositive DEF SizeInv
<1>2. PICK q \in Int : counter + SumFunction(owed) = SumFunction(sizeOf) + q * Words
  BY DEF SizeInv
<1>3. PICK d \in Int : d = size - sizeOf[k]
  BY <1>1
<1>4. PICK z : z = [sizeOf EXCEPT ![k] = size]
  OBVIOUS
<1>5. PICK o : o = [owed EXCEPT ![w] = d]
  OBVIOUS
<1>6. owed[w] = 0 /\ sizeOf' = z /\ owed' = o /\ counter' = counter
  BY <1>3, <1>4, <1>5 DEF Insert
<1>7. z \in [SizedKeys -> Nat] /\ o \in [SizeWriters -> Int]
  BY <1>1, <1>4, <1>5
<1>8. sizeOf \in [SizedKeys -> Int]
  BY <1>1
<1>9. SumFunction(z) = SumFunction(sizeOf) + d
  <2>1. size \in Int
    BY <1>1
  <2>2. Moves(sizeOf, z, k, size)
    BY <1>4, <1>8, <2>1, FiniteSizes, SumChanges
  <2> QED BY <1>3, <2>2 DEF Moves
<1>10. SumFunction(o) = SumFunction(owed) + (d - owed[w])
  <2>1. Moves(owed, o, w, d)
    BY <1>1, <1>5, FiniteSizes, SumChanges
  <2> QED BY <2>1 DEF Moves
<1>11. SumFunction(sizeOf) \in Int /\ SumFunction(owed) \in Int
  BY <1>1, <1>8, FiniteSizes, SumIsInt
<1>12. counter + SumFunction(o) = SumFunction(z) + q * Words
  <2>1. PICK p \in Int : p = q * Words
    BY <1>1
  <2> QED BY <1>1, <1>2, <1>6, <1>9, <1>10, <1>11, <2>1
<1> QED BY <1>1, <1>6, <1>7, <1>12 DEF SizeInv

LEMMA UpdateSizeInv ==
    ASSUME SizeInv, NEW w \in SizeWriters, UpdateSize(w)
    PROVE  SizeInv'
<1>1. /\ sizeOf \in [SizedKeys -> Nat] /\ owed \in [SizeWriters -> Int] /\ counter \in Int
      /\ Words \in Nat \ {0}
  BY SizesArePositive DEF SizeInv
<1>2. PICK q \in Int : counter + SumFunction(owed) = SumFunction(sizeOf) + q * Words
  BY DEF SizeInv
<1>3. PICK a \in Int : a = counter + owed[w]
  BY <1>1
<1>4. PICK d \in Int, c \in Int : c = a % Words /\ a = Words * d + c
  BY <1>1
<1>5. PICK o : o = [owed EXCEPT ![w] = 0]
  OBVIOUS
<1>6. sizeOf' = sizeOf /\ owed' = o /\ counter' = c
  BY <1>3, <1>4, <1>5 DEF UpdateSize
<1>7. o \in [SizeWriters -> Int]
  BY <1>1, <1>5
<1>8. SumFunction(o) = SumFunction(owed) + (0 - owed[w])
  <2>1. PICK v \in Int : v = 0
    OBVIOUS
  <2>2. Moves(owed, o, w, v)
    <3>1. o = [owed EXCEPT ![w] = v]
      BY <1>5, <2>1
    <3> QED BY <1>1, <3>1, FiniteSizes, SumChanges
  <2> QED BY <2>1, <2>2 DEF Moves
<1>9. SumFunction(sizeOf) \in Int /\ SumFunction(owed) \in Int /\ owed[w] \in Int
  <2>1. sizeOf \in [SizedKeys -> Int]
    BY <1>1
  <2> QED BY <1>1, <2>1, FiniteSizes, SumIsInt
<1>10. PICK n \in Int : n = q - d
  OBVIOUS
<1>11. c + SumFunction(o) = SumFunction(sizeOf) + n * Words
  <2>1. PICK p \in Int, e \in Int : p = q * Words /\ e = Words * d
    BY <1>1
  <2>2. n * Words = p - e
    BY <1>1, <1>10, <2>1
  <2>3. PICK m \in Int : m = n * Words
    BY <1>1
  <2>4. PICK so \in Int, sp \in Int, ss \in Int :
            so = SumFunction(o) /\ sp = SumFunction(owed) /\ ss = SumFunction(sizeOf)
    BY <1>1, <1>7, <1>9, FiniteSizes, SumIsInt
  <2>5. /\ counter + sp = ss + p /\ a = counter + owed[w] /\ a = e + c /\ so = sp - owed[w]
        /\ m = p - e
    BY <1>2, <1>3, <1>4, <1>8, <1>9, <2>1, <2>2, <2>3, <2>4
  <2>6. c + so = ss + m
    BY <1>1, <1>9, <2>5
  <2> QED BY <2>3, <2>4, <2>6
<1> QED BY <1>1, <1>6, <1>7, <1>10, <1>11 DEF SizeInv

\* However many writers replace entries of whatever sizes, in whatever order their updates of
\* the counter come and however often it wraps, it is off by what is still owed: when no
\* writer is between its insert and its update it is the size of the entries
\* (memtable/mod.rs:34-58).
THEOREM CounterIsExact == SizeSpec => []CounterAccounts
<1>1. SizeInit => SizeInv
  BY SizeInitInv
<1>2. SizeInv /\ [SizeNext]_sizeVars => SizeInv'
  <2> SUFFICES ASSUME SizeInv, [SizeNext]_sizeVars PROVE SizeInv'
    OBVIOUS
  <2>1. CASE UNCHANGED sizeVars
    BY <2>1 DEF SizeInv, sizeVars
  <2> QED BY <2>1, InsertInv, UpdateSizeInv DEF SizeNext
<1>3. SizeInv => CounterAccounts
  <2> SUFFICES ASSUME SizeInv PROVE CounterAccounts
    OBVIOUS
  <2>1. PICK q \in Int : counter + SumFunction(owed) = SumFunction(sizeOf) + q * Words
    BY DEF SizeInv
  <2>2. SumFunction(sizeOf) \in Int
    <3>1. sizeOf \in [SizedKeys -> Int]
      BY DEF SizeInv
    <3> QED BY <3>1, FiniteSizes, SumIsInt
  <2>3. (SumFunction(sizeOf) + q * Words) % Words = SumFunction(sizeOf) % Words
    BY <2>2, SizesArePositive, SameRemainder
  <2> QED BY <2>1, <2>3 DEF CounterAccounts, TotalSize
<1> QED BY <1>1, <1>2, <1>3, PTL DEF SizeSpec
=============================================================================
