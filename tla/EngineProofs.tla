---------------------------- MODULE EngineProofs ----------------------------
(***************************************************************************)
(* What module Engine guarantees for every set of keys, values, writers    *)
(* and flushers and every bound.  What a reopen can rely on comes second:  *)
(* which numbers the records of the files and of the memory carry, and     *)
(* what the manifest says of the version.                                  *)
(***************************************************************************)
EXTENDS Engine, SequenceTheorems, CountingTheorems

-----------------------------------------------------------------------------
(* Largest elements                                                        *)

\* A non-empty set of naturals with an upper bound has a largest element.
LEMMA LargestIsIn ==
    ASSUME NEW n \in Nat, NEW S \in SUBSET Nat, S # {}, \A x \in S : x <= n
    PROVE  Largest(S) \in S /\ \A x \in S : x <= Largest(S)
<1> DEFINE D == {n - x : x \in S}
<1>1. \A x \in S : n - x \in Nat
  OBVIOUS
<1>2. D \in SUBSET Nat
  BY <1>1
<1>3. D # {}
  OBVIOUS
<1>4. PICK d \in D : \A y \in D : d <= y
  BY <1>2, <1>3, LeastExists
<1>5. PICK m \in S : d = n - m
  BY <1>4
<1>6. \A x \in S : n - m <= n - x
  BY <1>4, <1>5
<1>7. \A x \in S : x <= m
  BY <1>6
<1> QED BY <1>7 DEF Largest

\* The numbers f[1], ..., f[n] have an upper bound.
LEMMA BoundExists ==
    ASSUME NEW n \in Nat, NEW f, \A i \in 1..n : f[i] \in Nat
    PROVE  \E b \in Nat : \A i \in 1..n : f[i] <= b
<1> DEFINE Unbounded == {m \in 0..n : ~ \E b \in Nat : \A i \in 1..m : f[i] <= b}
<1>1. SUFFICES ASSUME Unbounded # {} PROVE FALSE
  <2>1. n \notin Unbounded
    BY <1>1
  <2> QED BY <2>1
<1>2. PICK m \in Unbounded : \A x \in Unbounded : m <= x
  <2>1. Unbounded \in SUBSET Nat
    OBVIOUS
  <2> QED BY <1>1, <2>1, LeastExists
<1>3. m # 0
  <2>1. \A i \in 1..0 : f[i] <= 0
    OBVIOUS
  <2> QED BY <1>2, <2>1
<1>4. m - 1 \in 0..n /\ m - 1 \notin Unbounded
  <2>1. m \in Nat /\ m # 0 /\ m <= n
    BY <1>2, <1>3
  <2>2. m - 1 \in 0..n /\ ~ (m <= m - 1)
    BY <2>1
  <2> QED BY <1>2, <2>2
<1>5. PICK b \in Nat : \A i \in 1..(m - 1) : f[i] <= b
  BY <1>4
<1>6. f[m] \in Nat
  BY <1>2, <1>3
<1>7. PICK c \in Nat : b <= c /\ f[m] <= c
  <2>1. b <= b + f[m] /\ f[m] <= b + f[m] /\ b + f[m] \in Nat
    BY <1>6
  <2> QED BY <2>1
<1>8. \A i \in 1..m : f[i] <= c
  <2> TAKE i \in 1..m
  <2>1. CASE i = m
    BY <2>1, <1>7
  <2>2. CASE i # m
    <3>1. i \in 1..(m - 1) /\ f[i] \in Nat
      BY <2>2, <1>2
    <3> QED BY <3>1, <1>5, <1>7
  <2> QED BY <2>1, <2>2
<1> QED BY <1>2, <1>7, <1>8

-----------------------------------------------------------------------------
(* Lookups                                                                 *)

\* No table, no entry.
LEMMA NewestOfNone == \A k : Newest(<< >>, k) = NoEntry
BY DEF Newest, HitAt

\* The last table has the key: the lookup ends there.
LEMMA NewestIsLast ==
    ASSUME NEW S, NEW ts \in Seq(S), ts # << >>, NEW k,
           ts[Len(ts)].table[k] # NoEntry
    PROVE  Newest(ts, k) = ts[Len(ts)].table[k]
<1>1. HitAt(ts, Len(ts), k)
  BY DEF HitAt
<1>2. \A i \in 1..Len(ts) : HitAt(ts, i, k) => i = Len(ts)
  BY DEF HitAt
<1>3. Len(ts) \in 1..Len(ts)
  OBVIOUS
<1>4. (CHOOSE i \in 1..Len(ts) : HitAt(ts, i, k)) = Len(ts)
  BY <1>1, <1>2, <1>3
<1> QED BY <1>1, <1>3, <1>4 DEF Newest

\* It has not: the lookup is the one in the tables before it.
LEMMA NewestPastLast ==
    ASSUME NEW S, NEW ts \in Seq(S), NEW t \in S, NEW k, t.table[k] = NoEntry
    PROVE  Newest(Append(ts, t), k) = Newest(ts, k)
<1> DEFINE us == Append(ts, t)
<1>1. Len(us) = Len(ts) + 1 /\ us[Len(us)] = t /\ \A i \in 1..Len(ts) : us[i] = ts[i]
  OBVIOUS
<1>2. \A i \in 1..Len(us) : HitAt(us, i, k) <=> i \in 1..Len(ts) /\ HitAt(ts, i, k)
  <2> TAKE i \in 1..Len(us)
  <2>1. CASE i = Len(us)
    BY <2>1, <1>1 DEF HitAt
  <2>2. CASE i # Len(us)
    <3>1. i \in 1..Len(ts) /\ us[i] = ts[i]
      BY <2>2, <1>1
    <3>2. (\A j \in (i + 1)..Len(us) : us[j].table[k] = NoEntry)
              <=> (\A j \in (i + 1)..Len(ts) : ts[j].table[k] = NoEntry)
      BY <3>1, <1>1
    <3> QED BY <3>1, <3>2 DEF HitAt
  <2> QED BY <2>1, <2>2
<1>3. CASE ~ \E i \in 1..Len(ts) : HitAt(ts, i, k)
  BY <1>2, <1>3 DEF Newest
<1>4. CASE \E i \in 1..Len(ts) : HitAt(ts, i, k)
  <2>1. PICK i \in 1..Len(ts) : HitAt(ts, i, k)
    BY <1>4
  <2>2. \A j \in 1..Len(ts) : HitAt(ts, j, k) => j = i
    BY <2>1 DEF HitAt
  <2>3. i \in 1..Len(us) /\ HitAt(us, i, k)
    BY <2>1, <1>1, <1>2
  <2>4. \A j \in 1..Len(us) : HitAt(us, j, k) => j = i
    BY <2>2, <1>2
  <2>5. (CHOOSE j \in 1..Len(ts) : HitAt(ts, j, k)) = i
    BY <2>1, <2>2
  <2>6. (CHOOSE j \in 1..Len(us) : HitAt(us, j, k)) = i
    BY <2>3, <2>4
  <2>7. Newest(ts, k) = ts[i].table[k]
    BY <2>1, <2>5 DEF Newest
  <2>8. Newest(us, k) = us[i].table[k]
    BY <2>3, <2>6 DEF Newest
  <2> QED BY <2>1, <2>7, <2>8, <1>1
<1> QED BY <1>3, <1>4

\* One table: what it has.
LEMMA NewestOfOne ==
    ASSUME NEW t, NEW k
    PROVE  Newest(<<t>>, k) = t.table[k]
<1>1. <<t>> \in Seq({t}) /\ <<t>> # << >> /\ Len(<<t>>) = 1 /\ <<t>>[1] = t
  OBVIOUS
<1>2. CASE t.table[k] # NoEntry
  <2>1. <<t>>[Len(<<t>>)].table[k] # NoEntry
    BY <1>1, <1>2
  <2>2. Newest(<<t>>, k) = <<t>>[Len(<<t>>)].table[k]
    BY <1>1, <2>1, NewestIsLast
  <2> QED BY <1>1, <2>2
<1>3. CASE t.table[k] = NoEntry
  <2>1. \A i \in 1..Len(<<t>>) : ~ HitAt(<<t>>, i, k)
    BY <1>1, <1>3 DEF HitAt
  <2> QED BY <1>3, <2>1 DEF Newest
<1> QED BY <1>2, <1>3
\* A lookup finds an entry.
LEMMA NewestType ==
    ASSUME NEW S, NEW ts \in Seq(S), \A x \in S : x.table \in Table, NEW k \in Keys
    PROVE  Newest(ts, k) \in Entry
<1>1. NoEntry \in Entry
  BY DEF NoEntry, Entry, Contents
<1>2. \A i \in 1..Len(ts) : ts[i].table[k] \in Entry
  <2> TAKE i \in 1..Len(ts)
  <2>1. ts[i] \in S
    OBVIOUS
  <2>2. ts[i].table \in Table
    BY <2>1
  <2> QED BY <2>2 DEF Table
<1> QED BY <1>1, <1>2 DEF Newest

\* So does a get that runs alone.
LEMMA VisibleType ==
    ASSUME TypeOK, NEW k \in Keys
    PROVE  /\ active.table[k] \in Entry /\ Newest(imm, k) \in Entry /\ Newest(l0, k) \in Entry
           /\ Visible(k) \in Entry
<1>1. \A m \in MemTable : m.table \in Table
  BY DEF MemTable
<1>2. \A e \in Edit : e.table \in Table
  BY DEF Edit
<1>3. active.table[k] \in Entry
  BY <1>1 DEF TypeOK, Table
<1>4. Newest(imm, k) \in Entry /\ Newest(l0, k) \in Entry
  BY <1>1, <1>2, NewestType DEF TypeOK
<1> QED BY <1>3, <1>4 DEF Visible, Lookup

-----------------------------------------------------------------------------
(* Logs and their recovery                                                 *)

\* What is read of a log is a sequence of its intact records.
LEMMA ReadableType ==
    ASSUME NEW S, NEW log \in Seq(S \cup {Torn})
    PROVE  Readable(log) \in Seq(S)
<1> DEFINE N == {n \in 0..Len(log) : \A i \in 1..n : log[i] # Torn}
<1>1. 0 \in N /\ N \in SUBSET Nat /\ \A n \in N : n <= Len(log)
  OBVIOUS
<1>2. Largest(N) \in N
  BY <1>1, LargestIsIn, Len(log) \in Nat
<1> DEFINE m == Largest(N)
<1> HIDE DEF m
<1>3. m \in 0..Len(log) /\ \A i \in 1..m : log[i] # Torn
  BY <1>2 DEF m
<1>4. \A i \in 1..m : log[i] \in S
  BY <1>3
<1>5. SubSeq(log, 1, m) = [i \in 1..m |-> log[i]]
  BY <1>3
<1>6. SubSeq(log, 1, m) \in Seq(S)
  BY <1>3, <1>4, <1>5
<1> QED BY <1>6 DEF Readable, m

\* The highest last_sequence of the edits read is a number.
LEMMA FlushedUpToType ==
    ASSUME NEW edits \in Seq(Edit)
    PROVE  FlushedUpTo(edits) \in Nat
<1>1. \A i \in 1..Len(edits) : edits[i].last \in Nat
  <2>1. \A i \in 1..Len(edits) : edits[i] \in Edit
    OBVIOUS
  <2> QED BY <2>1 DEF Edit
<1> DEFINE f == [i \in 1..Len(edits) |-> edits[i].last]
<1>2. PICK b \in Nat : \A i \in 1..Len(edits) : f[i] <= b
  BY <1>1, BoundExists, Len(edits) \in Nat
<1> DEFINE S == {0} \cup {edits[i].last : i \in 1..Len(edits)}
<1>3. S \in SUBSET Nat /\ S # {} /\ \A x \in S : x <= b
  BY <1>1, <1>2
<1>4. Largest(S) \in S
  BY <1>3, LargestIsIn
<1> QED BY <1>3, <1>4 DEF FlushedUpTo

\* Numbering resumes above every record read.
LEMMA RecoveredSeqIsBound ==
    ASSUME NEW log \in Seq(Record), NEW flushed \in Nat
    PROVE  /\ RecoveredSeq(log, flushed) \in Nat
           /\ flushed <= RecoveredSeq(log, flushed)
           /\ \A i \in 1..Len(log) : log[i].seq <= RecoveredSeq(log, flushed)
<1>1. \A i \in 1..Len(log) : log[i].seq \in Nat
  <2>1. \A i \in 1..Len(log) : log[i] \in Record
    OBVIOUS
  <2> QED BY <2>1 DEF Record
<1> DEFINE f == [i \in 1..Len(log) |-> log[i].seq]
<1>2. PICK b \in Nat : \A i \in 1..Len(log) : f[i] <= b
  BY <1>1, BoundExists, Len(log) \in Nat
<1>3. PICK c \in Nat : b <= c /\ flushed <= c
  <2>1. b <= b + flushed /\ flushed <= b + flushed /\ b + flushed \in Nat
    OBVIOUS
  <2> QED BY <2>1
<1> DEFINE S == {flushed} \cup {log[i].seq : i \in 1..Len(log)}
<1>4. \A i \in 1..Len(log) : log[i].seq <= c
  BY <1>1, <1>2, <1>3
<1>5. S \in SUBSET Nat /\ S # {} /\ \A x \in S : x <= c
  BY <1>1, <1>3, <1>4
<1>6. Largest(S) \in S /\ \A x \in S : x <= Largest(S)
  BY <1>5, LargestIsIn
<1> QED BY <1>5, <1>6 DEF RecoveredSeq

\* The recovered memtable holds entries of the log, numbered up to RecoveredSeq.
LEMMA RecoveredMemTableType ==
    ASSUME NEW log \in Seq(Record), NEW flushed \in Nat
    PROVE  /\ RecoveredMemTable(log, flushed) \in MemTable
           /\ \A k \in Keys : RecoveredMemTable(log, flushed).table[k].seq
                                  <= RecoveredSeq(log, flushed)
<1>1. ASSUME NEW k \in Keys
      PROVE  Replayed(log, flushed, k) \in Entry
                 /\ Replayed(log, flushed, k).seq <= RecoveredSeq(log, flushed)
  <2> DEFINE I == {i \in 1..Len(log) : log[i].key = k /\ log[i].seq > flushed}
  <2>1. CASE I = {}
    <3>1. Replayed(log, flushed, k) = NoEntry
      BY <2>1 DEF Replayed
    <3> QED BY <3>1, RecoveredSeqIsBound DEF NoEntry, Entry, Contents
  <2>2. CASE I # {}
    <3>1. Largest(I) \in I
      <4>1. I \in SUBSET Nat /\ \A x \in I : x <= Len(log)
        OBVIOUS
      <4> QED BY <2>2, <4>1, LargestIsIn, Len(log) \in Nat
    <3>2. PICK i \in 1..Len(log) : Largest(I) = i
      BY <3>1
    <3>3. Replayed(log, flushed, k) = EntryOf(log[i])
      BY <2>2, <3>2 DEF Replayed
    <3>4. log[i] \in Record /\ log[i].seq <= RecoveredSeq(log, flushed)
      BY RecoveredSeqIsBound
    <3> QED BY <3>3, <3>4 DEF EntryOf, Entry, Record
  <2> QED BY <2>1, <2>2
<1>2. [k \in Keys |-> Replayed(log, flushed, k)] \in Table
  BY <1>1 DEF Table
<1> QED BY <1>1, <1>2 DEF RecoveredMemTable, MemTable

\* A part of a write of records consists of records, and possibly Torn.
LEMMA CutShortType ==
    ASSUME NEW rs \in Seq(Record), NEW tail \in CutShort(rs)
    PROVE  tail \in Seq(Record \cup {Torn})
<1>1. PICK n \in 0..(Len(rs) - 1) :
         tail \in {SubSeq(rs, 1, n), Append(SubSeq(rs, 1, n), Torn)}
  BY DEF CutShort
<1>2. SubSeq(rs, 1, n) \in Seq(Record \cup {Torn})
  <2>1. SubSeq(rs, 1, n) = [i \in 1..n |-> rs[i]]
    OBVIOUS
  <2>2. \A i \in 1..n : rs[i] \in Record \cup {Torn}
    OBVIOUS
  <2> QED BY <2>1, <2>2
<1> QED BY <1>1, <1>2

\* The records collected for a rewrite can be put in order.
LEMMA InSeqOrderType ==
    ASSUME NEW R \in SUBSET Record, IsFiniteSet(R), NEW s \in InSeqOrder(R)
    PROVE  s \in Seq(Record)
<1>1. Cardinality(R) \in Nat
  BY FS_CardinalityType
<1>2. s \in [1..Cardinality(R) -> R]
  BY DEF InSeqOrder
<1> QED BY <1>1, <1>2
-----------------------------------------------------------------------------
(* Type correctness                                                        *)

\* What a call holds back, per place in the call.
CallsInv ==
    /\ \A t \in Threads : pc[t] \in {"seq", "apply", "applying"} <=> buf[t] # << >>
    /\ \A t \in Threads : pc[t] \in {"seq", "apply", "applying", "size"} => t \in Writers
    /\ \A t \in Threads : pc[t] \in {"build", "edit"} => Present(old.table) # {}

\* Numbers in memory have been handed out.
NumbersInv ==
    /\ \A k \in Keys : active.table[k].seq <= lastSeq
    /\ \A k \in Keys : old.table[k].seq <= lastSeq
    /\ \A t \in Threads : \A i \in 1..Len(buf[t]) : buf[t][i].seq \in 1..lastSeq

\* The inductive strengthening of TypeOK.
TypeInv == TypeOK /\ CallsInv /\ NumbersInv /\ IsFiniteSet(rest)

\* The invariant holds of a store opened on an empty directory.
LEMMA InitTypeInv == Init => TypeInv
<1> SUFFICES ASSUME Init PROVE TypeInv
  OBVIOUS
<1> USE DEF Init
<1>1. EmptyTable \in Table
  BY DEF EmptyTable, NoEntry, Table, Entry, Contents
<1>2. active \in MemTable /\ old \in MemTable
  BY <1>1 DEF MemTable
<1>3. TypeOK
  BY <1>2, BoundsAreNumbers DEF TypeOK
<1>4. CallsInv
  BY DEF CallsInv
<1>5. NumbersInv
  BY DEF NumbersInv, EmptyTable, NoEntry
<1>6. IsFiniteSet(rest)
  BY FS_EmptySet
<1> QED BY <1>3, <1>4, <1>5, <1>6 DEF TypeInv

\* The records of a table of typed entries.
LEMMA RecordsOfType ==
    ASSUME NEW table \in Table
    PROVE  RecordsOf(table) \in SUBSET Record /\ IsFiniteSet(RecordsOf(table))
<1>1. \A k \in Present(table) : k \in Keys /\ table[k] \in Entry
  BY DEF Present, Table
<1>2. \A k \in Present(table) :
         [key |-> k, seq |-> table[k].seq, val |-> table[k].val] \in Record
  BY <1>1 DEF Entry, Record
<1>3. IsFiniteSet(Present(table))
  BY KeysAreFinite, FS_Subset DEF Present
<1> DEFINE f == [k \in Present(table) |->
                   [key |-> k, seq |-> table[k].seq, val |-> table[k].val]]
<1>4. RecordsOf(table) = {f[k] : k \in Present(table)}
  BY DEF RecordsOf
<1>5. f \in Surjection(Present(table), RecordsOf(table))
  BY <1>4 DEF Surjection
<1>6. IsFiniteSet(RecordsOf(table))
  BY <1>3, <1>5, FS_Surjection
<1> QED BY <1>2, <1>6 DEF RecordsOf

\* A put or delete draws its number.
LEMMA NextSequenceTypeInv ==
    ASSUME TypeInv, NEW w \in Writers, NEW k \in Keys, NEW v \in Contents,
           NextSequence(w, k, v)
    PROVE  TypeInv'
<1> USE DEF NextSequence, TypeInv, files, tables, counters, locks, flushVars
<1> DEFINE r == [key |-> k, seq |-> lastSeq + 1, val |-> v]
<1>1. w \in Threads
  BY DEF Threads
<1>2. r \in Record
  BY DEF Record, TypeOK
<1>3. buf' \in [Threads -> Seq(Record)] /\ buf'[w] = Append(buf[w], r)
         /\ \A t \in Threads \ {w} : buf'[t] = buf[t]
  BY <1>1, <1>2 DEF TypeOK
<1>4. TypeOK'
  BY <1>1, <1>3 DEF TypeOK
<1>5. CallsInv'
  BY <1>1, <1>3, SMTT(30) DEF TypeOK, CallsInv
<1>6. NumbersInv'
  <2>1. \A j \in Keys : active.table[j].seq \in Nat /\ old.table[j].seq \in Nat
    BY DEF TypeOK, MemTable, Table, Entry
  <2>2. \A t \in Threads : \A i \in 1..Len(buf'[t]) : buf'[t][i].seq \in 1..(lastSeq + 1)
    <3> SUFFICES ASSUME NEW t \in Threads, NEW i \in 1..Len(buf'[t])
                 PROVE  buf'[t][i].seq \in 1..(lastSeq + 1)
      OBVIOUS
    <3>1. CASE t # w
      BY <3>1, <1>3 DEF TypeOK, NumbersInv
    <3>2. CASE t = w /\ i = Len(buf[w]) + 1
      <4>1. buf'[t][i] = r
        BY <3>2, <1>1, <1>3 DEF TypeOK
      <4> QED BY <4>1 DEF TypeOK
    <3>3. CASE t = w /\ i # Len(buf[w]) + 1
      <4>1. i \in 1..Len(buf[w]) /\ buf'[t][i] = buf[w][i]
        BY <3>3, <1>1, <1>3 DEF TypeOK
      <4> QED BY <4>1, <1>1 DEF TypeOK, NumbersInv
    <3> QED BY <3>1, <3>2, <3>3
  <2>3. \A j \in Keys : active.table[j].seq <= lastSeq + 1 /\ old.table[j].seq <= lastSeq + 1
    BY <2>1, SMTT(30) DEF TypeOK, NumbersInv
  <2> QED BY <2>2, <2>3 DEF NumbersInv
<1> QED BY <1>4, <1>5, <1>6

\* Appending to a log what is read from it as records, or Torn.
LEMMA LogGrows ==
    ASSUME NEW S, NEW log \in Seq(S \cup {Torn}), NEW tail \in Seq(S \cup {Torn})
    PROVE  log \o tail \in Seq(S \cup {Torn})
OBVIOUS

\* A sequence of records is a log with nothing torn in it.
LEMMA RecordsAreLog ==
    ASSUME NEW S, NEW s \in Seq(S)
    PROVE  s \in Seq(S \cup {Torn})
OBVIOUS

\* A tail is empty if and only if the sequence has one element.
LEMMA TailOfOne ==
    ASSUME NEW S, NEW s \in Seq(S), s # << >>
    PROVE  Len(s) = 1 <=> Tail(s) = << >>
<1>1. Tail(s) \in Seq(S) /\ Len(Tail(s)) = Len(s) - 1
  BY HeadTailProperties
<1>2. Tail(s) = << >> <=> Len(Tail(s)) = 0
  BY <1>1, EmptySeq
<1>3. Len(s) \in Nat
  OBVIOUS
<1> QED BY <1>1, <1>2, <1>3

\* The log grows by the records of the call.
LEMMA AppendWalTypeInv ==
    ASSUME TypeInv, NEW w \in Writers, AppendWal(w)
    PROVE  TypeInv'
<1> USE DEF AppendWal, TypeInv, tables, counters, locks, flushVars
<1>1. w \in Threads
  BY DEF Threads
<1>2. wal' \in Seq(Record \cup {Torn})
  <2>1. buf[w] \in Seq(Record)
    BY <1>1 DEF TypeOK
  <2> QED BY <2>1, RecordsAreLog, LogGrows DEF TypeOK
<1>3. TypeOK'
  BY <1>1, <1>2 DEF TypeOK
<1>4. CallsInv'
  BY <1>1 DEF TypeOK, CallsInv
<1>5. NumbersInv'
  BY DEF NumbersInv
<1> QED BY <1>3, <1>4, <1>5

\* A failed append leaves intact records, or Torn after them, in the log.
LEMMA AppendFailsTypeInv ==
    ASSUME TypeInv, NEW w \in Writers, AppendFails(w)
    PROVE  TypeInv'
<1> USE DEF AppendFails, TypeInv, tables, counters, locks, flushVars
<1>1. w \in Threads
  BY DEF Threads
<1>2. wal' \in Seq(Record \cup {Torn})
  <2>1. buf[w] \in Seq(Record)
    BY <1>1 DEF TypeOK
  <2>2. PICK tail \in {<< >>, buf[w]} \cup CutShort(buf[w]) : wal' = wal \o tail
    OBVIOUS
  <2>3. tail \in Seq(Record \cup {Torn})
    <3>1. CASE tail = << >>
      BY <3>1
    <3>2. CASE tail = buf[w]
      BY <3>2, <2>1, RecordsAreLog
    <3>3. CASE tail \in CutShort(buf[w])
      BY <3>3, <2>1, CutShortType
    <3> QED BY <2>2, <3>1, <3>2, <3>3
  <2> QED BY <2>2, <2>3, LogGrows DEF TypeOK
<1>3. TypeOK'
  BY <1>1, <1>2 DEF TypeOK
<1>4. CallsInv'
  BY <1>1 DEF TypeOK, CallsInv
<1>5. NumbersInv'
  BY <1>1 DEF TypeOK, NumbersInv
<1> QED BY <1>3, <1>4, <1>5

\* An insert of put, delete or write_batch moves one record of the call into
\* the active memtable.
LEMMA ApplyEntryTypeInv ==
    ASSUME TypeInv, NEW w \in Writers, ApplyEntry(w)
    PROVE  TypeInv'
<1> USE DEF ApplyEntry, TypeInv, files, counters, locks, flushVars
<1> DEFINE r == Head(buf[w])
<1>1. w \in Threads /\ buf[w] \in Seq(Record) /\ buf[w] # << >>
  BY DEF Threads, TypeOK, CallsInv
<1>2. r = buf[w][1] /\ 1 \in 1..Len(buf[w]) /\ r \in Record /\ r.seq \in 1..lastSeq
  BY <1>1 DEF NumbersInv
<1>3. EntryOf(r) \in Entry /\ EntryOf(r).seq = r.seq
  BY <1>2 DEF EntryOf, Entry, Record
<1>4. active' \in MemTable /\ \A k \in Keys : active'.table[k].seq <= lastSeq
  <2>1. active.table \in [Keys -> Entry] /\ active \in [id : Nat, table : [Keys -> Entry]]
    BY DEF TypeOK, MemTable, Table
  <2>2. active'.table = [active.table EXCEPT ![r.key] = EntryOf(r)]
    BY <2>1
  <2>3. active'.table \in [Keys -> Entry]
    BY <2>1, <2>2, <1>3
  <2>4. active' \in MemTable
    BY <2>1, <2>3 DEF MemTable, Table
  <2>5. \A k \in Keys : active'.table[k].seq <= lastSeq
    BY <2>1, <2>2, <1>2, <1>3 DEF NumbersInv
  <2> QED BY <2>4, <2>5
<1>5. Tail(buf[w]) \in Seq(Record) /\ Len(Tail(buf[w])) = Len(buf[w]) - 1
         /\ \A i \in 1..Len(Tail(buf[w])) : Tail(buf[w])[i] = buf[w][i + 1]
  BY <1>1
<1>6. TypeOK'
  BY <1>1, <1>4, <1>5 DEF TypeOK
<1>7. CallsInv'
  <2>1. Len(buf[w]) = 1 <=> Tail(buf[w]) = << >>
    BY <1>1, TailOfOne
  <2>2. \A t \in Threads : buf'[t] = IF t = w THEN Tail(buf[w]) ELSE buf[t]
    BY DEF TypeOK
  <2>3. \A t \in Threads : pc'[t] = IF t = w THEN (IF Len(buf[w]) = 1 THEN "size" ELSE "applying")
                                          ELSE pc[t]
    BY DEF TypeOK
  <2>4. \A t \in Threads : pc'[t] \in {"seq", "apply", "applying"} <=> buf'[t] # << >>
    <3> TAKE t \in Threads
    <3>1. CASE t = w /\ Len(buf[w]) = 1
      <4>1. pc'[t] = "size"
        BY <2>3, <3>1
      <4>2. buf'[t] = << >>
        BY <2>1, <2>2, <3>1
      <4> QED BY <4>1, <4>2
    <3>2. CASE t = w /\ Len(buf[w]) # 1
      BY <2>1, <2>2, <2>3, <3>2
    <3>3. CASE t # w
      BY <2>2, <2>3, <3>3 DEF CallsInv
    <3> QED BY <3>1, <3>2, <3>3
  <2>5. \A t \in Threads : pc'[t] \in {"seq", "apply", "applying", "size"} => t \in Writers
    BY <2>3 DEF CallsInv
  <2>6. \A t \in Threads : pc'[t] \in {"build", "edit"} => Present(old.table) # {}
    BY <2>3 DEF CallsInv
  <2> QED BY <2>4, <2>5, <2>6 DEF CallsInv
<1>8. NumbersInv'
  <2>1. \A t \in Threads : \A i \in 1..Len(buf'[t]) : buf'[t][i].seq \in 1..lastSeq
    BY <1>1, <1>5, SMTT(20) DEF TypeOK, NumbersInv
  <2> QED BY <1>4, <2>1 DEF NumbersInv
<1> QED BY <1>6, <1>7, <1>8

\* maybe_schedule_flush moves the thread only.
LEMMA MaybeScheduleFlushTypeInv ==
    ASSUME TypeInv, NEW w \in Writers, MaybeScheduleFlush(w)
    PROVE  TypeInv'
<1> USE DEF MaybeScheduleFlush, TypeInv, files, tables, counters, locks, flushVars
<1>1. TypeOK'
  BY DEF TypeOK
<1>2. CallsInv'
  BY DEF TypeOK, CallsInv
<1>3. NumbersInv'
  BY DEF NumbersInv
<1> QED BY <1>1, <1>2, <1>3

\* So does the call of flush.
LEMMA StartFlushTypeInv ==
    ASSUME TypeInv, NEW t \in Threads, StartFlush(t)
    PROVE  TypeInv'
<1> USE DEF StartFlush, TypeInv, files, tables, counters, locks, flushVars
<1>1. TypeOK'
  BY DEF TypeOK
<1>2. CallsInv'
  BY DEF TypeOK, CallsInv
<1>3. NumbersInv'
  BY DEF NumbersInv
<1> QED BY <1>1, <1>2, <1>3

\* And the return from a flush that finds the memtable empty.
LEMMA NothingToFlushTypeInv ==
    ASSUME TypeInv, NEW t \in Threads, NothingToFlush(t)
    PROVE  TypeInv'
<1> USE DEF NothingToFlush, CanRotate, TypeInv, files, tables, counters, locks, flushVars
<1>1. TypeOK'
  BY DEF TypeOK
<1>2. CallsInv'
  BY DEF TypeOK, CallsInv
<1>3. NumbersInv'
  BY DEF NumbersInv
<1> QED BY <1>1, <1>2, <1>3

\* A new memtable is a table whose entries are all missing.
LEMMA EmptyTableType == EmptyTable \in Table /\ \A k \in Keys : EmptyTable[k].seq = 0
BY DEF EmptyTable, NoEntry, Table, Entry, Contents

\* Freezing the active memtable.
LEMMA RotateTypeInv ==
    ASSUME TypeInv, NEW t \in Threads, Rotate(t)
    PROVE  TypeInv'
<1> USE DEF Rotate, CanRotate, TypeInv, files
<1>1. active' \in MemTable /\ nextId' \in Nat
  BY EmptyTableType DEF TypeOK, MemTable
<1>2. imm' \in Seq(MemTable)
  BY DEF TypeOK
<1>3. TypeOK'
  BY <1>1, <1>2 DEF TypeOK
<1>4. CallsInv'
  BY DEF TypeOK, CallsInv
<1>5. NumbersInv'
  <2>1. \A k \in Keys : active'.table[k].seq <= lastSeq
    BY EmptyTableType DEF TypeOK
  <2> QED BY <2>1 DEF NumbersInv
<1> QED BY <1>3, <1>4, <1>5

\* The edit of a flush has a last_sequence that was handed out.
LEMMA FlushEditType ==
    ASSUME TypeInv, Present(old.table) # {}
    PROVE  FlushEdit \in Edit /\ FlushEdit.last <= lastSeq
<1> DEFINE S == {old.table[k].seq : k \in Present(old.table)}
<1>1. old.table \in Table /\ \A k \in Keys : old.table[k].seq \in Nat
  BY DEF TypeInv, TypeOK, MemTable, Table, Entry
<1>2. S \in SUBSET Nat /\ S # {} /\ \A x \in S : x <= lastSeq
  BY <1>1 DEF TypeInv, NumbersInv, Present
<1>3. Largest(S) \in S
  BY <1>2, LargestIsIn DEF TypeInv, TypeOK
<1> QED BY <1>1, <1>2, <1>3 DEF FlushEdit, Edit

\* The manifest grows by the edit of the flush.
LEMMA LogEditTypeInv ==
    ASSUME TypeInv, NEW t \in Threads, LogEdit(t)
    PROVE  TypeInv'
<1> USE DEF LogEdit, TypeInv, tables, counters, locks, flushVars
<1>1. FlushEdit \in Edit
  BY FlushEditType DEF CallsInv
<1>2. manifest' \in Seq(Edit \cup {Torn})
  BY <1>1 DEF TypeOK
<1>3. TypeOK'
  BY <1>2 DEF TypeOK
<1>4. CallsInv'
  BY DEF TypeOK, CallsInv
<1>5. NumbersInv'
  BY DEF NumbersInv
<1> QED BY <1>3, <1>4, <1>5

\* A failed flush leaves its edit, Torn or nothing in the manifest.
LEMMA FlushFailsTypeInv ==
    ASSUME TypeInv, NEW t \in Threads, FlushFails(t)
    PROVE  TypeInv'
<1> USE DEF FlushFails, TypeInv, tables, counters, locks, flushVars
<1>1. FlushEdit \in Edit
  BY FlushEditType DEF CallsInv
<1>2. PICK part \in {<< >>, <<Torn>>, <<FlushEdit>>} : manifest' = manifest \o part
  OBVIOUS
<1>3. part \in Seq(Edit \cup {Torn})
  <2>1. << >> \in Seq(Edit \cup {Torn}) /\ <<Torn>> \in Seq(Edit \cup {Torn})
    OBVIOUS
  <2>2. <<FlushEdit>> \in Seq(Edit \cup {Torn})
    BY <1>1
  <2> QED BY <1>2, <2>1, <2>2
<1>4. manifest' \in Seq(Edit \cup {Torn})
  BY <1>2, <1>3, LogGrows DEF TypeOK
<1>5. TypeOK'
  BY <1>4 DEF TypeOK
<1>6. CallsInv'
  BY DEF TypeOK, CallsInv
<1>7. NumbersInv'
  BY DEF NumbersInv
<1> QED BY <1>5, <1>6, <1>7

\* log_and_apply puts the edit into the version, and last_sequence is not behind it.
LEMMA ApplyEditTypeInv ==
    ASSUME TypeInv, NEW t \in Threads, ApplyEdit(t)
    PROVE  TypeInv'
<1> USE DEF ApplyEdit, TypeInv, files, locks, flushVars
<1>1. FlushEdit \in Edit /\ FlushEdit.last <= lastSeq /\ FlushEdit.last \in Nat
  BY FlushEditType DEF CallsInv, Edit
<1>2. l0' \in Seq(Edit)
  BY <1>1 DEF TypeOK
<1>3. lastSeq' = lastSeq
  <2> DEFINE S == {lastSeq, FlushEdit.last}
  <2>1. lastSeq \in Nat /\ S \in SUBSET Nat /\ S # {} /\ \A x \in S : x <= lastSeq
    BY <1>1 DEF TypeOK
  <2>2. Largest(S) \in S /\ \A x \in S : x <= Largest(S)
    BY <2>1, LargestIsIn
  <2>3. Largest(S) \in Nat /\ Largest(S) <= lastSeq /\ lastSeq <= Largest(S)
    BY <2>1, <2>2
  <2>4. Largest(S) = lastSeq
    BY <2>1, <2>3
  <2> QED BY <2>4
<1>4. TypeOK'
  BY <1>2, <1>3 DEF TypeOK
<1>5. CallsInv'
  BY DEF TypeOK, CallsInv
<1>6. NumbersInv'
  BY <1>3 DEF NumbersInv
<1> QED BY <1>4, <1>5, <1>6

\* What is left of the immutable memtables.
LEMMA OtherImmsType ==
    ASSUME imm \in Seq(MemTable), NEW j \in 1..Len(imm), imm[j] = old
    PROVE  OtherImms \in Seq(MemTable)
<1> DEFINE i == CHOOSE m \in 1..Len(imm) : imm[m].id = old.id
<1>1. i \in 1..Len(imm)
  OBVIOUS
<1> HIDE DEF i
<1>2. SubSeq(imm, 1, i - 1) \in Seq(MemTable) /\ SubSeq(imm, i + 1, Len(imm)) \in Seq(MemTable)
  BY <1>1, SubSeqProperties
<1>3. SubSeq(imm, 1, i - 1) \o SubSeq(imm, i + 1, Len(imm)) \in Seq(MemTable)
  BY <1>2, ConcatProperties
<1> QED BY <1>3 DEF OtherImms, i

\* Retiring the frozen memtable and collecting what the others hold.
LEMMA ResetWalTypeInv ==
    ASSUME TypeInv, FrozenInv, NEW t \in Threads, ResetWal(t)
    PROVE  TypeInv'
<1> USE DEF ResetWal, TypeInv, counters
<1>1. imm' \in Seq(MemTable)
  BY OtherImmsType DEF TypeOK, FrozenInv
<1> DEFINE f == [i \in 1..Len(imm') |-> RecordsOf(imm'[i].table)]
           P == {f[i] : i \in 1..Len(imm')}
<1>2. \A i \in 1..Len(imm') : f[i] \in SUBSET Record /\ IsFiniteSet(f[i])
  <2> TAKE i \in 1..Len(imm')
  <2>1. imm'[i] \in MemTable
    BY <1>1
  <2>2. imm'[i].table \in Table
    BY <2>1 DEF MemTable
  <2> QED BY <2>2, RecordsOfType
<1>3. RecordsOf(active.table) \in SUBSET Record /\ IsFiniteSet(RecordsOf(active.table))
  BY RecordsOfType DEF TypeOK, MemTable
<1>4. rest' = RecordsOf(active.table) \cup (UNION P)
  OBVIOUS
<1>5. IsFiniteSet(P) /\ \A T \in P : IsFiniteSet(T) /\ T \in SUBSET Record
  <2>1. 1 \in Int /\ Len(imm') \in Int
    BY <1>1
  <2>2. IsFiniteSet(1..Len(imm'))
    BY <2>1, FS_Interval
  <2>3. f \in Surjection(1..Len(imm'), P)
    BY DEF Surjection
  <2>4. \A T \in P : IsFiniteSet(T) /\ T \in SUBSET Record
    BY <1>2
  <2> HIDE DEF f, P
  <2> QED BY <2>2, <2>3, <2>4, FS_Surjection
<1> HIDE DEF f, P
<1>6. IsFiniteSet(UNION P)
  BY <1>5, FS_UNION
<1>7. IsFiniteSet(rest')
  <2>1. IsFiniteSet(RecordsOf(active.table) \cup (UNION P))
    BY <1>3, <1>6, FS_Union
  <2> QED BY <1>4, <2>1
<1>8. rest' \in SUBSET Record
  BY <1>3, <1>4, <1>5
<1>9. pc' = [pc EXCEPT ![t] = "idle"] \/ pc' = [pc EXCEPT ![t] = "rewrite"]
  OBVIOUS
<1>10. flushLock' \in Threads \cup {Free} /\ walLock' \in Threads \cup {Free}
  BY DEF TypeOK
<1>11. wal' \in Seq(Record \cup {Torn})
  OBVIOUS
<1>12. TypeOK'
  BY <1>1, <1>8, <1>9, <1>10, <1>11 DEF TypeOK
<1>13. CallsInv'
  BY <1>9 DEF TypeOK, CallsInv
<1>14. NumbersInv'
  BY DEF NumbersInv
<1> QED BY <1>7, <1>12, <1>13, <1>14

\* A truncation that fails has retired the frozen memtable.
LEMMA ResetFailsTypeInv ==
    ASSUME TypeInv, FrozenInv, NEW t \in Threads, ResetFails(t)
    PROVE  TypeInv'
<1> USE DEF ResetFails, TypeInv, counters, flushVars
<1>1. imm' \in Seq(MemTable)
  BY OtherImmsType DEF TypeOK, FrozenInv
<1>2. wal' \in Seq(Record \cup {Torn})
  <2>1. wal \in Seq(Record \cup {Torn}) /\ << >> \in Seq(Record \cup {Torn})
    BY DEF TypeOK
  <2> QED BY <2>1
<1>3. TypeOK'
  BY <1>1, <1>2 DEF TypeOK
<1>4. CallsInv'
  BY DEF TypeOK, CallsInv
<1>5. NumbersInv'
  BY DEF NumbersInv
<1> QED BY <1>3, <1>4, <1>5

\* The collected records are appended to the log.
LEMMA RewriteWalTypeInv ==
    ASSUME TypeInv, NEW t \in Threads, RewriteWal(t)
    PROVE  TypeInv'
<1> USE DEF RewriteWal, TypeInv, tables, counters
<1>1. PICK s \in InSeqOrder(rest) : wal' = wal \o s
  OBVIOUS
<1>2. s \in Seq(Record)
  BY InSeqOrderType DEF TypeOK
<1>3. wal' \in Seq(Record \cup {Torn})
  BY <1>1, <1>2, RecordsAreLog, LogGrows DEF TypeOK
<1>4. TypeOK'
  BY <1>3 DEF TypeOK
<1>5. CallsInv'
  BY DEF TypeOK, CallsInv
<1>6. NumbersInv'
  BY DEF NumbersInv
<1>7. IsFiniteSet(rest')
  BY FS_EmptySet
<1> QED BY <1>4, <1>5, <1>6, <1>7

\* Or only some of them.
LEMMA RewriteFailsTypeInv ==
    ASSUME TypeInv, NEW t \in Threads, RewriteFails(t)
    PROVE  TypeInv'
<1> USE DEF RewriteFails, TypeInv, tables, counters
<1>1. PICK s \in InSeqOrder(rest) : \E tail \in {<< >>} \cup CutShort(s) : wal' = wal \o tail
  OBVIOUS
<1>2. s \in Seq(Record)
  BY InSeqOrderType DEF TypeOK
<1>3. PICK tail \in {<< >>} \cup CutShort(s) : wal' = wal \o tail
  BY <1>1
<1>4. tail \in Seq(Record \cup {Torn})
  <2>1. CASE tail = << >>
    BY <2>1
  <2>2. CASE tail \in CutShort(s)
    BY <2>2, <1>2, CutShortType
  <2> QED BY <1>3, <2>1, <2>2
<1>5. wal' \in Seq(Record \cup {Torn})
  BY <1>3, <1>4, LogGrows DEF TypeOK
<1>6. TypeOK'
  BY <1>5 DEF TypeOK
<1>7. CallsInv'
  BY DEF TypeOK, CallsInv
<1>8. NumbersInv'
  BY DEF NumbersInv
<1>9. IsFiniteSet(rest')
  BY FS_EmptySet
<1> QED BY <1>6, <1>7, <1>8, <1>9

\* What a crash adds to the log is records and Torn.
LEMMA TornTailsType ==
    ASSUME TypeInv, NEW tail \in TornTails
    PROVE  tail \in Seq(Record \cup {Torn})
<1>1. CASE tail = << >>
  BY <1>1
<1>2. ASSUME NEW w \in Writers, tail \in CutShort(buf[w])
      PROVE  tail \in Seq(Record \cup {Torn})
  <2>1. buf[w] \in Seq(Record)
    BY DEF TypeInv, TypeOK, Threads
  <2> QED BY <1>2, <2>1, CutShortType
<1>3. ASSUME NEW s \in InSeqOrder(rest), tail \in CutShort(s)
      PROVE  tail \in Seq(Record \cup {Torn})
  <2>1. s \in Seq(Record)
    BY InSeqOrderType DEF TypeInv, TypeOK
  <2> QED BY <1>3, <2>1, CutShortType
<1>4. tail = << >> \/ (\E w \in Writers : tail \in CutShort(buf[w]))
         \/ (\E s \in InSeqOrder(rest) : tail \in CutShort(s))
  <2> DEFINE A == UNION {CutShort(buf[w]) : w \in {u \in Writers : pc[u] = "seq" /\ walLock = Free}}
             B == UNION {UNION {CutShort(s) : s \in InSeqOrder(rest)} :
                            t \in {u \in Threads : pc[u] = "rewrite"}}
  <2>1. tail \in {<< >>} \cup (A \cup B)
    BY DEF TornTails
  <2>2. tail \in A => \E w \in Writers : tail \in CutShort(buf[w])
    OBVIOUS
  <2>3. tail \in B => \E s \in InSeqOrder(rest) : tail \in CutShort(s)
    OBVIOUS
  <2> QED BY <2>1, <2>2, <2>3
<1> QED BY <1>1, <1>2, <1>3, <1>4

\* What open() rebuilds from the files is of the right kinds, and numbering
\* resumes at or above everything it read.
LEMMA CrashAndOpenTypeInv ==
    ASSUME TypeInv, CrashAndOpen
    PROVE  TypeInv'
<1> USE DEF CrashAndOpen
<1>1. wal' \in Seq(Record \cup {Torn})
  BY TornTailsType, LogGrows DEF TypeInv, TypeOK
<1>2. manifest' \in Seq(Edit \cup {Torn})
  <2>1. PICK part \in TornEdits : manifest' = manifest \o part
    OBVIOUS
  <2>2. part = << >> \/ part = <<Torn>>
    BY DEF TornEdits
  <2>3. << >> \in Seq(Edit \cup {Torn}) /\ <<Torn>> \in Seq(Edit \cup {Torn})
    OBVIOUS
  <2>4. part \in Seq(Edit \cup {Torn})
    BY <2>2, <2>3
  <2> QED BY <2>1, <2>4, LogGrows DEF TypeInv, TypeOK
<1>3. l0' \in Seq(Edit)
  BY <1>2, ReadableType DEF RecoveredTables
<1> DEFINE log == Readable(wal')
           flushed == FlushedUpTo(l0')
<1>4. log \in Seq(Record) /\ flushed \in Nat
  BY <1>1, <1>3, ReadableType, FlushedUpToType
<1>5. active' = RecoveredMemTable(log, flushed) /\ lastSeq' = RecoveredSeq(log, flushed)
         /\ old' = active'
  OBVIOUS
<1> HIDE DEF log, flushed
<1>6. active' \in MemTable /\ lastSeq' \in Nat /\ \A k \in Keys : active'.table[k].seq <= lastSeq'
  BY <1>4, <1>5, RecoveredSeqIsBound, RecoveredMemTableType
<1>7. imm' \in Seq(MemTable) /\ buf' \in [Threads -> Seq(Record)]
  OBVIOUS
<1>8. crashes' \in 0..MaxCrashes
  BY BoundsAreNumbers DEF TypeInv, TypeOK
<1>9. TypeOK'
  BY <1>1, <1>2, <1>3, <1>5, <1>6, <1>7, <1>8 DEF TypeOK
<1>10. CallsInv'
  BY DEF CallsInv
<1>11. NumbersInv'
  BY <1>5, <1>6 DEF NumbersInv
<1>12. IsFiniteSet(rest')
  BY FS_EmptySet
<1> QED BY <1>9, <1>10, <1>11, <1>12 DEF TypeInv

\* A step that changes nothing.
LEMMA StutterTypeInv ==
    ASSUME TypeInv, UNCHANGED vars
    PROVE  TypeInv'
BY DEF vars, TypeInv, TypeOK, CallsInv, NumbersInv

\* The frozen memtable stays among the immutable ones until its flush retires it.
LEMMA NextLocksInv ==
    ASSUME TypeInv, LocksInv, FrozenInv, [Next]_vars
    PROVE  LocksInv' /\ FrozenInv'
<1> USE DEF TypeInv, LocksInv, FrozenInv, files, tables, counters, locks, flushVars
<1>0. \A t \in Threads : t # Free
  BY ThreadsDistinct
<1>a. pc = [t \in Threads |-> pc[t]] /\ Writers \subseteq Threads
  BY DEF TypeOK, Threads
<1>1. ASSUME NEW w \in Writers, Write(w) PROVE LocksInv' /\ FrozenInv'
  <2>1. UNCHANGED <<imm, old, flushLock, walLock>>
    BY <1>1 DEF Write, NextSequence, AppendWal, AppendFails, ApplyEntry, MaybeScheduleFlush
  <2>2. \E p \in {"idle", "seq", "apply", "applying", "size", "flush"} : pc' = [pc EXCEPT ![w] = p]
    BY <1>1 DEF Write, NextSequence, AppendWal, AppendFails, ApplyEntry, MaybeScheduleFlush
  <2>3. pc[w] \in {"idle", "seq", "apply", "applying", "size", "flush"}
    BY <1>1 DEF Write, NextSequence, AppendWal, AppendFails, ApplyEntry, MaybeScheduleFlush
  <2> QED BY <1>a, <2>1, <2>2, <2>3
<1>2. ASSUME NEW t \in Threads, StartFlush(t) PROVE LocksInv' /\ FrozenInv'
  BY <1>a, <1>2 DEF StartFlush
<1>3. ASSUME NEW t \in Threads, NothingToFlush(t) PROVE LocksInv' /\ FrozenInv'
  BY <1>a, <1>3 DEF NothingToFlush, CanRotate
<1>4. ASSUME NEW t \in Threads, Rotate(t) PROVE LocksInv' /\ FrozenInv'
  <2>1. LocksInv'
    BY <1>0, <1>a, <1>4 DEF Rotate, CanRotate
  <2>2. Len(imm') \in 1..Len(imm') /\ imm'[Len(imm')] = old'
    BY <1>4 DEF Rotate, TypeOK
  <2> QED BY <2>1, <2>2
<1>5. ASSUME NEW t \in Threads, LogEdit(t) PROVE LocksInv' /\ FrozenInv'
  BY <1>a, <1>5 DEF LogEdit
<1>6. ASSUME NEW t \in Threads, FlushFails(t) PROVE LocksInv' /\ FrozenInv'
  BY <1>0, <1>a, <1>6 DEF FlushFails
<1>7. ASSUME NEW t \in Threads, ApplyEdit(t) PROVE LocksInv' /\ FrozenInv'
  BY <1>a, <1>7 DEF ApplyEdit
<1>8. ASSUME NEW t \in Threads, ResetWal(t) PROVE LocksInv' /\ FrozenInv'
  <2>1. pc[t] = "reset" /\ flushLock = t /\ walLock = Free
    BY <1>8 DEF ResetWal
  <2>2. \/ /\ pc' = [pc EXCEPT ![t] = "idle"] /\ flushLock' = Free /\ walLock' = Free
        \/ /\ pc' = [pc EXCEPT ![t] = "rewrite"] /\ flushLock' = t /\ walLock' = t
    BY <1>8, <2>1 DEF ResetWal
  <2> QED BY <1>0, <1>a, <2>1, <2>2
<1>9. ASSUME NEW t \in Threads, ResetFails(t) PROVE LocksInv' /\ FrozenInv'
  BY <1>0, <1>a, <1>9 DEF ResetFails
<1>10. ASSUME NEW t \in Threads, RewriteWal(t) \/ RewriteFails(t) PROVE LocksInv' /\ FrozenInv'
  <2>1. pc[t] = "rewrite" /\ flushLock' = Free /\ walLock' = Free
          /\ pc' = [pc EXCEPT ![t] = "idle"]
    BY <1>10 DEF RewriteWal, RewriteFails
  <2> QED BY <1>0, <1>a, <2>1
<1>11. CASE CrashAndOpen
  BY <1>0, <1>11 DEF CrashAndOpen
<1>12. CASE UNCHANGED vars
  BY <1>12 DEF vars
<1> QED BY <1>1, <1>2, <1>3, <1>4, <1>5, <1>6, <1>7, <1>8, <1>9, <1>10, <1>11, <1>12
        DEF Next, Run, FlushStep

\* Every step preserves the inductive invariant.
LEMMA NextTypeInv ==
    ASSUME TypeInv, FrozenInv, [Next]_vars
    PROVE  TypeInv'
<1>1. ASSUME NEW w \in Writers, Write(w) PROVE TypeInv'
  BY <1>1, NextSequenceTypeInv, AppendWalTypeInv, AppendFailsTypeInv, ApplyEntryTypeInv,
     MaybeScheduleFlushTypeInv DEF Write
<1>2. ASSUME NEW t \in Threads, StartFlush(t) \/ FlushStep(t) PROVE TypeInv'
  BY <1>2, StartFlushTypeInv, NothingToFlushTypeInv, RotateTypeInv, LogEditTypeInv,
     FlushFailsTypeInv, ApplyEditTypeInv, ResetWalTypeInv, ResetFailsTypeInv,
     RewriteWalTypeInv, RewriteFailsTypeInv DEF FlushStep
<1> QED BY <1>1, <1>2, CrashAndOpenTypeInv, StutterTypeInv DEF Next, Run

\* The inductive invariant, and with it the two properties it rests on.
LEMMA InductiveInvariant == Spec => [](TypeInv /\ LocksInv /\ FrozenInv)
<1>1. Init => TypeInv /\ LocksInv /\ FrozenInv
  <2>1. Init => LocksInv /\ FrozenInv
    BY ThreadsDistinct DEF Init, LocksInv, FrozenInv
  <2> QED BY <2>1, InitTypeInv
<1>2. TypeInv /\ LocksInv /\ FrozenInv /\ [Next]_vars => (TypeInv /\ LocksInv /\ FrozenInv)'
  BY NextTypeInv, NextLocksInv
<1> QED BY <1>1, <1>2, PTL DEF Spec

\* Every variable of the store always holds a value of its kind: with any number of
\* writers and flushers, whatever fails and wherever it crashes.
THEOREM TypeCorrect == Spec => []TypeOK
<1>1. TypeInv => TypeOK
  BY DEF TypeInv
<1> QED BY <1>1, InductiveInvariant, PTL

\* One flush runs at a time, and the memtable it froze stays readable until the
\* flush retires it, also when flushes before it have failed (engine.rs:277-375).
THEOREM FlushExclusive == Spec => [](LocksInv /\ FrozenInv)
BY InductiveInvariant, PTL

-----------------------------------------------------------------------------
(* Seen through get, the write path and the flush are the map of KVStore:   *)
(* for any number of writers and flushers, as long as no write to a file    *)
(* fails and the process stays up.                                          *)

-----------------------------------------------------------------------------
(* The protocol of a flush                                                 *)

Flushing(t) == pc[t] \in {"build", "edit", "reset"}

\* No immutable memtable remains once the only one is retired.
LEMMA OtherImmsOfOne ==
    ASSUME imm = <<old>>
    PROVE  OtherImms = << >>
<1>1. Len(imm) = 1 /\ imm[1] = old /\ 1..Len(imm) = {1}
  OBVIOUS
<1>2. (CHOOSE j \in 1..Len(imm) : imm[j].id = old.id) = 1
  BY <1>1
<1>3. SubSeq(imm, 1, 0) = << >> /\ SubSeq(imm, 2, 1) = << >>
  BY <1>1
<1> QED BY <1>1, <1>2, <1>3 DEF OtherImms

\* No step of any thread disturbs the flush that is under way.
LEMMA NextFlushProtocol ==
    ASSUME ~IoErrors, TypeInv, LocksInv, FlushProtocol, [Next]_vars
    PROVE  FlushProtocol'
<1> USE DEF LocksInv, FlushProtocol, files, tables, counters, locks, flushVars
<1>0. \A t \in Threads : t # Free
  BY ThreadsDistinct
<1>a. pc = [t \in Threads |-> pc[t]] /\ Writers \subseteq Threads /\ l0 \in Seq(Edit)
  BY DEF TypeInv, TypeOK, Threads
<1>1. ASSUME NEW w \in Writers, Write(w) PROVE FlushProtocol'
  <2>1. UNCHANGED <<imm, old, l0>>
    BY <1>1 DEF Write, NextSequence, AppendWal, AppendFails, ApplyEntry, MaybeScheduleFlush
  <2>2. \E p \in {"idle", "seq", "apply", "applying", "size", "flush"} : pc' = [pc EXCEPT ![w] = p]
    BY <1>1 DEF Write, NextSequence, AppendWal, AppendFails, ApplyEntry, MaybeScheduleFlush
  <2>3. pc[w] \in {"idle", "seq", "apply", "applying", "size", "flush"}
    BY <1>1 DEF Write, NextSequence, AppendWal, AppendFails, ApplyEntry, MaybeScheduleFlush
  <2>4. \A t \in Threads : pc'[t] = pc[t] \/ (t = w /\ pc[t] \notin {"build", "edit", "reset"}
                                              /\ pc'[t] \notin {"build", "edit", "reset"})
    BY <1>a, <2>2, <2>3
  <2> QED BY <2>1, <2>4
<1>2. ASSUME NEW t \in Threads, StartFlush(t) \/ NothingToFlush(t) PROVE FlushProtocol'
  BY <1>a, <1>2 DEF StartFlush, NothingToFlush, CanRotate
<1>3. ASSUME NEW t \in Threads, Rotate(t) PROVE FlushProtocol'
  <2>1. \A u \in Threads : pc[u] \notin {"build", "edit", "reset"}
    BY <1>0, <1>3 DEF Rotate, CanRotate
  <2>2. imm = << >> /\ imm' = <<old'>>
    <3>1. imm = << >>
      BY <2>1
    <3>2. imm' = Append(imm, active) /\ old' = active
      BY <1>3 DEF Rotate
    <3> QED BY <3>1, <3>2
  <2>3. \A u \in Threads : pc'[u] # "reset"
    BY <1>a, <1>3, <2>1 DEF Rotate
  <2>4. pc'[t] = "build"
    BY <1>a, <1>3 DEF Rotate
  <2> QED BY <2>2, <2>3, <2>4
<1>4. ASSUME NEW t \in Threads, LogEdit(t) PROVE FlushProtocol'
  BY <1>a, <1>4 DEF LogEdit
<1>5. ASSUME NEW t \in Threads, ApplyEdit(t) PROVE FlushProtocol'
  <2>1. l0' = Append(l0, FlushEdit) /\ FlushEdit.table = old.table /\ UNCHANGED <<imm, old>>
    BY <1>5 DEF ApplyEdit, FlushEdit
  <2>2. l0' # << >> /\ l0'[Len(l0')].table = old'.table
    BY <1>a, <2>1
  <2>3. imm' = <<old'>> /\ pc'[t] = "reset"
    BY <1>a, <1>5, <2>1 DEF ApplyEdit
  <2> QED BY <2>2, <2>3
<1>6. ASSUME NEW t \in Threads, ResetWal(t) PROVE FlushProtocol'
  <2>1. \A u \in Threads : u # t => pc[u] \notin {"build", "edit", "reset"}
    BY <1>6 DEF ResetWal
  <2>2. pc'[t] \in {"idle", "rewrite"} /\ \A u \in Threads : u # t => pc'[u] = pc[u]
    BY <1>a, <1>6 DEF ResetWal
  <2>3. imm' = << >>
    BY <1>6, OtherImmsOfOne DEF ResetWal
  <2> QED BY <2>1, <2>2, <2>3
<1>7. ASSUME NEW t \in Threads, RewriteWal(t) PROVE FlushProtocol'
  BY <1>a, <1>7 DEF RewriteWal
<1>8. CASE CrashAndOpen
  BY <1>8 DEF CrashAndOpen
<1>9. CASE UNCHANGED vars
  BY <1>9 DEF vars
<1>10. \A t \in Threads : ~ FlushFails(t) /\ ~ ResetFails(t) /\ ~ RewriteFails(t)
  BY DEF FlushFails, ResetFails, RewriteFails
<1> QED BY <1>1, <1>2, <1>3, <1>4, <1>5, <1>6, <1>7, <1>8, <1>9, <1>10 DEF Next, Run, FlushStep

\* Without errors, what a flush froze is the only immutable memtable and stays one
\* until the newest table of the version holds the same entries (engine.rs:277-344).
THEOREM FlushKeepsEntries == ~IoErrors => (Spec => []FlushProtocol)
<1> SUFFICES ASSUME ~IoErrors PROVE Spec => []FlushProtocol
  OBVIOUS
<1>1. Init => FlushProtocol
  BY DEF Init, FlushProtocol
<1>2. TypeInv /\ LocksInv /\ FlushProtocol /\ [Next]_vars => FlushProtocol'
  BY NextFlushProtocol
<1> QED BY <1>1, <1>2, InductiveInvariant, PTL DEF Spec

-----------------------------------------------------------------------------
(* Refinement                                                              *)

\* The state of KVStore that a state of the engine stands for.
StoreOf == [k \in Keys |-> Visible(k).val]
OpOf(r) == [key |-> r.key, val |-> r.val]
OpsOf(rs) == [i \in 1..Len(rs) |-> OpOf(rs[i])]
PendingOf == [w \in Writers |-> OpsOf(buf[w])]

\* The operations of records are a sequence of as many operations.
LEMMA OpsOfType ==
    ASSUME NEW rs \in Seq(Record)
    PROVE  /\ OpsOf(rs) \in Seq([key : Keys, val : Contents])
           /\ Len(OpsOf(rs)) = Len(rs)
           /\ \A i \in 1..Len(rs) : OpsOf(rs)[i] = OpOf(rs[i])
<1>1. \A i \in 1..Len(rs) : rs[i] \in Record
  OBVIOUS
<1>2. \A i \in 1..Len(rs) : OpOf(rs[i]) \in [key : Keys, val : Contents]
  BY <1>1 DEF OpOf, Record
<1> QED BY <1>2 DEF OpsOf

\* One more record, one more operation.
LEMMA OpsOfAppend ==
    ASSUME NEW rs \in Seq(Record), NEW r \in Record
    PROVE  OpsOf(Append(rs, r)) = Append(OpsOf(rs), OpOf(r))
<1> DEFINE S == [key : Keys, val : Contents]
           us == OpsOf(Append(rs, r))
           ts == OpsOf(rs)
<1>1. Append(rs, r) \in Seq(Record) /\ Len(Append(rs, r)) = Len(rs) + 1
         /\ Append(rs, r)[Len(rs) + 1] = r /\ \A i \in 1..Len(rs) : Append(rs, r)[i] = rs[i]
  OBVIOUS
<1>2. us \in Seq(S) /\ Len(us) = Len(rs) + 1
         /\ \A i \in 1..(Len(rs) + 1) : us[i] = OpOf(Append(rs, r)[i])
  BY <1>1, OpsOfType
<1>3. ts \in Seq(S) /\ Len(ts) = Len(rs) /\ \A i \in 1..Len(rs) : ts[i] = OpOf(rs[i])
  BY OpsOfType
<1>4. OpOf(r) \in S
  BY DEF OpOf, Record
<1> DEFINE e == OpOf(r)
<1>5. Len(rs) \in Nat
  OBVIOUS
<1>6. us[Len(rs) + 1] = e /\ \A i \in 1..Len(rs) : us[i] = ts[i]
  BY <1>1, <1>2, <1>3, <1>5
<1> HIDE DEF S, us, ts, e
<1>7. Append(ts, e) \in Seq(S) /\ Len(Append(ts, e)) = Len(us)
         /\ \A i \in 1..Len(us) : us[i] = Append(ts, e)[i]
  BY <1>2, <1>3, <1>4, <1>5, <1>6, AppendProperties DEF e
<1>8. us = Append(ts, e)
  BY <1>2, <1>7, SeqEqual
<1> QED BY <1>8 DEF us, ts, e

\* One record less, one operation less.
LEMMA OpsOfTail ==
    ASSUME NEW rs \in Seq(Record), rs # << >>
    PROVE  OpsOf(rs) # << >> /\ Head(OpsOf(rs)) = OpOf(Head(rs)) /\ OpsOf(Tail(rs)) = Tail(OpsOf(rs))
<1> DEFINE S == [key : Keys, val : Contents]
           us == OpsOf(Tail(rs))
           ts == OpsOf(rs)
<1>1. Len(rs) \in Nat \ {0} /\ Head(rs) = rs[1] /\ Tail(rs) \in Seq(Record)
         /\ Len(Tail(rs)) = Len(rs) - 1 /\ \A i \in 1..(Len(rs) - 1) : Tail(rs)[i] = rs[i + 1]
  OBVIOUS
<1>2. ts \in Seq(S) /\ Len(ts) = Len(rs) /\ \A i \in 1..Len(rs) : ts[i] = OpOf(rs[i])
  BY OpsOfType
<1>3. us \in Seq(S) /\ Len(us) = Len(rs) - 1 /\ \A i \in 1..(Len(rs) - 1) : us[i] = OpOf(rs[i + 1])
  BY <1>1, OpsOfType, ZenonT(30)
<1>4. ts[1] = OpOf(Head(rs)) /\ \A i \in 1..(Len(rs) - 1) : us[i] = ts[i + 1]
  BY <1>1, <1>2, <1>3
<1> HIDE DEF S, us, ts
<1>5. ts # << >> /\ Head(ts) = OpOf(Head(rs))
  BY <1>1, <1>2, <1>4
<1>6. Tail(ts) \in Seq(S) /\ Len(Tail(ts)) = Len(us) /\ \A i \in 1..Len(us) : us[i] = Tail(ts)[i]
  BY <1>1, <1>2, <1>3, <1>4, <1>5, HeadTailProperties
<1>7. us = Tail(ts)
  BY <1>3, <1>6, SeqEqual
<1> QED BY <1>5, <1>7 DEF us, ts

\* A call draws a number: it will perform one more operation.
LEMMA NextSequenceSubmits ==
    ASSUME TypeInv, NEW w \in Writers, NEW k \in Keys, NEW v \in Contents, NextSequence(w, k, v)
    PROVE  /\ StoreOf' = StoreOf
           /\ PendingOf' = [PendingOf EXCEPT ![w] = Append(@, [key |-> k, val |-> v])]
<1> USE DEF NextSequence, tables
<1> DEFINE r == [key |-> k, seq |-> lastSeq + 1, val |-> v]
<1>1. StoreOf' = StoreOf
  BY DEF StoreOf, Visible
<1>2. r \in Record /\ OpOf(r) = [key |-> k, val |-> v]
  BY DEF Record, OpOf, TypeInv, TypeOK
<1>3. w \in Threads /\ buf \in [Threads -> Seq(Record)] /\ Writers \subseteq Threads
  BY DEF TypeInv, TypeOK, Threads
<1>4. buf' = [buf EXCEPT ![w] = Append(@, r)]
  OBVIOUS
<1> HIDE DEF r, NextSequence
<1>5. OpsOf(buf'[w]) = Append(OpsOf(buf[w]), OpOf(r))
  BY <1>2, <1>3, <1>4, OpsOfAppend
<1>6. \A u \in Writers : u # w => buf'[u] = buf[u]
  BY <1>3, <1>4
<1>7. PendingOf' = [u \in Writers |-> OpsOf(buf'[u])]
  BY DEF PendingOf, OpsOf
<1>8. PendingOf' = [PendingOf EXCEPT ![w] = Append(@, OpOf(r))]
  BY <1>5, <1>6, <1>7 DEF PendingOf
<1> QED BY <1>1, <1>2, <1>8

\* An insert into the active memtable: the next operation of the call takes effect,
\* and no other key changes.
LEMMA ApplyEntryTakes ==
    ASSUME TypeInv, NEW w \in Writers, ApplyEntry(w)
    PROVE  /\ PendingOf[w] # << >>
           /\ StoreOf' = [StoreOf EXCEPT ![Head(PendingOf[w]).key] = Head(PendingOf[w]).val]
           /\ PendingOf' = [PendingOf EXCEPT ![w] = Tail(@)]
<1> DEFINE r == Head(buf[w])
<1>1. w \in Threads /\ buf \in [Threads -> Seq(Record)] /\ Writers \subseteq Threads
         /\ buf[w] # << >>
  BY DEF TypeInv, TypeOK, CallsInv, Threads, ApplyEntry
<1>2. r \in Record /\ r = buf[w][1] /\ r.seq \in 1..lastSeq
  BY <1>1 DEF TypeInv, NumbersInv
<1>3. EntryOf(r) # NoEntry /\ EntryOf(r).val = r.val
  BY <1>2 DEF EntryOf, NoEntry, TypeInv, TypeOK
<1>4. PendingOf[w] # << >> /\ Head(PendingOf[w]) = OpOf(r) /\ OpsOf(Tail(buf[w])) = Tail(PendingOf[w])
  BY <1>1, OpsOfTail DEF PendingOf
<1>5. active \in [id : Nat, table : [Keys -> Entry]]
  BY DEF TypeInv, TypeOK, MemTable, Table
<1>6. active'.table = [active.table EXCEPT ![r.key] = EntryOf(r)] /\ UNCHANGED <<imm, l0>>
         /\ buf' = [buf EXCEPT ![w] = Tail(@)]
  BY <1>5 DEF ApplyEntry
<1> HIDE DEF r
<1>7. \A k \in Keys : Visible(k)' = IF k = r.key THEN EntryOf(r) ELSE Visible(k)
  BY <1>3, <1>5, <1>6 DEF Visible, Lookup
<1>8. StoreOf' = [k \in Keys |-> IF k = r.key THEN r.val ELSE Visible(k).val]
  BY <1>3, <1>7 DEF StoreOf
<1>9. StoreOf' = [StoreOf EXCEPT ![r.key] = r.val]
  BY <1>8 DEF StoreOf
<1>10. PendingOf' = [u \in Writers |-> OpsOf(buf'[u])]
  BY DEF PendingOf, OpsOf
<1>11. PendingOf' = [PendingOf EXCEPT ![w] = Tail(@)]
  BY <1>1, <1>4, <1>6, <1>10 DEF PendingOf
<1>12. Head(PendingOf[w]).key = r.key /\ Head(PendingOf[w]).val = r.val
  BY <1>4 DEF OpOf
<1> QED BY <1>4, <1>9, <1>11, <1>12

\* A memtable that is frozen is still searched first.
LEMMA RotateKeepsStore ==
    ASSUME TypeInv, LocksInv, FlushProtocol, NEW t \in Threads, Rotate(t)
    PROVE  StoreOf' = StoreOf
<1>1. imm = << >>
  BY ThreadsDistinct DEF LocksInv, FlushProtocol, Rotate, CanRotate
<1>2. imm' = <<active>> /\ active'.table = EmptyTable /\ l0' = l0
  BY <1>1 DEF Rotate, files
<1>3. ASSUME NEW k \in Keys PROVE Visible(k)' = Visible(k)
  <2>1. Newest(imm', k) = active.table[k]
    BY <1>2, NewestOfOne
  <2>2. Newest(imm, k) = NoEntry
    BY <1>1, NewestOfNone
  <2>3. active'.table[k] = NoEntry
    BY <1>2 DEF EmptyTable
  <2>4. Visible(k)' = Lookup(active', imm', l0', k)
    BY DEF Visible, Lookup, Newest, HitAt
  <2> QED BY <1>2, <2>1, <2>2, <2>3, <2>4 DEF Visible, Lookup
<1> QED BY <1>3 DEF StoreOf

\* The new table repeats what the frozen memtable, searched before it, has.
LEMMA ApplyEditKeepsStore ==
    ASSUME TypeInv, FlushProtocol, NEW t \in Threads, ApplyEdit(t)
    PROVE  StoreOf' = StoreOf
<1>1. imm = <<old>> /\ imm' = imm /\ active' = active /\ l0' = Append(l0, FlushEdit)
  BY DEF FlushProtocol, ApplyEdit
<1>2. l0 \in Seq(Edit) /\ FlushEdit \in Edit /\ FlushEdit.table = old.table
  <2>1. Present(old.table) # {}
    BY DEF ApplyEdit, TypeInv, CallsInv
  <2> QED BY <2>1, FlushEditType DEF TypeInv, TypeOK, FlushEdit
<1>3. ASSUME NEW k \in Keys PROVE Visible(k)' = Visible(k)
  <2>1. Newest(imm, k) = old.table[k]
    BY <1>1, NewestOfOne
  <2>2. old.table[k] = NoEntry => Newest(Append(l0, FlushEdit), k) = Newest(l0, k)
    BY <1>2, NewestPastLast
  <2>3. Visible(k)' = Lookup(active', imm', l0', k)
    BY DEF Visible, Lookup, Newest, HitAt
  <2> QED BY <1>1, <2>1, <2>2, <2>3 DEF Visible, Lookup
<1> QED BY <1>3 DEF StoreOf

\* Retiring the frozen memtable leaves its entries in the newest table.
LEMMA ResetWalKeepsStore ==
    ASSUME TypeInv, FlushProtocol, NEW t \in Threads, ResetWal(t)
    PROVE  StoreOf' = StoreOf
<1>1. imm = <<old>> /\ imm' = << >> /\ active' = active /\ l0' = l0
  BY OtherImmsOfOne DEF FlushProtocol, ResetWal
<1>2. l0 \in Seq(Edit) /\ l0 # << >> /\ l0[Len(l0)].table = old.table
  BY DEF TypeInv, TypeOK, FlushProtocol, ResetWal
<1>3. ASSUME NEW k \in Keys PROVE Visible(k)' = Visible(k)
  <2>1. Newest(imm, k) = old.table[k] /\ Newest(imm', k) = NoEntry
    BY <1>1, NewestOfOne, NewestOfNone
  <2>2. old.table[k] # NoEntry => Newest(l0, k) = old.table[k]
    BY <1>2, NewestIsLast
  <2>3. Visible(k)' = Lookup(active', imm', l0', k)
    BY DEF Visible, Lookup, Newest, HitAt
  <2> QED BY <1>1, <2>1, <2>2, <2>3 DEF Visible, Lookup
<1> QED BY <1>3 DEF StoreOf

\* Every other step of a running process leaves the map and the pending operations.
LEMMA OtherStepsStutter ==
    ASSUME TypeInv, LocksInv, FlushProtocol, NEW t \in Threads,
           \/ AppendWal(t) \/ MaybeScheduleFlush(t) \/ StartFlush(t) \/ NothingToFlush(t)
           \/ Rotate(t) \/ LogEdit(t) \/ ApplyEdit(t) \/ ResetWal(t) \/ RewriteWal(t)
    PROVE  StoreOf' = StoreOf /\ PendingOf' = PendingOf
<1>1. buf' = buf
  BY DEF AppendWal, MaybeScheduleFlush, StartFlush, NothingToFlush, CanRotate, Rotate, LogEdit,
         ApplyEdit, ResetWal, RewriteWal
<1>2. PendingOf' = PendingOf
  BY <1>1 DEF PendingOf, OpsOf
<1>3. CASE Rotate(t) \/ ApplyEdit(t) \/ ResetWal(t)
  BY <1>2, <1>3, RotateKeepsStore, ApplyEditKeepsStore, ResetWalKeepsStore
<1>4. CASE \/ AppendWal(t) \/ MaybeScheduleFlush(t) \/ StartFlush(t) \/ NothingToFlush(t)
           \/ LogEdit(t) \/ RewriteWal(t)
  <2>1. UNCHANGED tables
    BY <1>4 DEF AppendWal, MaybeScheduleFlush, StartFlush, NothingToFlush, LogEdit, RewriteWal
  <2>2. StoreOf' = StoreOf
    BY <2>1 DEF tables, StoreOf, Visible
  <2> QED BY <1>2, <2>2
<1> QED BY <1>3, <1>4

\* The refinement mapping of Engine, in the terms used here.
LEMMA ViewIs ==
    /\ KV!kvVars = <<StoreOf, PendingOf>>
    /\ KV!Op = [key : Keys, val : Contents]
    /\ \A w \in Writers :
         /\ KV!Submit(w) <=> /\ \E op \in [key : Keys, val : Contents] :
                                  PendingOf' = [PendingOf EXCEPT ![w] = Append(@, op)]
                             /\ StoreOf' = StoreOf
         /\ KV!Take(w) <=>
              /\ PendingOf[w] # << >>
              /\ StoreOf' = [StoreOf EXCEPT ![Head(PendingOf[w]).key] = Head(PendingOf[w]).val]
              /\ PendingOf' = [PendingOf EXCEPT ![w] = Tail(@)]
BY DEF KV!kvVars, KV!Op, KV!Contents, Contents, KV!Submit, KV!Take, StoreOf, PendingOf, OpsOf, OpOf

\* Every step but a crash is a step of KVStore, or changes nothing of it.
LEMMA NextImplements ==
    ASSUME ~IoErrors, ~ CrashAndOpen, TypeInv, LocksInv, FlushProtocol, [Next]_vars
    PROVE  [KV!Next]_(KV!kvVars)
<1>1. ASSUME NEW w \in Writers, NEW k \in Keys, NEW v \in Contents, NextSequence(w, k, v)
      PROVE  KV!Next
  <2>1. [key |-> k, val |-> v] \in [key : Keys, val : Contents]
    OBVIOUS
  <2>2. /\ StoreOf' = StoreOf
        /\ PendingOf' = [PendingOf EXCEPT ![w] = Append(@, [key |-> k, val |-> v])]
    BY <1>1, NextSequenceSubmits
  <2>3. \E op \in [key : Keys, val : Contents] : PendingOf' = [PendingOf EXCEPT ![w] = Append(@, op)]
    BY <2>1, <2>2
  <2>4. KV!Submit(w)
    BY <2>2, <2>3, ViewIs
  <2> QED BY <2>4 DEF KV!Next
<1>2. ASSUME NEW w \in Writers, ApplyEntry(w)
      PROVE  KV!Next
  <2>1. KV!Take(w)
    BY <1>2, ApplyEntryTakes, ViewIs
  <2> QED BY <2>1 DEF KV!Next
<1>3. ASSUME NEW t \in Threads,
             \/ AppendWal(t) \/ MaybeScheduleFlush(t) \/ StartFlush(t) \/ NothingToFlush(t)
             \/ Rotate(t) \/ LogEdit(t) \/ ApplyEdit(t) \/ ResetWal(t) \/ RewriteWal(t)
      PROVE  UNCHANGED KV!kvVars
  <2>1. StoreOf' = StoreOf /\ PendingOf' = PendingOf
    BY <1>3, OtherStepsStutter
  <2> QED BY <2>1 DEF KV!kvVars, StoreOf, PendingOf, OpsOf, OpOf
<1>4. CASE UNCHANGED vars
  BY <1>4 DEF vars, KV!kvVars, Visible
<1>5. \A t \in Threads : ~ AppendFails(t) /\ ~ FlushFails(t) /\ ~ ResetFails(t) /\ ~ RewriteFails(t)
  BY DEF AppendFails, FlushFails, ResetFails, RewriteFails
<1>6. Writers \subseteq Threads
  BY DEF Threads
<1> QED BY <1>1, <1>2, <1>3, <1>4, <1>5, <1>6 DEF Next, Run, Write, FlushStep

\* An empty store maps to the empty map.
LEMMA InitImplements == Init => KV!Init
<1> SUFFICES ASSUME Init PROVE KV!Init
  OBVIOUS
<1>1. \A k \in Keys : Visible(k) = NoEntry
  BY NewestOfNone DEF Init, Visible, Lookup, EmptyTable
<1>2. \A w \in Writers : buf[w] = << >>
  BY DEF Init, Threads
<1> QED BY <1>1, <1>2 DEF KV!Init, NoEntry

\* Without errors and crashes the engine implements KVStore, however many threads
\* write and flush: the map that get sees changes only by the insert of an operation
\* into the memtable, and neither freezing a memtable, nor adding its table to the
\* version, nor retiring it changes it (engine.rs:133-375).
THEOREM EngineImplementsKVStore == ~IoErrors /\ MaxCrashes = 0 => (Spec => ImplementsKVStore)
<1> SUFFICES ASSUME ~IoErrors, MaxCrashes = 0 PROVE Spec => ImplementsKVStore
  OBVIOUS
<1>1. Init => KV!Init
  BY InitImplements
<1>2. TypeInv /\ LocksInv /\ FlushProtocol /\ [Next]_vars => [KV!Next]_(KV!kvVars)
  <2>1. TypeInv => ~ CrashAndOpen
    BY DEF CrashAndOpen, TypeInv, TypeOK
  <2> QED BY <2>1, NextImplements
<1>3. Spec => []FlushProtocol
  BY FlushKeepsEntries
<1> QED BY <1>1, <1>2, <1>3, InductiveInvariant, PTL DEF Spec, ImplementsKVStore, KV!Spec

-----------------------------------------------------------------------------
(* The elements of logs and lists of tables                                *)

Els(s) == {s[i] : i \in 1..Len(s)}

\* The records of a list of memtables, of tables or of edits.
TableRecords(ts) == UNION {RecordsOf(e.table) : e \in Els(ts)}

LEMMA ElsOfConcat ==
    ASSUME NEW S, NEW s \in Seq(S), NEW u \in Seq(S)
    PROVE  Els(s \o u) = Els(s) \cup Els(u)
<1>1. s \o u \in Seq(S) /\ Len(s \o u) = Len(s) + Len(u) /\ Len(s) \in Nat /\ Len(u) \in Nat
  BY LenProperties, ConcatProperties
<1>2. \A i \in 1..Len(s) : (s \o u)[i] = s[i] /\ i \in 1..Len(s \o u)
  BY <1>1
<1>3. \A i \in 1..Len(u) : (s \o u)[Len(s) + i] = u[i] /\ Len(s) + i \in 1..Len(s \o u)
  BY <1>1
<1>4. \A i \in 1..Len(s \o u) : i \in 1..Len(s) \/ \E j \in 1..Len(u) : i = Len(s) + j
  <2> TAKE i \in 1..Len(s \o u)
  <2>0. i \in Nat /\ Len(s) \in Nat /\ 1 <= i
    BY <1>1
  <2>1. CASE i <= Len(s)
    BY <2>0, <2>1
  <2>2. CASE i > Len(s)
    <3>1. i - Len(s) \in 1..Len(u) /\ i = Len(s) + (i - Len(s))
      BY <1>1, <2>2
    <3> QED BY <3>1
  <2> QED BY <2>0, <2>1, <2>2
<1> DEFINE both == s \o u
<1>5. ASSUME NEW x \in Els(both) PROVE x \in Els(s) \cup Els(u)
  <2>1. PICK i \in 1..Len(both) : x = both[i]
    BY DEF Els
  <2>2. CASE i \in 1..Len(s)
    BY <1>2, <2>1, <2>2 DEF Els
  <2>3. CASE \E j \in 1..Len(u) : i = Len(s) + j
    BY <1>3, <2>1, <2>3 DEF Els
  <2> QED BY <1>4, <2>2, <2>3
<1>6. ASSUME NEW x \in Els(s) \cup Els(u) PROVE x \in Els(both)
  <2>1. CASE x \in Els(s)
    BY <1>2, <2>1 DEF Els
  <2>2. CASE x \in Els(u)
    <3>1. PICK j \in 1..Len(u) : x = u[j]
      BY <2>2 DEF Els
    <3> QED BY <1>3, <3>1 DEF Els
  <2> QED BY <2>1, <2>2
<1> QED BY <1>5, <1>6

LEMMA ElsOfOne == \A x : Els(<<x>>) = {x}
BY DEF Els

LEMMA ElsOfNone == Els(<< >>) = {}
BY DEF Els

LEMMA ElsOfAppend ==
    ASSUME NEW S, NEW s \in Seq(S), NEW x \in S
    PROVE  Els(Append(s, x)) = Els(s) \cup {x}
<1>1. Append(s, x) = s \o <<x>> /\ <<x>> \in Seq(S)
  OBVIOUS
<1>2. Els(s \o <<x>>) = Els(s) \cup Els(<<x>>)
  BY <1>1, ElsOfConcat
<1> QED BY <1>1, <1>2, ElsOfOne

LEMMA LastOfAppend ==
    ASSUME NEW S, NEW s \in Seq(S), NEW x \in S
    PROVE  /\ Append(s, x) \in Seq(S) /\ Append(s, x) # << >>
           /\ Append(s, x)[Len(Append(s, x))] = x
<1>1. Append(s, x) \in Seq(S) /\ Len(Append(s, x)) = Len(s) + 1 /\ Len(s) \in Nat
         /\ Append(s, x)[Len(s) + 1] = x
  OBVIOUS
<1>2. Len(Append(s, x)) # 0
  BY <1>1
<1> QED BY <1>1, <1>2

LEMMA ElsOfSubSeq ==
    ASSUME NEW S, NEW s \in Seq(S), NEW m \in Nat, NEW n \in Nat, 1 <= m, n <= Len(s)
    PROVE  Els(SubSeq(s, m, n)) \subseteq Els(s)
<1>1. CASE n < m
  BY <1>1 DEF Els
<1>2. CASE m <= n
  <2>1. Len(SubSeq(s, m, n)) = n - m + 1
          /\ \A i \in 1..(n - m + 1) : SubSeq(s, m, n)[i] = s[m + i - 1]
    BY <1>2
  <2>2. \A i \in 1..(n - m + 1) : m + i - 1 \in 1..Len(s)
    BY <1>2
  <2> QED BY <2>1, <2>2 DEF Els
<1> QED BY <1>1, <1>2

\* What can be read of a log is what comes before the first fragment.
LEMMA ReadableIs ==
    ASSUME NEW S, NEW log \in Seq(S \cup {Torn})
    PROVE  /\ Len(Readable(log)) \in 0..Len(log)
           /\ \A i \in 1..Len(Readable(log)) : Readable(log)[i] = log[i] /\ log[i] # Torn
           /\ \A n \in 1..Len(log) :
                (\A i \in 1..n : log[i] # Torn) => n <= Len(Readable(log))
<1> DEFINE N == {n \in 0..Len(log) : \A i \in 1..n : log[i] # Torn}
<1>1. N \in SUBSET Nat /\ N # {} /\ \A n \in N : n <= Len(log)
  <2>1. 0 \in N
    OBVIOUS
  <2> QED BY <2>1
<1>2. Len(log) \in Nat
  OBVIOUS
<1>3. Largest(N) \in N /\ \A n \in N : n <= Largest(N)
  BY <1>1, <1>2, LargestIsIn
<1> DEFINE m == Largest(N)
<1>4. m \in 0..Len(log) /\ (\A i \in 1..m : log[i] # Torn) /\ \A n \in N : n <= m
  BY <1>3
<1>5. Readable(log) = SubSeq(log, 1, m)
  BY DEF Readable
<1> HIDE DEF m
<1>6. Len(SubSeq(log, 1, m)) = m /\ \A i \in 1..m : SubSeq(log, 1, m)[i] = log[i]
  BY <1>4
<1>7. ASSUME NEW n \in 1..Len(log), \A i \in 1..n : log[i] # Torn PROVE n <= m
  <2>1. n \in N
    BY <1>2, <1>7
  <2> QED BY <1>4, <2>1
<1> HIDE DEF N
<1>8. PICK r : r = Readable(log) /\ Len(r) = m /\ \A i \in 1..m : r[i] = log[i]
  BY <1>5, <1>6
<1>9. /\ Len(r) \in 0..Len(log)
      /\ \A i \in 1..Len(r) : r[i] = log[i] /\ log[i] # Torn
      /\ \A n \in 1..Len(log) : (\A i \in 1..n : log[i] # Torn) => n <= Len(r)
  BY <1>4, <1>7, <1>8
<1> QED BY <1>8, <1>9, Zenon

\* Appending to a log makes at most what is appended readable.
LEMMA ReadableOfConcat ==
    ASSUME NEW S, NEW log \in Seq(S \cup {Torn}), NEW tail \in Seq(S \cup {Torn})
    PROVE  Els(Readable(log \o tail)) \subseteq Els(Readable(log)) \cup (Els(tail) \ {Torn})
<1> DEFINE both == log \o tail
<1>1. both \in Seq(S \cup {Torn}) /\ Len(both) = Len(log) + Len(tail)
         /\ Len(log) \in Nat /\ Len(tail) \in Nat
  BY ConcatProperties
<1> HIDE DEF both
<1>r. /\ Len(Readable(both)) \in 0..Len(both)
      /\ \A i \in 1..Len(Readable(both)) : Readable(both)[i] = both[i] /\ both[i] # Torn
  BY <1>1, ReadableIs
<1>l. /\ \A i \in 1..Len(Readable(log)) : Readable(log)[i] = log[i]
      /\ \A n \in 1..Len(log) :
           (\A i \in 1..n : log[i] # Torn) => n \in 1..Len(Readable(log))
  <2>1. /\ Len(Readable(log)) \in 0..Len(log)
        /\ \A i \in 1..Len(Readable(log)) : Readable(log)[i] = log[i]
        /\ \A n \in 1..Len(log) :
             (\A i \in 1..n : log[i] # Torn) => n <= Len(Readable(log))
    BY ReadableIs
  <2>2. Len(Readable(log)) \in Nat
    BY <1>1, <2>1
  <2> QED BY <2>1, <2>2
<1>b. /\ \A i \in 1..Len(log) : both[i] = log[i]
      /\ \A i \in 1..Len(both) : i > Len(log) =>
           i - Len(log) \in 1..Len(tail) /\ both[i] = tail[i - Len(log)]
  BY <1>1 DEF both
<1>2. ASSUME NEW i \in 1..Len(Readable(both))
      PROVE  Readable(both)[i] \in Els(Readable(log)) \cup (Els(tail) \ {Torn})
  <2>1. i \in 1..Len(both) /\ Readable(both)[i] = both[i]
          /\ \A j \in 1..i : both[j] # Torn
    BY <1>1, <1>r
  <2>2. CASE i <= Len(log)
    <3>1. \A j \in 1..i : j \in 1..Len(log) /\ both[j] = log[j]
      BY <1>1, <1>b, <2>1, <2>2
    <3>2. \A j \in 1..i : log[j] # Torn
      BY <2>1, <3>1
    <3>3. i \in 1..Len(log)
      BY <2>1, <2>2, <1>1
    <3>4. i \in 1..Len(Readable(log)) /\ Readable(log)[i] = log[i]
      BY <3>2, <3>3, <1>l
    <3> QED BY <2>1, <3>1, <3>4 DEF Els
  <2>3. CASE i > Len(log)
    <3>1. i - Len(log) \in 1..Len(tail) /\ both[i] = tail[i - Len(log)]
      BY <1>b, <2>1, <2>3
    <3> QED BY <2>1, <3>1 DEF Els
  <2> QED BY <1>1, <2>1, <2>2, <2>3
<1>3. Els(Readable(both)) \subseteq Els(Readable(log)) \cup (Els(tail) \ {Torn})
  BY <1>2 DEF Els
<1> QED BY <1>3 DEF both

-----------------------------------------------------------------------------
(* The records there are                                                   *)

LogRecords == Els(Readable(wal))
CallRecords == UNION {Els(buf[t]) : t \in Threads}

\* Records of the process or of its files, those of edits that did not get into the
\* version included.
Held ==
    RecordsOf(active.table) \cup RecordsOf(old.table) \cup rest
    \cup TableRecords(imm) \cup TableRecords(l0) \cup TableRecords(Readable(manifest))
    \cup CallRecords \cup LogRecords

\* An edit says last_sequence of the largest number in its table.
EditsBounded ==
    \A e \in Els(Readable(manifest)) : \A r \in RecordsOf(e.table) : r.seq <= e.last

\* The inductive strengthening of SeqNamesOneRecord: an edit that a failed flush left
\* in the manifest is read by the next open.
UniqueInv ==
    /\ EditsBounded
    /\ \A r \in Held : r.seq \in 1..lastSeq
    /\ \A r1, r2 \in Held : r1.seq = r2.seq => r1 = r2

LEMMA LiveIsHeld == LiveRecords \subseteq Held
<1> SUFFICES ASSUME NEW r \in LiveRecords PROVE r \in Held
  OBVIOUS
<1>1. PICK R \in {RecordsOf(active.table), RecordsOf(old.table), rest}
                  \cup {RecordsOf(imm[i].table) : i \in 1..Len(imm)}
                  \cup {RecordsOf(l0[i].table) : i \in 1..Len(l0)}
                  \cup {{buf[t][i] : i \in 1..Len(buf[t])} : t \in Threads}
                  \cup {{Readable(wal)[i] : i \in 1..Len(Readable(wal))}} : r \in R
  BY DEF LiveRecords
<1>2. CASE R \in {RecordsOf(active.table), RecordsOf(old.table), rest}
  BY <1>1, <1>2 DEF Held
<1>3. CASE R \in {RecordsOf(imm[i].table) : i \in 1..Len(imm)}
  <2>1. PICK i \in 1..Len(imm) : R = RecordsOf(imm[i].table)
    BY <1>3
  <2>2. imm[i] \in Els(imm)
    BY DEF Els
  <2> QED BY <1>1, <2>1, <2>2 DEF Held, TableRecords
<1>4. CASE R \in {RecordsOf(l0[i].table) : i \in 1..Len(l0)}
  <2>1. PICK i \in 1..Len(l0) : R = RecordsOf(l0[i].table)
    BY <1>4
  <2>2. l0[i] \in Els(l0)
    BY DEF Els
  <2> QED BY <1>1, <2>1, <2>2 DEF Held, TableRecords
<1>5. CASE R \in {{buf[t][i] : i \in 1..Len(buf[t])} : t \in Threads}
  BY <1>1, <1>5 DEF Held, CallRecords, Els
<1>6. CASE R = {Readable(wal)[i] : i \in 1..Len(Readable(wal))}
  BY <1>1, <1>6 DEF Held, LogRecords, Els
<1> QED BY <1>1, <1>2, <1>3, <1>4, <1>5, <1>6

\* A step that makes no record and lowers no number keeps the numbers unique.
LEMMA NothingNew ==
    ASSUME TypeInv, TypeInv', UniqueInv, Held' \subseteq Held, lastSeq <= lastSeq',
           EditsBounded'
    PROVE  UniqueInv'
<1>1. lastSeq \in Nat /\ lastSeq' \in Nat
  BY DEF TypeInv, TypeOK
<1>2. \A r \in Held' : r.seq \in 1..lastSeq'
  BY <1>1 DEF UniqueInv
<1>3. \A r1, r2 \in Held' : r1.seq = r2.seq => r1 = r2
  BY DEF UniqueInv
<1> QED BY <1>2, <1>3 DEF UniqueInv

LEMMA RecordsOfEmpty == RecordsOf(EmptyTable) = {}
BY DEF RecordsOf, Present, EmptyTable

\* The records of part of a write are among those of the write.
LEMMA CutShortEls ==
    ASSUME NEW rs \in Seq(Record), NEW tail \in CutShort(rs)
    PROVE  Els(tail) \ {Torn} \subseteq Els(rs)
<1>1. PICK n \in 0..(Len(rs) - 1) :
         tail \in {SubSeq(rs, 1, n), Append(SubSeq(rs, 1, n), Torn)}
  BY DEF CutShort
<1> DEFINE part == SubSeq(rs, 1, n)
<1>2. n \in Nat /\ n <= Len(rs) /\ 1 \in Nat
  OBVIOUS
<1>3. part \in Seq(Record)
  <2>1. part = [i \in 1..n |-> rs[i]] /\ \A i \in 1..n : rs[i] \in Record
    BY <1>2
  <2> QED BY <1>2, <2>1
<1>4. Els(part) \subseteq Els(rs)
  BY <1>2, ElsOfSubSeq
<1> HIDE DEF part
<1>5. Append(part, Torn) = part \o <<Torn>>
  BY <1>3
<1>6. Els(part \o <<Torn>>) = Els(part) \cup Els(<<Torn>>)
  <2>1. part \in Seq(Record \cup {Torn}) /\ <<Torn>> \in Seq(Record \cup {Torn})
    BY <1>3, RecordsAreLog
  <2> QED BY <2>1, ElsOfConcat, ZenonT(30)
<1>7. Els(Append(part, Torn)) \ {Torn} \subseteq Els(part)
  BY <1>5, <1>6, ElsOfOne
<1> QED BY <1>1, <1>4, <1>7 DEF part

\* What is appended to the log comes from memory.
LEMMA LogGrowsByHeld ==
    ASSUME TypeInv, NEW tail \in Seq(Record \cup {Torn}), wal' = wal \o tail,
           Els(tail) \ {Torn} \subseteq Held
    PROVE  LogRecords' \subseteq Held
<1>1. Els(Readable(wal \o tail)) \subseteq Els(Readable(wal)) \cup (Els(tail) \ {Torn})
  BY ReadableOfConcat DEF TypeInv, TypeOK
<1> QED BY <1>1 DEF LogRecords, Held

\* What is appended to the manifest is the edit of the flush, or nothing readable.
LEMMA ManifestGrowsByHeld ==
    ASSUME TypeInv, UniqueInv, NEW part \in {<< >>, <<Torn>>, <<FlushEdit>>},
           part = <<FlushEdit>> => Present(old.table) # {},
           manifest' = manifest \o part
    PROVE  TableRecords(Readable(manifest))' \subseteq Held /\ EditsBounded'
<1>1. Els(part) \ {Torn} \subseteq
         {e \in {FlushEdit} : Present(old.table) # {}}
  BY ElsOfOne, ElsOfNone
<1>2. part \in Seq(Edit \cup {Torn})
  <2>1. << >> \in Seq(Edit \cup {Torn}) /\ <<Torn>> \in Seq(Edit \cup {Torn})
    OBVIOUS
  <2>2. CASE part = <<FlushEdit>>
    <3>1. FlushEdit \in Edit
      BY <2>2, FlushEditType
    <3> QED BY <2>2, <3>1
  <2> QED BY <2>1, <2>2
<1>3. Els(Readable(manifest \o part)) \subseteq
         Els(Readable(manifest)) \cup (Els(part) \ {Torn})
  BY <1>2, ReadableOfConcat DEF TypeInv, TypeOK
<1>4. \A e \in Els(Readable(manifest')) :
         e \in Els(Readable(manifest)) \/ (e = FlushEdit /\ Present(old.table) # {})
  BY <1>1, <1>3
<1>5. FlushEdit.table = old.table
  BY DEF FlushEdit
<1>6. ASSUME Present(old.table) # {}
      PROVE  \A r \in RecordsOf(old.table) : r.seq <= FlushEdit.last
  <2> DEFINE S == {old.table[k].seq : k \in Present(old.table)}
  <2>1. old.table \in Table /\ \A k \in Keys : old.table[k].seq \in Nat
    BY DEF TypeInv, TypeOK, MemTable, Table, Entry
  <2>2. S \in SUBSET Nat /\ S # {} /\ \A x \in S : x <= lastSeq
    BY <1>6, <2>1 DEF TypeInv, NumbersInv, Present
  <2>3. \A x \in S : x <= Largest(S)
    BY <2>2, LargestIsIn DEF TypeInv, TypeOK
  <2>4. FlushEdit.last = Largest(S)
    BY DEF FlushEdit
  <2> HIDE DEF S
  <2>5. \A r \in RecordsOf(old.table) : r.seq \in S
    BY DEF RecordsOf, S
  <2> QED BY <2>3, <2>4, <2>5
<1>7. EditsBounded'
  BY <1>4, <1>5, <1>6 DEF EditsBounded, UniqueInv
<1>8. TableRecords(Readable(manifest')) \subseteq
         TableRecords(Readable(manifest)) \cup RecordsOf(old.table)
  BY <1>4, <1>5 DEF TableRecords
<1> QED BY <1>7, <1>8 DEF Held

-----------------------------------------------------------------------------
(* The steps                                                               *)

LEMMA NextSequenceUnique ==
    ASSUME TypeInv, UniqueInv, NEW w \in Writers, NEW k \in Keys, NEW v \in Contents,
           NextSequence(w, k, v)
    PROVE  UniqueInv'
<1> USE DEF NextSequence, files, tables, locks, flushVars
<1> DEFINE r == [key |-> k, seq |-> lastSeq + 1, val |-> v]
<1>1. w \in Threads /\ lastSeq \in Nat /\ buf \in [Threads -> Seq(Record)]
  BY DEF TypeInv, TypeOK, Threads
<1>2. r \in Record
  BY <1>1 DEF Record
<1> HIDE DEF r
<1>3. Els(Append(buf[w], r)) = Els(buf[w]) \cup {r}
  <2>1. buf[w] \in Seq(Record)
    BY <1>1
  <2> HIDE DEF NextSequence
  <2> QED BY <1>2, <2>1, ElsOfAppend
<1>4. \A t \in Threads : buf'[t] = IF t = w THEN Append(buf[w], r) ELSE buf[t]
  BY <1>1 DEF r
<1>5. CallRecords' \subseteq CallRecords \cup {r}
  BY <1>3, <1>4 DEF CallRecords
<1>6. Held' \subseteq Held \cup {r}
  BY <1>5 DEF Held, LogRecords, TableRecords
<1>7. lastSeq' = lastSeq + 1 /\ r.seq = lastSeq + 1
  BY DEF r
<1>8. \A q \in Held : q.seq \in 1..lastSeq
  BY DEF UniqueInv
<1>9. \A q \in Held' : q.seq \in 1..lastSeq'
  BY <1>1, <1>6, <1>7, <1>8
<1>10. ASSUME NEW r1 \in Held', NEW r2 \in Held', r1.seq = r2.seq PROVE r1 = r2
  <2>1. CASE r1 \in Held /\ r2 \in Held
    BY <1>10, <2>1 DEF UniqueInv
  <2>2. CASE r1 = r /\ r2 \in Held
    BY <1>1, <1>7, <1>8, <1>10, <2>2
  <2>3. CASE r1 \in Held /\ r2 = r
    BY <1>1, <1>7, <1>8, <1>10, <2>3
  <2> QED BY <1>6, <2>1, <2>2, <2>3
<1>11. EditsBounded'
  BY DEF UniqueInv, EditsBounded
<1> QED BY <1>9, <1>10, <1>11 DEF UniqueInv

LEMMA AppendUnique ==
    ASSUME TypeInv, TypeInv', UniqueInv, NEW w \in Writers, AppendWal(w) \/ AppendFails(w)
    PROVE  UniqueInv'
<1> USE DEF AppendWal, AppendFails, tables, counters, locks, flushVars
<1>1. w \in Threads /\ buf \in [Threads -> Seq(Record)] /\ buf[w] \in Seq(Record)
  BY DEF TypeInv, TypeOK, Threads
<1>2. Els(buf[w]) \subseteq Held
  BY <1>1 DEF Held, CallRecords
<1>3. PICK tail \in {<< >>, buf[w]} \cup CutShort(buf[w]) : wal' = wal \o tail
  OBVIOUS
<1>4. tail \in Seq(Record \cup {Torn}) /\ Els(tail) \ {Torn} \subseteq Held
  <2>1. CASE tail = << >>
    BY <2>1, ElsOfNone
  <2>2. CASE tail = buf[w]
    BY <1>1, <1>2, <2>2, RecordsAreLog
  <2>3. CASE tail \in CutShort(buf[w])
    BY <1>1, <1>2, <2>3, CutShortType, CutShortEls
  <2> QED BY <1>3, <2>1, <2>2, <2>3
<1>5. LogRecords' \subseteq Held
  BY <1>3, <1>4, LogGrowsByHeld
<1>6. CallRecords' \subseteq CallRecords
  <2>1. \A t \in Threads : buf'[t] = buf[t] \/ buf'[t] = << >>
    BY <1>1
  <2> QED BY <2>1, ElsOfNone DEF CallRecords
<1>7. Held' \subseteq Held
  BY <1>5, <1>6 DEF Held, TableRecords
<1>8. EditsBounded' /\ lastSeq' = lastSeq /\ lastSeq \in Nat
  BY DEF UniqueInv, EditsBounded, TypeInv, TypeOK
<1>9. lastSeq <= lastSeq'
  BY <1>8
<1> QED BY <1>7, <1>8, <1>9, NothingNew

LEMMA ApplyEntryUnique ==
    ASSUME TypeInv, TypeInv', UniqueInv, NEW w \in Writers, ApplyEntry(w)
    PROVE  UniqueInv'
<1> USE DEF ApplyEntry, files, counters, locks, flushVars
<1> DEFINE r == Head(buf[w])
<1>1. w \in Threads /\ buf \in [Threads -> Seq(Record)] /\ buf[w] \in Seq(Record)
         /\ buf[w] # << >>
  BY DEF TypeInv, TypeOK, CallsInv, Threads
<1>2. r = buf[w][1] /\ 1 \in 1..Len(buf[w]) /\ r \in Record
  BY <1>1
<1>3. r \in Held
  <2>1. r \in Els(buf[w])
    BY <1>2 DEF Els
  <2> HIDE DEF r
  <2> QED BY <1>1, <2>1 DEF Held, CallRecords
<1>4. active.table \in [Keys -> Entry] /\ active \in [id : Nat, table : [Keys -> Entry]]
  BY DEF TypeInv, TypeOK, MemTable, Table
<1>5. active'.table = [active.table EXCEPT ![r.key] = EntryOf(r)]
  BY <1>4
<1>6. [key |-> r.key, seq |-> EntryOf(r).seq, val |-> EntryOf(r).val] = r
  BY <1>2 DEF Record, EntryOf
<1> HIDE DEF r
<1>7. RecordsOf(active'.table) \subseteq RecordsOf(active.table) \cup {r}
  <2> SUFFICES ASSUME NEW k \in Keys, active'.table[k] # NoEntry
               PROVE  [key |-> k, seq |-> active'.table[k].seq, val |-> active'.table[k].val]
                          \in RecordsOf(active.table) \cup {r}
    BY DEF RecordsOf, Present
  <2>1. CASE k = r.key
    BY <1>4, <1>5, <1>6, <2>1
  <2>2. CASE k # r.key
    BY <1>4, <1>5, <2>2 DEF RecordsOf, Present
  <2> QED BY <2>1, <2>2
<1>8. CallRecords' \subseteq CallRecords
  <2>1. Els(Tail(buf[w])) \subseteq Els(buf[w])
    <3>1. Len(Tail(buf[w])) = Len(buf[w]) - 1 /\ Len(buf[w]) \in Nat
            /\ \A i \in 1..(Len(buf[w]) - 1) : Tail(buf[w])[i] = buf[w][i + 1]
      BY <1>1
    <3>2. \A i \in 1..(Len(buf[w]) - 1) : i + 1 \in 1..Len(buf[w])
      BY <3>1
    <3> QED BY <3>1, <3>2 DEF Els
  <2>2. \A t \in Threads : buf'[t] = IF t = w THEN Tail(buf[w]) ELSE buf[t]
    BY <1>1
  <2> QED BY <2>1, <2>2 DEF CallRecords
<1>9. Held' \subseteq Held
  BY <1>3, <1>7, <1>8 DEF Held, TableRecords, LogRecords
<1>10. EditsBounded' /\ lastSeq' = lastSeq /\ lastSeq \in Nat
  BY DEF UniqueInv, EditsBounded, TypeInv, TypeOK
<1>11. lastSeq <= lastSeq'
  BY <1>10
<1> QED BY <1>9, <1>10, <1>11, NothingNew

\* Steps that only move a thread on.
LEMMA QuietUnique ==
    ASSUME TypeInv, TypeInv', UniqueInv, NEW t,
           MaybeScheduleFlush(t) \/ StartFlush(t) \/ NothingToFlush(t) \/ UNCHANGED vars
    PROVE  UniqueInv'
<1> USE DEF MaybeScheduleFlush, StartFlush, NothingToFlush, vars, files, tables, counters,
            locks, flushVars
<1>1. UNCHANGED <<wal, manifest, active, imm, l0, lastSeq, buf, old, rest>>
  OBVIOUS
<1> QED BY <1>1 DEF UniqueInv, EditsBounded, Held, TableRecords, CallRecords, LogRecords

\* The frozen memtable takes its records along.
LEMMA RotateUnique ==
    ASSUME TypeInv, TypeInv', UniqueInv, NEW t \in Threads, Rotate(t)
    PROVE  UniqueInv'
<1> USE DEF Rotate, files
<1>1. active'.table = EmptyTable /\ old' = active /\ imm' = Append(imm, active)
         /\ UNCHANGED <<wal, manifest, l0, lastSeq, buf, rest>>
  OBVIOUS
<1>2. Els(Append(imm, active)) = Els(imm) \cup {active}
  BY ElsOfAppend DEF TypeInv, TypeOK
<1>3. TableRecords(imm') \subseteq TableRecords(imm) \cup RecordsOf(active.table)
  BY <1>1, <1>2 DEF TableRecords
<1>4. RecordsOf(active'.table) = {} /\ RecordsOf(old'.table) = RecordsOf(active.table)
  BY <1>1, RecordsOfEmpty
<1> HIDE DEF Rotate
<1>5. TableRecords(l0)' = TableRecords(l0) /\ CallRecords' = CallRecords
         /\ LogRecords' = LogRecords
         /\ TableRecords(Readable(manifest))' = TableRecords(Readable(manifest))
  BY <1>1 DEF TableRecords, CallRecords, LogRecords
<1>6. Held' \subseteq Held
  BY <1>1, <1>3, <1>4, <1>5 DEF Held
<1>7. EditsBounded' /\ lastSeq' = lastSeq /\ lastSeq \in Nat
  BY <1>1 DEF UniqueInv, EditsBounded, TypeInv, TypeOK
<1>8. lastSeq <= lastSeq'
  BY <1>7
<1> QED BY <1>6, <1>7, <1>8, NothingNew

\* The edit holds the records of the frozen memtable; what a failure leaves of it is
\* that edit or nothing.
LEMMA EditUnique ==
    ASSUME TypeInv, TypeInv', UniqueInv, NEW t \in Threads, LogEdit(t) \/ FlushFails(t)
    PROVE  UniqueInv'
<1> USE DEF LogEdit, FlushFails, tables, counters, locks, flushVars
<1>1. Present(old.table) # {}
  BY DEF TypeInv, CallsInv
<1>2. \E part \in {<< >>, <<Torn>>, <<FlushEdit>>} : manifest' = manifest \o part
  <2>1. CASE LogEdit(t)
    <3>1. manifest' = Append(manifest, FlushEdit) /\ FlushEdit \in Edit \cup {Torn}
      BY <1>1, <2>1, FlushEditType
    <3>2. manifest \in Seq(Edit \cup {Torn})
      BY DEF TypeInv, TypeOK
    <3>3. Append(manifest, FlushEdit) = manifest \o <<FlushEdit>>
      BY <3>1, <3>2
    <3> QED BY <3>1, <3>3
  <2> QED BY <2>1
<1>3. UNCHANGED <<wal, active, imm, l0, lastSeq, buf, old, rest>>
  OBVIOUS
<1>4. TableRecords(Readable(manifest))' \subseteq Held /\ EditsBounded'
  BY <1>1, <1>2, ManifestGrowsByHeld
<1>5. TableRecords(imm)' = TableRecords(imm) /\ TableRecords(l0)' = TableRecords(l0)
         /\ CallRecords' = CallRecords /\ LogRecords' = LogRecords
  BY <1>3 DEF TableRecords, CallRecords, LogRecords
<1>6. Held' \subseteq Held
  BY <1>3, <1>4, <1>5 DEF Held
<1>7. lastSeq' = lastSeq /\ lastSeq \in Nat
  BY <1>3 DEF TypeInv, TypeOK
<1>8. lastSeq <= lastSeq'
  BY <1>7
<1> QED BY <1>4, <1>6, <1>8, NothingNew

\* The new table of the version holds them as well.
LEMMA ApplyEditUnique ==
    ASSUME TypeInv, TypeInv', UniqueInv, NEW t \in Threads, ApplyEdit(t)
    PROVE  UniqueInv'
<1>1. Present(old.table) # {}
  BY DEF TypeInv, CallsInv, ApplyEdit
<1>2. FlushEdit \in Edit /\ FlushEdit.last \in Nat /\ FlushEdit.last <= lastSeq
         /\ FlushEdit.table = old.table
  BY <1>1, FlushEditType DEF Edit, FlushEdit
<1>3. UNCHANGED <<wal, manifest, active, imm, buf, old, rest>> /\ l0' = Append(l0, FlushEdit)
         /\ lastSeq' = Largest({lastSeq, FlushEdit.last})
  BY DEF ApplyEdit, files, flushVars
<1>4. lastSeq <= lastSeq'
  <2>1. lastSeq \in Nat
    BY DEF TypeInv, TypeOK
  <2>2. {lastSeq, FlushEdit.last} \in SUBSET Nat
          /\ \A x \in {lastSeq, FlushEdit.last} : x <= lastSeq
    BY <1>2, <2>1
  <2>3. \A x \in {lastSeq, FlushEdit.last} : x <= Largest({lastSeq, FlushEdit.last})
    BY <2>1, <2>2, LargestIsIn
  <2> QED BY <1>3, <2>3
<1>5. Els(Append(l0, FlushEdit)) = Els(l0) \cup {FlushEdit}
  BY <1>2, ElsOfAppend DEF TypeInv, TypeOK
<1>6. TableRecords(l0') \subseteq TableRecords(l0) \cup RecordsOf(old.table)
  BY <1>2, <1>3, <1>5 DEF TableRecords
<1>7. TableRecords(imm)' = TableRecords(imm) /\ CallRecords' = CallRecords
         /\ LogRecords' = LogRecords
         /\ TableRecords(Readable(manifest))' = TableRecords(Readable(manifest))
  BY <1>3 DEF TableRecords, CallRecords, LogRecords
<1>8. Held' \subseteq Held
  BY <1>3, <1>6, <1>7 DEF Held
<1>9. EditsBounded'
  BY <1>3 DEF UniqueInv, EditsBounded
<1> QED BY <1>4, <1>8, <1>9, NothingNew

\* The memtables that stay are some of those there were.
LEMMA OtherImmsEls ==
    ASSUME imm \in Seq(MemTable), NEW j \in 1..Len(imm), imm[j] = old
    PROVE  Els(OtherImms) \subseteq Els(imm)
<1> DEFINE i == CHOOSE m \in 1..Len(imm) : imm[m].id = old.id
           front == SubSeq(imm, 1, i - 1)
           back == SubSeq(imm, i + 1, Len(imm))
<1>1. i \in 1..Len(imm)
  OBVIOUS
<1> HIDE DEF i
<1>2. front \in Seq(MemTable) /\ back \in Seq(MemTable)
  BY <1>1, SubSeqProperties
<1>3. i - 1 \in Nat /\ i + 1 \in Nat /\ Len(imm) \in Nat /\ 1 <= i + 1 /\ i - 1 <= Len(imm)
         /\ 1 \in Nat /\ 1 <= 1 /\ Len(imm) <= Len(imm)
  BY <1>1
<1>4. Els(front) \subseteq Els(imm)
  BY <1>3, ElsOfSubSeq
<1>5. Els(back) \subseteq Els(imm)
  BY <1>3, ElsOfSubSeq
<1>6. OtherImms = front \o back
  BY DEF OtherImms, i
<1> HIDE DEF front, back
<1>7. Els(front \o back) = Els(front) \cup Els(back)
  BY <1>2, ElsOfConcat
<1> QED BY <1>4, <1>5, <1>6, <1>7

\* Retiring the memtable and truncating the log.
LEMMA ResetUnique ==
    ASSUME TypeInv, TypeInv', FrozenInv, UniqueInv, NEW t \in Threads,
           ResetWal(t) \/ ResetFails(t)
    PROVE  UniqueInv'
<1> USE DEF ResetWal, ResetFails, counters, flushVars
<1>1. Els(OtherImms) \subseteq Els(imm)
  BY OtherImmsEls DEF TypeInv, TypeOK, FrozenInv
<1>2. imm' = OtherImms /\ UNCHANGED <<manifest, active, l0, lastSeq, buf, old>>
         /\ wal' \in {wal, << >>}
  OBVIOUS
<1>3. TableRecords(imm') \subseteq TableRecords(imm)
  BY <1>1, <1>2 DEF TableRecords
<1>4. rest' = rest \/ rest' = RecordsOf(active.table) \cup TableRecords(OtherImms)
  BY DEF TableRecords, Els
<1>5. LogRecords' \subseteq LogRecords
  <2>1. Len(Readable(<< >>)) = 0
    <3>1. << >> \in Seq(Record \cup {Torn}) /\ Len(<< >>) = 0
      OBVIOUS
    <3>2. Len(Readable(<< >>)) \in 0..Len(<< >>)
      BY <3>1, ReadableIs
    <3> QED BY <3>1, <3>2
  <2>2. Els(Readable(<< >>)) = {}
    BY <2>1 DEF Els
  <2> QED BY <1>2, <2>2 DEF LogRecords
<1>6. TableRecords(l0)' = TableRecords(l0) /\ CallRecords' = CallRecords
         /\ TableRecords(Readable(manifest))' = TableRecords(Readable(manifest))
  BY <1>2 DEF TableRecords, CallRecords
<1> HIDE DEF ResetWal, ResetFails
<1>7. Held' \subseteq Held
  BY <1>2, <1>3, <1>4, <1>5, <1>6 DEF Held
<1>8. EditsBounded' /\ lastSeq' = lastSeq /\ lastSeq \in Nat
  BY <1>2 DEF UniqueInv, EditsBounded, TypeInv, TypeOK
<1>9. lastSeq <= lastSeq'
  BY <1>8
<1> QED BY <1>7, <1>8, <1>9, NothingNew

\* Writing the collected records back.
LEMMA RewriteUnique ==
    ASSUME TypeInv, TypeInv', UniqueInv, NEW t \in Threads, RewriteWal(t) \/ RewriteFails(t)
    PROVE  UniqueInv'
<1> USE DEF RewriteWal, RewriteFails, tables, counters
<1>1. PICK s \in InSeqOrder(rest) : \E tail \in {<< >>, s} \cup CutShort(s) : wal' = wal \o tail
  OBVIOUS
<1>2. PICK tail \in {<< >>, s} \cup CutShort(s) : wal' = wal \o tail
  BY <1>1
<1>3. s \in Seq(Record) /\ Els(s) \subseteq rest
  <2>1. s \in Seq(Record)
    BY InSeqOrderType DEF TypeInv, TypeOK
  <2>2. s \in [1..Cardinality(rest) -> rest] /\ Cardinality(rest) \in Nat
    BY FS_CardinalityType DEF InSeqOrder, TypeInv
  <2>3. Len(s) = Cardinality(rest)
    BY <2>1, <2>2
  <2> QED BY <2>1, <2>2, <2>3 DEF Els
<1>4. tail \in Seq(Record \cup {Torn}) /\ Els(tail) \ {Torn} \subseteq Held
  <2>1. CASE tail = << >>
    BY <2>1, ElsOfNone
  <2>2. CASE tail = s
    BY <1>3, <2>2, RecordsAreLog DEF Held
  <2>3. CASE tail \in CutShort(s)
    BY <1>3, <2>3, CutShortType, CutShortEls DEF Held
  <2> QED BY <1>2, <2>1, <2>2, <2>3
<1>5. LogRecords' \subseteq Held
  BY <1>2, <1>4, LogGrowsByHeld
<1>6. UNCHANGED <<manifest, active, imm, l0, lastSeq, buf, old>> /\ rest' = {}
  OBVIOUS
<1>7. Held' \subseteq Held
  BY <1>5, <1>6 DEF Held, TableRecords, CallRecords
<1>8. EditsBounded' /\ lastSeq' = lastSeq /\ lastSeq \in Nat
  BY <1>6 DEF UniqueInv, EditsBounded, TypeInv, TypeOK
<1>9. lastSeq <= lastSeq'
  BY <1>8
<1> QED BY <1>7, <1>8, <1>9, NothingNew

-----------------------------------------------------------------------------
(* A crash and what open() makes of the files                              *)

\* No edit read says a higher last_sequence.
LEMMA FlushedUpToIsBound ==
    ASSUME NEW edits \in Seq(Edit)
    PROVE  \A e \in Els(edits) : e.last <= FlushedUpTo(edits)
<1>1. \A i \in 1..Len(edits) : edits[i].last \in Nat
  <2>1. \A i \in 1..Len(edits) : edits[i] \in Edit
    OBVIOUS
  <2> QED BY <2>1 DEF Edit
<1> DEFINE f == [i \in 1..Len(edits) |-> edits[i].last]
<1>2. PICK b \in Nat : \A i \in 1..Len(edits) : f[i] <= b
  BY <1>1, BoundExists, Len(edits) \in Nat
<1> DEFINE S == {0} \cup {edits[i].last : i \in 1..Len(edits)}
<1>3. S \in SUBSET Nat /\ S # {} /\ \A x \in S : x <= b
  BY <1>1, <1>2
<1>4. \A x \in S : x <= Largest(S)
  BY <1>3, LargestIsIn
<1> QED BY <1>4 DEF FlushedUpTo, Els

\* The recovered memtable has no record the log has not.
LEMMA RecoveredIsLogged ==
    ASSUME NEW log \in Seq(Record), NEW flushed \in Nat
    PROVE  RecordsOf(RecoveredMemTable(log, flushed).table) \subseteq Els(log)
<1> DEFINE table == [k \in Keys |-> Replayed(log, flushed, k)]
<1> SUFFICES ASSUME NEW k \in Keys, table[k] # NoEntry
             PROVE  [key |-> k, seq |-> table[k].seq, val |-> table[k].val] \in Els(log)
  BY DEF RecordsOf, Present, RecoveredMemTable
<1> DEFINE I == {i \in 1..Len(log) : log[i].key = k /\ log[i].seq > flushed}
<1>1. I # {}
  BY DEF Replayed
<1>2. Largest(I) \in I
  <2>1. I \in SUBSET Nat /\ \A x \in I : x <= Len(log)
    OBVIOUS
  <2> QED BY <1>1, <2>1, LargestIsIn, Len(log) \in Nat
<1>3. PICK i \in 1..Len(log) : Largest(I) = i /\ log[i].key = k
  BY <1>2
<1>4. table[k] = EntryOf(log[i])
  BY <1>1, <1>3 DEF Replayed
<1>5. log[i] \in Record
  OBVIOUS
<1>6. [key |-> k, seq |-> table[k].seq, val |-> table[k].val] = log[i]
  BY <1>3, <1>4, <1>5 DEF EntryOf, Record
<1> QED BY <1>6 DEF Els

\* What a crash may add to the log are records of the writes under way.
LEMMA TornTailsHeld ==
    ASSUME TypeInv, NEW tail \in TornTails
    PROVE  Els(tail) \ {Torn} \subseteq Held
<1>1. CASE tail = << >>
  BY <1>1, ElsOfNone
<1>2. ASSUME NEW w \in Writers, tail \in CutShort(buf[w])
      PROVE  Els(tail) \ {Torn} \subseteq Held
  <2>1. buf[w] \in Seq(Record) /\ w \in Threads
    BY DEF TypeInv, TypeOK, Threads
  <2>2. Els(buf[w]) \subseteq Held
    BY <2>1 DEF Held, CallRecords
  <2> QED BY <1>2, <2>1, <2>2, CutShortEls
<1>3. ASSUME NEW s \in InSeqOrder(rest), tail \in CutShort(s)
      PROVE  Els(tail) \ {Torn} \subseteq Held
  <2>1. s \in Seq(Record)
    BY InSeqOrderType DEF TypeInv, TypeOK
  <2>2. s \in [1..Cardinality(rest) -> rest] /\ Cardinality(rest) \in Nat
    BY FS_CardinalityType DEF InSeqOrder, TypeInv
  <2>3. Els(s) \subseteq rest
    BY <2>1, <2>2 DEF Els
  <2> QED BY <1>3, <2>1, <2>3, CutShortEls DEF Held
<1>4. tail = << >> \/ (\E w \in Writers : tail \in CutShort(buf[w]))
         \/ (\E s \in InSeqOrder(rest) : tail \in CutShort(s))
  <2> DEFINE A == UNION {CutShort(buf[w]) : w \in {u \in Writers : pc[u] = "seq" /\ walLock = Free}}
             B == UNION {UNION {CutShort(s) : s \in InSeqOrder(rest)} :
                            t \in {u \in Threads : pc[u] = "rewrite"}}
  <2>1. tail \in {<< >>} \cup (A \cup B)
    BY DEF TornTails
  <2>2. tail \in A => \E w \in Writers : tail \in CutShort(buf[w])
    OBVIOUS
  <2>3. tail \in B => \E s \in InSeqOrder(rest) : tail \in CutShort(s)
    OBVIOUS
  <2> QED BY <2>1, <2>2, <2>3
<1> QED BY <1>1, <1>2, <1>3, <1>4

\* Numbering resumes above all that is still held.
LEMMA CrashAndOpenUnique ==
    ASSUME TypeInv, TypeInv', UniqueInv, CrashAndOpen
    PROVE  UniqueInv'
<1>1. PICK tail \in TornTails : wal' = wal \o tail
  BY DEF CrashAndOpen
<1>2. PICK part \in {<< >>, <<Torn>>} : manifest' = manifest \o part
  BY DEF CrashAndOpen, TornEdits
<1>3. LogRecords' \subseteq Held
  BY <1>1, TornTailsType, TornTailsHeld, LogGrowsByHeld
<1>4. TableRecords(Readable(manifest))' \subseteq Held /\ EditsBounded'
  <2>1. << >> \in Seq(Edit \cup {Torn}) /\ <<Torn>> \in Seq(Edit \cup {Torn})
    OBVIOUS
  <2>2. Els(part) \ {Torn} = {} /\ part \in Seq(Edit \cup {Torn})
    BY <2>1, ElsOfOne, ElsOfNone
  <2>3. Els(Readable(manifest \o part)) \subseteq Els(Readable(manifest))
    BY <2>2, ReadableOfConcat DEF TypeInv, TypeOK
  <2> QED BY <1>2, <2>3 DEF TableRecords, EditsBounded, UniqueInv, Held
<1> DEFINE log == Readable(wal')
           flushed == FlushedUpTo(l0')
<1>5. l0' = Readable(manifest') /\ active' = RecoveredMemTable(log, flushed)
         /\ lastSeq' = RecoveredSeq(log, flushed) /\ old' = active' /\ rest' = {} /\ imm' = << >>
         /\ buf' = [t \in Threads |-> << >>]
  BY DEF CrashAndOpen, RecoveredTables
<1>6. log \in Seq(Record) /\ l0' \in Seq(Edit)
  BY ReadableType DEF TypeInv, TypeOK
<1>7. flushed \in Nat
  BY <1>6, FlushedUpToType
<1> HIDE DEF log, flushed
<1>8. LogRecords' = Els(log)
  BY DEF LogRecords, log
<1>9. RecordsOf(active'.table) \subseteq LogRecords' /\ RecordsOf(old'.table) \subseteq LogRecords'
  BY <1>5, <1>6, <1>7, <1>8, RecoveredIsLogged
<1>10. TableRecords(imm)' = {} /\ CallRecords' = {}
         /\ TableRecords(l0)' = TableRecords(Readable(manifest))'
  BY <1>5, ElsOfNone DEF TableRecords, CallRecords
<1>11. Held' \subseteq LogRecords' \cup TableRecords(Readable(manifest))'
  BY <1>5, <1>9, <1>10 DEF Held
<1>12. lastSeq' \in Nat /\ flushed <= lastSeq' /\ \A i \in 1..Len(log) : log[i].seq <= lastSeq'
  BY <1>5, <1>6, <1>7, RecoveredSeqIsBound
<1>13. \A r \in LogRecords' : r.seq <= lastSeq'
  BY <1>8, <1>12 DEF Els
<1>14. ASSUME NEW r \in TableRecords(Readable(manifest))' PROVE r.seq <= lastSeq'
  <2>1. PICK e \in Els(Readable(manifest')) : r \in RecordsOf(e.table)
    BY DEF TableRecords
  <2>2. r.seq <= e.last
    BY <1>4, <2>1 DEF EditsBounded
  <2>3. e.last <= flushed
    BY <1>5, <1>6, <2>1, FlushedUpToIsBound DEF flushed
  <2>4. e \in Edit /\ r \in Held
    BY <1>4, <1>5, <1>6, <2>1 DEF Els
  <2>5. e.last \in Nat /\ r.seq \in Nat
    BY <2>4 DEF UniqueInv, Edit
  <2> QED BY <1>7, <1>12, <2>2, <2>3, <2>5
<1>15. Held' \subseteq Held
  BY <1>3, <1>4, <1>11
<1>16. \A r \in Held' : r.seq \in 1..lastSeq'
  <2> TAKE r \in Held'
  <2>1. r.seq \in Nat /\ 1 <= r.seq
    <3>1. r.seq \in 1..lastSeq
      BY <1>15 DEF UniqueInv
    <3>2. lastSeq \in Nat
      BY DEF TypeInv, TypeOK
    <3> QED BY <3>1, <3>2
  <2>2. r.seq <= lastSeq'
    BY <1>11, <1>13, <1>14
  <2> QED BY <1>12, <2>1, <2>2
<1>17. \A r1, r2 \in Held' : r1.seq = r2.seq => r1 = r2
  BY <1>15 DEF UniqueInv
<1> QED BY <1>4, <1>16, <1>17 DEF UniqueInv

LEMMA NextUnique ==
    ASSUME TypeInv, FrozenInv, UniqueInv, [Next]_vars
    PROVE  UniqueInv'
<1>0. TypeInv'
  BY NextTypeInv
<1>1. ASSUME NEW w \in Writers, Write(w) PROVE UniqueInv'
  BY <1>0, <1>1, NextSequenceUnique, AppendUnique, ApplyEntryUnique, QuietUnique DEF Write
<1>2. ASSUME NEW t \in Threads, StartFlush(t) \/ FlushStep(t) PROVE UniqueInv'
  BY <1>0, <1>2, QuietUnique, RotateUnique, EditUnique, ApplyEditUnique, ResetUnique,
     RewriteUnique DEF FlushStep
<1> QED BY <1>0, <1>1, <1>2, CrashAndOpenUnique, QuietUnique DEF Next, Run

LEMMA InitUnique == Init => UniqueInv
<1> SUFFICES ASSUME Init PROVE UniqueInv
  OBVIOUS
<1>1. << >> \in Seq(Record \cup {Torn}) /\ Len(<< >>) = 0
  OBVIOUS
<1>2. Len(Readable(<< >>)) \in 0..0
  BY <1>1, ReadableIs
<1>3. Els(Readable(<< >>)) = {}
  BY <1>2 DEF Els
<1>4. Held = {}
  BY <1>3, ElsOfNone, RecordsOfEmpty DEF Init, Held, TableRecords, CallRecords, LogRecords
<1> QED BY <1>3, <1>4 DEF Init, UniqueInv, EditsBounded

\* A sequence number names one operation for good: with any number of threads, writes
\* that fail half-way, crashes that tear what was being written, and reopens that number
\* on from what they could read (engine.rs:86-131, 202-225, 351-375).
THEOREM NumbersAreUnique == Spec => []SeqNamesOneRecord
<1>1. TypeInv /\ FrozenInv /\ UniqueInv /\ [Next]_vars => UniqueInv'
  BY NextUnique
<1>2. UniqueInv => SeqNamesOneRecord
  BY LiveIsHeld DEF UniqueInv, SeqNamesOneRecord
<1> QED BY <1>1, <1>2, InitUnique, InductiveInvariant, PTL DEF Spec

-----------------------------------------------------------------------------
(* The manifest and the version                                            *)

\* A log without a fragment is read to its end.
LEMMA ReadableOfIntact ==
    ASSUME NEW S, Torn \notin S, NEW log \in Seq(S)
    PROVE  Readable(log) = log
<1>1. log \in Seq(S \cup {Torn}) /\ Len(log) \in Nat
  BY RecordsAreLog
<1>2. /\ Len(Readable(log)) \in 0..Len(log)
      /\ \A i \in 1..Len(Readable(log)) : Readable(log)[i] = log[i]
      /\ \A n \in 1..Len(log) : (\A i \in 1..n : log[i] # Torn) => n <= Len(Readable(log))
  BY <1>1, ReadableIs
<1>3. Readable(log) \in Seq(S)
  BY <1>1, ReadableType
<1>4. \A i \in 1..Len(log) : log[i] # Torn
  OBVIOUS
<1>5. Len(Readable(log)) = Len(log)
  <2>1. CASE Len(log) = 0
    BY <1>2, <2>1
  <2>2. CASE Len(log) # 0
    <3>1. Len(log) \in 1..Len(log)
      BY <1>1, <2>2
    <3>2. Len(log) <= Len(Readable(log))
      BY <1>2, <1>4, <3>1
    <3> QED BY <1>1, <1>2, <3>2
  <2> QED BY <2>1, <2>2
<1>6. \A i \in 1..Len(log) : Readable(log)[i] = log[i]
  BY <1>2, <1>5
<1> DEFINE R == Readable(log)
<1> HIDE DEF R
<1>7. R \in Seq(S) /\ Len(R) = Len(log) /\ \A i \in 1..Len(log) : R[i] = log[i]
  BY <1>3, <1>5, <1>6 DEF R
<1>8. R = log
  BY <1>7, SeqEqual
<1> QED BY <1>8 DEF R

Editing == \E t \in Threads : pc[t] = "edit"

\* The manifest is the version, with the edit of the flush under way between its write
\* and the change of the version.
VersionInv == manifest = IF Editing THEN Append(l0, FlushEdit) ELSE l0

\* The manifest holds nothing but edits.
LEMMA ManifestIntact ==
    ASSUME TypeInv, VersionInv
    PROVE  manifest \in Seq(Edit) /\ Readable(manifest) = manifest
<1>1. Editing => FlushEdit \in Edit
  BY FlushEditType DEF Editing, TypeInv, CallsInv
<1>2. l0 \in Seq(Edit)
  BY DEF TypeInv, TypeOK
<1>3. manifest \in Seq(Edit)
  BY <1>1, <1>2 DEF VersionInv
<1> QED BY <1>3, ReadableOfIntact, TornIsNoRecord

\* A step of a thread that neither starts nor ends that stage of a flush.
LEMMA EditingKept ==
    ASSUME TypeInv, NEW t \in Threads, NEW p \in {"idle", "seq", "apply", "applying", "size",
                                                "flush", "build", "reset", "rewrite"},
           pc[t] # "edit", pc' = [pc EXCEPT ![t] = p]
    PROVE  Editing' <=> Editing
<1>1. \A u \in Threads : pc'[u] = IF u = t THEN p ELSE pc[u]
  BY DEF TypeInv, TypeOK
<1>2. Editing' <=> \E u \in Threads : pc'[u] = "edit"
  BY DEF Editing
<1> QED BY <1>1, <1>2 DEF Editing

LEMMA NextVersionInv ==
    ASSUME ~ IoErrors, ~ TornWrites, TypeInv, LocksInv, VersionInv, [Next]_vars
    PROVE  VersionInv'
<1> USE DEF files, tables, counters, locks, flushVars
<1>0. (\A t \in Threads : t # Free) /\ Writers \subseteq Threads
  BY ThreadsDistinct DEF Threads
<1>a. pc \in [Threads -> {"idle", "seq", "apply", "applying", "size", "flush", "build", "edit",
                          "reset", "rewrite"}]
  BY DEF TypeInv, TypeOK
<1>b. ASSUME UNCHANGED <<manifest, l0, old>>, Editing' <=> Editing PROVE VersionInv'
  BY <1>b DEF VersionInv, FlushEdit
<1>1. ASSUME NEW w \in Writers, Write(w) PROVE VersionInv'
  <2>1. UNCHANGED <<manifest, l0, old>>
    BY <1>1 DEF Write, NextSequence, AppendWal, AppendFails, ApplyEntry, MaybeScheduleFlush
  <2>2. \E p \in {"idle", "seq", "apply", "applying", "size", "flush"} : pc' = [pc EXCEPT ![w] = p]
    BY <1>1 DEF Write, NextSequence, AppendWal, AppendFails, ApplyEntry, MaybeScheduleFlush
  <2>3. pc[w] # "edit"
    BY <1>1 DEF Write, NextSequence, AppendWal, AppendFails, ApplyEntry, MaybeScheduleFlush
  <2>4. Editing' <=> Editing
    BY <1>0, <2>2, <2>3, EditingKept
  <2> QED BY <1>b, <2>1, <2>4
<1>2. ASSUME NEW t \in Threads, StartFlush(t) \/ NothingToFlush(t) PROVE VersionInv'
  <2>1. UNCHANGED <<manifest, l0, old>> /\ pc[t] # "edit"
          /\ \E p \in {"idle", "flush"} : pc' = [pc EXCEPT ![t] = p]
    BY <1>2 DEF StartFlush, NothingToFlush, CanRotate
  <2> QED BY <1>b, <2>1, EditingKept
<1>3. ASSUME NEW t \in Threads, Rotate(t) PROVE VersionInv'
  <2>1. ~ Editing
    BY <1>0, <1>3 DEF Editing, LocksInv, Rotate, CanRotate
  <2>2. pc[t] # "edit" /\ pc' = [pc EXCEPT ![t] = "build"] /\ UNCHANGED <<manifest, l0>>
    BY <1>3 DEF Rotate, CanRotate
  <2>3. ~ Editing'
    BY <2>1, <2>2, EditingKept
  <2> QED BY <2>1, <2>2, <2>3 DEF VersionInv
<1>4. ASSUME NEW t \in Threads, LogEdit(t) PROVE VersionInv'
  <2>1. ~ Editing
    BY <1>0, <1>4 DEF Editing, LocksInv, LogEdit
  <2>2. manifest' = Append(manifest, FlushEdit) /\ UNCHANGED <<l0, old>> /\ pc'[t] = "edit"
    BY <1>a, <1>4 DEF LogEdit
  <2>3. Editing' /\ FlushEdit' = FlushEdit
    BY <2>2 DEF Editing, FlushEdit
  <2> QED BY <2>1, <2>2, <2>3 DEF VersionInv
<1>5. ASSUME NEW t \in Threads, ApplyEdit(t) PROVE VersionInv'
  <2>1. Editing /\ \A u \in Threads : u # t => pc[u] # "edit"
    BY <1>0, <1>5 DEF Editing, LocksInv, ApplyEdit
  <2>2. l0' = Append(l0, FlushEdit) /\ UNCHANGED manifest /\ pc' = [pc EXCEPT ![t] = "reset"]
    BY <1>5 DEF ApplyEdit
  <2>3. ~ Editing'
    BY <1>a, <2>1, <2>2 DEF Editing
  <2> QED BY <2>1, <2>2, <2>3 DEF VersionInv
<1>6. ASSUME NEW t \in Threads, ResetWal(t) \/ RewriteWal(t) PROVE VersionInv'
  <2>1. UNCHANGED <<manifest, l0, old>> /\ pc[t] # "edit"
          /\ \E p \in {"idle", "rewrite"} : pc' = [pc EXCEPT ![t] = p]
    BY <1>6 DEF ResetWal, RewriteWal
  <2> QED BY <1>b, <2>1, EditingKept
<1>7. CASE CrashAndOpen
  <2>1. manifest' = manifest \o << >> /\ l0' = Readable(manifest')
    BY <1>7 DEF CrashAndOpen, TornEdits, RecoveredTables
  <2>2. manifest \o << >> = manifest
    BY ManifestIntact
  <2>3. ~ Editing'
    BY <1>7 DEF Editing, CrashAndOpen
  <2> QED BY <2>1, <2>2, <2>3, ManifestIntact DEF VersionInv
<1>8. CASE UNCHANGED vars
  BY <1>8, <1>b DEF vars, Editing
<1>9. \A t \in Threads : ~ FlushFails(t) /\ ~ ResetFails(t) /\ ~ RewriteFails(t)
  BY DEF FlushFails, ResetFails, RewriteFails
<1> QED BY <1>1, <1>2, <1>3, <1>4, <1>5, <1>6, <1>7, <1>8, <1>9 DEF Next, Run, FlushStep

LEMMA AlwaysVersionInv == ~ IoErrors /\ ~ TornWrites => (Spec => []VersionInv)
<1> SUFFICES ASSUME ~ IoErrors, ~ TornWrites PROVE Spec => []VersionInv
  OBVIOUS
<1>1. Init => VersionInv
  BY DEF Init, VersionInv, Editing
<1>2. TypeInv /\ LocksInv /\ VersionInv /\ [Next]_vars => VersionInv'
  BY NextVersionInv
<1> QED BY <1>1, <1>2, InductiveInvariant, PTL DEF Spec

\* Whenever it stops, a process whose writes to files succeed has its version in the
\* manifest: a reopen finds the tables it had, with any number of threads and crashes
\* (engine.rs:69-87, 328-345).
THEOREM ReopenFindsTheVersion ==
    ~ IoErrors /\ ~ TornWrites => (Spec => []VersionMatchesManifest)
<1>1. TypeInv /\ VersionInv => VersionMatchesManifest
  BY ManifestIntact DEF VersionInv, VersionMatchesManifest, Editing
<1> QED BY <1>1, AlwaysVersionInv, InductiveInvariant, PTL

-----------------------------------------------------------------------------
(* What replaying the log gives                                            *)

Hit(log, f, k, i) == log[i].key = k /\ log[i].seq > f

LEMMA ReplayedNone ==
    ASSUME NEW log, NEW f, NEW k, \A i \in 1..Len(log) : ~ Hit(log, f, k, i)
    PROVE  Replayed(log, f, k) = NoEntry
BY DEF Replayed, Hit

LEMMA ReplayedLast ==
    ASSUME NEW log \in Seq(Record), NEW f, NEW k, NEW i \in 1..Len(log), Hit(log, f, k, i),
           \A j \in 1..Len(log) : j > i => ~ Hit(log, f, k, j)
    PROVE  Replayed(log, f, k) = EntryOf(log[i])
<1> DEFINE I == {j \in 1..Len(log) : log[j].key = k /\ log[j].seq > f}
<1>1. i \in I /\ \A j \in I : ~ (j > i)
  BY DEF Hit
<1>2. i \in Nat /\ I \in SUBSET Nat /\ \A j \in I : j <= i
  BY <1>1
<1>3. Largest(I) \in I /\ \A j \in I : j <= Largest(I)
  BY <1>1, <1>2, LargestIsIn
<1>4. Replayed(log, f, k) = EntryOf(log[Largest(I)])
  BY <1>1 DEF Replayed
<1> HIDE DEF I
<1>5. Largest(I) = i
  <2>1. Largest(I) \in Nat /\ Largest(I) <= i /\ i <= Largest(I)
    BY <1>1, <1>2, <1>3
  <2> QED BY <1>2, <2>1
<1> QED BY <1>4, <1>5

LEMMA LastHit ==
    ASSUME NEW log \in Seq(Record), NEW f, NEW k, \E i \in 1..Len(log) : Hit(log, f, k, i)
    PROVE  \E i \in 1..Len(log) :
             /\ Hit(log, f, k, i)
             /\ \A j \in 1..Len(log) : j > i => ~ Hit(log, f, k, j)
             /\ Replayed(log, f, k) = EntryOf(log[i])
<1> DEFINE I == {j \in 1..Len(log) : Hit(log, f, k, j)}
<1>1. I \in SUBSET Nat /\ I # {} /\ (\A j \in I : j <= Len(log)) /\ Len(log) \in Nat
  OBVIOUS
<1>2. Largest(I) \in I /\ \A j \in I : j <= Largest(I)
  BY <1>1, LargestIsIn
<1>3. PICK i \in I : i = Largest(I) /\ \A j \in I : j <= i
  BY <1>2
<1>4. i \in 1..Len(log) /\ Hit(log, f, k, i)
  OBVIOUS
<1>5. \A j \in 1..Len(log) : j > i => ~ Hit(log, f, k, j)
  BY <1>1, <1>3
<1> QED BY <1>4, <1>5, ReplayedLast

\* Replaying what a log begins with, and then the rest of it.
LEMMA ReplayedOfConcat ==
    ASSUME NEW a \in Seq(Record), NEW b \in Seq(Record), NEW f, NEW k
    PROVE  Replayed(a \o b, f, k) =
             IF \E i \in 1..Len(b) : Hit(b, f, k, i) THEN Replayed(b, f, k)
             ELSE Replayed(a, f, k)
<1> DEFINE ab == a \o b
<1>1. /\ ab \in Seq(Record) /\ Len(a) \in Nat /\ Len(b) \in Nat /\ Len(ab) = Len(a) + Len(b)
      /\ \A i \in 1..Len(a) : ab[i] = a[i]
      /\ \A i \in 1..Len(b) : ab[Len(a) + i] = b[i]
  BY ConcatProperties
<1> HIDE DEF ab
<1>2. \A i \in 1..Len(a) : i \in 1..Len(ab) /\ (Hit(ab, f, k, i) <=> Hit(a, f, k, i))
  BY <1>1 DEF Hit
<1>3. \A i \in 1..Len(b) :
         Len(a) + i \in 1..Len(ab) /\ (Hit(ab, f, k, Len(a) + i) <=> Hit(b, f, k, i))
  BY <1>1 DEF Hit
<1>4. \A i \in 1..Len(ab) : i \in 1..Len(a) \/ (i - Len(a) \in 1..Len(b)
                                                 /\ i = Len(a) + (i - Len(a)))
  BY <1>1
<1>5. CASE \E i \in 1..Len(b) : Hit(b, f, k, i)
  <2>1. PICK i \in 1..Len(b) : /\ Hit(b, f, k, i)
                               /\ \A j \in 1..Len(b) : j > i => ~ Hit(b, f, k, j)
                               /\ Replayed(b, f, k) = EntryOf(b[i])
    BY <1>5, LastHit
  <2> DEFINE n == Len(a) + i
  <2>2. n \in 1..Len(ab) /\ Hit(ab, f, k, n) /\ ab[n] = b[i]
    BY <1>1, <1>3, <2>1
  <2>3. ASSUME NEW j \in 1..Len(ab), j > n PROVE ~ Hit(ab, f, k, j)
    <3>1. j \notin 1..Len(a) /\ j - Len(a) > i
      BY <1>1, <2>3
    <3>2. j - Len(a) \in 1..Len(b) /\ j = Len(a) + (j - Len(a))
      BY <1>4, <3>1
    <3>3. ~ Hit(b, f, k, j - Len(a))
      BY <2>1, <3>1, <3>2
    <3> QED BY <1>3, <3>2, <3>3
  <2> HIDE DEF n
  <2>4. Replayed(ab, f, k) = EntryOf(ab[n])
    BY <1>1, <2>2, <2>3, ReplayedLast
  <2> QED BY <1>5, <2>1, <2>2, <2>4 DEF ab
<1>6. CASE ~ \E i \in 1..Len(b) : Hit(b, f, k, i)
  <2>0. \A j \in 1..Len(ab) : j \notin 1..Len(a) => ~ Hit(ab, f, k, j)
    BY <1>3, <1>4, <1>6
  <2>1. CASE \E i \in 1..Len(a) : Hit(a, f, k, i)
    <3>1. PICK i \in 1..Len(a) : /\ Hit(a, f, k, i)
                                 /\ \A j \in 1..Len(a) : j > i => ~ Hit(a, f, k, j)
                                 /\ Replayed(a, f, k) = EntryOf(a[i])
      BY <2>1, LastHit
    <3>2. i \in 1..Len(ab) /\ Hit(ab, f, k, i) /\ ab[i] = a[i]
      BY <1>1, <1>2, <3>1
    <3>3. \A j \in 1..Len(ab) : j > i => ~ Hit(ab, f, k, j)
      BY <1>2, <2>0, <3>1
    <3>4. Replayed(ab, f, k) = EntryOf(ab[i])
      BY <1>1, <3>2, <3>3, ReplayedLast
    <3> QED BY <1>6, <3>1, <3>2, <3>4 DEF ab
  <2>2. CASE ~ \E i \in 1..Len(a) : Hit(a, f, k, i)
    <3>1. Replayed(a, f, k) = NoEntry
      BY <2>2, ReplayedNone
    <3>2. \A j \in 1..Len(ab) : ~ Hit(ab, f, k, j)
      BY <1>2, <2>0, <2>2
    <3>3. Replayed(ab, f, k) = NoEntry
      BY <3>2, ReplayedNone
    <3> QED BY <1>6, <3>1, <3>3 DEF ab
  <2> QED BY <2>1, <2>2
<1> QED BY <1>5, <1>6

-----------------------------------------------------------------------------
(* One thread that writes and flushes                                      *)

OneThread == Threads # {} /\ \A t, u \in Threads : t = u

Flushed == FlushedUpTo(manifest)
InOrder(log) == \A i, j \in 1..Len(log) : i < j => log[i].seq < log[j].seq

\* The log once the call of t has appended its records.
Pending(t) == IF pc[t] = "seq" THEN wal \o buf[t] ELSE wal

\* Replaying the log gives what the memtables hold, with the records of the call that
\* are in the log and not in the memtable yet on top of it.
ReplayInv(t) ==
    /\ pc[t] \in {"idle", "seq", "size", "flush"} =>
         \A k \in Keys : Replayed(wal, Flushed, k) = active.table[k]
    /\ pc[t] \in {"apply", "applying"} =>
         \A k \in Keys : Replayed(wal, Flushed, k) =
                           IF \E i \in 1..Len(buf[t]) : Hit(buf[t], Flushed, k, i)
                             THEN Replayed(buf[t], Flushed, k) ELSE active.table[k]
    /\ pc[t] = "build" => \A k \in Keys : Replayed(wal, Flushed, k) = old.table[k]
    /\ pc[t] \in {"edit", "reset"} => \A i \in 1..Len(wal) : wal[i].seq <= Flushed

\* The log is in the order of the numbers, and so are the calls behind it; the
\* memtable a flush leaves behind it is empty, so the log is never rewritten.
StageInv(t) ==
    /\ wal \in Seq(Record)
    /\ InOrder(Pending(t))
    /\ Flushed <= lastSeq
    /\ \A i \in 1..Len(buf[t]) : buf[t][i].seq > Flushed
    /\ pc[t] # "rewrite"
    /\ pc[t] \in {"build", "edit", "reset"} => active.table = EmptyTable

DurInv == \A t \in Threads : StageInv(t) /\ ReplayInv(t)

\* The inductive invariant with the facts proved of every number of threads.
RecoveryInv == TypeInv /\ LocksInv /\ FlushProtocol /\ UniqueInv /\ VersionInv

LEMMA FlushedType == ASSUME TypeInv, VersionInv PROVE Flushed \in Nat
BY ManifestIntact, FlushedUpToType DEF Flushed

\* What get would find after a reopen, when the files are intact.
LEMMA RecoverableIs ==
    ASSUME TypeInv, VersionInv, wal \in Seq(Record), NEW k \in Keys
    PROVE  Recoverable(k) = IF Replayed(wal, Flushed, k) # NoEntry
                              THEN Replayed(wal, Flushed, k) ELSE Newest(manifest, k)
<1>1. Readable(manifest) = manifest /\ Readable(wal) = wal
  BY ManifestIntact, ReadableOfIntact, TornIsNoRecord
<1>2. Newest(<< >>, k) = NoEntry
  BY NewestOfNone
<1> QED BY <1>1, <1>2 DEF Recoverable, RecoveredTables, RecoveredMemTable, Lookup, Flushed

LEMMA CrashSafeOfOneThread ==
    ASSUME RecoveryInv, DurInv, NEW t \in Threads, OneThread
    PROVE  CrashSafe
<1> SUFFICES ASSUME NEW k \in Keys
             PROVE  Recoverable(k) \in {Visible(k)} \cup UnderWay(k)
  BY DEF CrashSafe
<1> USE DEF RecoveryInv
<1>1. /\ StageInv(t) /\ ReplayInv(t) /\ wal \in Seq(Record)
      /\ pc[t] \in {"idle", "seq", "apply", "applying", "size", "flush", "build", "edit",
                    "reset", "rewrite"}
      /\ l0 \in Seq(Edit) /\ buf[t] \in Seq(Record)
  BY DEF DurInv, StageInv, TypeInv, TypeOK
<1>2. Recoverable(k) = IF Replayed(wal, Flushed, k) # NoEntry
                         THEN Replayed(wal, Flushed, k) ELSE Newest(manifest, k)
  BY <1>1, RecoverableIs
<1>3. Visible(k) = IF active.table[k] # NoEntry THEN active.table[k]
                   ELSE IF Newest(imm, k) # NoEntry THEN Newest(imm, k)
                   ELSE Newest(l0, k)
  BY DEF Visible, Lookup
<1>4. imm = IF pc[t] \in {"build", "edit", "reset"} THEN <<old>> ELSE << >>
  BY DEF FlushProtocol, OneThread
<1>5. manifest = IF pc[t] = "edit" THEN Append(l0, FlushEdit) ELSE l0
  BY DEF VersionInv, Editing, OneThread
<1>6. Newest(imm, k) = IF pc[t] \in {"build", "edit", "reset"} THEN old.table[k] ELSE NoEntry
  BY <1>4, NewestOfNone, NewestOfOne
<1>7. CASE pc[t] \in {"idle", "seq", "size", "flush"}
  <2>1. Replayed(wal, Flushed, k) = active.table[k]
    BY <1>1, <1>7 DEF ReplayInv
  <2> QED BY <1>2, <1>3, <1>5, <1>6, <1>7, <2>1
<1>8. CASE pc[t] \in {"apply", "applying"}
  <2>1. Replayed(wal, Flushed, k) = IF \E i \in 1..Len(buf[t]) : Hit(buf[t], Flushed, k, i)
                                      THEN Replayed(buf[t], Flushed, k) ELSE active.table[k]
    BY <1>1, <1>8 DEF ReplayInv
  <2>2. CASE ~ \E i \in 1..Len(buf[t]) : Hit(buf[t], Flushed, k, i)
    BY <1>2, <1>3, <1>5, <1>6, <1>8, <2>1, <2>2
  <2>3. CASE \E i \in 1..Len(buf[t]) : Hit(buf[t], Flushed, k, i)
    <3>1. PICK i \in 1..Len(buf[t]) :
             Hit(buf[t], Flushed, k, i) /\ Replayed(buf[t], Flushed, k) = EntryOf(buf[t][i])
      BY <1>1, <2>3, LastHit
    <3>2. buf[t][i].seq \in 1..lastSeq /\ buf[t][i].key = k
      BY <3>1 DEF TypeInv, NumbersInv, Hit
    <3>3. EntryOf(buf[t][i]) # NoEntry
      BY <3>2 DEF EntryOf, NoEntry
    <3>4. EntryOf(buf[t][i]) \in UnderWay(k)
      BY <3>2 DEF UnderWay
    <3> QED BY <1>2, <2>1, <2>3, <3>1, <3>3, <3>4
  <2> QED BY <2>2, <2>3
<1>9. CASE pc[t] = "build"
  <2>1. active.table[k] = NoEntry /\ Replayed(wal, Flushed, k) = old.table[k]
    BY <1>1, <1>9 DEF StageInv, ReplayInv, EmptyTable
  <2> QED BY <1>2, <1>3, <1>5, <1>6, <1>9, <2>1
<1>10. CASE pc[t] \in {"edit", "reset"}
  <2>1. active.table[k] = NoEntry
    BY <1>1, <1>10 DEF StageInv, EmptyTable
  <2>2. Replayed(wal, Flushed, k) = NoEntry
    <3>1. \A i \in 1..Len(wal) : wal[i].seq <= Flushed /\ wal[i] \in Record
      BY <1>1, <1>10 DEF ReplayInv
    <3>2. \A i \in 1..Len(wal) : ~ Hit(wal, Flushed, k, i)
      BY <3>1, FlushedType DEF Hit, Record
    <3> QED BY <3>2, ReplayedNone
  <2>3. PICK ts : /\ ts \in Seq(Edit) /\ ts # << >> /\ manifest = ts
                  /\ ts[Len(ts)].table = old.table
                  /\ (pc[t] = "edit" => ts = Append(l0, FlushEdit))
                  /\ (pc[t] = "reset" => ts = l0)
    <3>1. CASE pc[t] = "edit"
      <4>1. FlushEdit \in Edit /\ FlushEdit.table = old.table
        BY <3>1, FlushEditType DEF TypeInv, CallsInv, FlushEdit
      <4>2. Append(l0, FlushEdit) \in Seq(Edit) /\ Append(l0, FlushEdit) # << >>
              /\ Append(l0, FlushEdit)[Len(Append(l0, FlushEdit))] = FlushEdit
        BY <1>1, <4>1, LastOfAppend
      <4> QED BY <1>5, <3>1, <4>1, <4>2
    <3>2. CASE pc[t] = "reset"
      BY <1>1, <1>5, <3>2 DEF FlushProtocol
    <3> QED BY <1>10, <3>1, <3>2
  <2>4. CASE old.table[k] # NoEntry
    <3>1. Newest(ts, k) = old.table[k]
      BY <2>3, <2>4, NewestIsLast
    <3> QED BY <1>2, <1>3, <1>6, <1>10, <2>1, <2>2, <2>3, <2>4, <3>1
  <2>5. CASE old.table[k] = NoEntry
    <3>1. Newest(manifest, k) = Newest(l0, k)
      <4>1. CASE pc[t] = "reset"
        BY <2>3, <4>1
      <4>2. CASE pc[t] = "edit"
        <5>1. FlushEdit \in Edit /\ FlushEdit.table = old.table
          BY <4>2, FlushEditType DEF TypeInv, CallsInv, FlushEdit
        <5>2. Newest(Append(l0, FlushEdit), k) = Newest(l0, k)
          BY <1>1, <2>5, <5>1, NewestPastLast
        <5> QED BY <2>3, <4>2, <5>2
      <4> QED BY <1>10, <4>1, <4>2
    <3> QED BY <1>2, <1>3, <1>6, <1>10, <2>1, <2>2, <2>5, <3>1
  <2> QED BY <2>4, <2>5
<1> QED BY <1>1, <1>7, <1>8, <1>9, <1>10 DEF StageInv

\* Lists in order, and the records of the log.
LEMMA InOrderAppend ==
    ASSUME NEW s \in Seq(Record), NEW r \in Record, InOrder(s),
           \A i \in 1..Len(s) : s[i].seq < r.seq
    PROVE  InOrder(Append(s, r))
<1> DEFINE u == Append(s, r)
<1>1. Len(u) = Len(s) + 1 /\ Len(s) \in Nat /\ u[Len(s) + 1] = r
         /\ \A i \in 1..Len(s) : u[i] = s[i]
  OBVIOUS
<1> HIDE DEF u
<1>2. ASSUME NEW i \in 1..Len(u), NEW j \in 1..Len(u), i < j PROVE u[i].seq < u[j].seq
  <2>1. i \in 1..Len(s)
    BY <1>1, <1>2
  <2>2. CASE j = Len(s) + 1
    BY <1>1, <2>1, <2>2
  <2>3. CASE j # Len(s) + 1
    BY <1>1, <1>2, <2>1, <2>3 DEF InOrder
  <2> QED BY <2>2, <2>3
<1>3. InOrder(u)
  BY <1>2 DEF InOrder
<1> QED BY <1>3 DEF u

LEMMA InOrderPrefix ==
    ASSUME NEW a \in Seq(Record), NEW b \in Seq(Record), InOrder(a \o b)
    PROVE  InOrder(a)
<1> DEFINE ab == a \o b
<1>1. Len(ab) = Len(a) + Len(b) /\ Len(a) \in Nat /\ Len(b) \in Nat
         /\ \A i \in 1..Len(a) : ab[i] = a[i]
  BY ConcatProperties
<1> HIDE DEF ab
<1>2. \A i \in 1..Len(a) : i \in 1..Len(ab)
  BY <1>1
<1>3. InOrder(ab)
  BY DEF ab
<1> QED BY <1>1, <1>2, <1>3 DEF InOrder

LEMMA ConcatAppend ==
    ASSUME NEW S, NEW a \in Seq(S), NEW b \in Seq(S), NEW x \in S
    PROVE  a \o Append(b, x) = Append(a \o b, x)
<1> DEFINE left == a \o Append(b, x)
           right == Append(a \o b, x)
<1>1. Append(b, x) \in Seq(S) /\ Len(Append(b, x)) = Len(b) + 1 /\ Len(b) \in Nat
         /\ Append(b, x)[Len(b) + 1] = x /\ \A i \in 1..Len(b) : Append(b, x)[i] = b[i]
  OBVIOUS
<1>2. a \o b \in Seq(S) /\ Len(a \o b) = Len(a) + Len(b) /\ Len(a) \in Nat
         /\ (\A i \in 1..Len(a) : (a \o b)[i] = a[i])
         /\ \A i \in 1..Len(b) : (a \o b)[Len(a) + i] = b[i]
  BY ConcatProperties
<1>3. left \in Seq(S) /\ Len(left) = Len(a) + Len(b) + 1
         /\ (\A i \in 1..Len(a) : left[i] = a[i])
         /\ \A i \in 1..(Len(b) + 1) : left[Len(a) + i] = Append(b, x)[i]
  BY <1>1, <1>2, ConcatProperties
<1>4. right \in Seq(S) /\ Len(right) = Len(a) + Len(b) + 1
         /\ (\A i \in 1..(Len(a) + Len(b)) : right[i] = (a \o b)[i])
         /\ right[Len(a) + Len(b) + 1] = x
  BY <1>2
<1> HIDE DEF left, right
<1>5. ASSUME NEW i \in 1..Len(left) PROVE left[i] = right[i]
  <2>1. CASE i \in 1..Len(a)
    <3>1. i \in 1..(Len(a) + Len(b))
      BY <1>1, <1>2, <2>1
    <3>2. right[i] = (a \o b)[i]
      BY <1>4, <3>1
    <3> QED BY <1>2, <1>3, <2>1, <3>2
  <2>2. CASE i \notin 1..Len(a)
    <3>1. i - Len(a) \in 1..(Len(b) + 1) /\ i = Len(a) + (i - Len(a))
      BY <1>1, <1>2, <1>3, <2>2
    <3>2. left[i] = Append(b, x)[i - Len(a)]
      BY <1>3, <3>1
    <3>3. CASE i - Len(a) \in 1..Len(b)
      BY <1>1, <1>2, <1>4, <3>1, <3>2, <3>3
    <3>4. CASE i - Len(a) = Len(b) + 1
      BY <1>1, <1>2, <1>4, <3>1, <3>2, <3>4
    <3> QED BY <1>1, <3>1, <3>3, <3>4
  <2> QED BY <2>1, <2>2
<1>6. left = right
  BY <1>3, <1>4, <1>5, SeqEqual
<1> QED BY <1>6 DEF left, right

LEMMA LogIsHeld ==
    ASSUME TypeInv, UniqueInv, wal \in Seq(Record), NEW t \in Threads
    PROVE  \A r \in Els(wal) \cup Els(buf[t]) : r.seq \in 1..lastSeq
<1>1. Readable(wal) = wal
  BY ReadableOfIntact, TornIsNoRecord
<1>2. Els(wal) \cup Els(buf[t]) \subseteq Held
  BY <1>1 DEF Held, LogRecords, CallRecords
<1> QED BY <1>2 DEF UniqueInv

\* last_sequence of one more edit.
LEMMA FlushedUpToAppend ==
    ASSUME NEW edits \in Seq(Edit), NEW e \in Edit, NEW n \in Nat,
           FlushedUpTo(edits) <= n, e.last <= n
    PROVE  /\ FlushedUpTo(Append(edits, e)) <= n
           /\ e.last <= FlushedUpTo(Append(edits, e))
           /\ FlushedUpTo(edits) <= FlushedUpTo(Append(edits, e))
<1> DEFINE us == Append(edits, e)
           S == {0} \cup {edits[i].last : i \in 1..Len(edits)}
           T == {0} \cup {us[i].last : i \in 1..Len(us)}
<1>1. us \in Seq(Edit) /\ Len(us) = Len(edits) + 1 /\ Len(edits) \in Nat
         /\ us[Len(edits) + 1] = e /\ \A i \in 1..Len(edits) : us[i] = edits[i]
  OBVIOUS
<1>2. (\A x \in Els(edits) : x.last <= FlushedUpTo(edits) /\ x.last \in Nat) /\ e.last \in Nat
  <2>1. \A x \in Els(edits) : x \in Edit
    BY DEF Els
  <2> QED BY <2>1, FlushedUpToIsBound DEF Edit
<1>3. FlushedUpTo(edits) \in Nat
  BY FlushedUpToType
<1>4. \A x \in S : x \in Nat /\ x <= FlushedUpTo(edits)
  BY <1>2, <1>3 DEF Els
<1>5. FlushedUpTo(edits) \in S
  <2>1. FlushedUpTo(edits) = Largest(S)
    BY DEF FlushedUpTo
  <2>2. S # {} /\ S \in SUBSET Nat
    BY <1>4
  <2> HIDE DEF S
  <2> QED BY <1>3, <1>4, <2>1, <2>2, LargestIsIn
<1> HIDE DEF us
<1>6. T = S \cup {e.last}
  <2>1. \A i \in 1..Len(us) : i \in 1..Len(edits) \/ i = Len(edits) + 1
    BY <1>1
  <2>2. Len(edits) + 1 \in 1..Len(us) /\ \A i \in 1..Len(edits) : i \in 1..Len(us)
    BY <1>1
  <2>3. \A x \in T : x \in S \cup {e.last}
    BY <1>1, <2>1
  <2>4. \A x \in S \cup {e.last} : x \in T
    BY <1>1, <2>2
  <2> QED BY <2>3, <2>4
<1>7. FlushedUpTo(us) = Largest(T)
  BY DEF FlushedUpTo
<1> HIDE DEF S, T
<1>8. T \in SUBSET Nat /\ T # {} /\ \A x \in T : x <= n
  BY <1>2, <1>3, <1>4, <1>6
<1>9. Largest(T) \in T /\ \A x \in T : x <= Largest(T)
  BY <1>8, LargestIsIn
<1>10. FlushedUpTo(us) <= n /\ e.last <= FlushedUpTo(us) /\ FlushedUpTo(edits) <= FlushedUpTo(us)
  BY <1>5, <1>6, <1>7, <1>8, <1>9
<1> QED BY <1>10 DEF us

-----------------------------------------------------------------------------
(* The steps of the one thread                                             *)

LEMMA NextSequenceDurable ==
    ASSUME RecoveryInv, NEW w \in Writers, w \in Threads, StageInv(w), ReplayInv(w),
           NEW k \in Keys, NEW v \in Contents, NextSequence(w, k, v)
    PROVE  StageInv(w)' /\ ReplayInv(w)'
<1> DEFINE r == [key |-> k, seq |-> lastSeq + 1, val |-> v]
           base == wal \o buf[w]
<1>0. TypeInv /\ UniqueInv /\ VersionInv
  BY DEF RecoveryInv
<1>1. /\ buf \in [Threads -> Seq(Record)] /\ wal \in Seq(Record) /\ lastSeq \in Nat
      /\ buf[w] \in Seq(Record)
      /\ pc \in [Threads -> {"idle", "seq", "apply", "applying", "size", "flush", "build",
                             "edit", "reset", "rewrite"}]
      /\ r \in Record /\ r.seq = lastSeq + 1
  <2>1. /\ buf \in [Threads -> Seq(Record)] /\ lastSeq \in Nat
        /\ pc \in [Threads -> {"idle", "seq", "apply", "applying", "size", "flush", "build",
                               "edit", "reset", "rewrite"}]
    BY <1>0 DEF TypeInv, TypeOK
  <2>2. wal \in Seq(Record)
    BY DEF StageInv
  <2>3. r \in Record /\ r.seq = lastSeq + 1
    BY <2>1 DEF Record
  <2> QED BY <2>1, <2>2, <2>3
<1>2. /\ UNCHANGED <<wal, manifest, active, old>> /\ lastSeq' = lastSeq + 1
      /\ pc[w] \in {"idle", "seq"} /\ pc'[w] = "seq" /\ buf'[w] = Append(buf[w], r)
  BY <1>1 DEF NextSequence, files, tables, flushVars
<1> HIDE DEF r
<1>3. Flushed' = Flushed /\ Flushed \in Nat
  BY <1>0, <1>2, FlushedType DEF Flushed
<1>4. InOrder(base)
  <2>1. CASE pc[w] = "seq"
    BY <2>1 DEF StageInv, Pending
  <2>2. CASE pc[w] = "idle"
    <3>1. buf[w] = << >>
      BY <1>0, <2>2 DEF TypeInv, CallsInv
    <3>2. base = wal
      BY <1>1, <3>1
    <3> QED BY <2>2, <3>2 DEF StageInv, Pending
  <2> QED BY <1>2, <2>1, <2>2
<1>5. base \in Seq(Record)
  BY <1>1, ConcatProperties
<1>6. \A i \in 1..Len(base) : base[i].seq < r.seq
  <2>1. Els(base) = Els(wal) \cup Els(buf[w])
    BY <1>1, ElsOfConcat
  <2>2. \A x \in Els(base) : x.seq \in 1..lastSeq
    BY <1>0, <1>1, <2>1, LogIsHeld
  <2>3. \A i \in 1..Len(base) : base[i].seq \in 1..lastSeq
    BY <2>2 DEF Els
  <2> QED BY <1>1, <2>3
<1>7. Pending(w)' = Append(base, r)
  BY <1>1, <1>2, ConcatAppend DEF Pending
<1> HIDE DEF base
<1>8. InOrder(Pending(w))'
  <2>1. InOrder(Append(base, r))
    BY <1>1, <1>4, <1>5, <1>6, InOrderAppend
  <2> QED BY <1>7, <2>1 DEF InOrder
<1>9. \A i \in 1..Len(buf'[w]) : buf'[w][i].seq > Flushed
  <2>1. Len(Append(buf[w], r)) = Len(buf[w]) + 1 /\ Append(buf[w], r)[Len(buf[w]) + 1] = r
          /\ \A i \in 1..Len(buf[w]) : Append(buf[w], r)[i] = buf[w][i]
    BY <1>1
  <2>2. r.seq > Flushed
    BY <1>1, <1>3 DEF StageInv
  <2>3. \A i \in 1..Len(buf[w]) : buf[w][i].seq > Flushed
    BY DEF StageInv
  <2>4. Len(buf[w]) \in Nat
    BY <1>1
  <2> QED BY <1>2, <2>1, <2>2, <2>3, <2>4
<1>10. Flushed' <= lastSeq'
  BY <1>1, <1>2, <1>3 DEF StageInv
<1>11. StageInv(w)'
  BY <1>1, <1>2, <1>3, <1>8, <1>9, <1>10 DEF StageInv
<1>12. ReplayInv(w)'
  BY <1>2, <1>3 DEF ReplayInv
<1> QED BY <1>11, <1>12

LEMMA AppendWalDurable ==
    ASSUME RecoveryInv, NEW w \in Writers, w \in Threads, StageInv(w), ReplayInv(w),
           AppendWal(w)
    PROVE  StageInv(w)' /\ ReplayInv(w)'
<1>0. TypeInv /\ VersionInv
  BY DEF RecoveryInv
<1>1. /\ wal \in Seq(Record) /\ buf[w] \in Seq(Record)
      /\ pc \in [Threads -> {"idle", "seq", "apply", "applying", "size", "flush", "build",
                             "edit", "reset", "rewrite"}]
  BY <1>0 DEF StageInv, TypeInv, TypeOK
<1>2. /\ UNCHANGED <<manifest, active, old, lastSeq, buf>> /\ wal' = wal \o buf[w]
      /\ pc[w] = "seq" /\ pc'[w] = "apply"
  BY <1>1 DEF AppendWal, tables, counters, flushVars
<1>3. Flushed' = Flushed
  BY <1>2 DEF Flushed
<1>4. wal' \in Seq(Record)
  BY <1>1, <1>2, ConcatProperties
<1>5. Pending(w)' = Pending(w)
  BY <1>2 DEF Pending
<1>6. InOrder(Pending(w))'
  BY <1>5 DEF StageInv, InOrder
<1>7. StageInv(w)'
  BY <1>2, <1>3, <1>4, <1>6 DEF StageInv
<1>8. \A k \in Keys : Replayed(wal', Flushed, k) =
                        IF \E i \in 1..Len(buf[w]) : Hit(buf[w], Flushed, k, i)
                          THEN Replayed(buf[w], Flushed, k) ELSE active.table[k]
  <2> TAKE k \in Keys
  <2>1. Replayed(wal, Flushed, k) = active.table[k]
    BY <1>2 DEF ReplayInv
  <2> QED BY <1>1, <1>2, <2>1, ReplayedOfConcat
<1>9. ReplayInv(w)'
  BY <1>2, <1>3, <1>8 DEF ReplayInv, Hit
<1> QED BY <1>7, <1>9

LEMMA ApplyEntryDurable ==
    ASSUME RecoveryInv, NEW w \in Writers, w \in Threads, StageInv(w), ReplayInv(w),
           ApplyEntry(w)
    PROVE  StageInv(w)' /\ ReplayInv(w)'
<1> DEFINE r == Head(buf[w])
           rs == Tail(buf[w])
<1>0. TypeInv /\ VersionInv
  BY DEF RecoveryInv
<1>1. /\ wal \in Seq(Record) /\ buf[w] \in Seq(Record) /\ buf[w] # << >>
      /\ buf \in [Threads -> Seq(Record)]
      /\ pc \in [Threads -> {"idle", "seq", "apply", "applying", "size", "flush", "build",
                             "edit", "reset", "rewrite"}]
      /\ active \in [id : Nat, table : [Keys -> Entry]]
  BY <1>0 DEF StageInv, TypeInv, TypeOK, CallsInv, MemTable, Table, ApplyEntry
<1>2. /\ UNCHANGED <<wal, manifest, old, lastSeq>> /\ pc[w] \in {"apply", "applying"}
      /\ pc'[w] = IF Len(buf[w]) = 1 THEN "size" ELSE "applying"
      /\ buf'[w] = rs /\ active'.table = [active.table EXCEPT ![r.key] = EntryOf(r)]
  BY <1>1 DEF ApplyEntry, files, counters, flushVars
<1>3. /\ r = buf[w][1] /\ 1 \in 1..Len(buf[w]) /\ r \in Record /\ rs \in Seq(Record)
      /\ Len(buf[w]) \in Nat /\ Len(rs) = Len(buf[w]) - 1
      /\ \A i \in 1..Len(rs) : i + 1 \in 1..Len(buf[w]) /\ rs[i] = buf[w][i + 1]
  BY <1>1
<1>4. buf[w] = <<r>> \o rs /\ <<r>> \in Seq(Record)
  <2>1. <<r>> \in Seq(Record) /\ Len(<<r>>) = 1 /\ <<r>>[1] = r
    BY <1>3
  <2> DEFINE both == <<r>> \o rs
  <2> HIDE DEF r, rs
  <2>2. both \in Seq(Record) /\ Len(both) = 1 + Len(rs) /\ both[1] = r
          /\ \A i \in 1..Len(rs) : both[i + 1] = rs[i]
    BY <1>3, <2>1, ConcatProperties
  <2> HIDE DEF both
  <2>3. ASSUME NEW i \in 1..Len(buf[w]) PROVE both[i] = buf[w][i]
    <3>1. CASE i = 1
      BY <1>3, <2>2, <3>1
    <3>2. CASE i # 1
      <4>1. i - 1 \in 1..Len(rs) /\ i = (i - 1) + 1
        BY <1>3, <3>2
      <4> QED BY <1>3, <2>2, <4>1
    <3> QED BY <3>1, <3>2
  <2>4. Len(both) = Len(buf[w])
    BY <1>3, <2>2
  <2>5. both = buf[w]
    BY <1>1, <2>2, <2>3, <2>4, SeqEqual
  <2> QED BY <2>1, <2>5 DEF both
<1> HIDE DEF r, rs
<1>5. Flushed' = Flushed /\ Flushed \in Nat
  BY <1>0, <1>2, FlushedType DEF Flushed
<1>6. r.seq > Flushed /\ \A i \in 1..Len(rs) : rs[i].seq > Flushed
  BY <1>3 DEF StageInv
<1>7. InOrder(Pending(w))'
  BY <1>2 DEF StageInv, Pending, InOrder
<1>8. StageInv(w)'
  BY <1>2, <1>5, <1>6, <1>7 DEF StageInv
<1>9. ASSUME NEW k \in Keys
      PROVE  Replayed(wal, Flushed, k) = IF \E i \in 1..Len(rs) : Hit(rs, Flushed, k, i)
                                           THEN Replayed(rs, Flushed, k) ELSE active'.table[k]
  <2>1. Replayed(buf[w], Flushed, k) = IF \E i \in 1..Len(rs) : Hit(rs, Flushed, k, i)
                                         THEN Replayed(rs, Flushed, k)
                                         ELSE Replayed(<<r>>, Flushed, k)
    <3> DEFINE one == <<r>>
    <3>1. one \in Seq(Record) /\ rs \in Seq(Record) /\ buf[w] = one \o rs
      BY <1>3, <1>4
    <3> HIDE DEF one
    <3>2. Replayed(one \o rs, Flushed, k) = IF \E i \in 1..Len(rs) : Hit(rs, Flushed, k, i)
                                              THEN Replayed(rs, Flushed, k)
                                              ELSE Replayed(one, Flushed, k)
      BY <3>1, ReplayedOfConcat
    <3> QED BY <3>1, <3>2 DEF one
  <2>2. Replayed(wal, Flushed, k) = IF \E i \in 1..Len(buf[w]) : Hit(buf[w], Flushed, k, i)
                                      THEN Replayed(buf[w], Flushed, k) ELSE active.table[k]
    BY <1>2 DEF ReplayInv
  <2>3. CASE \E i \in 1..Len(rs) : Hit(rs, Flushed, k, i)
    <3>1. \E i \in 1..Len(buf[w]) : Hit(buf[w], Flushed, k, i)
      BY <1>3, <2>3 DEF Hit
    <3> QED BY <2>1, <2>2, <2>3, <3>1
  <2>4. CASE ~ (\E i \in 1..Len(rs) : Hit(rs, Flushed, k, i)) /\ r.key = k
    <3>1. Hit(buf[w], Flushed, k, 1)
      BY <1>3, <1>6, <2>4 DEF Hit
    <3>2. Replayed(<<r>>, Flushed, k) = EntryOf(r)
      <4>1. Len(<<r>>) = 1 /\ <<r>>[1] = r /\ 1 \in 1..Len(<<r>>)
              /\ \A j \in 1..Len(<<r>>) : ~ (j > 1)
        OBVIOUS
      <4>2. Hit(<<r>>, Flushed, k, 1)
        BY <1>6, <2>4, <4>1 DEF Hit
      <4>3. Replayed(<<r>>, Flushed, k) = EntryOf(<<r>>[1])
        BY <1>4, <4>1, <4>2, ReplayedLast
      <4> QED BY <4>1, <4>3
    <3>3. active'.table[k] = EntryOf(r)
      BY <1>1, <1>2, <2>4
    <3> QED BY <1>3, <2>1, <2>2, <2>4, <3>1, <3>2, <3>3
  <2>5. CASE ~ (\E i \in 1..Len(rs) : Hit(rs, Flushed, k, i)) /\ r.key # k
    <3>1. \A i \in 1..Len(buf[w]) : ~ Hit(buf[w], Flushed, k, i)
      <4> TAKE i \in 1..Len(buf[w])
      <4>1. CASE i = 1
        BY <1>3, <2>5, <4>1 DEF Hit
      <4>2. CASE i # 1
        <5>1. i - 1 \in 1..Len(rs) /\ (i - 1) + 1 = i
          BY <1>3, <4>2
        <5>2. rs[i - 1] = buf[w][i] /\ ~ Hit(rs, Flushed, k, i - 1)
          BY <1>3, <2>5, <5>1
        <5> QED BY <5>2 DEF Hit
      <4> QED BY <4>1, <4>2
    <3>2. active'.table[k] = active.table[k]
      BY <1>1, <1>2, <2>5
    <3> QED BY <2>2, <2>5, <3>1, <3>2
  <2> QED BY <2>3, <2>4, <2>5
<1>10. pc'[w] = "size" => Len(rs) = 0
  BY <1>2, <1>3
<1>11. pc'[w] \in {"size", "applying"}
  BY <1>2
<1>12. ReplayInv(w)'
  <2>1. CASE pc'[w] = "size"
    <3>1. \A k \in Keys : Replayed(wal, Flushed, k) = active'.table[k]
      BY <1>9, <1>10, <2>1
    <3> QED BY <1>2, <1>5, <2>1, <3>1 DEF ReplayInv
  <2>2. CASE pc'[w] = "applying"
    BY <1>2, <1>5, <1>9, <2>2 DEF ReplayInv, Hit
  <2> QED BY <1>11, <2>1, <2>2
<1> QED BY <1>8, <1>12

\* Steps that only move the thread on.
LEMMA QuietDurable ==
    ASSUME RecoveryInv, NEW t \in Threads, StageInv(t), ReplayInv(t),
           MaybeScheduleFlush(t) \/ StartFlush(t) \/ NothingToFlush(t)
    PROVE  StageInv(t)' /\ ReplayInv(t)'
<1>1. /\ UNCHANGED <<wal, manifest, active, old, lastSeq, buf>>
      /\ pc[t] \in {"idle", "size", "flush"} /\ pc'[t] \in {"idle", "flush"}
  BY DEF MaybeScheduleFlush, StartFlush, NothingToFlush, CanRotate, files, tables, counters,
         flushVars, RecoveryInv, TypeInv, TypeOK
<1>2. Flushed' = Flushed
  BY <1>1 DEF Flushed
<1>3. StageInv(t)'
  BY <1>1, <1>2 DEF StageInv, Pending, InOrder
<1> QED BY <1>1, <1>2, <1>3 DEF ReplayInv

LEMMA RotateDurable ==
    ASSUME RecoveryInv, NEW t \in Threads, StageInv(t), ReplayInv(t), Rotate(t)
    PROVE  StageInv(t)' /\ ReplayInv(t)'
<1>1. /\ UNCHANGED <<wal, manifest, lastSeq, buf>> /\ old' = active
      /\ active'.table = EmptyTable /\ pc[t] = "flush" /\ pc'[t] = "build"
  BY DEF Rotate, CanRotate, files, RecoveryInv, TypeInv, TypeOK
<1>2. Flushed' = Flushed
  BY <1>1 DEF Flushed
<1>3. StageInv(t)'
  BY <1>1, <1>2 DEF StageInv, Pending, InOrder
<1> QED BY <1>1, <1>2, <1>3 DEF ReplayInv

\* Every record of the log is in the frozen memtable, or under one of its key that is.
LEMMA LogEditDurable ==
    ASSUME RecoveryInv, NEW t \in Threads, StageInv(t), ReplayInv(t), LogEdit(t), OneThread
    PROVE  StageInv(t)' /\ ReplayInv(t)'
<1>0. TypeInv /\ VersionInv
  BY DEF RecoveryInv
<1>1. /\ UNCHANGED <<wal, active, old, lastSeq, buf>> /\ manifest' = Append(manifest, FlushEdit)
      /\ pc[t] = "build" /\ pc'[t] = "edit"
  BY <1>0 DEF LogEdit, tables, counters, flushVars, TypeInv, TypeOK
<1>2. FlushEdit \in Edit /\ FlushEdit.last <= lastSeq /\ Present(old.table) # {}
  BY <1>0, <1>1, FlushEditType DEF TypeInv, CallsInv
<1>3. /\ Flushed' <= lastSeq /\ FlushEdit.last <= Flushed' /\ Flushed <= Flushed'
      /\ Flushed' \in Nat /\ Flushed \in Nat
  <2>1. manifest \in Seq(Edit) /\ lastSeq \in Nat
    BY <1>0, ManifestIntact DEF TypeInv, TypeOK
  <2>2. Append(manifest, FlushEdit) \in Seq(Edit)
    BY <1>2, <2>1
  <2>3. FlushedUpTo(Append(manifest, FlushEdit)) \in Nat /\ FlushedUpTo(manifest) \in Nat
    BY <2>1, <2>2, FlushedUpToType
  <2>4. FlushedUpTo(manifest) <= lastSeq
    BY DEF StageInv, Flushed
  <2>5. /\ FlushedUpTo(Append(manifest, FlushEdit)) <= lastSeq
        /\ FlushEdit.last <= FlushedUpTo(Append(manifest, FlushEdit))
        /\ FlushedUpTo(manifest) <= FlushedUpTo(Append(manifest, FlushEdit))
    BY <1>2, <2>1, <2>4, FlushedUpToAppend
  <2> QED BY <1>1, <2>3, <2>5 DEF Flushed
<1>4. buf[t] = << >>
  BY <1>0, <1>1 DEF TypeInv, CallsInv
<1>5. StageInv(t)'
  BY <1>1, <1>3, <1>4 DEF StageInv, Pending, InOrder
<1>6. ASSUME NEW i \in 1..Len(wal) PROVE wal[i].seq <= Flushed'
  <2> DEFINE k == wal[i].key
  <2>1. wal \in Seq(Record) /\ wal[i] \in Record /\ k \in Keys /\ wal[i].seq \in Nat
    <3>1. wal \in Seq(Record)
      BY DEF StageInv
    <3>2. wal[i] \in Record
      BY <3>1
    <3> QED BY <3>1, <3>2 DEF Record
  <2>2. CASE wal[i].seq <= Flushed
    BY <1>3, <2>1, <2>2
  <2>3. CASE ~ (wal[i].seq <= Flushed)
    <3>1. Hit(wal, Flushed, k, i)
      BY <1>3, <2>1, <2>3 DEF Hit
    <3> HIDE DEF k
    <3>2. PICK j \in 1..Len(wal) : /\ \A m \in 1..Len(wal) : m > j => ~ Hit(wal, Flushed, k, m)
                                   /\ Replayed(wal, Flushed, k) = EntryOf(wal[j])
      BY <2>1, <3>1, LastHit
    <3>3. InOrder(wal)
      BY <1>1 DEF StageInv, Pending
    <3>4. wal[j].seq \in Nat /\ wal[i].seq <= wal[j].seq
      <4>1. wal[j] \in Record /\ i \in Nat /\ j \in Nat /\ ~ (i > j)
        BY <2>1, <3>1, <3>2
      <4>2. CASE i = j
        BY <2>1, <4>1, <4>2
      <4>3. CASE i < j
        BY <2>1, <3>3, <4>1, <4>3 DEF InOrder, Record
      <4> QED BY <4>1, <4>2, <4>3
    <3>5. old.table[k] = EntryOf(wal[j])
      BY <1>1, <2>1, <3>2 DEF ReplayInv
    <3>6. k \in Present(old.table) /\ old.table[k].seq = wal[j].seq
      BY <1>3, <2>1, <2>3, <3>4, <3>5 DEF Present, EntryOf, NoEntry
    <3>7. wal[j].seq <= FlushEdit.last
      <4> DEFINE S == {old.table[q].seq : q \in Present(old.table)}
      <4>1. \A q \in Keys : old.table[q].seq \in Nat /\ old.table[q].seq <= lastSeq
        BY <1>0 DEF TypeInv, TypeOK, NumbersInv, MemTable, Table, Entry
      <4>2. S \in SUBSET Nat /\ S # {} /\ \A x \in S : x <= lastSeq
        BY <1>2, <4>1 DEF Present
      <4>3. \A x \in S : x <= Largest(S)
        BY <1>0, <4>2, LargestIsIn DEF TypeInv, TypeOK
      <4> QED BY <3>6, <4>3 DEF FlushEdit
    <3>8. FlushEdit.last \in Nat
      BY <1>2 DEF Edit
    <3> QED BY <1>3, <2>1, <3>4, <3>7, <3>8
  <2> QED BY <2>2, <2>3
<1>7. ReplayInv(t)'
  BY <1>1, <1>6 DEF ReplayInv
<1> QED BY <1>5, <1>7

LEMMA ApplyEditDurable ==
    ASSUME RecoveryInv, NEW t \in Threads, StageInv(t), ReplayInv(t), ApplyEdit(t)
    PROVE  StageInv(t)' /\ ReplayInv(t)'
<1>0. TypeInv /\ VersionInv
  BY DEF RecoveryInv
<1>1. /\ UNCHANGED <<wal, manifest, active, old, buf>>
      /\ lastSeq' = Largest({lastSeq, FlushEdit.last})
      /\ pc[t] = "edit" /\ pc'[t] = "reset"
  BY <1>0 DEF ApplyEdit, files, flushVars, TypeInv, TypeOK
<1>2. lastSeq <= lastSeq' /\ lastSeq \in Nat /\ lastSeq' \in Nat
  <2>1. lastSeq \in Nat /\ FlushEdit.last \in Nat /\ FlushEdit.last <= lastSeq
    BY <1>0, <1>1, FlushEditType DEF TypeInv, TypeOK, CallsInv, Edit
  <2>2. {lastSeq, FlushEdit.last} \in SUBSET Nat
          /\ \A x \in {lastSeq, FlushEdit.last} : x <= lastSeq
    BY <2>1
  <2>3. /\ Largest({lastSeq, FlushEdit.last}) \in {lastSeq, FlushEdit.last}
        /\ \A x \in {lastSeq, FlushEdit.last} : x <= Largest({lastSeq, FlushEdit.last})
    BY <2>1, <2>2, LargestIsIn
  <2> QED BY <1>1, <2>1, <2>3
<1>3. Flushed' = Flushed /\ Flushed \in Nat
  BY <1>0, <1>1, FlushedType DEF Flushed
<1>4. StageInv(t)'
  BY <1>1, <1>2, <1>3 DEF StageInv, Pending, InOrder
<1> QED BY <1>1, <1>3, <1>4 DEF ReplayInv

LEMMA ResetWalDurable ==
    ASSUME RecoveryInv, NEW t \in Threads, StageInv(t), ReplayInv(t), ResetWal(t)
    PROVE  StageInv(t)' /\ ReplayInv(t)'
<1>0. TypeInv /\ VersionInv
  BY DEF RecoveryInv
<1>1. imm = <<old>> /\ active.table = EmptyTable /\ pc[t] = "reset"
  BY DEF RecoveryInv, FlushProtocol, StageInv, ResetWal
<1>2. OtherImms = << >>
  BY <1>1, OtherImmsOfOne
<1>3. /\ UNCHANGED <<manifest, active, lastSeq, buf, old>> /\ wal' = << >>
      /\ rest' = RecordsOf(active.table) \cup
                   (UNION {RecordsOf(OtherImms[i].table) : i \in 1..Len(OtherImms)})
      /\ rest' = {} => pc' = [pc EXCEPT ![t] = "idle"]
  BY DEF ResetWal, counters
<1>4. rest' = {}
  BY <1>1, <1>2, <1>3, RecordsOfEmpty
<1>5. pc'[t] = "idle"
  BY <1>0, <1>3, <1>4 DEF TypeInv, TypeOK
<1>6. Flushed' = Flushed
  BY <1>3 DEF Flushed
<1>7. wal' \in Seq(Record) /\ Len(wal') = 0
  BY <1>3
<1>8. StageInv(t)'
  BY <1>3, <1>5, <1>6, <1>7 DEF StageInv, Pending, InOrder
<1>9. \A k \in Keys : Replayed(wal', Flushed, k) = active'.table[k]
  BY <1>1, <1>3, <1>7, ReplayedNone DEF EmptyTable
<1>10. ReplayInv(t)'
  BY <1>5, <1>6, <1>9 DEF ReplayInv
<1> QED BY <1>8, <1>10

\* The new memtable is what the log says.
LEMMA CrashAndOpenDurable ==
    ASSUME RecoveryInv, NEW t \in Threads, StageInv(t), ~ TornWrites, CrashAndOpen
    PROVE  StageInv(t)' /\ ReplayInv(t)'
<1>0. TypeInv /\ VersionInv
  BY DEF RecoveryInv
<1>1. manifest \in Seq(Edit) /\ wal \in Seq(Record) /\ Readable(manifest) = manifest
         /\ Readable(wal) = wal /\ buf[t] \in Seq(Record)
  BY <1>0, ManifestIntact, ReadableOfIntact, TornIsNoRecord DEF StageInv, TypeInv, TypeOK
<1>2. wal' = wal /\ manifest' = manifest
  <2>1. wal' = wal \o << >> /\ manifest' = manifest \o << >>
    BY DEF CrashAndOpen, TornTails, TornEdits
  <2> QED BY <1>1, <2>1
<1>3. /\ l0' = manifest /\ active' = RecoveredMemTable(wal, Flushed)
      /\ lastSeq' = RecoveredSeq(wal, Flushed) /\ pc'[t] = "idle" /\ buf'[t] = << >>
  BY <1>1, <1>2 DEF CrashAndOpen, RecoveredTables, Flushed
<1>4. Flushed' = Flushed /\ Flushed \in Nat
  BY <1>0, <1>2, FlushedType DEF Flushed
<1>5. Flushed <= lastSeq'
  BY <1>1, <1>3, <1>4, RecoveredSeqIsBound
<1>6. InOrder(wal)
  BY <1>1, InOrderPrefix DEF StageInv, Pending
<1>7. StageInv(t)'
  BY <1>1, <1>2, <1>3, <1>4, <1>5, <1>6 DEF StageInv, Pending, InOrder
<1>8. \A k \in Keys : Replayed(wal, Flushed, k) = active'.table[k]
  BY <1>3 DEF RecoveredMemTable
<1>9. ReplayInv(t)'
  BY <1>2, <1>3, <1>4, <1>8 DEF ReplayInv
<1> QED BY <1>7, <1>9

LEMMA NextDurable ==
    ASSUME ~ IoErrors, ~ TornWrites, OneThread, RecoveryInv, DurInv, [Next]_vars
    PROVE  DurInv'
<1>0. Writers \subseteq Threads
  BY DEF Threads
<1>a. ASSUME NEW t \in Threads, StageInv(t)' /\ ReplayInv(t)' PROVE DurInv'
  <2>1. \A u \in Threads : u = t
    BY DEF OneThread
  <2>2. \A u \in Threads : StageInv(u)' /\ ReplayInv(u)'
    BY <1>a, <2>1
  <2> QED BY <2>2 DEF DurInv
<1>1. ASSUME NEW w \in Writers, Write(w) PROVE DurInv'
  <2>1. w \in Threads /\ StageInv(w) /\ ReplayInv(w)
    BY <1>0 DEF DurInv
  <2>2. ~ AppendFails(w)
    BY DEF AppendFails
  <2>3. StageInv(w)' /\ ReplayInv(w)'
    BY <1>1, <2>1, <2>2, NextSequenceDurable, AppendWalDurable, ApplyEntryDurable,
       QuietDurable DEF Write
  <2> QED BY <1>a, <2>1, <2>3
<1>2. ASSUME NEW t \in Threads, StartFlush(t) \/ FlushStep(t) PROVE DurInv'
  <2>1. StageInv(t) /\ ReplayInv(t)
    BY DEF DurInv
  <2>2. ~ FlushFails(t) /\ ~ ResetFails(t) /\ ~ RewriteFails(t) /\ ~ RewriteWal(t)
    BY <2>1 DEF FlushFails, ResetFails, RewriteFails, RewriteWal, StageInv
  <2>3. StageInv(t)' /\ ReplayInv(t)'
    BY <1>2, <2>1, <2>2, QuietDurable, RotateDurable, LogEditDurable, ApplyEditDurable,
       ResetWalDurable DEF FlushStep
  <2> QED BY <1>a, <2>3
<1>3. CASE CrashAndOpen
  <2>1. \A t \in Threads : StageInv(t)' /\ ReplayInv(t)'
    BY <1>3, CrashAndOpenDurable DEF DurInv
  <2> QED BY <2>1 DEF DurInv
<1>4. CASE UNCHANGED vars
  BY <1>4, SMTT(30) DEF vars, DurInv, StageInv, ReplayInv, Pending, InOrder, Flushed, Hit
<1> QED BY <1>1, <1>2, <1>3, <1>4 DEF Next, Run

LEMMA InitDurable == Init => DurInv
<1> SUFFICES ASSUME Init, NEW t \in Threads PROVE StageInv(t) /\ ReplayInv(t)
  BY DEF DurInv
<1>1. /\ wal = << >> /\ Len(wal) = 0 /\ wal \in Seq(Record) /\ buf[t] = << >> /\ pc[t] = "idle"
      /\ manifest = << >> /\ lastSeq = 0 /\ active.table = EmptyTable
  BY DEF Init
<1>2. Flushed = 0
  <2>1. {0} \in SUBSET Nat /\ {0} # {} /\ \A x \in {0} : x <= 0
    OBVIOUS
  <2>2. Largest({0}) = 0
    BY <2>1, LargestIsIn
  <2>3. {0} \cup {manifest[i].last : i \in 1..Len(manifest)} = {0}
    BY <1>1
  <2> QED BY <2>2, <2>3 DEF Flushed, FlushedUpTo
<1>3. StageInv(t)
  BY <1>1, <1>2 DEF StageInv, Pending, InOrder
<1>4. \A k \in Keys : Replayed(wal, Flushed, k) = active.table[k]
  BY <1>1, ReplayedNone DEF EmptyTable
<1> QED BY <1>1, <1>3, <1>4 DEF ReplayInv

LEMMA AlwaysRecoveryInv ==
    ASSUME OneThread, ~ IoErrors, ~ TornWrites
    PROVE  Spec => [](RecoveryInv /\ DurInv)
<1>1. TypeInv /\ FrozenInv /\ UniqueInv /\ [Next]_vars => UniqueInv'
  BY NextUnique
<1>2. Spec => []VersionInv
  BY AlwaysVersionInv
<1>3. Spec => []FlushProtocol
  BY FlushKeepsEntries
<1>4. Spec => []RecoveryInv
  BY <1>1, <1>2, <1>3, InitUnique, InductiveInvariant, PTL DEF Spec, RecoveryInv
<1>5. RecoveryInv /\ DurInv /\ [Next]_vars => DurInv'
  BY NextDurable
<1> QED BY <1>4, <1>5, InitDurable, PTL DEF Spec

\* A process of one thread loses nothing it acknowledged: wherever it dies, between two
\* records of a batch or in the middle of a flush, and however often it was reopened, the
\* next open finds for every key what get returned, or the operation that was under way
\* (engine.rs:69-131, 133-260, 277-375).  With a second thread this is refuted.
THEOREM AckedWritesSurvive ==
    OneThread /\ ~ IoErrors /\ ~ TornWrites => (Spec => []CrashSafe)
<1> SUFFICES ASSUME OneThread, ~ IoErrors, ~ TornWrites PROVE Spec => []CrashSafe
  OBVIOUS
<1>1. RecoveryInv /\ DurInv => CrashSafe
  <2> SUFFICES ASSUME RecoveryInv, DurInv PROVE CrashSafe
    OBVIOUS
  <2>1. PICK t \in Threads : TRUE
    BY DEF OneThread
  <2> QED BY <2>1, CrashSafeOfOneThread
<1>2. Spec => [](RecoveryInv /\ DurInv)
  BY AlwaysRecoveryInv
<1> QED BY <1>1, <1>2, PTL

-----------------------------------------------------------------------------
(* Refinement with crashes                                                 *)

\* What get finds after a reopen is what the files held.
LEMMA ReopenShowsRecoverable ==
    ASSUME RecoveryInv, NEW t \in Threads, StageInv(t), ~ TornWrites, CrashAndOpen,
           NEW k \in Keys
    PROVE  Visible(k)' = Recoverable(k)
<1>1. manifest \in Seq(Edit) /\ wal \in Seq(Record) /\ Readable(manifest) = manifest
         /\ Readable(wal) = wal
  BY ManifestIntact, ReadableOfIntact, TornIsNoRecord DEF RecoveryInv, StageInv
<1>2. wal' = wal /\ manifest' = manifest
  <2>1. wal' = wal \o << >> /\ manifest' = manifest \o << >>
    BY DEF CrashAndOpen, TornTails, TornEdits
  <2> QED BY <1>1, <2>1
<1>3. l0' = manifest /\ active' = RecoveredMemTable(wal, FlushedUpTo(manifest)) /\ imm' = << >>
  BY <1>1, <1>2 DEF CrashAndOpen, RecoveredTables
<1> QED BY <1>1, <1>3 DEF Visible, Recoverable, RecoveredTables

LEMMA CrashImplements ==
    ASSUME RecoveryInv, DurInv, OneThread, ~ TornWrites, CrashAndOpen
    PROVE  KV!Crash
<1>1. PICK t \in Threads : StageInv(t)
  BY DEF OneThread, DurInv
<1>2. TypeInv /\ Writers \subseteq Threads
  BY DEF RecoveryInv, Threads
<1>3. PendingOf' = [w \in Writers |-> << >>]
  <2>1. \A w \in Writers : buf'[w] = << >>
    BY <1>2 DEF CrashAndOpen
  <2> QED BY <2>1 DEF PendingOf, OpsOf
<1>4. ASSUME NEW k \in Keys
      PROVE  StoreOf'[k] \in Contents /\ StoreOf'[k] \in {StoreOf[k]} \cup KV!UnderWay(k)
  <2>1. Visible(k)' \in {Visible(k)} \cup UnderWay(k)
    BY <1>1, ReopenShowsRecoverable, CrashSafeOfOneThread DEF CrashSafe
  <2>2. StoreOf'[k] = Visible(k)'.val /\ StoreOf[k] = Visible(k).val
    BY DEF StoreOf
  <2>3. CASE Visible(k)' = Visible(k)
    <3>1. Visible(k) \in Entry
      BY <1>2, VisibleType DEF TypeInv
    <3> QED BY <2>2, <2>3, <3>1 DEF Entry
  <2>4. CASE Visible(k)' \in UnderWay(k)
    <3>1. PICK u \in Threads : \E i \in 1..Len(buf[u]) :
             buf[u][i].key = k /\ Visible(k)' = EntryOf(buf[u][i])
      BY <2>4 DEF UnderWay
    <3>i. PICK i \in 1..Len(buf[u]) : buf[u][i].key = k /\ Visible(k)' = EntryOf(buf[u][i])
      BY <3>1
    <3>2. u \in Writers /\ buf[u] \in Seq(Record)
      <4>1. buf \in [Threads -> Seq(Record)]
        BY <1>2 DEF TypeInv, TypeOK
      <4>2. buf[u] # << >>
        BY <3>1
      <4> QED BY <1>2, <4>1, <4>2 DEF TypeInv, CallsInv
    <3>3. buf[u][i] \in Record /\ StoreOf'[k] = buf[u][i].val
      BY <2>2, <3>i, <3>2 DEF EntryOf
    <3>4. /\ PendingOf[u] \in Seq([key : Keys, val : Contents])
          /\ i \in 1..Len(PendingOf[u]) /\ PendingOf[u][i] = OpOf(buf[u][i])
      BY <3>i, <3>2, OpsOfType DEF PendingOf
    <3>5. PendingOf[u][i].key = k /\ PendingOf[u][i].val = StoreOf'[k]
      BY <3>i, <3>3, <3>4 DEF OpOf
    <3>6. KV!UnderWay(k) = {op.val : op \in {o \in UNION {{PendingOf[c][j] :
                              j \in 1..Len(PendingOf[c])} : c \in Writers} : o.key = k}}
      BY DEF KV!UnderWay, PendingOf, OpsOf, OpOf
    <3> QED BY <3>2, <3>3, <3>4, <3>5, <3>6 DEF Record
  <2> QED BY <2>1, <2>3, <2>4
<1>5. StoreOf' \in [Keys -> Contents]
  BY <1>4 DEF StoreOf
<1>6. KV!Crash <=> /\ PendingOf' = [c \in Writers |-> << >>]
                   /\ StoreOf' \in [Keys -> Contents]
                   /\ \A k \in Keys : StoreOf'[k] \in {StoreOf[k]} \cup KV!UnderWay(k)
  BY DEF KV!Crash, KV!Contents, Contents, PendingOf, StoreOf, OpsOf, OpOf
<1> QED BY <1>3, <1>4, <1>5, <1>6

\* A process of one thread is the map of KVStore across crashes as well: what a reopen
\* changes of it are keys of the operations under way, which get their values
\* (engine.rs:69-131, 133-375).
THEOREM OneThreadImplementsKVStore ==
    OneThread /\ ~ IoErrors /\ ~ TornWrites => (Spec => ImplementsKVStore)
<1> SUFFICES ASSUME OneThread, ~ IoErrors, ~ TornWrites PROVE Spec => ImplementsKVStore
  OBVIOUS
<1>1. Init => KV!Init
  BY InitImplements
<1>2. RecoveryInv /\ DurInv /\ [Next]_vars => [KV!Next]_(KV!kvVars)
  <2> SUFFICES ASSUME RecoveryInv, DurInv, [Next]_vars PROVE [KV!Next]_(KV!kvVars)
    OBVIOUS
  <2>1. CASE CrashAndOpen
    BY <2>1, CrashImplements DEF KV!Next
  <2>2. CASE ~ CrashAndOpen
    BY <2>2, NextImplements DEF RecoveryInv
  <2> QED BY <2>1, <2>2
<1>3. Spec => [](RecoveryInv /\ DurInv)
  BY AlwaysRecoveryInv
<1> QED BY <1>1, <1>2, <1>3, PTL DEF Spec, ImplementsKVStore, KV!Spec
=============================================================================
