----------------------------- MODULE ReadsProofs -----------------------------
(***************************************************************************)
(* get is linearizable, for any number of readers, writers and flushers.   *)
(* scan is exact between two flushes, if one thread writes: each source it *)
(* looks at is then newer than those it has looked at.                     *)
(***************************************************************************)
EXTENDS Reads, EngineProofs

-----------------------------------------------------------------------------
(* What a step of a writer or a flush moves                                *)

\* The places get has yet to search, where a step of another thread leaves or puts
\* the entry of a key.
EntryMoves(k) ==
    \/ Newest(imm, k)' = Newest(imm, k) /\ Newest(l0, k)' = Newest(l0, k)
    \/ /\ Newest(imm, k) = NoEntry          \* frozen
       /\ Newest(imm, k)' = active.table[k]
       /\ Newest(l0, k)' = Newest(l0, k)
    \/ /\ Newest(imm, k)' = Newest(imm, k)  \* added to the version
       /\ Newest(l0, k)' = IF Newest(imm, k) # NoEntry THEN Newest(imm, k) ELSE Newest(l0, k)
    \/ /\ Newest(imm, k)' = NoEntry         \* retired
       /\ Newest(l0, k)' = Newest(l0, k)
       /\ Newest(imm, k) # NoEntry => Newest(l0, k) = Newest(imm, k)

\* A flush moves entries from one place to the next without a gap.
LEMMA RunMovesEntries ==
    ASSUME ~IoErrors, TypeInv, LocksInv, FlushProtocol, Run, NEW k \in Keys
    PROVE  EntryMoves(k)
<1>a. Newest(imm, k)' = Newest(imm', k) /\ Newest(l0, k)' = Newest(l0', k)
  BY DEF Newest, HitAt
<1>1. ASSUME NEW w \in Writers, Write(w) PROVE EntryMoves(k)
  <2>1. UNCHANGED <<imm, l0>>
    BY <1>1 DEF Write, NextSequence, AppendWal, AppendFails, ApplyEntry, MaybeScheduleFlush, tables
  <2> QED BY <2>1, <1>a DEF EntryMoves
<1>2. ASSUME NEW t \in Threads,
             StartFlush(t) \/ NothingToFlush(t) \/ LogEdit(t) \/ RewriteWal(t)
      PROVE  EntryMoves(k)
  <2>1. UNCHANGED <<imm, l0>>
    BY <1>2 DEF StartFlush, NothingToFlush, LogEdit, RewriteWal, tables
  <2> QED BY <2>1, <1>a DEF EntryMoves
<1>3. ASSUME NEW t \in Threads, Rotate(t) PROVE EntryMoves(k)
  <2>1. imm = << >>
    BY <1>3, ThreadsDistinct DEF LocksInv, FlushProtocol, Rotate, CanRotate
  <2>2. imm' = <<active>> /\ l0' = l0
    BY <1>3, <2>1 DEF Rotate, files
  <2>3. Newest(imm, k) = NoEntry /\ Newest(imm', k) = active.table[k]
    BY <2>1, <2>2, NewestOfOne, NewestOfNone
  <2> QED BY <2>2, <2>3, <1>a DEF EntryMoves
<1>4. ASSUME NEW t \in Threads, ApplyEdit(t) PROVE EntryMoves(k)
  <2>1. imm = <<old>> /\ imm' = imm /\ l0' = Append(l0, FlushEdit)
    BY <1>4 DEF FlushProtocol, ApplyEdit
  <2>2. l0 \in Seq(Edit) /\ FlushEdit \in Edit /\ FlushEdit.table = old.table
    <3>1. Present(old.table) # {}
      BY <1>4 DEF ApplyEdit, TypeInv, CallsInv
    <3> QED BY <3>1, FlushEditType DEF TypeInv, TypeOK, FlushEdit
  <2>3. Newest(imm, k) = old.table[k]
    BY <2>1, NewestOfOne
  <2>4. CASE old.table[k] = NoEntry
    <3>1. Newest(l0', k) = Newest(l0, k)
      BY <2>1, <2>2, <2>4, NewestPastLast
    <3> QED BY <3>1, <2>1, <2>3, <2>4, <1>a DEF EntryMoves
  <2>5. CASE old.table[k] # NoEntry
    <3>1. l0' \in Seq(Edit) /\ l0' # << >> /\ l0'[Len(l0')].table = old.table
      BY <2>1, <2>2
    <3>2. Newest(l0', k) = old.table[k]
      BY <3>1, <2>5, NewestIsLast
    <3> QED BY <3>2, <2>1, <2>3, <2>5, <1>a DEF EntryMoves
  <2> QED BY <2>4, <2>5
<1>5. ASSUME NEW t \in Threads, ResetWal(t) PROVE EntryMoves(k)
  <2>1. imm = <<old>> /\ imm' = << >> /\ l0' = l0
    BY <1>5, OtherImmsOfOne DEF FlushProtocol, ResetWal
  <2>2. l0 \in Seq(Edit) /\ l0 # << >> /\ l0[Len(l0)].table = old.table
    BY <1>5 DEF TypeInv, TypeOK, FlushProtocol, ResetWal
  <2>3. Newest(imm, k) = old.table[k] /\ Newest(imm', k) = NoEntry
    BY <2>1, NewestOfOne, NewestOfNone
  <2>4. old.table[k] # NoEntry => Newest(l0, k) = old.table[k]
    BY <2>2, NewestIsLast
  <2> QED BY <2>1, <2>3, <2>4, <1>a DEF EntryMoves
<1>6. \A t \in Threads : ~ FlushFails(t) /\ ~ ResetFails(t) /\ ~ RewriteFails(t)
  BY DEF FlushFails, ResetFails, RewriteFails
<1> QED BY <1>1, <1>2, <1>3, <1>4, <1>5, <1>6 DEF Run, FlushStep

-----------------------------------------------------------------------------
(* The invariant of a get under way                                        *)

\* Entries of k found from here on are among those that were visible.
Kept(k, S) ==
    /\ active.table[k] # NoEntry => active.table[k] \in S
    /\ Newest(imm, k) # NoEntry => Newest(imm, k) \in S

\* Where the get has yet to look at the immutable memtables, then at the tables.
GetInv(g, k) ==
    /\ rpc[g] = "imm" =>
         Kept(k, seen[g][k]) /\ (Newest(imm, k) = NoEntry => Newest(l0, k) \in seen[g][k])
    /\ rpc[g] = "sst" =>
         Kept(k, seen[g][k]) /\ Newest(l0, k) \in seen[g][k]
    /\ rpc[g] = "done" => got[g][k] \in seen[g][k]

GettersInv ==
    /\ ReadsTypeOK
    /\ \A g \in Getters : rpc[g] # "idle" =>
         /\ rpc[g] # "active"
         /\ \E k \in Keys : want[g] = {k} /\ GetInv(g, k)

\* The steps of other threads keep it.
LEMMA RunKeepsGetInv ==
    ASSUME ~IoErrors, TypeInv, LocksInv, FlushProtocol, GettersInv, RunObserved,
           NEW g \in Getters, NEW k \in Keys, want[g] = {k}, GetInv(g, k), rpc[g] # "active"
    PROVE  GetInv(g, k)'
<1>1. g \in Readers
  BY DEF Readers
<1>2. rpc' = rpc /\ got' = got
  BY DEF RunObserved
<1>3. CASE rpc[g] \in {"imm", "sst"}
  <2>1. seen'[g][k] = seen[g][k] \cup {Visible(k)'}
    BY <1>1, <1>3 DEF RunObserved, Underway
  <2>2. EntryMoves(k)
    BY RunMovesEntries DEF RunObserved
  <2>3. active'.table[k] # NoEntry => Visible(k)' = active'.table[k]
    BY DEF Visible, Lookup
  <2>4. Kept(k, seen[g][k])
    BY <1>3 DEF GetInv
  <2>5. Kept(k, seen[g][k])' 
    BY <2>1, <2>2, <2>3, <2>4 DEF Kept, EntryMoves
  <2>6. CASE rpc[g] = "imm"
    <3>1. Newest(imm, k) = NoEntry => Newest(l0, k) \in seen[g][k]
      BY <2>6 DEF GetInv
    <3>2. Newest(imm, k)' = NoEntry => Newest(l0, k)' \in seen'[g][k]
      BY <2>1, <2>2, <2>4, <3>1 DEF Kept, EntryMoves
    <3> QED BY <1>2, <2>5, <2>6, <3>2 DEF GetInv
  <2>7. CASE rpc[g] = "sst"
    <3>1. Newest(l0, k)' \in seen'[g][k]
      BY <2>1, <2>2, <2>4, <2>7 DEF GetInv, Kept, EntryMoves
    <3> QED BY <1>2, <2>5, <2>7, <3>1 DEF GetInv
  <2> QED BY <1>3, <2>6, <2>7
<1>4. CASE rpc[g] \notin {"imm", "sst"}
  <2>1. ~ Underway(g)
    BY <1>4 DEF Underway
  <2>2. seen'[g][k] = seen[g][k]
    BY <1>1, <2>1 DEF RunObserved
  <2> QED BY <1>2, <1>4, <2>2 DEF GetInv
<1> QED BY <1>3, <1>4

\* update_entry keeps an entry: the one of the highest sequence number.
LEMMA MergeType ==
    ASSUME NEW found \in Table, NEW S, NEW ts \in Seq(S), \A x \in S : x.table \in Table
    PROVE  Merge(found, ts) \in Table
<1>1. ASSUME NEW k \in Keys
      PROVE  \E e \in {found[k]} \cup {ts[i].table[k] : i \in 1..Len(ts)} :
                 \A f \in {found[k]} \cup {ts[i].table[k] : i \in 1..Len(ts)} : f.seq <= e.seq
  <2> DEFINE E == {found[k]} \cup {ts[i].table[k] : i \in 1..Len(ts)}
             N == {e.seq : e \in E}
             q == [i \in 1..Len(ts) |-> ts[i].table[k].seq]
  <2>1. \A i \in 1..Len(ts) : ts[i].table[k] \in Entry
    <3> TAKE i \in 1..Len(ts)
    <3>1. ts[i] \in S
      OBVIOUS
    <3>2. ts[i].table \in Table
      BY <3>1
    <3> QED BY <3>2 DEF Table
  <2>2. found[k] \in Entry
    BY DEF Table
  <2>3. \A i \in 1..Len(ts) : q[i] \in Nat
    BY <2>1 DEF Entry
  <2>4. PICK b \in Nat : \A i \in 1..Len(ts) : q[i] <= b
    BY <2>3, BoundExists, Len(ts) \in Nat
  <2>5. PICK c \in Nat : b <= c /\ found[k].seq <= c
    <3>1. found[k].seq \in Nat
      BY <2>2 DEF Entry
    <3>2. b <= b + found[k].seq /\ found[k].seq <= b + found[k].seq /\ b + found[k].seq \in Nat
      BY <3>1
    <3> QED BY <3>2
  <2>6. \A e \in E : e.seq \in Nat /\ e.seq <= c
    BY <2>1, <2>2, <2>3, <2>4, <2>5 DEF Entry
  <2>7. N \in SUBSET Nat /\ N # {} /\ \A n \in N : n <= c
    BY <2>6
  <2>8. Largest(N) \in N /\ \A n \in N : n <= Largest(N)
    BY <2>7, LargestIsIn
  <2> QED BY <2>8
<1>2. \A k \in Keys : \A e \in {found[k]} \cup {ts[i].table[k] : i \in 1..Len(ts)} : e \in Entry
  <2> TAKE k \in Keys
  <2>1. \A i \in 1..Len(ts) : ts[i].table[k] \in Entry
    <3> TAKE i \in 1..Len(ts)
    <3>1. ts[i] \in S
      OBVIOUS
    <3>2. ts[i].table \in Table
      BY <3>1
    <3> QED BY <3>2 DEF Table
  <2> QED BY <2>1 DEF Table
<1>3. ASSUME NEW k \in Keys PROVE Merge(found, ts)[k] \in Entry
  <2> DEFINE E == {found[k]} \cup {ts[i].table[k] : i \in 1..Len(ts)}
  <2>1. (CHOOSE e \in E : \A f \in E : f.seq <= e.seq) \in E
    BY <1>1
  <2>2. Merge(found, ts)[k] = CHOOSE e \in E : \A f \in E : f.seq <= e.seq
    BY DEF Merge
  <2> QED BY <1>2, <2>1, <2>2
<1> QED BY <1>3 DEF Merge, Table

\* The steps of a get keep it.
LEMMA GetStepInv ==
    ASSUME TypeInv, GettersInv, NEW g \in Getters,
           GetImm(g) \/ GetTables(g) \/ \E k \in Keys : GetActive(g, k)
    PROVE  GettersInv'
<1>1. g \in Readers /\ ReadsTypeOK /\ TypeOK
  BY DEF Readers, GettersInv, TypeInv
<1>2. /\ Len(imm)' = Len(imm) /\ UNCHANGED <<active, imm, l0>>
  BY DEF GetImm, GetTables, GetActive, vars
<1>3. ASSUME NEW k \in Keys PROVE Newest(imm, k)' = Newest(imm, k) /\ Newest(l0, k)' = Newest(l0, k)
  BY <1>2 DEF Newest, HitAt
<1>4. ASSUME NEW h \in Getters, h # g, rpc'[h] # "idle"
      PROVE  rpc'[h] # "active" /\ \E k \in Keys : want'[h] = {k} /\ GetInv(h, k)'
  <2>1. h \in Readers
    BY DEF Readers
  <2>2. rpc'[h] = rpc[h] /\ want'[h] = want[h] /\ got'[h] = got[h] /\ seen'[h] = seen[h]
    BY <1>1, <1>4, <2>1 DEF ReadsTypeOK, GetImm, GetTables, GetActive
  <2>3. PICK k \in Keys : want[h] = {k} /\ GetInv(h, k)
    BY <1>4, <2>2 DEF GettersInv
  <2>4. GetInv(h, k)'
    BY <1>2, <1>3, <2>2, <2>3 DEF GetInv, Kept
  <2> QED BY <1>4, <2>2, <2>3, <2>4 DEF GettersInv
<1>5. ASSUME NEW k \in Keys, GetActive(g, k) PROVE GettersInv'
  <2>1. active.table[k] \in Entry /\ Visible(k) \in Entry
    BY <1>1, VisibleType
  <2>2. EmptyTable \in Table
    BY EmptyTableType
  <2>3. ReadsTypeOK'
    BY <1>1, <1>5, <2>1, <2>2 DEF ReadsTypeOK, GetActive, Table
  <2>4. want'[g] = {k} /\ seen'[g][k] = {Visible(k)} /\ got'[g][k] = active.table[k]
          /\ rpc'[g] = IF active.table[k] # NoEntry THEN "done" ELSE "imm"
    BY <1>1, <1>5, <2>2 DEF ReadsTypeOK, GetActive, Table
  <2>5. GetInv(g, k)'
    BY <1>2, <1>3, <2>4 DEF GetInv, Kept, Visible, Lookup
  <2>6. rpc'[g] # "active"
    BY <2>4
  <2> QED BY <1>4, <2>3, <2>4, <2>5, <2>6 DEF GettersInv
<1>6. ASSUME GetImm(g) PROVE GettersInv'
  <2>1. PICK k \in Keys : want[g] = {k} /\ GetInv(g, k)
    BY <1>1, <1>6 DEF GettersInv, GetImm
  <2>2. rpc[g] = "imm" /\ want' = want /\ seen' = seen
          /\ got' = [got EXCEPT ![g] = [@ EXCEPT ![k] = Newest(imm, k)]]
          /\ rpc' = [rpc EXCEPT ![g] = IF Newest(imm, k) # NoEntry THEN "done" ELSE "sst"]
    BY <1>6, <2>1 DEF GetImm
  <2>3. Newest(imm, k) \in Entry
    BY <1>1, VisibleType
  <2>4. ReadsTypeOK' /\ got'[g][k] = Newest(imm, k)
    <3> DEFINE m == [got[g] EXCEPT ![k] = Newest(imm, k)]
    <3>1. m \in Table /\ m[k] = Newest(imm, k)
      BY <1>1, <2>3 DEF ReadsTypeOK, Table
    <3>2. got' = [got EXCEPT ![g] = m] /\ UNCHANGED swapped
      BY <2>2, <1>6 DEF GetImm
    <3> HIDE DEF m
    <3>3. got' \in [Readers -> Table] /\ got'[g][k] = Newest(imm, k)
      BY <1>1, <3>1, <3>2 DEF ReadsTypeOK
    <3>4. rpc' \in [Readers -> {"idle", "imm", "sst", "active", "done"}]
      BY <1>1, <2>2 DEF ReadsTypeOK
    <3> QED BY <1>1, <2>2, <3>2, <3>3, <3>4 DEF ReadsTypeOK
  <2>5. rpc'[g] = IF Newest(imm, k) # NoEntry THEN "done" ELSE "sst"
    BY <1>1, <2>2 DEF ReadsTypeOK
  <2>6. GetInv(g, k)'
    BY <1>2, <1>3, <2>1, <2>2, <2>4, <2>5 DEF GetInv, Kept
  <2> QED BY <1>4, <2>1, <2>2, <2>4, <2>5, <2>6 DEF GettersInv
<1>7. ASSUME GetTables(g) PROVE GettersInv'
  <2>1. PICK k \in Keys : want[g] = {k} /\ GetInv(g, k)
    BY <1>1, <1>7 DEF GettersInv, GetTables
  <2>2. rpc[g] = "sst" /\ want' = want /\ seen' = seen
          /\ got' = [got EXCEPT ![g] = [@ EXCEPT ![k] = Newest(l0, k)]]
          /\ rpc' = [rpc EXCEPT ![g] = "done"]
    BY <1>7, <2>1 DEF GetTables
  <2>3. Newest(l0, k) \in Entry
    BY <1>1, VisibleType
  <2>4. ReadsTypeOK' /\ got'[g][k] = Newest(l0, k) /\ rpc'[g] = "done"
    <3> DEFINE m == [got[g] EXCEPT ![k] = Newest(l0, k)]
    <3>1. m \in Table /\ m[k] = Newest(l0, k)
      BY <1>1, <2>3 DEF ReadsTypeOK, Table
    <3>2. got' = [got EXCEPT ![g] = m] /\ UNCHANGED swapped
      BY <2>2, <1>7 DEF GetTables
    <3> HIDE DEF m
    <3>3. got' \in [Readers -> Table] /\ got'[g][k] = Newest(l0, k)
      BY <1>1, <3>1, <3>2 DEF ReadsTypeOK
    <3>4. rpc' \in [Readers -> {"idle", "imm", "sst", "active", "done"}] /\ rpc'[g] = "done"
      BY <1>1, <2>2 DEF ReadsTypeOK
    <3> QED BY <1>1, <2>2, <3>2, <3>3, <3>4 DEF ReadsTypeOK
  <2>5. GetInv(g, k)'
    BY <1>2, <1>3, <2>1, <2>2, <2>4 DEF GetInv, Kept
  <2> QED BY <1>4, <2>1, <2>2, <2>4, <2>5 DEF GettersInv
<1> QED BY <1>5, <1>6, <1>7

\* The steps of a scan do not touch it.
LEMMA ScanStepInv ==
    ASSUME TypeInv, GettersInv, NEW s \in Scanners, ScanTables(s) \/ ScanImm(s) \/ ScanActive(s)
    PROVE  GettersInv'
<1>1. s \in Readers /\ ReadsTypeOK /\ TypeOK
  BY DEF Readers, GettersInv, TypeInv
<1>2. UNCHANGED <<active, imm, l0>>
  BY DEF ScanTables, ScanImm, ScanActive, vars
<1>3. ASSUME NEW k \in Keys PROVE Newest(imm, k)' = Newest(imm, k) /\ Newest(l0, k)' = Newest(l0, k)
  BY <1>2 DEF Newest, HitAt
<1>4. ASSUME NEW h \in Getters, rpc'[h] # "idle"
      PROVE  rpc'[h] # "active" /\ \E k \in Keys : want'[h] = {k} /\ GetInv(h, k)'
  <2>1. h \in Readers /\ h # s
    BY ReadersDistinct DEF Readers
  <2>2. rpc'[h] = rpc[h] /\ want'[h] = want[h] /\ got'[h] = got[h] /\ seen'[h] = seen[h]
    BY <1>1, <2>1 DEF ReadsTypeOK, ScanTables, ScanImm, ScanActive
  <2>3. PICK k \in Keys : want[h] = {k} /\ GetInv(h, k)
    BY <1>4, <2>2 DEF GettersInv
  <2>4. GetInv(h, k)'
    BY <1>2, <1>3, <2>2, <2>3 DEF GetInv, Kept
  <2> QED BY <1>4, <2>2, <2>3, <2>4 DEF GettersInv
<1>5. got' \in [Readers -> Table]
  <2>1. \A m \in MemTable : m.table \in Table
    BY DEF MemTable
  <2>2. \A e \in Edit : e.table \in Table
    BY DEF Edit
  <2>3. Merge(EmptyTable, l0) \in Table
    BY <1>1, <2>2, EmptyTableType, MergeType DEF TypeOK
  <2>4. got[s] \in Table
    BY <1>1 DEF ReadsTypeOK
  <2>5. Merge(got[s], imm) \in Table
    BY <1>1, <2>1, <2>4, MergeType DEF TypeOK
  <2>6. Merge(got[s], <<active>>) \in Table
    <3>1. <<active>> \in Seq(MemTable)
      BY <1>1 DEF TypeOK
    <3> QED BY <2>1, <2>4, <3>1, MergeType
  <2>7. \E m \in Table : got' = [got EXCEPT ![s] = m]
    BY <2>3, <2>5, <2>6 DEF ScanTables, ScanImm, ScanActive
  <2> QED BY <1>1, <2>7 DEF ReadsTypeOK
<1>6. seen' \in [Readers -> [Keys -> SUBSET Entry]]
  <2>1. \A k \in Keys : Visible(k) \in Entry
    BY <1>1, VisibleType
  <2> QED BY <1>1, <2>1 DEF ReadsTypeOK, ScanTables, ScanImm, ScanActive
<1>7. ReadsTypeOK'
  <2>1. rpc \in [Readers -> {"idle", "imm", "sst", "active", "done"}]
          /\ want \in [Readers -> SUBSET Keys] /\ swapped \in [Readers -> BOOLEAN]
    BY <1>1 DEF ReadsTypeOK
  <2>2. rpc' \in [Readers -> {"idle", "imm", "sst", "active", "done"}]
    BY <2>1 DEF ScanTables, ScanImm, ScanActive
  <2>3. want' \in [Readers -> SUBSET Keys]
    BY <2>1 DEF ScanTables, ScanImm, ScanActive
  <2>4. swapped' \in [Readers -> BOOLEAN]
    BY <2>1 DEF ScanTables, ScanImm, ScanActive
  <2> QED BY <1>5, <1>6, <2>2, <2>3, <2>4 DEF ReadsTypeOK
<1> QED BY <1>4, <1>7 DEF GettersInv

\* After a step, too, a get that runs alone finds an entry.
LEMMA VisibleTypeNext == TypeOK' => \A k \in Keys : Visible(k)' \in Entry
<1>1. TypeOK => \A k \in Keys : Visible(k) \in Entry
  BY VisibleType
<1>2. TypeOK' => (\A k \in Keys : Visible(k) \in Entry)'
  BY <1>1, PTL
<1> QED BY <1>2

\* Every step keeps the invariant.
LEMMA ReadsNextInv ==
    ASSUME ~IoErrors, TypeInv, TypeOK', LocksInv, FlushProtocol, GettersInv, [ReadsNext]_allVars
    PROVE  GettersInv'
<1>0. ReadsTypeOK
  BY DEF GettersInv
<1>1. CASE RunObserved
  <2>1. \A k \in Keys : Visible(k)' \in Entry
    BY VisibleTypeNext
  <2>2. ReadsTypeOK'
    <3>1. seen' \in [Readers -> [Keys -> SUBSET Entry]]
      BY <1>0, <1>1, <2>1 DEF ReadsTypeOK, RunObserved
    <3>2. swapped' \in [Readers -> BOOLEAN]
      <4>1. \A r \in Readers : swapped'[r] \in BOOLEAN
        BY <1>0, <1>1, Zenon DEF ReadsTypeOK, RunObserved
      <4> QED BY <1>1, <4>1 DEF RunObserved
    <3> QED BY <1>0, <1>1, <3>1, <3>2 DEF ReadsTypeOK, RunObserved
  <2>3. ASSUME NEW g \in Getters, rpc'[g] # "idle"
        PROVE  rpc'[g] # "active" /\ \E k \in Keys : want'[g] = {k} /\ GetInv(g, k)'
    <3>1. rpc' = rpc /\ want' = want
      BY <1>1 DEF RunObserved
    <3>2. PICK k \in Keys : want[g] = {k} /\ GetInv(g, k)
      BY <2>3, <3>1 DEF GettersInv
    <3>3. rpc[g] # "active"
      BY <2>3, <3>1 DEF GettersInv
    <3>4. GetInv(g, k)'
      BY <1>1, <3>2, <3>3, RunKeepsGetInv
    <3> QED BY <3>1, <3>2, <3>3, <3>4
  <2> QED BY <2>2, <2>3 DEF GettersInv
<1>2. CASE CrashObserved
  BY <1>0, <1>2 DEF CrashObserved, GettersInv, ReadsTypeOK, Readers
<1>3. CASE UNCHANGED allVars
  <2>1. UNCHANGED <<active, imm, l0, rpc, want, got, seen, swapped>>
    BY <1>3 DEF allVars, vars, readVars
  <2>2. ASSUME NEW k \in Keys PROVE Newest(imm, k)' = Newest(imm, k) /\ Newest(l0, k)' = Newest(l0, k)
    BY <2>1 DEF Newest, HitAt
  <2>3. ReadsTypeOK'
    BY <1>0, <2>1 DEF ReadsTypeOK
  <2>4. ASSUME NEW g \in Getters, NEW k \in Keys, GetInv(g, k) PROVE GetInv(g, k)'
    BY <2>1, <2>2, <2>4 DEF GetInv, Kept
  <2> QED BY <2>1, <2>3, <2>4 DEF GettersInv
<1> QED BY <1>1, <1>2, <1>3, GetStepInv, ScanStepInv DEF ReadsNext

\* The readers leave the engine alone: its invariants carry over.
LEMMA ReadsSimulate == ReadsSpec => Spec
<1>1. ReadsInit => Init
  BY DEF ReadsInit
<1>2. [ReadsNext]_allVars => [Next]_vars
  BY DEF ReadsNext, RunObserved, CrashObserved, GetImm, GetTables, GetActive, ScanTables,
         ScanImm, ScanActive, allVars, Next
<1> QED BY <1>1, <1>2, PTL DEF ReadsSpec, Spec

\* get is linearizable (engine.rs:151-210): whatever the writers and the flushes do
\* between its looks, also across crashes, it returns what the key held at some point
\* of the call, provided no write to a file fails.
THEOREM GetIsLinearizable == ~IoErrors => (ReadsSpec => [](ReadsTypeOK /\ GetLinearizable))
<1> SUFFICES ASSUME ~IoErrors PROVE ReadsSpec => [](ReadsTypeOK /\ GetLinearizable)
  OBVIOUS
<1>1. ReadsInit => GettersInv
  BY EmptyTableType DEF ReadsInit, GettersInv, ReadsTypeOK, Readers
<1>2. TypeInv /\ TypeOK' /\ LocksInv /\ FlushProtocol /\ GettersInv /\ [ReadsNext]_allVars
        => GettersInv'
  BY ReadsNextInv
<1>3. GettersInv => ReadsTypeOK /\ GetLinearizable
  BY DEF GettersInv, GetLinearizable, GetInv
<1>4. Spec => [](TypeInv /\ LocksInv /\ FlushProtocol)
  BY InductiveInvariant, FlushKeepsEntries, PTL
<1>5. TypeInv => TypeOK
  BY DEF TypeInv
<1> QED BY <1>1, <1>2, <1>3, <1>4, <1>5, ReadsSimulate, PTL DEF ReadsSpec

-----------------------------------------------------------------------------
(* The order of the tables                                                 *)

\* One thread writes; others may flush.
OneWriter == \A u, w \in Writers : u = w

TablesOf(ts) == {ts[i].table : i \in 1..Len(ts)}

\* What is stored or on its way to be.
Stored == TablesOf(imm) \cup TablesOf(l0) \cup TablesOf(Readable(manifest))

\* What a table has for a key is newer than what those of T have, or it has nothing.
Above(table, T) ==
    \A k \in Keys : table[k] # NoEntry => \A u \in T : u[k].seq < table[k].seq

\* Every entry of T is older than number n.
Below(T, n) == \A u \in T : \A k \in Keys : u[k].seq < n

\* Each table is above those before it.
Stacked(ts) ==
    \A j \in 1..Len(ts) : Above(ts[j].table, {ts[i].table : i \in 1..(j - 1)})

\* What a call has still to insert is newer than all there is, in the order of its numbers.
Queued(b) ==
    /\ \A i \in 1..Len(b) : Below(Stored \cup {active.table}, b[i].seq)
    /\ \A j \in 1..Len(b) : \A i \in 1..(j - 1) : b[i].seq < b[j].seq

\* What a flush has frozen is newer than the tables it is to follow.
FrozenAbove(t) ==
    /\ pc[t] \in {"build", "edit"} => Above(old.table, TablesOf(l0))
    /\ pc[t] = "build" => Above(old.table, TablesOf(Readable(manifest)))

OrderInv ==
    /\ Stacked(l0)
    /\ Stacked(Readable(manifest))
    /\ Above(active.table, Stored)
    /\ \A t \in Threads : FrozenAbove(t)
    /\ \A w \in Writers : Queued(buf[w])

\* An entry of a table has a number that was handed out.
Numbered(table) == \A k \in Keys : table[k] = NoEntry \/ table[k].seq \in 1..lastSeq

LEMMA NumberedWhenHeld ==
    ASSUME UniqueInv, NEW table, RecordsOf(table) \subseteq Held
    PROVE  Numbered(table)
<1> SUFFICES ASSUME NEW k \in Keys, table[k] # NoEntry PROVE table[k].seq \in 1..lastSeq
  BY DEF Numbered
<1> DEFINE r == [key |-> k, seq |-> table[k].seq, val |-> table[k].val]
<1>1. r \in RecordsOf(table)
  BY DEF RecordsOf, Present
<1>2. r.seq = table[k].seq
  OBVIOUS
<1> HIDE DEF r
<1> QED BY <1>1, <1>2 DEF UniqueInv

LEMMA TablesOfAre ==
    ASSUME NEW ts, NEW u \in TablesOf(ts)
    PROVE  RecordsOf(u) \subseteq TableRecords(ts)
<1>1. PICK i \in 1..Len(ts) : u = ts[i].table
  BY DEF TablesOf
<1>2. ts[i] \in Els(ts)
  BY DEF Els
<1> QED BY <1>1, <1>2 DEF TableRecords

LEMMA AllNumbered ==
    ASSUME UniqueInv, NEW u \in Stored \cup {active.table, old.table}
    PROVE  Numbered(u)
<1>1. RecordsOf(u) \subseteq Held
  BY TablesOfAre DEF Stored, Held
<1> QED BY <1>1, NumberedWhenHeld

\* All numbers there are lie below the next one.
LEMMA StoredBelowNext ==
    ASSUME TypeInv, UniqueInv
    PROVE  Below(Stored \cup {active.table}, lastSeq + 1)
<1>1. lastSeq \in Nat
  BY DEF TypeInv, TypeOK
<1>2. ASSUME NEW u \in Stored \cup {active.table}, NEW k \in Keys
      PROVE  u[k].seq < lastSeq + 1
  <2>1. Numbered(u)
    BY AllNumbered
  <2>2. CASE u[k] = NoEntry
    BY <1>1, <2>2 DEF NoEntry
  <2>3. CASE u[k].seq \in 1..lastSeq
    BY <1>1, <2>3
  <2> QED BY <2>1, <2>2, <2>3 DEF Numbered
<1> QED BY <1>2 DEF Below

LEMMA TablesOfNone == TablesOf(<< >>) = {}
BY DEF TablesOf

LEMMA TablesOfOne == \A x : TablesOf(<<x>>) = {x.table}
BY DEF TablesOf

LEMMA TablesOfAppend ==
    ASSUME NEW S, NEW ts \in Seq(S), NEW x \in S
    PROVE  TablesOf(Append(ts, x)) = TablesOf(ts) \cup {x.table}
<1>1. \A s : TablesOf(s) = {e.table : e \in Els(s)}
  BY DEF TablesOf, Els
<1>2. Els(Append(ts, x)) = Els(ts) \cup {x}
  BY ElsOfAppend
<1> QED BY <1>1, <1>2

\* A table that is above all others goes on top.
LEMMA StackedAppend ==
    ASSUME NEW S, NEW ts \in Seq(S), NEW x \in S, Stacked(ts), Above(x.table, TablesOf(ts))
    PROVE  Stacked(Append(ts, x))
<1> DEFINE us == Append(ts, x)
<1>1. /\ Len(us) = Len(ts) + 1 /\ Len(ts) \in Nat /\ us[Len(ts) + 1] = x
      /\ \A i \in 1..Len(ts) : us[i] = ts[i]
  OBVIOUS
<1> HIDE DEF us
<1>2. ASSUME NEW j \in 1..Len(us) PROVE Above(us[j].table, {us[i].table : i \in 1..(j - 1)})
  <2>1. \A i \in 1..(j - 1) : i \in 1..Len(ts)
    BY <1>1
  <2>2. {us[i].table : i \in 1..(j - 1)} = {ts[i].table : i \in 1..(j - 1)}
    BY <1>1, <2>1
  <2>3. CASE j = Len(ts) + 1
    <3>1. j - 1 = Len(ts) /\ us[j] = x
      BY <1>1, <2>3
    <3> QED BY <2>2, <3>1 DEF TablesOf
  <2>4. CASE j # Len(ts) + 1
    <3>1. j \in 1..Len(ts)
      BY <1>1, <2>4
    <3> QED BY <1>1, <2>2, <3>1 DEF Stacked
  <2> QED BY <2>3, <2>4
<1> QED BY <1>2 DEF Stacked, us

-----------------------------------------------------------------------------
(* What appending to a log makes readable                                  *)

\* Where reading stops.
LEMMA ReadableEnds ==
    ASSUME NEW S, NEW log \in Seq(S \cup {Torn})
    PROVE  \E m \in 0..Len(log) :
             /\ Readable(log) = SubSeq(log, 1, m)
             /\ \A i \in 1..m : log[i] # Torn
             /\ m # Len(log) => log[m + 1] = Torn
<1> DEFINE m == Len(Readable(log))
<1>0. Len(log) \in Nat
  OBVIOUS
<1>a. /\ m \in 0..Len(log)
      /\ \A i \in 1..m : Readable(log)[i] = log[i] /\ log[i] # Torn
      /\ \A n \in 1..Len(log) : (\A i \in 1..n : log[i] # Torn) => n <= m
  BY ReadableIs
<1>1. /\ m \in 0..Len(log) /\ Len(log) \in Nat
      /\ \A i \in 1..m : Readable(log)[i] = log[i] /\ log[i] # Torn
      /\ \A n \in 1..Len(log) : (\A i \in 1..n : log[i] # Torn) => n <= m
  BY <1>0, <1>a
<1>2. m # Len(log) => log[m + 1] = Torn
  <2> SUFFICES ASSUME m # Len(log), log[m + 1] # Torn PROVE FALSE
    OBVIOUS
  <2>1. m + 1 \in 1..Len(log) /\ \A i \in 1..(m + 1) : i \in 1..m \/ i = m + 1
    BY <1>1
  <2>2. \A i \in 1..(m + 1) : log[i] # Torn
    BY <1>1, <2>1
  <2>3. m + 1 <= m
    BY <1>1, <2>1, <2>2
  <2> QED BY <1>1, <2>3
<1>3. Readable(log) = SubSeq(log, 1, m)
  <2> DEFINE N == {n \in 0..Len(log) : \A i \in 1..n : log[i] # Torn}
  <2>1. 0 \in N /\ N \in SUBSET Nat /\ \A n \in N : n <= Len(log)
    OBVIOUS
  <2>2. Largest(N) \in N
    BY <1>1, <2>1, LargestIsIn
  <2>3. Largest(N) \in 0..Len(log) /\ Readable(log) = SubSeq(log, 1, Largest(N))
    BY <2>2 DEF Readable
  <2> HIDE DEF N
  <2>4. Len(SubSeq(log, 1, Largest(N))) = Largest(N)
    BY <2>3
  <2> QED BY <2>3, <2>4
<1> QED BY <1>1, <1>2, <1>3

LEMMA ReadableWhen ==
    ASSUME NEW S, NEW log \in Seq(S \cup {Torn}), NEW m \in 0..Len(log),
           \A i \in 1..m : log[i] # Torn, m # Len(log) => log[m + 1] = Torn
    PROVE  Readable(log) = SubSeq(log, 1, m)
<1>0. Len(log) \in Nat
  OBVIOUS
<1>1. PICK n \in 0..Len(log) :
             /\ Readable(log) = SubSeq(log, 1, n)
             /\ \A i \in 1..n : log[i] # Torn
             /\ n # Len(log) => log[n + 1] = Torn
  BY ReadableEnds
<1>2. ~ (m < n)
  <2> SUFFICES ASSUME m < n PROVE FALSE
    OBVIOUS
  <2>1. m # Len(log) /\ m + 1 \in 1..n
    BY <1>0, <1>1
  <2> QED BY <1>0, <1>1, <2>1
<1>3. ~ (n < m)
  <2> SUFFICES ASSUME n < m PROVE FALSE
    OBVIOUS
  <2>1. n # Len(log) /\ n + 1 \in 1..m
    BY <1>0, <1>1
  <2> QED BY <1>0, <1>1, <2>1
<1>4. m = n
  BY <1>0, <1>1, <1>2, <1>3
<1> QED BY <1>0, <1>1, <1>4

\* A record that follows intact ones can be read, and nothing behind a fragment.
LEMMA ReadableOfAppend ==
    ASSUME NEW S, NEW log \in Seq(S \cup {Torn}), NEW x \in S \cup {Torn}
    PROVE  \/ Readable(Append(log, x)) = Readable(log)
           \/ x # Torn /\ Readable(Append(log, x)) = Append(Readable(log), x)
<1> DEFINE both == Append(log, x)
<1>0. Len(log) \in Nat
  OBVIOUS
<1>1. PICK m \in 0..Len(log) :
             /\ Readable(log) = SubSeq(log, 1, m)
             /\ \A i \in 1..m : log[i] # Torn
             /\ m # Len(log) => log[m + 1] = Torn
  BY ReadableEnds
<1>2. /\ both \in Seq(S \cup {Torn}) /\ Len(both) = Len(log) + 1
      /\ \A i \in 1..Len(log) : both[i] = log[i]
      /\ both[Len(log) + 1] = x
  OBVIOUS
<1>3. \A n \in 0..Len(log) : SubSeq(both, 1, n) = SubSeq(log, 1, n)
  <2> TAKE n \in 0..Len(log)
  <2>1. SubSeq(log, 1, n) = [i \in 1..n |-> log[i]]
    OBVIOUS
  <2>2. SubSeq(both, 1, n) = [i \in 1..n |-> both[i]]
    BY <1>2
  <2>3. \A i \in 1..n : both[i] = log[i]
    BY <1>0, <1>1, <1>2
  <2> QED BY <2>1, <2>2, <2>3
<1>4. SubSeq(log, 1, Len(log)) = log
  OBVIOUS
<1>5. SubSeq(both, 1, Len(both)) = both
  BY <1>2
<1>6. CASE m # Len(log) \/ x = Torn
  <2>1. m \in 0..Len(both) /\ m # Len(both) /\ both[m + 1] = Torn
    <3>1. CASE m # Len(log)
      <4>1. m + 1 \in 1..Len(log)
        BY <1>0, <1>1, <3>1
      <4>2. m \in 0..Len(both) /\ m # Len(both)
        BY <1>0, <1>1, <1>2
      <4> QED BY <1>0, <1>1, <1>2, <3>1, <4>1, <4>2
    <3>2. CASE m = Len(log)
      BY <1>0, <1>1, <1>2, <1>6, <3>2
    <3> QED BY <3>1, <3>2
  <2>2. \A i \in 1..m : both[i] # Torn
    BY <1>0, <1>1, <1>2
  <2> HIDE DEF both
  <2>3. Readable(both) = SubSeq(both, 1, m)
    BY <1>2, <2>1, <2>2, ReadableWhen
  <2> QED BY <1>1, <1>3, <2>3 DEF both
<1>7. CASE m = Len(log) /\ x # Torn
  <2>1. \A i \in 1..Len(both) : both[i] # Torn
    <3> TAKE i \in 1..Len(both)
    <3>1. i \in 1..m \/ i = Len(log) + 1
      BY <1>0, <1>1, <1>2, <1>7
    <3> QED BY <1>0, <1>1, <1>2, <1>7, <3>1
  <2>2. Len(both) \in 0..Len(both)
    BY <1>0, <1>1, <1>2
  <2> HIDE DEF both
  <2>3. Readable(both) = SubSeq(both, 1, Len(both))
    BY <1>2, <2>1, <2>2, ReadableWhen
  <2> QED BY <1>1, <1>4, <1>5, <1>7, <2>3 DEF both
<1> QED BY <1>0, <1>1, <1>6, <1>7

-----------------------------------------------------------------------------
(* No step disturbs the order                                              *)

\* What is above or newer than all of a set is so of part of it.
LEMMA AboveFewer ==
    ASSUME NEW table, NEW T, NEW U \in SUBSET T, Above(table, T)
    PROVE  Above(table, U)
BY DEF Above

LEMMA BelowFewer ==
    ASSUME NEW T, NEW U \in SUBSET T, NEW n, Below(T, n)
    PROVE  Below(U, n)
BY DEF Below

\* Steps that leave the memtable alone, add nothing to what is stored and nothing to a buffer.
LEMMA OrderStays ==
    ASSUME OrderInv, active' = active, Stored' \subseteq Stored,
           \A w \in Writers : buf'[w] \in {buf[w], << >>},
           Stacked(l0)', Stacked(Readable(manifest))', \A t \in Threads : FrozenAbove(t)'
    PROVE  OrderInv'
<1>1. Above(active'.table, Stored')
  BY AboveFewer DEF OrderInv
<1>2. ASSUME NEW w \in Writers PROVE Queued(buf[w])'
  <2>1. Queued(buf[w])
    BY DEF OrderInv
  <2>2. Stored' \cup {active'.table} \subseteq Stored \cup {active.table}
    OBVIOUS
  <2>3. CASE buf'[w] = buf[w]
    <3> DEFINE b == buf[w]
    <3>1. Queued(b)
      BY <2>1
    <3>2. buf'[w] = b
      BY <2>3
    <3> HIDE DEF b
    <3>3. (\A i \in 1..Len(b) : Below(Stored' \cup {active'.table}, b[i].seq))
            /\ \A j \in 1..Len(b) : \A i \in 1..(j - 1) : b[i].seq < b[j].seq
      BY <2>2, <3>1, BelowFewer DEF Queued
    <3> QED BY <3>2, <3>3 DEF Queued, Below
  <2>4. CASE buf'[w] = << >>
    BY <2>4 DEF Queued
  <2> QED BY <2>3, <2>4
<1>3. Above(active.table, Stored)'
  BY <1>1 DEF Above
<1> QED BY <1>2, <1>3 DEF OrderInv

\* Where the lists of tables stay as they are, so does their order.
LEMMA TablesStayPut ==
    ASSUME OrderInv, UNCHANGED <<imm, l0, manifest>>
    PROVE  Stored' = Stored /\ Stacked(l0)' /\ Stacked(Readable(manifest))'
<1>1. Readable(manifest)' = Readable(manifest)
  BY DEF Readable
<1>2. Stored' = Stored
  BY <1>1 DEF Stored, TablesOf
<1>3. Stacked(l0) /\ Stacked(Readable(manifest))
  BY DEF OrderInv
<1>4. Stacked(l0)'
  BY <1>3 DEF Stacked, Above
<1>5. Stacked(Readable(manifest))'
  BY <1>1, <1>3 DEF Stacked, Above
<1> QED BY <1>2, <1>4, <1>5

\* A flush that is no nearer to its edit than before finds what it froze above the tables.
LEMMA FrozenStays ==
    ASSUME OrderInv, UNCHANGED <<old, l0, manifest>>, NEW t \in Threads,
           pc'[t] = pc[t] \/ pc'[t] \notin {"build", "edit"}
    PROVE  FrozenAbove(t)'
<1>1. FrozenAbove(t)
  BY DEF OrderInv
<1>2. Readable(manifest)' = Readable(manifest)
  BY DEF Readable
<1>3. TablesOf(l0)' = TablesOf(l0) /\ TablesOf(Readable(manifest))' = TablesOf(Readable(manifest))
  BY <1>2 DEF TablesOf
<1> QED BY <1>1, <1>3 DEF FrozenAbove, Above

LEMMA QuietOrder ==
    ASSUME TypeInv, OrderInv, NEW t \in Threads,
           \/ AppendWal(t) \/ AppendFails(t) \/ MaybeScheduleFlush(t)
           \/ StartFlush(t) \/ NothingToFlush(t) \/ RewriteWal(t)
    PROVE  OrderInv'
<1>0. pc = [u \in Threads |-> pc[u]] /\ buf = [u \in Threads |-> buf[u]] /\ Writers \subseteq Threads
  BY DEF TypeInv, TypeOK, Threads
<1>1. UNCHANGED <<manifest, active, imm, l0, old>>
  BY DEF AppendWal, AppendFails, MaybeScheduleFlush, StartFlush, NothingToFlush, RewriteWal,
         tables, flushVars, files
<1>2. \E b \in {buf[t], << >>} : buf' = [buf EXCEPT ![t] = b]
  BY <1>0 DEF AppendWal, AppendFails, MaybeScheduleFlush, StartFlush, NothingToFlush, RewriteWal
<1>3. \E p \in {"idle", "apply", "flush"} : pc' = [pc EXCEPT ![t] = p]
  BY DEF AppendWal, AppendFails, MaybeScheduleFlush, StartFlush, NothingToFlush, RewriteWal
<1>4. \A w \in Writers : buf'[w] \in {buf[w], << >>}
  BY <1>0, <1>2
<1>5. \A u \in Threads : pc'[u] = pc[u] \/ pc'[u] \notin {"build", "edit"}
  BY <1>0, <1>3
<1>6. \A u \in Threads : FrozenAbove(u)'
  BY <1>1, <1>5, FrozenStays
<1> QED BY <1>1, <1>4, <1>6, TablesStayPut, OrderStays

\* A number that is drawn is above all.
LEMMA NextSequenceOrder ==
    ASSUME TypeInv, UniqueInv, OrderInv, NEW w \in Writers, NEW k \in Keys, NEW v \in Contents,
           NextSequence(w, k, v)
    PROVE  OrderInv'
<1>0. /\ buf \in [Threads -> Seq(Record)] /\ w \in Threads /\ lastSeq \in Nat
      /\ pc = [u \in Threads |-> pc[u]] /\ Writers \subseteq Threads
  BY DEF TypeInv, TypeOK, Threads
<1> DEFINE r == [key |-> k, seq |-> lastSeq + 1, val |-> v]
<1>1. UNCHANGED <<manifest, active, imm, l0, old>> /\ buf' = [buf EXCEPT ![w] = Append(@, r)]
         /\ pc' = [pc EXCEPT ![w] = "seq"]
  BY DEF NextSequence, tables, flushVars, files
<1>2. r.seq = lastSeq + 1
  OBVIOUS
<1> HIDE DEF r
<1>3. Stored' = Stored /\ Stacked(l0)' /\ Stacked(Readable(manifest))'
  BY <1>1, TablesStayPut
<1>4. \A u \in Threads : FrozenAbove(u)'
  <2>1. \A u \in Threads : pc'[u] = pc[u] \/ pc'[u] \notin {"build", "edit"}
    BY <1>0, <1>1
  <2> QED BY <1>1, <2>1, FrozenStays
<1>5. Above(active.table, Stored)'
  <2>1. Above(active.table, Stored)
    BY DEF OrderInv
  <2> QED BY <1>1, <1>3, <2>1 DEF Above
<1> DEFINE T == Stored \cup {active.table}
<1>6. T' = T
  BY <1>1, <1>3
<1>7. ASSUME NEW u \in Writers PROVE Queued(buf[u])'
  <2> DEFINE b == buf[u]
  <2>1. (\A i \in 1..Len(b) : Below(T, b[i].seq))
          /\ \A j \in 1..Len(b) : \A i \in 1..(j - 1) : b[i].seq < b[j].seq
    BY DEF OrderInv, Queued
  <2>2. CASE u # w
    <3>1. buf'[u] = b
      BY <1>0, <1>1, <2>2
    <3> HIDE DEF b, T
    <3>2. (\A i \in 1..Len(b) : Below(T', b[i].seq))
          /\ \A j \in 1..Len(b) : \A i \in 1..(j - 1) : b[i].seq < b[j].seq
      BY <1>6, <2>1
    <3> QED BY <3>1, <3>2 DEF Queued, Below, T
  <2>3. CASE u = w
    <3> DEFINE c == Append(b, r)
    <3>1. buf'[u] = c
      BY <1>0, <1>1, <2>3
    <3>2. /\ Len(c) = Len(b) + 1 /\ Len(b) \in Nat /\ c[Len(b) + 1] = r
          /\ \A i \in 1..Len(b) : c[i] = b[i]
      BY <1>0, <2>3
    <3>3. \A i \in 1..Len(b) : b[i].seq \in 1..lastSeq
      BY <1>0, <2>3 DEF TypeInv, NumbersInv
    <3>4. Below(T, lastSeq + 1)
      BY StoredBelowNext
    <3> HIDE DEF b, c, T
    <3>5. \A i \in 1..Len(c) : Below(T', c[i].seq)
      <4> TAKE i \in 1..Len(c)
      <4>1. i \in 1..Len(b) \/ i = Len(b) + 1
        BY <3>2
      <4> QED BY <1>2, <1>6, <2>1, <3>2, <3>4, <4>1
    <3>6. \A j \in 1..Len(c) : \A i \in 1..(j - 1) : c[i].seq < c[j].seq
      <4> SUFFICES ASSUME NEW j \in 1..Len(c), NEW i \in 1..(j - 1) PROVE c[i].seq < c[j].seq
        OBVIOUS
      <4>1. i \in 1..Len(b)
        BY <3>2
      <4>2. CASE j \in 1..Len(b)
        BY <2>1, <3>2, <4>1, <4>2
      <4>3. CASE j = Len(b) + 1
        <5>1. c[i].seq \in 1..lastSeq /\ c[j].seq = lastSeq + 1
          BY <1>2, <3>2, <3>3, <4>1, <4>3
        <5> QED BY <1>0, <5>1
      <4> QED BY <3>2, <4>2, <4>3
    <3> QED BY <3>1, <3>5, <3>6 DEF Queued, Below, T
  <2> QED BY <2>2, <2>3
<1> QED BY <1>3, <1>4, <1>5, <1>7 DEF OrderInv

\* The insert of an operation puts the entry with the lowest number in the buffer, which is
\* above what is stored.
LEMMA ApplyEntryOrder ==
    ASSUME OneWriter, TypeInv, OrderInv, NEW w \in Writers, ApplyEntry(w)
    PROVE  OrderInv'
<1> DEFINE b == buf[w]
           r == b[1]
<1>0. /\ buf \in [Threads -> Seq(Record)] /\ w \in Threads /\ b \in Seq(Record) /\ b # << >>
      /\ pc = [u \in Threads |-> pc[u]] /\ Writers \subseteq Threads
      /\ active.table \in [Keys -> Entry] /\ active \in [id : Nat, table : [Keys -> Entry]]
  BY DEF TypeInv, TypeOK, CallsInv, Threads, ApplyEntry, MemTable, Table
<1>1. UNCHANGED <<manifest, imm, l0, old>> /\ buf' = [buf EXCEPT ![w] = Tail(b)]
  BY <1>0 DEF ApplyEntry, flushVars, files
<1>2. active'.table = [active.table EXCEPT ![r.key] = EntryOf(r)]
  BY <1>0 DEF ApplyEntry
<1>3. \A u \in Threads : pc'[u] = pc[u] \/ pc'[u] \notin {"build", "edit"}
  BY <1>0 DEF ApplyEntry
<1>4. Stored' = Stored /\ Stacked(l0)' /\ Stacked(Readable(manifest))'
  BY <1>1, TablesStayPut
<1>5. \A u \in Threads : FrozenAbove(u)'
  BY <1>1, <1>3, FrozenStays
<1>6. /\ \A i \in 1..Len(b) : Below(Stored \cup {active.table}, b[i].seq)
      /\ \A j \in 1..Len(b) : \A i \in 1..(j - 1) : b[i].seq < b[j].seq
  BY DEF OrderInv, Queued
<1>7. Len(b) \in Nat /\ 1 \in 1..Len(b)
  BY <1>0
<1>8. EntryOf(r).seq = r.seq
  BY DEF EntryOf
<1>9. ASSUME NEW k \in Keys PROVE active'.table[k] = active.table[k] \/ (k = r.key /\ active'.table[k] = EntryOf(r))
  BY <1>0, <1>2
<1>10. Above(active'.table, Stored)
  <2> SUFFICES ASSUME NEW k \in Keys, active'.table[k] # NoEntry, NEW u \in Stored
               PROVE  u[k].seq < active'.table[k].seq
    BY DEF Above
  <2>1. CASE active'.table[k] = active.table[k]
    BY <2>1 DEF OrderInv, Above
  <2>2. CASE active'.table[k] = EntryOf(r)
    <3>1. u[k].seq < r.seq
      BY <1>6, <1>7 DEF Below
    <3> QED BY <1>8, <2>2, <3>1
  <2> QED BY <1>9, <2>1, <2>2
<1>11. Above(active.table, Stored)'
  BY <1>4, <1>10 DEF Above
<1> DEFINE c == Tail(b)
<1>12. Len(c) = Len(b) - 1 /\ \A i \in 1..Len(c) : c[i] = b[i + 1]
  BY <1>0
<1>13. \A i \in 1..Len(c) : i + 1 \in 1..Len(b) /\ c[i] = b[i + 1]
  BY <1>7, <1>12
<1>14. buf'[w] = c
  BY <1>0, <1>1
<1> HIDE DEF b, c, r
<1>15. \A i \in 1..Len(c) : Below(Stored' \cup {active'.table}, c[i].seq)
  <2> SUFFICES ASSUME NEW i \in 1..Len(c), NEW u \in Stored \cup {active'.table}, NEW k \in Keys
               PROVE  u[k].seq < c[i].seq
    BY <1>4 DEF Below
  <2>1. CASE u \in Stored \/ u[k] = active.table[k]
    <3>1. \E x \in Stored \cup {active.table} : x[k] = u[k]
      BY <2>1
    <3> QED BY <1>6, <1>13, <3>1 DEF Below
  <2>2. CASE u[k] = EntryOf(r)
    <3>1. 1 \in 1..((i + 1) - 1) /\ i + 1 \in 1..Len(b)
      BY <1>13
    <3>2. b[1].seq < b[i + 1].seq
      BY <1>6, <3>1
    <3>3. r.seq < c[i].seq
      BY <1>13, <3>2 DEF r
    <3> QED BY <1>8, <2>2, <3>3
  <2> QED BY <1>9, <2>1, <2>2
<1>16. \A j \in 1..Len(c) : \A i \in 1..(j - 1) : c[i].seq < c[j].seq
  <2> SUFFICES ASSUME NEW j \in 1..Len(c), NEW i \in 1..(j - 1) PROVE c[i].seq < c[j].seq
    OBVIOUS
  <2>1. i \in 1..Len(c) /\ i + 1 \in 1..((j + 1) - 1) /\ j + 1 \in 1..Len(b)
    BY <1>7, <1>12
  <2>2. b[i + 1].seq < b[j + 1].seq
    BY <1>6, <2>1
  <2> QED BY <1>13, <2>1, <2>2
<1>17. ASSUME NEW u \in Writers PROVE Queued(buf[u])'
  <2>1. buf'[u] = c
    BY <1>14 DEF OneWriter
  <2> QED BY <1>15, <1>16, <2>1 DEF Queued, Below
<1> QED BY <1>4, <1>5, <1>11, <1>17 DEF OrderInv

\* The frozen memtable is above the tables, and the new one is empty.
LEMMA RotateOrder ==
    ASSUME TypeInv, LocksInv, FlushProtocol, UniqueInv, OrderInv, NEW t \in Threads, Rotate(t)
    PROVE  OrderInv'
<1>0. /\ pc = [u \in Threads |-> pc[u]] /\ Writers \subseteq Threads
      /\ buf \in [Threads -> Seq(Record)] /\ imm \in Seq(MemTable) /\ active \in MemTable
  BY DEF TypeInv, TypeOK, Threads
<1>1. imm = << >> /\ \A u \in Threads : pc[u] \notin {"build", "edit"}
  BY ThreadsDistinct DEF LocksInv, FlushProtocol, Rotate, CanRotate
<1>2. /\ UNCHANGED <<manifest, l0, buf>> /\ imm' = Append(imm, active) /\ old' = active
      /\ active'.table = EmptyTable /\ pc' = [pc EXCEPT ![t] = "build"]
  BY DEF Rotate, files
<1>3. Readable(manifest)' = Readable(manifest)
  BY <1>2 DEF Readable
<1>4. Stored' = Stored \cup {active.table}
  <2>1. TablesOf(imm') = TablesOf(imm) \cup {active.table}
    BY <1>0, <1>2, TablesOfAppend
  <2> QED BY <1>2, <1>3, <2>1 DEF Stored, TablesOf
<1>5. Above(active.table, Stored) /\ Stacked(l0) /\ Stacked(Readable(manifest))
        /\ \A w \in Writers : Queued(buf[w])
  BY DEF OrderInv
<1>6. Stacked(l0)' /\ Stacked(Readable(manifest))'
  BY <1>2, <1>3, <1>5 DEF Stacked, Above
<1>7. Above(active.table, Stored)'
  BY <1>2 DEF Above, EmptyTable
<1>8. ASSUME NEW u \in Threads PROVE FrozenAbove(u)'
  <2>1. TablesOf(l0)' = TablesOf(l0) /\ TablesOf(Readable(manifest))' = TablesOf(Readable(manifest))
    BY <1>2, <1>3 DEF TablesOf
  <2>2. Above(active.table, TablesOf(l0)) /\ Above(active.table, TablesOf(Readable(manifest)))
    BY <1>5 DEF Above, Stored
  <2> QED BY <1>2, <2>1, <2>2 DEF FrozenAbove, Above
<1>9. ASSUME NEW w \in Writers PROVE Queued(buf[w])'
  <2> DEFINE b == buf[w]
  <2>1. \A i \in 1..Len(b) : b[i].seq \in 1..lastSeq
    BY <1>0 DEF TypeInv, NumbersInv
  <2>2. buf'[w] = b
    BY <1>2
  <2>3. Queued(b)
    BY <1>5
  <2>4. lastSeq \in Nat
    BY DEF TypeInv, TypeOK
  <2> HIDE DEF b
  <2>5. \A i \in 1..Len(b) : Below(Stored' \cup {active'.table}, b[i].seq)
    <3> SUFFICES ASSUME NEW i \in 1..Len(b), NEW k \in Keys,
                        NEW x \in (Stored \cup {active.table}) \cup {EmptyTable}
                 PROVE  x[k].seq < b[i].seq
      BY <1>2, <1>4 DEF Below
    <3>1. CASE x \in Stored \cup {active.table}
      BY <2>3, <3>1 DEF Queued, Below
    <3>2. CASE x = EmptyTable
      <4>1. x[k].seq = 0
        BY <3>2, EmptyTableType
      <4> QED BY <2>1, <2>4, <4>1
    <3> QED BY <3>1, <3>2
  <2> QED BY <2>2, <2>3, <2>5 DEF Queued, Below
<1> QED BY <1>6, <1>7, <1>8, <1>9 DEF OrderInv

\* A flush that is under way is the only one.
LEMMA OneFlush ==
    ASSUME LocksInv, NEW t \in Threads, pc[t] \in {"build", "edit", "reset", "rewrite"},
           NEW u \in Threads, u # t
    PROVE  pc[u] \notin {"build", "edit", "reset", "rewrite"}
BY DEF LocksInv

\* The edit goes on top of the manifest, and the entries in it were already stored.
LEMMA LogEditOrder ==
    ASSUME TypeInv, LocksInv, FlushProtocol, OrderInv, NEW t \in Threads, LogEdit(t)
    PROVE  OrderInv'
<1>0. /\ pc = [u \in Threads |-> pc[u]] /\ manifest \in Seq(Edit \cup {Torn}) /\ pc[t] = "build"
  BY DEF TypeInv, TypeOK, LogEdit
<1>1. /\ manifest' = Append(manifest, FlushEdit) /\ UNCHANGED <<active, imm, l0, buf, old>>
      /\ pc' = [pc EXCEPT ![t] = "edit"]
  BY DEF LogEdit, tables, flushVars
<1>2. FlushEdit \in Edit /\ FlushEdit.table = old.table
  <2>1. Present(old.table) # {}
    BY <1>0 DEF TypeInv, CallsInv
  <2> QED BY <2>1, FlushEditType DEF FlushEdit
<1>3. imm = <<old>>
  BY <1>0 DEF FlushProtocol
<1>4. Above(old.table, TablesOf(l0)) /\ Above(old.table, TablesOf(Readable(manifest)))
        /\ Stacked(l0) /\ Stacked(Readable(manifest))
  BY <1>0 DEF OrderInv, FrozenAbove
<1>5. Readable(manifest) \in Seq(Edit)
  BY <1>0, ReadableType
<1>6. Readable(manifest') = Readable(manifest)
        \/ Readable(manifest') = Append(Readable(manifest), FlushEdit)
  <2>1. \A x \in Edit : \/ Readable(Append(manifest, x)) = Readable(manifest)
                       \/ Readable(Append(manifest, x)) = Append(Readable(manifest), x)
    <3> TAKE x \in Edit
    <3>1. manifest \in Seq(Edit \cup {Torn}) /\ x \in Edit \cup {Torn}
      BY <1>0
    <3> QED BY <3>1, ReadableOfAppend
  <2> QED BY <1>1, <1>2, <2>1
<1>7. Stacked(Readable(manifest'))
  BY <1>2, <1>4, <1>5, <1>6, StackedAppend
<1>8. TablesOf(Readable(manifest')) \subseteq TablesOf(Readable(manifest)) \cup {old.table}
  <2>1. TablesOf(Append(Readable(manifest), FlushEdit))
          = TablesOf(Readable(manifest)) \cup {FlushEdit.table}
    BY <1>2, <1>5, TablesOfAppend
  <2> QED BY <1>2, <1>6, <2>1
<1>9. Stored' \subseteq Stored
  <2>1. old.table \in TablesOf(imm)
    BY <1>3, TablesOfOne
  <2>2. TablesOf(imm)' = TablesOf(imm) /\ TablesOf(l0)' = TablesOf(l0)
    BY <1>1 DEF TablesOf
  <2>3. TablesOf(Readable(manifest))' = TablesOf(Readable(manifest'))
    BY DEF TablesOf
  <2> QED BY <1>8, <2>1, <2>2, <2>3 DEF Stored
<1>10. ASSUME NEW u \in Threads PROVE FrozenAbove(u)'
  <2>1. pc'[u] # "build" /\ (pc'[u] = "edit" => u = t)
    BY <1>0, <1>1, OneFlush
  <2>2. Above(old.table, TablesOf(l0))'
    BY <1>1, <1>4 DEF Above, TablesOf
  <2> QED BY <2>1, <2>2 DEF FrozenAbove
<1>11. Stacked(l0)' /\ Stacked(Readable(manifest))'
  BY <1>1, <1>4, <1>7 DEF Stacked, Above
<1>12. active' = active /\ \A w \in Writers : buf'[w] \in {buf[w], << >>}
  BY <1>1
<1> QED BY <1>9, <1>10, <1>11, <1>12, OrderStays

\* So do the tables of the version.
LEMMA ApplyEditOrder ==
    ASSUME TypeInv, LocksInv, FlushProtocol, OrderInv, NEW t \in Threads, ApplyEdit(t)
    PROVE  OrderInv'
<1>0. /\ pc = [u \in Threads |-> pc[u]] /\ l0 \in Seq(Edit) /\ pc[t] = "edit"
  BY DEF TypeInv, TypeOK, ApplyEdit
<1>1. /\ l0' = Append(l0, FlushEdit) /\ UNCHANGED <<active, imm, manifest, buf, old>>
      /\ pc' = [pc EXCEPT ![t] = "reset"]
  BY DEF ApplyEdit, files, flushVars
<1>2. FlushEdit \in Edit /\ FlushEdit.table = old.table
  <2>1. Present(old.table) # {}
    BY <1>0 DEF TypeInv, CallsInv
  <2> QED BY <2>1, FlushEditType DEF FlushEdit
<1>3. imm = <<old>>
  BY <1>0 DEF FlushProtocol
<1>4. Above(old.table, TablesOf(l0)) /\ Stacked(l0) /\ Stacked(Readable(manifest))
  BY <1>0 DEF OrderInv, FrozenAbove
<1>5. Readable(manifest)' = Readable(manifest)
  BY <1>1 DEF Readable
<1>6. Stacked(l0')
  BY <1>0, <1>1, <1>2, <1>4, StackedAppend
<1>7. Stored' \subseteq Stored
  <2>1. old.table \in TablesOf(imm)
    BY <1>3, TablesOfOne
  <2>2. TablesOf(imm)' = TablesOf(imm) /\ TablesOf(Readable(manifest))' = TablesOf(Readable(manifest))
    BY <1>1, <1>5 DEF TablesOf
  <2>3. TablesOf(l0)' = TablesOf(l0')
    BY DEF TablesOf
  <2>4. TablesOf(l0') = TablesOf(l0) \cup {old.table}
    BY <1>0, <1>1, <1>2, TablesOfAppend
  <2> QED BY <2>1, <2>2, <2>3, <2>4 DEF Stored
<1>8. ASSUME NEW u \in Threads PROVE FrozenAbove(u)'
  <2>1. pc'[u] \notin {"build", "edit"}
    BY <1>0, <1>1, OneFlush
  <2> QED BY <2>1 DEF FrozenAbove
<1>9. Stacked(l0)' /\ Stacked(Readable(manifest))'
  BY <1>4, <1>5, <1>6 DEF Stacked, Above
<1>10. active' = active /\ \A w \in Writers : buf'[w] \in {buf[w], << >>}
  BY <1>1
<1> QED BY <1>7, <1>8, <1>9, <1>10, OrderStays

\* What is retired leaves the order alone.
LEMMA ResetWalOrder ==
    ASSUME TypeInv, LocksInv, FlushProtocol, OrderInv, NEW t \in Threads, ResetWal(t)
    PROVE  OrderInv'
<1>0. /\ pc = [u \in Threads |-> pc[u]] /\ pc[t] = "reset"
  BY DEF TypeInv, TypeOK, ResetWal
<1>1. /\ UNCHANGED <<active, l0, manifest, buf, old>> /\ imm' = OtherImms
      /\ \E p \in {"idle", "rewrite"} : pc' = [pc EXCEPT ![t] = p]
  BY DEF ResetWal
<1>2. imm' = << >>
  BY <1>0, <1>1, OtherImmsOfOne DEF FlushProtocol
<1>3. Readable(manifest)' = Readable(manifest)
  BY <1>1 DEF Readable
<1>4. Stored' \subseteq Stored
  <2>1. TablesOf(imm') = {}
    BY <1>2, TablesOfNone
  <2>2. TablesOf(l0)' = TablesOf(l0) /\ TablesOf(Readable(manifest))' = TablesOf(Readable(manifest))
    BY <1>1, <1>3 DEF TablesOf
  <2>3. TablesOf(imm)' = TablesOf(imm')
    BY DEF TablesOf
  <2> QED BY <2>1, <2>2, <2>3 DEF Stored
<1>5. ASSUME NEW u \in Threads PROVE FrozenAbove(u)'
  <2>1. pc'[u] = pc[u] \/ pc'[u] \notin {"build", "edit"}
    BY <1>0, <1>1
  <2> QED BY <1>1, <2>1, FrozenStays
<1>6. Stacked(l0) /\ Stacked(Readable(manifest))
  BY DEF OrderInv
<1>7. Stacked(l0)' /\ Stacked(Readable(manifest))'
  BY <1>1, <1>3, <1>6 DEF Stacked, Above
<1>8. active' = active /\ \A w \in Writers : buf'[w] \in {buf[w], << >>}
  BY <1>1
<1> QED BY <1>4, <1>5, <1>7, <1>8, OrderStays

\* What a reopen replays is above the edits of the manifest.
LEMMA ReplayedAbove ==
    ASSUME NEW log \in Seq(Record), NEW f \in Nat, NEW k
    PROVE  Replayed(log, f, k) = NoEntry \/ Replayed(log, f, k).seq > f
<1>1. CASE \A i \in 1..Len(log) : ~ Hit(log, f, k, i)
  BY <1>1, ReplayedNone
<1>2. CASE \E i \in 1..Len(log) : Hit(log, f, k, i)
  <2>1. PICK i \in 1..Len(log) : Hit(log, f, k, i) /\ Replayed(log, f, k) = EntryOf(log[i])
    BY <1>2, LastHit
  <2> QED BY <2>1 DEF Hit, EntryOf
<1> QED BY <1>1, <1>2

LEMMA CrashOrder ==
    ASSUME TypeInv, TypeInv', UniqueInv', OrderInv, CrashAndOpen
    PROVE  OrderInv'
<1> DEFINE log == Readable(wal')
           flushed == FlushedUpTo(l0')
<1>1. /\ l0' = Readable(manifest') /\ active' = RecoveredMemTable(log, flushed)
      /\ imm' = << >> /\ buf' = [t \in Threads |-> << >>] /\ pc' = [t \in Threads |-> "idle"]
  BY DEF CrashAndOpen, RecoveredTables
<1>2. log \in Seq(Record) /\ l0' \in Seq(Edit)
  BY ReadableType DEF TypeInv, TypeOK
<1>3. flushed \in Nat
  BY <1>2, FlushedUpToType
<1> HIDE DEF log, flushed
<1>4. PICK part \in {<< >>, <<Torn>>} : manifest' = manifest \o part
  BY DEF CrashAndOpen, TornEdits
<1>5. Readable(manifest') = Readable(manifest)
  <2>1. manifest \in Seq(Edit \cup {Torn})
    BY DEF TypeInv, TypeOK
  <2>2. manifest' = manifest \/ manifest' = Append(manifest, Torn)
    BY <1>4, <2>1
  <2>3. Readable(Append(manifest, Torn)) = Readable(manifest)
    BY <2>1, ReadableOfAppend
  <2> QED BY <2>2, <2>3
<1>6. Stacked(Readable(manifest'))
  BY <1>5 DEF OrderInv
<1>7. Stored' = TablesOf(l0')
  <2>1. TablesOf(imm') = {}
    BY <1>1, TablesOfNone
  <2> QED BY <1>1, <2>1 DEF Stored, TablesOf
<1>8. ASSUME NEW u \in TablesOf(l0'), NEW k \in Keys PROVE u[k].seq \in Nat /\ u[k].seq <= flushed
  <2>1. PICK e \in Els(l0') : u = e.table
    BY DEF TablesOf, Els
  <2>2. e.last <= flushed /\ e \in Edit
    BY <1>2, FlushedUpToIsBound DEF flushed, Els
  <2>3. u[k].seq \in Nat /\ e.last \in Nat
    BY <2>1, <2>2 DEF Edit, Table, Entry
  <2>4. CASE u[k] = NoEntry
    BY <1>3, <2>4 DEF NoEntry
  <2>5. CASE u[k] # NoEntry
    <3> DEFINE r == [key |-> k, seq |-> u[k].seq, val |-> u[k].val]
    <3>1. r \in RecordsOf(e.table) /\ r.seq = u[k].seq
      BY <2>1, <2>5 DEF RecordsOf, Present
    <3> HIDE DEF r
    <3>2. r.seq <= e.last
      BY <1>1, <2>1, <3>1 DEF UniqueInv, EditsBounded
    <3> QED BY <1>3, <2>2, <2>3, <3>1, <3>2
  <2> QED BY <2>4, <2>5
<1>9. Above(active'.table, Stored')
  <2> SUFFICES ASSUME NEW k \in Keys, active'.table[k] # NoEntry, NEW u \in TablesOf(l0')
               PROVE  u[k].seq < active'.table[k].seq
    BY <1>7 DEF Above
  <2>1. active'.table[k] = Replayed(log, flushed, k)
    BY <1>1 DEF RecoveredMemTable
  <2>2. active'.table[k].seq > flushed /\ active'.table[k].seq \in Nat
    <3>1. active'.table[k].seq \in Nat
      BY DEF TypeInv, TypeOK, MemTable, Table, Entry
    <3> QED BY <1>2, <1>3, <2>1, <3>1, ReplayedAbove
  <2> QED BY <1>3, <1>8, <2>2
<1>10. \A t \in Threads : FrozenAbove(t)'
  BY <1>1 DEF FrozenAbove
<1>11. \A w \in Writers : Queued(buf[w])'
  BY <1>1 DEF Queued, Threads
<1>12. Above(active.table, Stored)' /\ Stacked(l0)' /\ Stacked(Readable(manifest))'
  BY <1>1, <1>6, <1>9 DEF Above, Stacked
<1> QED BY <1>10, <1>11, <1>12 DEF OrderInv

LEMMA InitOrder == Init => OrderInv
<1> SUFFICES ASSUME Init PROVE OrderInv
  OBVIOUS
<1>1. Len(Readable(<< >>)) = 0
  <2>1. << >> \in Seq(Edit \cup {Torn}) /\ Len(<< >>) = 0
    OBVIOUS
  <2>2. Len(Readable(<< >>)) \in 0..Len(<< >>)
    BY <2>1, ReadableIs
  <2> QED BY <2>1, <2>2
<1>2. manifest = << >> /\ l0 = << >> /\ active.table = EmptyTable /\ pc = [t \in Threads |-> "idle"]
        /\ buf = [t \in Threads |-> << >>]
  BY DEF Init
<1>3. Stacked(l0) /\ Stacked(Readable(manifest))
  BY <1>1, <1>2 DEF Stacked
<1>4. Above(active.table, Stored)
  BY <1>2 DEF Above, EmptyTable
<1>5. \A t \in Threads : FrozenAbove(t)
  BY <1>2 DEF FrozenAbove
<1>6. \A w \in Writers : Queued(buf[w])
  BY <1>2 DEF Queued, Threads
<1> QED BY <1>3, <1>4, <1>5, <1>6 DEF OrderInv

LEMMA NextOrder ==
    ASSUME OneWriter, ~IoErrors, TypeInv, LocksInv, FrozenInv, FlushProtocol, UniqueInv, OrderInv,
           [Next]_vars
    PROVE  OrderInv'
<1>1. ASSUME NEW w \in Writers, Write(w) PROVE OrderInv'
  <2>1. w \in Threads
    BY DEF Threads
  <2> QED BY <1>1, <2>1, NextSequenceOrder, ApplyEntryOrder, QuietOrder DEF Write
<1>2. ASSUME NEW t \in Threads, StartFlush(t) \/ FlushStep(t) PROVE OrderInv'
  <2>1. ~ FlushFails(t) /\ ~ ResetFails(t) /\ ~ RewriteFails(t)
    BY DEF FlushFails, ResetFails, RewriteFails
  <2> QED BY <1>2, <2>1, QuietOrder, RotateOrder, LogEditOrder, ApplyEditOrder, ResetWalOrder
          DEF FlushStep
<1>3. CASE CrashAndOpen
  <2>1. TypeInv' /\ UniqueInv'
    BY NextTypeInv, NextUnique
  <2> QED BY <1>3, <2>1, CrashOrder
<1>4. CASE UNCHANGED vars
  <2>1. UNCHANGED <<active, imm, l0, manifest, buf, old, pc>>
    BY <1>4 DEF vars
  <2>2. Stored' = Stored /\ Stacked(l0)' /\ Stacked(Readable(manifest))'
    BY <2>1, TablesStayPut
  <2>3. \A t \in Threads : FrozenAbove(t)'
    BY <2>1, FrozenStays
  <2> QED BY <2>1, <2>2, <2>3, OrderStays
<1> QED BY <1>1, <1>2, <1>3, <1>4 DEF Next, Run

-----------------------------------------------------------------------------
(* What update_entry keeps                                                 *)

LEMMA HighestIs ==
    ASSUME NEW E, NEW x \in E,
           \A f \in E : f.seq \in Nat /\ f.seq <= x.seq /\ (f.seq = x.seq => f = x)
    PROVE  (CHOOSE e \in E : \A f \in E : f.seq <= e.seq) = x
<1> DEFINE c == CHOOSE e \in E : \A f \in E : f.seq <= e.seq
<1>1. c \in E /\ \A f \in E : f.seq <= c.seq
  OBVIOUS
<1> HIDE DEF c
<1>2. c.seq \in Nat /\ x.seq \in Nat /\ c.seq <= x.seq /\ x.seq <= c.seq
  BY <1>1
<1>3. c.seq = x.seq
  BY <1>2
<1>4. c = x
  BY <1>1, <1>3
<1> QED BY <1>4 DEF c

LEMMA MergeIs ==
    ASSUME NEW found, NEW ts, NEW k \in Keys,
           NEW x \in {found[k]} \cup {ts[i].table[k] : i \in 1..Len(ts)},
           \A f \in {found[k]} \cup {ts[i].table[k] : i \in 1..Len(ts)} :
               f.seq \in Nat /\ f.seq <= x.seq /\ (f.seq = x.seq => f = x)
    PROVE  Merge(found, ts)[k] = x
<1> DEFINE E == {found[k]} \cup {ts[i].table[k] : i \in 1..Len(ts)}
<1>1. Merge(found, ts)[k] = CHOOSE e \in E : \A f \in E : f.seq <= e.seq
  BY DEF Merge
<1>2. x \in E /\ \A f \in E : f.seq \in Nat /\ f.seq <= x.seq /\ (f.seq = x.seq => f = x)
  OBVIOUS
<1> HIDE DEF E
<1> QED BY <1>1, <1>2, HighestIs

\* Nothing is added by no table, and by one that does not have the key.
LEMMA MergeKeeps ==
    ASSUME NEW found \in Table, NEW ts, NEW k \in Keys,
           ts = << >> \/ \E t : ts = <<t>> /\ t.table[k] = NoEntry,
           found[k].seq = 0 => found[k] = NoEntry
    PROVE  Merge(found, ts)[k] = found[k]
<1>1. found[k].seq \in Nat
  BY DEF Table, Entry
<1>2. \A f \in {ts[i].table[k] : i \in 1..Len(ts)} : f = NoEntry
  OBVIOUS
<1>3. \A f \in {found[k]} \cup {ts[i].table[k] : i \in 1..Len(ts)} :
          f.seq \in Nat /\ f.seq <= found[k].seq /\ (f.seq = found[k].seq => f = found[k])
  <2> SUFFICES ASSUME NEW f, f = found[k] \/ f = NoEntry
               PROVE  f.seq \in Nat /\ f.seq <= found[k].seq /\ (f.seq = found[k].seq => f = found[k])
    BY <1>2
  <2>1. CASE f = found[k]
    BY <1>1, <2>1
  <2>2. CASE f = NoEntry
    <3>1. f.seq = 0
      BY <2>2 DEF NoEntry
    <3> QED BY <1>1, <2>2, <3>1
  <2> QED BY <2>1, <2>2
<1> QED BY <1>3, MergeIs

\* A newer entry takes the place of the one found.
LEMMA MergeTakes ==
    ASSUME NEW found \in Table, NEW t, t.table \in Table, NEW k \in Keys,
           found[k] = t.table[k] \/ found[k].seq < t.table[k].seq
    PROVE  Merge(found, <<t>>)[k] = t.table[k]
<1> DEFINE ts == <<t>>
           m == t.table[k]
           E == {found[k]} \cup {ts[i].table[k] : i \in 1..Len(ts)}
<1>1. found[k].seq \in Nat /\ m.seq \in Nat
  BY DEF Table, Entry
<1>2. \A f \in E : f = found[k] \/ f = m
  OBVIOUS
<1>3. m \in E
  OBVIOUS
<1> HIDE DEF E
<1>4. \A f \in E : f.seq \in Nat /\ f.seq <= m.seq /\ (f.seq = m.seq => f = m)
  <2> SUFFICES ASSUME NEW f, f = found[k] \/ f = m
               PROVE  f.seq \in Nat /\ f.seq <= m.seq /\ (f.seq = m.seq => f = m)
    BY <1>2
  <2>1. CASE f = m
    BY <1>1, <2>1
  <2>2. CASE f = found[k] /\ f # m
    <3>1. found[k].seq < m.seq
      BY <2>2
    <3> QED BY <1>1, <2>2, <3>1
  <2> QED BY <2>1, <2>2
<1> HIDE DEF m, ts
<1>5. Merge(found, ts)[k] = m
  BY <1>3, <1>4, MergeIs, SMTT(30) DEF E
<1> QED BY <1>5 DEF ts, m

\* A lookup finds the last entry there is.
LEMMA NewestIs ==
    ASSUME NEW S, NEW ts \in Seq(S), NEW k
    PROVE  \/ Newest(ts, k) = NoEntry /\ \A i \in 1..Len(ts) : ts[i].table[k] = NoEntry
           \/ \E i \in 1..Len(ts) : HitAt(ts, i, k) /\ Newest(ts, k) = ts[i].table[k]
<1> DEFINE I == {i \in 1..Len(ts) : ts[i].table[k] # NoEntry}
<1>0. Len(ts) \in Nat
  OBVIOUS
<1>1. CASE I = {}
  <2>1. \A i \in 1..Len(ts) : ts[i].table[k] = NoEntry
    BY <1>1
  <2>2. ~ \E i \in 1..Len(ts) : HitAt(ts, i, k)
    BY <2>1 DEF HitAt
  <2> QED BY <2>1, <2>2 DEF Newest
<1>2. CASE I # {}
  <2>1. I \in SUBSET Nat /\ \A i \in I : i <= Len(ts)
    OBVIOUS
  <2>2. PICK h \in I : \A i \in I : i <= h
    BY <1>0, <1>2, <2>1, LargestIsIn
  <2>3. HitAt(ts, h, k) /\ h \in 1..Len(ts)
    <3>1. \A j \in (h + 1)..Len(ts) : j \in 1..Len(ts) /\ ~ (j <= h)
      BY <1>0
    <3> QED BY <2>2, <3>1 DEF HitAt
  <2>4. Newest(ts, k) = ts[CHOOSE i \in 1..Len(ts) : HitAt(ts, i, k)].table[k]
    BY <2>3 DEF Newest
  <2>5. HitAt(ts, CHOOSE i \in 1..Len(ts) : HitAt(ts, i, k), k)
          /\ (CHOOSE i \in 1..Len(ts) : HitAt(ts, i, k)) \in 1..Len(ts)
    BY <2>3
  <2> QED BY <2>4, <2>5
<1> QED BY <1>1, <1>2

\* Over tables of which each is above those before it, the highest number is that of the
\* last: scan and get find the same.
LEMMA MergeOfStack ==
    ASSUME NEW S, NEW ts \in Seq(S), Stacked(ts), lastSeq \in Nat,
           \A i \in 1..Len(ts) : Numbered(ts[i].table), NEW k \in Keys
    PROVE  Merge(EmptyTable, ts)[k] = Newest(ts, k)
<1> DEFINE x == Newest(ts, k)
<1>0. EmptyTable[k] = NoEntry /\ NoEntry.seq = 0
  BY DEF EmptyTable, NoEntry
<1>1. CASE x = NoEntry /\ \A i \in 1..Len(ts) : ts[i].table[k] = NoEntry
  <2>1. \A f \in {EmptyTable[k]} \cup {ts[i].table[k] : i \in 1..Len(ts)} : f = NoEntry
    BY <1>0, <1>1
  <2>2. x \in {EmptyTable[k]} \cup {ts[i].table[k] : i \in 1..Len(ts)}
    BY <1>0, <1>1
  <2>3. \A f \in {EmptyTable[k]} \cup {ts[i].table[k] : i \in 1..Len(ts)} :
            f.seq \in Nat /\ f.seq <= x.seq /\ (f.seq = x.seq => f = x)
    BY <1>0, <1>1, <2>1
  <2> HIDE DEF x
  <2>4. Merge(EmptyTable, ts)[k] = x
    BY <2>2, <2>3, MergeIs
  <2> QED BY <2>4 DEF x
<1>2. CASE \E h \in 1..Len(ts) : HitAt(ts, h, k) /\ x = ts[h].table[k]
  <2>1. PICK h \in 1..Len(ts) : HitAt(ts, h, k) /\ x = ts[h].table[k]
    BY <1>2
  <2>2. x # NoEntry /\ \A j \in (h + 1)..Len(ts) : ts[j].table[k] = NoEntry
    BY <2>1 DEF HitAt
  <2>3. x.seq \in 1..lastSeq
    BY <2>1, <2>2 DEF Numbered
  <2> HIDE DEF x
  <2>4. \A i \in 1..(h - 1) : ts[i].table[k].seq < x.seq
    <3>1. Above(ts[h].table, {ts[i].table : i \in 1..(h - 1)})
      BY DEF Stacked
    <3> QED BY <2>1, <2>2, <3>1 DEF Above
  <2>5. ASSUME NEW i \in 1..Len(ts), NEW f, f = ts[i].table[k]
        PROVE  f.seq \in Nat /\ f.seq <= x.seq /\ (f.seq = x.seq => f = x)
    <3>1. f = NoEntry \/ f.seq \in 1..lastSeq
      BY <2>5 DEF Numbered
    <3>2. f.seq \in Nat
      BY <1>0, <3>1
    <3>3. i \in 1..(h - 1) \/ i = h \/ i \in (h + 1)..Len(ts)
      OBVIOUS
    <3>4. CASE i \in 1..(h - 1)
      <4>1. f.seq < x.seq
        BY <2>4, <2>5, <3>4
      <4> QED BY <2>3, <3>2, <4>1
    <3>5. CASE i = h
      <4>1. f = x
        BY <2>1, <2>5, <3>5
      <4> QED BY <3>2, <4>1
    <3>6. CASE i \in (h + 1)..Len(ts)
      <4>1. f.seq = 0
        BY <1>0, <2>2, <2>5, <3>6
      <4> QED BY <2>3, <4>1
    <3> QED BY <3>3, <3>4, <3>5, <3>6
  <2>6. \A f \in {EmptyTable[k]} \cup {ts[i].table[k] : i \in 1..Len(ts)} :
            f.seq \in Nat /\ f.seq <= x.seq /\ (f.seq = x.seq => f = x)
    <3>1. 0 \in Nat /\ 0 <= x.seq /\ 0 # x.seq
      BY <2>3
    <3>2. ASSUME NEW f, f.seq = 0
          PROVE  f.seq \in Nat /\ f.seq <= x.seq /\ (f.seq = x.seq => f = x)
      BY <3>1, <3>2
    <3>3. EmptyTable[k].seq = 0
      BY <1>0
    <3> QED BY <2>5, <3>2, <3>3
  <2>7. x \in {EmptyTable[k]} \cup {ts[i].table[k] : i \in 1..Len(ts)}
    BY <2>1
  <2>8. Merge(EmptyTable, ts)[k] = x
    BY <2>6, <2>7, MergeIs, SMTT(30)
  <2> QED BY <2>8 DEF x
<1> QED BY <1>1, <1>2, NewestIs

-----------------------------------------------------------------------------
(* The invariant of a scan under way                                       *)

\* The scan has e for key k so far: what it has yet to look at is newer, also what is
\* still to be inserted, and if there is none, e is what a get found since the call began.
Found(s, k, e) ==
    /\ Visible(k) \in seen[s][k]
    /\ e.seq <= lastSeq /\ (e.seq = 0 => e = NoEntry)
    /\ active.table[k] # NoEntry => e.seq < active.table[k].seq
    /\ \A w \in Writers : \A i \in 1..Len(buf[w]) : e.seq < buf[w][i].seq
    /\ rpc[s] = "imm" =>
         /\ Newest(imm, k) # NoEntry => e = Newest(imm, k) \/ e.seq < Newest(imm, k).seq
         /\ active.table[k] = NoEntry /\ Newest(imm, k) = NoEntry => e \in seen[s][k]
    /\ rpc[s] = "active" => (active.table[k] = NoEntry => e \in seen[s][k])

ScanInv(s) ==
    /\ Underway(s) => rpc[s] \in {"imm", "active"} /\ want[s] = Keys
    /\ ~swapped[s] /\ Underway(s) => \A k \in Keys : Found(s, k, got[s][k])
    /\ ~swapped[s] /\ rpc[s] = "done" => \A k \in Keys : got[s][k] \in seen[s][k]

\* A step that freezes and retires nothing inserts what was waiting, and hands out numbers
\* above all there are.
AddsNewer ==
    /\ lastSeq <= lastSeq'
    /\ \A k \in Keys :
         \/ active'.table[k] = active.table[k]
         \/ \E w \in Writers : \E i \in 1..Len(buf[w]) : active'.table[k] = EntryOf(buf[w][i])
    /\ \A w \in Writers : \A i \in 1..Len(buf'[w]) :
         \/ \E j \in 1..Len(buf[w]) : buf'[w][i] = buf[w][j]
         \/ buf'[w][i].seq = lastSeq + 1

LEMMA NextSequenceAdds ==
    ASSUME TypeInv, NEW w \in Writers, NEW k \in Keys, NEW v \in Contents, NextSequence(w, k, v)
    PROVE  AddsNewer
<1> DEFINE r == [key |-> k, seq |-> lastSeq + 1, val |-> v]
           b == buf[w]
           c == Append(b, r)
<1>0. buf \in [Threads -> Seq(Record)] /\ Writers \subseteq Threads /\ lastSeq \in Nat /\ b \in Seq(Record)
  BY DEF TypeInv, TypeOK, Threads
<1>1. active' = active /\ lastSeq' = lastSeq + 1 /\ buf' = [buf EXCEPT ![w] = c]
  BY DEF NextSequence, tables
<1>2. r.seq = lastSeq + 1
  OBVIOUS
<1> HIDE DEF r
<1>3. Len(c) = Len(b) + 1 /\ c[Len(b) + 1] = r /\ Len(b) \in Nat /\ \A i \in 1..Len(b) : c[i] = b[i]
  BY <1>0
<1>4. ASSUME NEW u \in Writers, NEW i \in 1..Len(buf'[u])
      PROVE  (\E j \in 1..Len(buf[u]) : buf'[u][i] = buf[u][j]) \/ buf'[u][i].seq = lastSeq + 1
  <2>1. CASE u # w
    <3>1. buf'[u] = buf[u]
      BY <1>0, <1>1, <2>1
    <3> QED BY <3>1
  <2>2. CASE u = w
    <3>1. buf'[u] = c
      BY <1>0, <1>1, <2>2
    <3>2. i \in 1..Len(b) \/ i = Len(b) + 1
      BY <1>3, <3>1
    <3> QED BY <1>2, <1>3, <2>2, <3>1, <3>2
  <2> QED BY <2>1, <2>2
<1>5. lastSeq <= lastSeq'
  BY <1>0, <1>1
<1> QED BY <1>1, <1>4, <1>5 DEF AddsNewer

LEMMA ApplyEntryAdds ==
    ASSUME TypeInv, NEW w \in Writers, ApplyEntry(w)
    PROVE  AddsNewer
<1> DEFINE b == buf[w]
           r == b[1]
           c == Tail(b)
<1>0. /\ buf \in [Threads -> Seq(Record)] /\ w \in Threads /\ Writers \subseteq Threads
      /\ b \in Seq(Record) /\ b # << >> /\ lastSeq \in Nat
      /\ active.table \in [Keys -> Entry] /\ active \in [id : Nat, table : [Keys -> Entry]]
  BY DEF TypeInv, TypeOK, CallsInv, Threads, ApplyEntry, MemTable, Table
<1>1. lastSeq' = lastSeq /\ buf' = [buf EXCEPT ![w] = c]
  BY <1>0 DEF ApplyEntry, counters
<1>2. active'.table = [active.table EXCEPT ![r.key] = EntryOf(r)]
  BY <1>0 DEF ApplyEntry
<1>3. 1 \in 1..Len(b) /\ Len(c) = Len(b) - 1 /\ Len(b) \in Nat /\ \A i \in 1..Len(c) : c[i] = b[i + 1]
  BY <1>0
<1>4. \A i \in 1..Len(c) : i + 1 \in 1..Len(b)
  BY <1>3
<1>5. ASSUME NEW u \in Writers, NEW i \in 1..Len(buf'[u])
      PROVE  \E j \in 1..Len(buf[u]) : buf'[u][i] = buf[u][j]
  <2>1. CASE u # w
    <3>1. buf'[u] = buf[u]
      BY <1>0, <1>1, <2>1
    <3> QED BY <3>1
  <2>2. CASE u = w
    <3>1. buf'[u] = c
      BY <1>0, <1>1, <2>2
    <3> QED BY <1>3, <1>4, <2>2, <3>1
  <2> QED BY <2>1, <2>2
<1>6. ASSUME NEW k \in Keys
      PROVE  \/ active'.table[k] = active.table[k]
             \/ \E u \in Writers : \E i \in 1..Len(buf[u]) : active'.table[k] = EntryOf(buf[u][i])
  BY <1>0, <1>2, <1>3
<1>7. lastSeq <= lastSeq'
  BY <1>0, <1>1
<1> QED BY <1>5, <1>6, <1>7 DEF AddsNewer

LEMMA OtherStepsAdd ==
    ASSUME TypeInv, NEW t \in Threads,
           \/ AppendWal(t) \/ AppendFails(t) \/ MaybeScheduleFlush(t) \/ StartFlush(t)
           \/ NothingToFlush(t) \/ LogEdit(t) \/ ApplyEdit(t) \/ RewriteWal(t)
    PROVE  AddsNewer
<1>0. buf = [u \in Threads |-> buf[u]] /\ Writers \subseteq Threads /\ lastSeq \in Nat
  BY DEF TypeInv, TypeOK, Threads
<1>1. active' = active
  BY DEF AppendWal, AppendFails, MaybeScheduleFlush, StartFlush, NothingToFlush, LogEdit, ApplyEdit,
         RewriteWal, tables
<1>2. \E b \in {buf[t], << >>} : buf' = [buf EXCEPT ![t] = b]
  BY <1>0 DEF AppendWal, AppendFails, MaybeScheduleFlush, StartFlush, NothingToFlush, LogEdit,
              ApplyEdit, RewriteWal
<1>3. lastSeq <= lastSeq'
  <2>1. CASE ApplyEdit(t)
    <3>1. Present(old.table) # {}
      BY <2>1 DEF TypeInv, CallsInv, ApplyEdit
    <3>2. FlushEdit.last \in Nat /\ FlushEdit.last <= lastSeq
      BY <3>1, FlushEditType DEF Edit
    <3>3. {lastSeq, FlushEdit.last} \in SUBSET Nat /\ \A x \in {lastSeq, FlushEdit.last} : x <= lastSeq
      BY <1>0, <3>2
    <3>4. \A x \in {lastSeq, FlushEdit.last} : x <= Largest({lastSeq, FlushEdit.last})
      BY <1>0, <3>3, LargestIsIn
    <3>5. lastSeq' = Largest({lastSeq, FlushEdit.last})
      BY <2>1 DEF ApplyEdit
    <3> QED BY <3>4, <3>5
  <2>2. CASE ~ ApplyEdit(t)
    <3>1. lastSeq' = lastSeq
      BY <2>2 DEF AppendWal, AppendFails, MaybeScheduleFlush, StartFlush, NothingToFlush, LogEdit,
                  RewriteWal, counters
    <3> QED BY <1>0, <3>1
  <2> QED BY <2>1, <2>2
<1>4. ASSUME NEW w \in Writers, NEW i \in 1..Len(buf'[w])
      PROVE  \E j \in 1..Len(buf[w]) : buf'[w][i] = buf[w][j]
  <2>1. buf'[w] = buf[w] \/ buf'[w] = << >>
    BY <1>0, <1>2
  <2> QED BY <2>1
<1> QED BY <1>1, <1>3, <1>4 DEF AddsNewer

LEMMA RunAddsNewer ==
    ASSUME ~IoErrors, TypeInv, FlushProtocol, Run, imm' = imm
    PROVE  AddsNewer
<1>1. ASSUME NEW w \in Writers, Write(w) PROVE AddsNewer
  <2>1. w \in Threads
    BY DEF Threads
  <2> QED BY <1>1, <2>1, NextSequenceAdds, ApplyEntryAdds, OtherStepsAdd DEF Write
<1>2. ASSUME NEW t \in Threads, StartFlush(t) \/ FlushStep(t) PROVE AddsNewer
  <2>1. ~ FlushFails(t) /\ ~ ResetFails(t) /\ ~ RewriteFails(t)
    BY DEF FlushFails, ResetFails, RewriteFails
  <2>2. ~ Rotate(t)
    <3>1. imm \in Seq(MemTable) /\ active \in MemTable
      BY DEF TypeInv, TypeOK
    <3>2. Len(Append(imm, active)) = Len(imm) + 1 /\ Len(imm) \in Nat
      BY <3>1
    <3> QED BY <3>2 DEF Rotate
  <2>3. ~ ResetWal(t)
    <3> SUFFICES ASSUME ResetWal(t) PROVE FALSE
      OBVIOUS
    <3>1. imm = <<old>> /\ imm' = << >>
      BY OtherImmsOfOne DEF FlushProtocol, ResetWal
    <3> QED BY <3>1
  <2> QED BY <1>2, <2>1, <2>2, <2>3, OtherStepsAdd DEF FlushStep
<1> QED BY <1>1, <1>2 DEF Run

\* Such a step keeps what a scan has found older than all that is yet to come.
LEMMA RunKeepsFound ==
    ASSUME TypeInv, TypeOK', ReadsTypeOK, AddsNewer, RunObserved, imm' = imm,
           NEW s \in Readers, Underway(s), want[s] = Keys, NEW k \in Keys, NEW e \in Entry,
           Found(s, k, e)
    PROVE  Found(s, k, e)'
<1>0. /\ buf \in [Threads -> Seq(Record)] /\ Writers \subseteq Threads
      /\ lastSeq \in Nat /\ e.seq \in Nat /\ lastSeq' \in Nat
  <2>1. e.seq \in Nat /\ lastSeq \in Nat
    BY DEF TypeInv, TypeOK, Entry
  <2>2. lastSeq' \in Nat
    BY DEF TypeOK
  <2> QED BY <2>1, <2>2 DEF TypeInv, TypeOK, Threads
<1>1. rpc' = rpc /\ seen'[s][k] = seen[s][k] \cup {Visible(k)'}
  BY DEF RunObserved
<1>2. Newest(imm, k)' = Newest(imm, k)
  BY DEF Newest, HitAt
<1>3. e.seq <= lastSeq'
  BY <1>0 DEF Found, AddsNewer
<1>4. \A w \in Writers : \A i \in 1..Len(buf[w]) : e.seq < buf[w][i].seq /\ buf[w][i].seq \in Nat
  <2> TAKE w \in Writers
  <2> TAKE i \in 1..Len(buf[w])
  <2>1. buf[w][i].seq \in 1..lastSeq
    BY <1>0 DEF TypeInv, NumbersInv
  <2> QED BY <1>0, <2>1 DEF Found
<1>5. \A w \in Writers : \A i \in 1..Len(buf'[w]) : e.seq < buf'[w][i].seq
  <2> SUFFICES ASSUME NEW w \in Writers, NEW i \in 1..Len(buf'[w]) PROVE e.seq < buf'[w][i].seq
    OBVIOUS
  <2>1. CASE \E j \in 1..Len(buf[w]) : buf'[w][i] = buf[w][j]
    BY <1>4, <2>1
  <2>2. CASE buf'[w][i].seq = lastSeq + 1
    <3>1. e.seq <= lastSeq
      BY DEF Found
    <3> QED BY <1>0, <2>2, <3>1
  <2> QED BY <2>1, <2>2 DEF AddsNewer
<1>6. \/ active'.table[k] = active.table[k]
      \/ active'.table[k] # NoEntry /\ e.seq < active'.table[k].seq
  <2>1. CASE \E w \in Writers : \E i \in 1..Len(buf[w]) : active'.table[k] = EntryOf(buf[w][i])
    <3>1. PICK w \in Writers : \E i \in 1..Len(buf[w]) : active'.table[k] = EntryOf(buf[w][i])
      BY <2>1
    <3>a. PICK i \in 1..Len(buf[w]) : active'.table[k] = EntryOf(buf[w][i])
      BY <3>1
    <3>2. e.seq < buf[w][i].seq /\ buf[w][i].seq \in Nat /\ active'.table[k].seq = buf[w][i].seq
      BY <1>4, <3>a DEF EntryOf
    <3>3. active'.table[k].seq # 0
      BY <1>0, <3>2
    <3>4. active'.table[k] # NoEntry
      BY <3>3 DEF NoEntry
    <3> QED BY <3>2, <3>4
  <2> QED BY <2>1 DEF AddsNewer
<1>7. Visible(k)' \in seen'[s][k]
  BY <1>1
<1> QED BY <1>1, <1>2, <1>3, <1>5, <1>6, <1>7 DEF Found

\* What a scan starts from is what a get finds when it gets to the tables.
LEMMA TablesFound ==
    ASSUME TypeInv, LocksInv, FlushProtocol, UniqueInv, OrderInv, NEW s \in Scanners, ReadsTypeOK,
           ScanTables(s), NEW k \in Keys, NEW x, x = got'[s][k]
    PROVE  Found(s, k, x)'
<1> DEFINE e == Newest(l0, k)
<1>0. /\ l0 \in Seq(Edit) /\ lastSeq \in Nat /\ buf \in [Threads -> Seq(Record)]
      /\ Writers \subseteq Threads
  BY DEF TypeInv, TypeOK, Threads
<1>1. e = NoEntry \/ \E u \in TablesOf(l0) : e = u[k]
  <2>1. \A i \in 1..Len(l0) : l0[i].table \in TablesOf(l0)
    BY DEF TablesOf
  <2> HIDE DEF e
  <2>2. e = NoEntry \/ \E i \in 1..Len(l0) : e = l0[i].table[k]
    BY <1>0, NewestIs DEF e
  <2> QED BY <2>1, <2>2
<1>2. TablesOf(l0) \subseteq Stored
  BY DEF Stored
<1> HIDE DEF e
<1>3. NoEntry.seq = 0
  BY DEF NoEntry
<1>4. e = NoEntry \/ e.seq \in 1..lastSeq
  BY <1>1, <1>2, AllNumbered DEF Numbered
<1>5. e.seq <= lastSeq /\ (e.seq = 0 => e = NoEntry)
  BY <1>0, <1>3, <1>4
<1>6. ASSUME NEW y, y[k] # NoEntry, Numbered(y), Above(y, TablesOf(l0)) PROVE e.seq < y[k].seq
  <2>1. y[k].seq \in 1..lastSeq
    BY <1>6 DEF Numbered
  <2>2. CASE e = NoEntry
    BY <1>0, <1>3, <2>1, <2>2
  <2>3. CASE \E u \in TablesOf(l0) : e = u[k]
    BY <1>6, <2>3 DEF Above
  <2> QED BY <1>1, <2>2, <2>3
<1>7. active.table[k] # NoEntry => e.seq < active.table[k].seq
  <2>1. Above(active.table, TablesOf(l0)) /\ Numbered(active.table)
    BY <1>2, AllNumbered DEF OrderInv, Above
  <2> QED BY <1>6, <2>1
<1>8. ASSUME NEW w \in Writers, NEW i \in 1..Len(buf[w]) PROVE e.seq < buf[w][i].seq
  <2>1. Below(Stored \cup {active.table}, buf[w][i].seq)
    BY DEF OrderInv, Queued
  <2>2. buf[w][i].seq \in 1..lastSeq
    BY <1>0 DEF TypeInv, NumbersInv
  <2>3. CASE e = NoEntry
    BY <1>0, <1>3, <2>2, <2>3
  <2>4. CASE \E u \in TablesOf(l0) : e = u[k]
    BY <1>2, <2>1, <2>4 DEF Below
  <2> QED BY <1>1, <2>3, <2>4
<1>9. ASSUME Newest(imm, k) # NoEntry PROVE e = Newest(imm, k) \/ e.seq < Newest(imm, k).seq
  <2>1. imm # << >>
    BY <1>9, NewestOfNone
  <2>2. PICK t \in Threads : pc[t] \in {"build", "edit", "reset"} /\ imm = <<old>>
    BY <2>1 DEF FlushProtocol
  <2>3. Newest(imm, k) = old.table[k]
    BY <2>2, NewestOfOne
  <2>4. CASE pc[t] = "reset"
    <3>1. l0 # << >> /\ l0[Len(l0)].table = old.table
      BY <2>4 DEF FlushProtocol
    <3>2. l0[Len(l0)].table[k] # NoEntry
      BY <1>9, <2>3, <3>1
    <3>3. e = old.table[k]
      BY <1>0, <3>1, <3>2, NewestIsLast DEF e
    <3> QED BY <2>3, <3>3
  <2>5. CASE pc[t] \in {"build", "edit"}
    <3>1. Above(old.table, TablesOf(l0)) /\ Numbered(old.table)
      BY <2>5, AllNumbered DEF OrderInv, FrozenAbove
    <3>2. e.seq < old.table[k].seq
      BY <1>6, <1>9, <2>3, <3>1
    <3> QED BY <2>3, <3>2
  <2> QED BY <2>2, <2>4, <2>5
<1>10. active.table[k] = NoEntry /\ Newest(imm, k) = NoEntry => e = Visible(k)
  BY DEF Visible, Lookup, e
<1>11. s \in Readers /\ UNCHANGED <<active, imm, l0, lastSeq, buf>>
         /\ seen'[s][k] = {Visible(k)} /\ rpc'[s] = "imm" /\ x = Merge(EmptyTable, l0)[k]
  BY DEF ScanTables, ReadsTypeOK, Readers, vars
<1>12. x = e
  <2>1. \A i \in 1..Len(l0) : Numbered(l0[i].table)
    <3>1. \A i \in 1..Len(l0) : l0[i].table \in Stored
      BY DEF Stored, TablesOf
    <3> QED BY <3>1, AllNumbered
  <2>2. Stacked(l0)
    BY DEF OrderInv
  <2>3. Merge(EmptyTable, l0)[k] = Newest(l0, k)
    BY <1>0, <2>1, <2>2, MergeOfStack
  <2> QED BY <1>11, <2>3 DEF e
<1>13. Visible(k)' = Visible(k) /\ Newest(imm, k)' = Newest(imm, k)
  BY <1>11 DEF Visible, Lookup, Newest, HitAt
<1>14. \A w \in Writers : \A i \in 1..Len(buf'[w]) : x.seq < buf'[w][i].seq
  BY <1>8, <1>11, <1>12
<1> QED BY <1>5, <1>7, <1>9, <1>10, <1>11, <1>12, <1>13, <1>14 DEF Found

\* What a scan has must be older than all of the active memtable and the buffers hold, once
\* it has looked at the tables and the frozen memtable.
LEMMA FoundAtActive ==
    ASSUME NEW s, NEW k, NEW e, UNCHANGED <<active, lastSeq, buf>>, rpc'[s] = "active",
           Visible(k)' \in seen'[s][k], e.seq <= lastSeq, e.seq = 0 => e = NoEntry,
           active.table[k] # NoEntry => e.seq < active.table[k].seq,
           \A w \in Writers : \A i \in 1..Len(buf[w]) : e.seq < buf[w][i].seq,
           active.table[k] = NoEntry => e \in seen'[s][k]
    PROVE  Found(s, k, e)'
<1>1. \A w \in Writers : \A i \in 1..Len(buf'[w]) : e.seq < buf'[w][i].seq
  OBVIOUS
<1> QED BY <1>1 DEF Found

\* Nor does it lose anything when it has looked at the frozen memtable.
LEMMA ImmFound ==
    ASSUME TypeInv, ReadsTypeOK, FlushProtocol, UniqueInv, OrderInv, NEW s \in Scanners, ScanImm(s),
           NEW k \in Keys, Found(s, k, got[s][k]), NEW x, x = got'[s][k]
    PROVE  Found(s, k, x)'
<1> DEFINE e == got[s][k]
           m == Newest(imm, k)
<1>0. /\ s \in Readers /\ got[s] \in Table /\ e \in Entry /\ e.seq \in Nat /\ lastSeq \in Nat
  BY DEF Readers, ReadsTypeOK, TypeInv, TypeOK, Table, Entry
<1>1. /\ rpc[s] = "imm" /\ rpc'[s] = "active" /\ seen' = seen
      /\ x = Merge(got[s], imm)[k]
      /\ UNCHANGED <<active, imm, l0, lastSeq, buf>>
  BY <1>0 DEF ScanImm, ReadsTypeOK, vars
<1>2. imm = << >> \/ imm = <<old>>
  BY DEF FlushProtocol
<1>3. old.table \in Table
  BY DEF TypeInv, TypeOK, MemTable
<1>4. e.seq = 0 => e = NoEntry
  BY DEF Found
<1>5. m = NoEntry => x = e
  <2> SUFFICES ASSUME m = NoEntry PROVE x = e
    OBVIOUS
  <2>1. imm = << >> \/ \E t : imm = <<t>> /\ t.table[k] = NoEntry
    <3>1. imm = <<old>> => old.table[k] = NoEntry
      BY NewestOfOne
    <3> QED BY <1>2, <3>1
  <2> QED BY <1>0, <1>1, <1>4, <2>1, MergeKeeps
<1>6. m # NoEntry => x = m /\ imm = <<old>> /\ m = old.table[k]
  <2> SUFFICES ASSUME m # NoEntry PROVE x = m /\ imm = <<old>> /\ m = old.table[k]
    OBVIOUS
  <2>1. imm = <<old>> /\ m = old.table[k]
    BY <1>2, NewestOfNone, NewestOfOne
  <2>2. e = m \/ e.seq < m.seq
    BY <1>1 DEF Found
  <2>3. Merge(got[s], <<old>>)[k] = old.table[k]
    BY <1>0, <1>3, <2>1, <2>2, MergeTakes
  <2> QED BY <1>1, <2>1, <2>3
<1>7. Visible(k)' \in seen'[s][k]
  <2>1. Visible(k)' = Visible(k)
    BY <1>1 DEF Visible, Lookup, Newest, HitAt
  <2> QED BY <1>1, <2>1 DEF Found
<1>8. CASE m = NoEntry
  <2>1. /\ e.seq <= lastSeq
        /\ active.table[k] # NoEntry => e.seq < active.table[k].seq
        /\ \A w \in Writers : \A i \in 1..Len(buf[w]) : e.seq < buf[w][i].seq
        /\ active.table[k] = NoEntry => e \in seen[s][k]
    BY <1>1, <1>8 DEF Found
  <2> HIDE DEF e, m
  <2>2. x = e
    BY <1>5, <1>8
  <2> QED BY <1>1, <1>4, <1>7, <2>1, <2>2, FoundAtActive
<1>9. CASE m # NoEntry
  <2>1. x = m /\ imm = <<old>> /\ m = old.table[k]
    BY <1>6, <1>9
  <2>2. old.table \in Stored
    BY <2>1, TablesOfOne DEF Stored
  <2>3. m.seq \in 1..lastSeq
    BY <1>9, <2>1, <2>2, AllNumbered DEF Numbered
  <2>4. active.table[k] # NoEntry => m.seq < active.table[k].seq
    BY <2>1, <2>2 DEF OrderInv, Above
  <2>5. \A w \in Writers : \A i \in 1..Len(buf[w]) : m.seq < buf[w][i].seq
    <3> TAKE w \in Writers
    <3> TAKE i \in 1..Len(buf[w])
    <3>1. Below(Stored \cup {active.table}, buf[w][i].seq)
      BY DEF OrderInv, Queued
    <3> QED BY <2>1, <2>2, <3>1 DEF Below
  <2>6. active.table[k] = NoEntry => m \in seen'[s][k]
    <3>1. active.table[k] = NoEntry => Visible(k) = m
      BY <1>9 DEF Visible, Lookup
    <3>2. Visible(k) \in seen[s][k]
      BY DEF Found
    <3> QED BY <1>1, <3>1, <3>2
  <2>7. m.seq <= lastSeq /\ m.seq # 0
    BY <1>0, <2>3
  <2> HIDE DEF e, m
  <2> QED BY <1>1, <1>7, <2>1, <2>4, <2>5, <2>6, <2>7, FoundAtActive
<1> QED BY <1>8, <1>9

\* With the active memtable it has what a get found.
LEMMA ActiveFound ==
    ASSUME TypeInv, ReadsTypeOK, NEW s \in Scanners, ScanActive(s), NEW k \in Keys,
           Found(s, k, got[s][k])
    PROVE  got'[s][k] \in seen'[s][k]
<1> DEFINE e == got[s][k]
<1>0. s \in Readers /\ got[s] \in Table /\ e.seq \in Nat
  BY DEF Readers, ReadsTypeOK, Table, Entry
<1>1. rpc[s] = "active" /\ seen' = seen /\ got'[s] = Merge(got[s], <<active>>)
  BY <1>0 DEF ScanActive, ReadsTypeOK
<1>2. CASE active.table[k] = NoEntry
  <2>1. e \in seen[s][k]
    BY <1>1, <1>2 DEF Found
  <2>2. got'[s][k] = e
    BY <1>0, <1>1, <1>2, MergeKeeps DEF Found
  <2> QED BY <1>1, <2>1, <2>2
<1>3. CASE active.table[k] # NoEntry
  <2>1. active.table \in Table
    BY DEF TypeInv, TypeOK, MemTable
  <2>2. e.seq < active.table[k].seq
    BY <1>3 DEF Found
  <2>3. got'[s][k] = active.table[k]
    BY <1>0, <1>1, <2>1, <2>2, MergeTakes
  <2>4. Visible(k) = active.table[k]
    BY <1>3 DEF Visible, Lookup
  <2> QED BY <1>1, <2>3, <2>4 DEF Found
<1> QED BY <1>2, <1>3
\* A step that leaves a scan and the engine alone leaves its invariant alone.
LEMMA ScanUntouched ==
    ASSUME NEW s, ScanInv(s), UNCHANGED <<active, imm, l0, lastSeq, buf>>,
           rpc'[s] = rpc[s], want'[s] = want[s], got'[s] = got[s], seen'[s] = seen[s],
           swapped'[s] = swapped[s]
    PROVE  ScanInv(s)'
<1>1. ASSUME NEW k \in Keys, NEW e, Found(s, k, e) PROVE Found(s, k, e)'
  <2>1. Visible(k)' = Visible(k) /\ Newest(imm, k)' = Newest(imm, k)
    BY DEF Visible, Lookup, Newest, HitAt
  <2> QED BY <1>1, <2>1 DEF Found
<1>2. ~swapped[s] /\ Underway(s) => \A k \in Keys : \A e : e = got[s][k] => Found(s, k, e)'
  BY <1>1 DEF ScanInv
<1>3. Underway(s)' = Underway(s)
  BY DEF Underway
<1>4. (~swapped[s] /\ Underway(s) => \A k \in Keys : Found(s, k, got[s][k]))'
  BY <1>2, <1>3 DEF Found
<1>5. (Underway(s) => rpc[s] \in {"imm", "active"} /\ want[s] = Keys)'
  BY <1>3 DEF ScanInv
<1>6. (~swapped[s] /\ rpc[s] = "done" => \A k \in Keys : got[s][k] \in seen[s][k])'
  BY DEF ScanInv
<1> QED BY <1>4, <1>5, <1>6 DEF ScanInv

LEMMA ScanStepKeeps ==
    ASSUME TypeInv, LocksInv, FlushProtocol, UniqueInv, OrderInv, ReadsTypeOK, NEW s \in Scanners,
           ScanInv(s), ScanTables(s) \/ ScanImm(s) \/ ScanActive(s)
    PROVE  ScanInv(s)'
<1>0. s \in Readers
  BY DEF Readers
<1>1. CASE ScanTables(s)
  <2>1. rpc'[s] = "imm" /\ want'[s] = Keys
    BY <1>0, <1>1 DEF ScanTables, ReadsTypeOK
  <2>2. \A k \in Keys : \A x : x = got'[s][k] => Found(s, k, x)'
    BY <1>1, TablesFound
  <2>3. \A k \in Keys : Found(s, k, got[s][k])'
    BY <2>2 DEF Found
  <2> QED BY <2>1, <2>3 DEF ScanInv, Underway
<1>2. CASE ScanImm(s)
  <2>1. rpc[s] = "imm" /\ rpc'[s] = "active" /\ want'[s] = want[s] /\ swapped'[s] = swapped[s]
    BY <1>0, <1>2 DEF ScanImm, ReadsTypeOK
  <2>2. want[s] = Keys /\ (~swapped[s] => \A k \in Keys : Found(s, k, got[s][k]))
    BY <2>1 DEF ScanInv, Underway
  <2>3. ~swapped[s] => \A k \in Keys : \A x : x = got'[s][k] => Found(s, k, x)'
    BY <1>2, <2>2, ImmFound
  <2>4. ~swapped[s] => \A k \in Keys : Found(s, k, got[s][k])'
    BY <2>3 DEF Found
  <2> QED BY <2>1, <2>2, <2>4 DEF ScanInv, Underway
<1>3. CASE ScanActive(s)
  <2>1. rpc[s] = "active" /\ rpc'[s] = "done" /\ swapped'[s] = swapped[s]
    BY <1>0, <1>3 DEF ScanActive, ReadsTypeOK
  <2>2. ~swapped[s] => \A k \in Keys : Found(s, k, got[s][k])
    BY <2>1 DEF ScanInv, Underway
  <2>3. ~swapped[s] => \A k \in Keys : got'[s][k] \in seen'[s][k]
    BY <1>3, <2>2, ActiveFound
  <2> QED BY <2>1, <2>3 DEF ScanInv, Underway
<1> QED BY <1>1, <1>2, <1>3

LEMMA RunKeepsScan ==
    ASSUME ~IoErrors, TypeInv, TypeOK', FlushProtocol, ReadsTypeOK, RunObserved, NEW s \in Scanners,
           ScanInv(s)
    PROVE  ScanInv(s)'
<1>0. s \in Readers
  BY DEF Readers
<1>1. /\ Run /\ UNCHANGED <<rpc, want, got>>
      /\ swapped'[s] = (swapped[s] \/ (Underway(s) /\ imm' # imm))
  BY <1>0 DEF RunObserved
<1>2. Underway(s)' = Underway(s)
  BY <1>1 DEF Underway
<1>3. ~swapped'[s] => ~swapped[s] /\ (Underway(s) => imm' = imm)
  BY <1>1
<1>4. ASSUME ~swapped'[s], Underway(s) PROVE \A k \in Keys : Found(s, k, got[s][k])'
  <2>1. AddsNewer /\ imm' = imm /\ want[s] = Keys
    BY <1>1, <1>3, <1>4, RunAddsNewer DEF ScanInv
  <2>2. ASSUME NEW k \in Keys, NEW e, e = got[s][k] PROVE Found(s, k, e)'
    <3>1. Found(s, k, e) /\ e \in Entry
      BY <1>0, <1>3, <1>4, <2>2 DEF ScanInv, ReadsTypeOK, Table
    <3> QED BY <1>0, <1>4, <2>1, <3>1, RunKeepsFound
  <2>3. \A k \in Keys : \A e : e = got[s][k] => Found(s, k, e)'
    BY <2>2
  <2> QED BY <1>1, <2>3 DEF Found
<1>5. ~swapped'[s] /\ rpc'[s] = "done" => \A k \in Keys : got'[s][k] \in seen'[s][k]
  <2>1. \A k \in Keys : seen[s][k] \subseteq seen'[s][k]
    BY <1>0 DEF RunObserved
  <2>2. ~swapped'[s] /\ rpc'[s] = "done" => \A k \in Keys : got[s][k] \in seen[s][k]
    BY <1>1, <1>3 DEF ScanInv
  <2> QED BY <1>1, <2>1, <2>2
<1>6. Underway(s) => rpc[s] \in {"imm", "active"} /\ want[s] = Keys
  BY DEF ScanInv
<1> QED BY <1>1, <1>2, <1>4, <1>5, <1>6 DEF ScanInv

ScansInv == \A s \in Scanners : ScanInv(s)

LEMMA ReadsNextScans ==
    ASSUME ~IoErrors, TypeInv, TypeOK', LocksInv, FlushProtocol, UniqueInv, OrderInv, ReadsTypeOK,
           ScansInv, [ReadsNext]_allVars
    PROVE  ScansInv'
<1>1. CASE RunObserved
  BY <1>1, RunKeepsScan DEF ScansInv
<1>2. CASE CrashObserved
  BY <1>2 DEF CrashObserved, ScansInv, ScanInv, Underway, Readers
<1>3. CASE UNCHANGED allVars
  <2>1. UNCHANGED <<active, imm, l0, lastSeq, buf, rpc, want, got, seen, swapped>>
    BY <1>3 DEF allVars, vars, readVars
  <2> QED BY <2>1, ScanUntouched DEF ScansInv
<1>4. ASSUME NEW r \in Readers,
             \/ GetImm(r) \/ GetTables(r) \/ \E k \in Keys : GetActive(r, k)
             \/ ScanTables(r) \/ ScanImm(r) \/ ScanActive(r),
             NEW s \in Scanners, s # r
      PROVE  ScanInv(s)'
  <2>1. s \in Readers /\ ScanInv(s)
    BY DEF ScansInv, Readers
  <2>2. UNCHANGED <<active, imm, l0, lastSeq, buf>>
    BY <1>4 DEF GetImm, GetTables, GetActive, ScanTables, ScanImm, ScanActive, vars
  <2>3. rpc'[s] = rpc[s] /\ want'[s] = want[s] /\ got'[s] = got[s] /\ seen'[s] = seen[s]
          /\ swapped'[s] = swapped[s]
    BY <1>4, <2>1 DEF ReadsTypeOK, GetImm, GetTables, GetActive, ScanTables, ScanImm, ScanActive
  <2> QED BY <2>1, <2>2, <2>3, ScanUntouched
<1>5. ASSUME NEW g \in Getters, GetImm(g) \/ GetTables(g) \/ \E k \in Keys : GetActive(g, k)
      PROVE  ScansInv'
  <2>1. g \in Readers /\ \A s \in Scanners : s # g
    BY ReadersDistinct DEF Readers
  <2> QED BY <1>4, <1>5, <2>1 DEF ScansInv
<1>6. ASSUME NEW s \in Scanners, ScanTables(s) \/ ScanImm(s) \/ ScanActive(s) PROVE ScansInv'
  <2>1. s \in Readers
    BY DEF Readers
  <2>2. ScanInv(s)'
    BY <1>6, ScanStepKeeps DEF ScansInv
  <2> QED BY <1>4, <1>6, <2>1, <2>2 DEF ScansInv
<1> QED BY <1>1, <1>2, <1>3, <1>5, <1>6 DEF ReadsNext

\* A scan that no rotation and no retirement of a memtable overtakes returns for every key
\* what it held at some point of the scan (engine.rs:414-494), for one writer, any number of
\* flushers and readers, whatever crashes: it looks from the oldest source to the newest and
\* keeps the highest sequence number, so it needs each source to be newer than those below
\* it.  A second writer may insert an older number after a newer one.
THEOREM ScanIsExactBetweenFlushes ==
    OneWriter /\ ~IoErrors => (ReadsSpec => []ScanExactBetweenFlushes)
<1> SUFFICES ASSUME OneWriter, ~IoErrors PROVE ReadsSpec => []ScanExactBetweenFlushes
  OBVIOUS
<1>1. Spec => []UniqueInv
  <2>1. TypeInv /\ FrozenInv /\ UniqueInv /\ [Next]_vars => UniqueInv'
    BY NextUnique
  <2> QED BY <2>1, InitUnique, InductiveInvariant, PTL DEF Spec
<1>2. Spec => [](TypeInv /\ LocksInv /\ FrozenInv /\ FlushProtocol)
  BY InductiveInvariant, FlushKeepsEntries, PTL
<1>3. Spec => []OrderInv
  <2>1. TypeInv /\ LocksInv /\ FrozenInv /\ FlushProtocol /\ UniqueInv /\ OrderInv /\ [Next]_vars
          => OrderInv'
    BY NextOrder
  <2> QED BY <1>1, <1>2, <2>1, InitOrder, PTL DEF Spec
<1>4. ReadsInit => ScansInv
  BY DEF ReadsInit, ScansInv, ScanInv, Underway, Readers
<1>5. TypeInv /\ TypeOK' /\ LocksInv /\ FlushProtocol /\ UniqueInv /\ OrderInv /\ ReadsTypeOK
        /\ ScansInv /\ [ReadsNext]_allVars => ScansInv'
  BY ReadsNextScans
<1>6. ReadsSpec => []ReadsTypeOK
  BY GetIsLinearizable, PTL
<1>7. TypeInv => TypeOK
  BY DEF TypeInv
<1>8. ScansInv => ScanExactBetweenFlushes
  BY DEF ScansInv, ScanInv, ScanExactBetweenFlushes
<1> QED BY <1>1, <1>2, <1>3, <1>4, <1>5, <1>6, <1>7, <1>8, ReadsSimulate, PTL DEF ReadsSpec

=============================================================================
