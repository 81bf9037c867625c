------------------------------- MODULE Engine -------------------------------
(***************************************************************************)
(* The write path, the flush and the recovery of FlashStore                *)
(* (src/src/engine.rs with wal/mod.rs, memtable/mod.rs, manifest/mod.rs):  *)
(* threads that put, delete and write batches through the write-ahead log  *)
(* into the active memtable, the flush that turns a memtable into a Level  *)
(* 0 table and rewrites the log, and the reopening after a crash.          *)
(*                                                                         *)
(* An atomic step is what the code does between two points at which        *)
(* another thread can see or change the state: one fetch_add, one locked   *)
(* append, one skip-list insert, the section under the memtable's write    *)
(* lock, one manifest append, one version swap, the log's truncation and   *)
(* the log's rewrite.  Compaction is the subject of module Compaction.     *)
(***************************************************************************)
EXTENDS Integers, Sequences, FiniteSets

CONSTANTS
    Keys, Values,
    Tombstone,      \* the value_type of a deletion (not a member of Values)
    Writers,        \* threads that write, and that may call flush() too
    Flushers,       \* threads that only call flush()
    Free,           \* the holder of a lock nobody holds
    Torn,           \* what a reader of a log makes of a half-written record
    MemtableSize,   \* options.memtable_size, counted in entries
    MaxSeq,         \* bound: sequence numbers handed out
    MaxBatch,       \* bound: operations of a WriteBatch
    MaxCrashes,     \* bound: crashes
    IoErrors,       \* whether a write to a file may fail and return an error
    TornWrites      \* whether a crash may leave part of a write in a file

Threads == Writers \cup Flushers
Contents == Values \cup {Tombstone}

ASSUME ThreadsDistinct == /\ Writers \cap Flushers = {}
                          /\ Free \notin Threads
ASSUME TombstoneIsNoValue == Tombstone \notin Values
ASSUME BoundsAreNumbers == /\ MemtableSize \in Nat \ {0}
                           /\ MaxSeq \in Nat
                           /\ MaxBatch \in Nat \ {0}
                           /\ MaxCrashes \in Nat
ASSUME KeysAreFinite == IsFiniteSet(Keys)
ASSUME FaultsAreBoolean == IoErrors \in BOOLEAN /\ TornWrites \in BOOLEAN

VARIABLES
    \* files
    wal,        \* records of current.wal, and Torn where a write was cut short
    manifest,   \* edits of MANIFEST, and Torn
    \* memory of the process, lost in a crash
    active,     \* self.memtable
    imm,        \* self.imm_memtables, oldest first
    l0,         \* tables of the current version, oldest first
    lastSeq,    \* version_set.last_sequence
    nextId,     \* memtable_id_seq
    flushLock, walLock,   \* their holders; walLock also stands for imm_memtables.write
    pc,         \* where each thread is
    buf,        \* records of each thread's call that are not in a memtable yet
    old,        \* old_mem of the flush under way
    rest,       \* remaining_records of the flush under way
    crashes     \* bound: crashes so far

files == <<wal, manifest>>
tables == <<active, imm, l0>>
counters == <<lastSeq, nextId>>
locks == <<flushLock, walLock>>
flushVars == <<old, rest>>
vars == <<wal, manifest, active, imm, l0, lastSeq, nextId, flushLock, walLock,
          pc, buf, old, rest, crashes>>

-----------------------------------------------------------------------------
(* Entries, tables and logs                                                *)

Entry == [seq : Nat, val : Contents]
NoEntry == [seq |-> 0, val |-> Tombstone]       \* the key is not in the table
Table == [Keys -> Entry]
EmptyTable == [k \in Keys |-> NoEntry]
MemTable == [id : Nat, table : Table]
Record == [key : Keys, seq : Nat, val : Contents]
Edit == [table : Table, last : Nat]     \* add_file(0, ..) and last_sequence

ASSUME TornIsNoRecord == Torn \notin Record \cup Edit

EntryOf(r) == [seq |-> r.seq, val |-> r.val]
Present(table) == {k \in Keys : table[k] # NoEntry}

\* The records of a table (WalRecord::from each entry of the iterator).
RecordsOf(table) ==
    {[key |-> k, seq |-> table[k].seq, val |-> table[k].val] : k \in Present(table)}

Largest(S) == CHOOSE n \in S : \A m \in S : m <= n

\* WalReader::read_all and Manifest::read_all_edits stop at the first record
\* that is cut short or corrupt.
Readable(log) ==
    SubSeq(log, 1, Largest({n \in 0..Len(log) : \A i \in 1..n : log[i] # Torn}))

\* edit.last_sequence over the edits of a manifest.
FlushedUpTo(edits) == Largest({0} \cup {edits[i].last : i \in 1..Len(edits)})

-----------------------------------------------------------------------------
(* Lookups, newest source first                                            *)

\* The newest of the tables ts (newest last) that has an entry for k is ts[i].
HitAt(ts, i, k) ==
    /\ ts[i].table[k] # NoEntry
    /\ \A j \in (i + 1)..Len(ts) : ts[j].table[k] = NoEntry

Newest(ts, k) ==
    IF \E i \in 1..Len(ts) : HitAt(ts, i, k)
      THEN ts[CHOOSE i \in 1..Len(ts) : HitAt(ts, i, k)].table[k]
      ELSE NoEntry

\* What a get(k) that ran alone would find, a tombstone included.
Lookup(mem, imms, ssts, k) ==
    IF mem.table[k] # NoEntry THEN mem.table[k]
    ELSE IF Newest(imms, k) # NoEntry THEN Newest(imms, k)
    ELSE Newest(ssts, k)

Visible(k) == Lookup(active, imm, l0, k)

-----------------------------------------------------------------------------
(* What open() makes of the two files                                      *)

RecoveredTables(edits) == Readable(edits)

\* Faulty: the first record of a key wins.
ReplayedFirst(log, flushed, k) ==
    LET I == {i \in 1..Len(log) : log[i].key = k /\ log[i].seq > flushed}
    IN  IF I = {} THEN NoEntry ELSE EntryOf(log[CHOOSE i \in I : \A j \in I : i <= j])

\* Records of the log that open() puts into the memtable: those above the
\* manifest's last_sequence, the last one of a key winning.
Replayed(log, flushed, k) ==
    LET I == {i \in 1..Len(log) : log[i].key = k /\ log[i].seq > flushed}
    IN  IF I = {} THEN NoEntry ELSE EntryOf(log[Largest(I)])

RecoveredMemTable(log, flushed) ==
    [id |-> 0, table |-> [k \in Keys |-> Replayed(log, flushed, k)]]

\* Faulty: numbering resumes from the manifest alone.
RecoveredSeqOfManifest(log, flushed) == flushed

\* Faulty: numbering resumes one below the highest number, below 0 in a new store.
RecoveredSeqOffByOne(log, flushed) ==
    Largest({flushed} \cup {log[i].seq : i \in 1..Len(log)}) - 1

RecoveredSeq(log, flushed) ==
    Largest({flushed} \cup {log[i].seq : i \in 1..Len(log)})

\* What a get(k) would find if the process died now and the store were reopened.
Recoverable(k) ==
    LET ssts == RecoveredTables(manifest)
    IN  Lookup(RecoveredMemTable(Readable(wal), FlushedUpTo(ssts)), << >>, ssts, k)

-----------------------------------------------------------------------------
(* Parts of a write that a failure can leave in a file                     *)

\* A write of the records rs cut short: some whole records, and possibly a
\* fragment of the next one.
CutShort(rs) ==
    UNION {{SubSeq(rs, 1, n), Append(SubSeq(rs, 1, n), Torn)} : n \in 0..(Len(rs) - 1)}

\* The records R in the order of sort_by_key(|r| r.seq_no).
InSeqOrder(R) ==
    {s \in [1..Cardinality(R) -> R] :
        \A i, j \in 1..Cardinality(R) : i < j => s[i].seq <= s[j].seq /\ s[i] # s[j]}

\* What a crash now may add to the log: part of the write some thread is making.
TornTails ==
    {<< >>} \cup
    (IF TornWrites
       THEN (UNION {CutShort(buf[w]) : w \in {u \in Writers : pc[u] = "seq" /\ walLock = Free}})
            \cup (UNION {UNION {CutShort(s) : s \in InSeqOrder(rest)} :
                            t \in {u \in Threads : pc[u] = "rewrite"}})
       ELSE {})

TornEdits ==
    {<< >>} \cup
    (IF TornWrites /\ \E t \in Threads : pc[t] = "build" THEN {<<Torn>>} ELSE {})

-----------------------------------------------------------------------------
Init ==
    /\ wal = << >>
    /\ manifest = << >>
    /\ active = [id |-> 0, table |-> EmptyTable]
    /\ imm = << >>
    /\ l0 = << >>
    /\ lastSeq = 0
    /\ nextId = 1
    /\ flushLock = Free
    /\ walLock = Free
    /\ pc = [t \in Threads |-> "idle"]
    /\ buf = [t \in Threads |-> << >>]
    /\ old = [id |-> 0, table |-> EmptyTable]
    /\ rest = {}
    /\ crashes = 0

-----------------------------------------------------------------------------
(* put, delete, write_batch                                                *)

\* The call draws the sequence number of its next operation: put(k, v), or
\* delete(k) when v is Tombstone; a batch draws one number per operation.
NextSequence(w, k, v) ==
    /\ pc[w] \in {"idle", "seq"}
    /\ Len(buf[w]) < MaxBatch
    /\ lastSeq < MaxSeq
    /\ lastSeq' = lastSeq + 1
    /\ buf' = [buf EXCEPT ![w] = Append(@, [key |-> k, seq |-> lastSeq + 1, val |-> v])]
    /\ pc' = [pc EXCEPT ![w] = "seq"]
    /\ UNCHANGED <<files, tables, nextId, locks, flushVars, crashes>>

\* self.wal.lock().append(&record)? or append_batch(&records)?
AppendWal(w) ==
    /\ pc[w] = "seq"
    /\ walLock = Free
    /\ wal' = wal \o buf[w]
    /\ pc' = [pc EXCEPT ![w] = "apply"]
    /\ UNCHANGED <<manifest, tables, counters, locks, buf, flushVars, crashes>>

\* The append returns an error: nothing, a part or all of it is in the file,
\* and the call returns without touching the memtable.
AppendFails(w) ==
    /\ IoErrors
    /\ pc[w] = "seq"
    /\ walLock = Free
    /\ \E tail \in {<< >>, buf[w]} \cup CutShort(buf[w]) : wal' = wal \o tail
    /\ pc' = [pc EXCEPT ![w] = "idle"]
    /\ buf' = [buf EXCEPT ![w] = << >>]
    /\ UNCHANGED <<manifest, tables, counters, locks, flushVars, crashes>>

\* One insert into the active memtable, overwriting the key's entry whatever its
\* sequence number.  The thread holds memtable.read() from the first insert of
\* its call to the last.
ApplyEntry(w) ==
    /\ pc[w] \in {"apply", "applying"}
    /\ LET r == Head(buf[w]) IN
         active' = [active EXCEPT !.table = [@ EXCEPT ![r.key] = EntryOf(r)]]
    /\ buf' = [buf EXCEPT ![w] = Tail(@)]
    /\ pc' = [pc EXCEPT ![w] = IF Len(buf[w]) = 1 THEN "size" ELSE "applying"]
    /\ UNCHANGED <<files, imm, l0, counters, locks, flushVars, crashes>>

\* maybe_schedule_flush: the call returns, or flushes first.
MaybeScheduleFlush(w) ==
    /\ pc[w] = "size"
    /\ pc' = [pc EXCEPT ![w] =
                 IF Cardinality(Present(active.table)) >= MemtableSize THEN "flush" ELSE "idle"]
    /\ UNCHANGED <<files, tables, counters, locks, buf, flushVars, crashes>>

-----------------------------------------------------------------------------
(* flush                                                                   *)

\* A caller of flush().
StartFlush(t) ==
    /\ pc[t] = "idle"
    /\ pc' = [pc EXCEPT ![t] = "flush"]
    /\ UNCHANGED <<files, tables, counters, locks, buf, flushVars, crashes>>

\* flush_lock, then memtable.write(), which waits for every thread that is
\* between two inserts of a batch.
CanRotate(t) ==
    /\ pc[t] = "flush"
    /\ flushLock = Free
    /\ \A w \in Threads : pc[w] # "applying"

\* An empty memtable: flush returns at once.
NothingToFlush(t) ==
    /\ CanRotate(t)
    /\ Present(active.table) = {}
    /\ pc' = [pc EXCEPT ![t] = "idle"]
    /\ UNCHANGED <<files, tables, counters, locks, buf, flushVars, crashes>>

\* Faulty: the log is truncated when the memtable is frozen.
RotateTruncatesWal(t) ==
    /\ CanRotate(t)
    /\ Present(active.table) # {}
    /\ flushLock' = t
    /\ old' = active
    /\ imm' = Append(imm, active)
    /\ active' = [id |-> nextId, table |-> EmptyTable]
    /\ nextId' = nextId + 1
    /\ pc' = [pc EXCEPT ![t] = "build"]
    /\ wal' = << >>
    /\ UNCHANGED <<manifest, l0, lastSeq, walLock, buf, rest, crashes>>

\* The active memtable becomes immutable and a new one takes its place.
\* imm_memtables.write() waits for a flush that holds it, but that flush would
\* hold flush_lock.
Rotate(t) ==
    /\ CanRotate(t)
    /\ Present(active.table) # {}
    /\ flushLock' = t
    /\ old' = active
    /\ imm' = Append(imm, active)
    /\ active' = [id |-> nextId, table |-> EmptyTable]
    /\ nextId' = nextId + 1
    /\ pc' = [pc EXCEPT ![t] = "build"]
    /\ UNCHANGED <<files, l0, lastSeq, walLock, buf, rest, crashes>>

\* The edit that adds the table of old_mem to Level 0.
FlushEdit ==
    [table |-> old.table,
     last |-> Largest({old.table[k].seq : k \in Present(old.table)})]

\* Faulty: the frozen memtable is retired before its table is in the version.
LogEditRetiresMemtable(t) ==
    /\ pc[t] = "build"
    /\ manifest' = Append(manifest, FlushEdit)
    /\ imm' = << >>
    /\ pc' = [pc EXCEPT ![t] = "edit"]
    /\ UNCHANGED <<wal, active, l0, counters, locks, buf, flushVars, crashes>>

\* The table is written and synced and the edit appended to the manifest.
LogEdit(t) ==
    /\ pc[t] = "build"
    /\ manifest' = Append(manifest, FlushEdit)
    /\ pc' = [pc EXCEPT ![t] = "edit"]
    /\ UNCHANGED <<wal, tables, counters, locks, buf, flushVars, crashes>>

\* Writing the table or the edit fails, or the sync after them: flush returns the
\* error, dropping its locks and leaving old_mem among the immutable memtables.
FlushFails(t) ==
    /\ IoErrors
    /\ pc[t] = "build"
    /\ \E part \in {<< >>, <<Torn>>, <<FlushEdit>>} : manifest' = manifest \o part
    /\ flushLock' = Free
    /\ pc' = [pc EXCEPT ![t] = "idle"]
    /\ UNCHANGED <<wal, tables, counters, walLock, buf, flushVars, crashes>>

\* Faulty: the new table goes before the older ones.
ApplyEditInFront(t) ==
    /\ pc[t] = "edit"
    /\ l0' = <<FlushEdit>> \o l0
    /\ lastSeq' = Largest({lastSeq, FlushEdit.last})
    /\ pc' = [pc EXCEPT ![t] = "reset"]
    /\ UNCHANGED <<files, active, imm, nextId, locks, buf, flushVars, crashes>>

\* version_set.log_and_apply: the new version, and last_sequence if it is behind.
ApplyEdit(t) ==
    /\ pc[t] = "edit"
    /\ l0' = Append(l0, FlushEdit)
    /\ lastSeq' = Largest({lastSeq, FlushEdit.last})
    /\ pc' = [pc EXCEPT ![t] = "reset"]
    /\ UNCHANGED <<files, active, imm, nextId, locks, buf, flushVars, crashes>>

\* imm_guard.retain(|m| m.id() != old_mem.id()); ids are not reused.
OtherImms ==
    LET i == CHOOSE j \in 1..Len(imm) : imm[j].id = old.id
    IN  SubSeq(imm, 1, i - 1) \o SubSeq(imm, i + 1, Len(imm))

\* Under the WAL lock and imm_memtables.write(): old_mem leaves the immutable
\* memtables, the entries of the other memtables are collected and the log is
\* truncated in place.  With nothing collected the flush is over.
ResetWal(t) ==
    /\ pc[t] = "reset"
    /\ walLock = Free
    /\ imm' = OtherImms
    /\ rest' = RecordsOf(active.table) \cup
                 (UNION {RecordsOf(OtherImms[i].table) : i \in 1..Len(OtherImms)})
    /\ wal' = << >>
    /\ IF rest' = {}
         THEN /\ flushLock' = Free
              /\ pc' = [pc EXCEPT ![t] = "idle"]
              /\ UNCHANGED walLock
         ELSE /\ walLock' = t
              /\ pc' = [pc EXCEPT ![t] = "rewrite"]
              /\ UNCHANGED flushLock
    /\ UNCHANGED <<manifest, active, l0, counters, buf, old, crashes>>

\* Truncating the log fails before or after it is empty.
ResetFails(t) ==
    /\ IoErrors
    /\ pc[t] = "reset"
    /\ walLock = Free
    /\ imm' = OtherImms
    /\ wal' \in {wal, << >>}
    /\ flushLock' = Free
    /\ pc' = [pc EXCEPT ![t] = "idle"]
    /\ UNCHANGED <<manifest, active, l0, counters, walLock, buf, flushVars, crashes>>

\* Faulty: the rewrite keeps the log locked.
RewriteWalKeepsLock(t) ==
    /\ pc[t] = "rewrite"
    /\ \E s \in InSeqOrder(rest) : wal' = wal \o s
    /\ rest' = {}
    /\ flushLock' = Free
    /\ pc' = [pc EXCEPT ![t] = "idle"]
    /\ UNCHANGED <<manifest, tables, counters, walLock, buf, old, crashes>>

\* append_batch(&remaining_records), then every lock is released.
RewriteWal(t) ==
    /\ pc[t] = "rewrite"
    /\ \E s \in InSeqOrder(rest) : wal' = wal \o s
    /\ rest' = {}
    /\ flushLock' = Free
    /\ walLock' = Free
    /\ pc' = [pc EXCEPT ![t] = "idle"]
    /\ UNCHANGED <<manifest, tables, counters, buf, old, crashes>>

\* The rewrite returns an error after some of it reached the truncated log.
RewriteFails(t) ==
    /\ IoErrors
    /\ pc[t] = "rewrite"
    /\ \E s \in InSeqOrder(rest) : \E tail \in {<< >>} \cup CutShort(s) : wal' = wal \o tail
    /\ rest' = {}
    /\ flushLock' = Free
    /\ walLock' = Free
    /\ pc' = [pc EXCEPT ![t] = "idle"]
    /\ UNCHANGED <<manifest, tables, counters, buf, old, crashes>>

-----------------------------------------------------------------------------
(* The process dies and FlashStore::open recovers.                         *)

CrashAndOpen ==
    /\ crashes < MaxCrashes
    /\ crashes' = crashes + 1
    /\ \E tail \in TornTails : wal' = wal \o tail
    /\ \E part \in TornEdits : manifest' = manifest \o part
    /\ l0' = RecoveredTables(manifest')
    /\ active' = RecoveredMemTable(Readable(wal'), FlushedUpTo(l0'))
    /\ lastSeq' = RecoveredSeq(Readable(wal'), FlushedUpTo(l0'))
    /\ imm' = << >>
    /\ nextId' = 1
    /\ flushLock' = Free
    /\ walLock' = Free
    /\ pc' = [t \in Threads |-> "idle"]
    /\ buf' = [t \in Threads |-> << >>]
    /\ old' = active'
    /\ rest' = {}

-----------------------------------------------------------------------------
Write(w) ==
    \/ \E k \in Keys, v \in Contents : NextSequence(w, k, v)
    \/ AppendWal(w) \/ AppendFails(w) \/ ApplyEntry(w) \/ MaybeScheduleFlush(w)

\* The steps of a flush that is under way.
FlushStep(t) ==
    \/ NothingToFlush(t) \/ Rotate(t) \/ LogEdit(t) \/ FlushFails(t) \/ ApplyEdit(t)
    \/ ResetWal(t) \/ ResetFails(t) \/ RewriteWal(t) \/ RewriteFails(t)

\* The steps of a process that stays up.
Run ==
    \/ \E w \in Writers : Write(w)
    \/ \E t \in Threads : StartFlush(t) \/ FlushStep(t)

Next == Run \/ CrashAndOpen

Spec == Init /\ [][Next]_vars

\* The next step of a call that is under way and meets no error.
Proceed(t) ==
    \/ t \in Writers /\ (AppendWal(t) \/ ApplyEntry(t) \/ MaybeScheduleFlush(t))
    \/ NothingToFlush(t) \/ Rotate(t) \/ LogEdit(t) \/ ApplyEdit(t)
    \/ ResetWal(t) \/ RewriteWal(t)

\* The scheduler runs every thread, and a thread that waits for a lock gets it if
\* it is released again and again (parking_lot's mutexes and reader-writer locks
\* are eventually fair), hence strong fairness.  Nothing makes a client call.
Fairness == \A t \in Threads : SF_vars(Proceed(t))

FairSpec == Spec /\ Fairness

-----------------------------------------------------------------------------
(* Properties                                                              *)

\* Every variable holds a value of its kind.
TypeOK ==
    /\ wal \in Seq(Record \cup {Torn})
    /\ manifest \in Seq(Edit \cup {Torn})
    /\ active \in MemTable
    /\ imm \in Seq(MemTable)
    /\ l0 \in Seq(Edit)
    /\ lastSeq \in Nat /\ nextId \in Nat
    /\ flushLock \in Threads \cup {Free}
    /\ walLock \in Threads \cup {Free}
    /\ pc \in [Threads -> {"idle", "seq", "apply", "applying", "size", "flush",
                           "build", "edit", "reset", "rewrite"}]
    /\ buf \in [Threads -> Seq(Record)]
    /\ old \in MemTable
    /\ rest \subseteq Record
    /\ crashes \in 0..MaxCrashes

\* One thread flushes at a time, and the locks say which and how far it is.
LocksInv ==
    /\ \A t \in Threads : pc[t] \in {"build", "edit", "reset", "rewrite"} <=> flushLock = t
    /\ \A t \in Threads : pc[t] = "rewrite" <=> walLock = t

\* A flush that is under way finds the memtable it froze among the immutable ones.
FrozenInv ==
    \A t \in Threads : pc[t] \in {"build", "edit", "reset"} =>
        \E i \in 1..Len(imm) : imm[i] = old

\* Whatever the writers do meanwhile: without errors, the memtable a flush froze is
\* the only immutable one until it is retired, and is not retired before the newest
\* table of the version has the same entries.
FlushProtocol ==
    /\ imm = IF \E t \in Threads : pc[t] \in {"build", "edit", "reset"} THEN <<old>> ELSE << >>
    /\ \A t \in Threads : pc[t] = "reset" => l0 # << >> /\ l0[Len(l0)].table = old.table

\* The store seen through get is the map of KVStore: only the insert of an
\* operation into the memtable changes it, by that operation, in the order of its
\* call; a flush, at any point of it and with any number of writers, does not.
KV == INSTANCE KVStore
        WITH Clients <- Writers,
             store <- [k \in Keys |-> Visible(k).val],
             pending <- [w \in Writers |->
                           [i \in 1..Len(buf[w]) |-> [key |-> buf[w][i].key,
                                                      val |-> buf[w][i].val]]]

ImplementsKVStore == KV!Spec

\* Records that the process or a reopen of its files can still read.
LiveRecords ==
    UNION ({RecordsOf(active.table), RecordsOf(old.table), rest}
           \cup {RecordsOf(imm[i].table) : i \in 1..Len(imm)}
           \cup {RecordsOf(l0[i].table) : i \in 1..Len(l0)}
           \cup {{buf[t][i] : i \in 1..Len(buf[t])} : t \in Threads}
           \cup {{Readable(wal)[i] : i \in 1..Len(Readable(wal))}})

\* A sequence number names one operation, across flushes, failures, crashes and
\* torn writes: next_sequence never hands out a number that is in use.
SeqNamesOneRecord ==
    /\ \A r \in LiveRecords : r.seq \in 1..lastSeq
    /\ \A r1, r2 \in LiveRecords : r1.seq = r2.seq => r1 = r2

\* The version in memory is the one a reopen would rebuild from the manifest.
VersionMatchesManifest ==
    (\A t \in Threads : pc[t] # "edit") => l0 = Readable(manifest)

\* Operations under way on k.
UnderWay(k) ==
    {EntryOf(r) : r \in {q \in UNION {{buf[t][i] : i \in 1..Len(buf[t])} : t \in Threads} :
                            q.key = k}}

\* No acknowledged write is lost: were the process to die now, a reopen would read
\* for every key what get returns now, or an operation that is under way.
CrashSafe == \A k \in Keys : Recoverable(k) \in {Visible(k)} \cup UnderWay(k)

\* The log holds every entry of the active memtable whenever no flush is between
\* truncating the log and rewriting it, so that a crash then loses none of them.
WalCoversActive == walLock = Free => RecordsOf(active.table) \subseteq
                       {Readable(wal)[i] : i \in 1..Len(Readable(wal))}

\* The same while a flush is replacing the log: the entries of finished calls can
\* be read from the log at every point of the replacement.
WalCoversActiveInRewrite == walLock # Free => RecordsOf(active.table) \subseteq
                       {Readable(wal)[i] : i \in 1..Len(Readable(wal))}

\* Recovery skips the records up to the manifest's last_sequence because they are
\* in tables: an entry of the active memtable is always above it.
ActiveAboveFlushed ==
    \A k \in Keys : active.table[k] # NoEntry =>
        active.table[k].seq > FlushedUpTo(Readable(manifest))

\* The order in which get searches (immutable memtables, then Level 0) is from
\* newer to older: what an immutable memtable has for a key is no older than what
\* the tables have.
ImmNewerThanTables ==
    \A k \in Keys : Newest(imm, k) # NoEntry => Newest(imm, k).seq >= Newest(l0, k).seq

\* The value a get returns is the one of the highest sequence number among the
\* operations on the key that have been applied.
LatestSequenceVisible ==
    \A r \in {Readable(wal)[i] : i \in 1..Len(Readable(wal))} :
        EntryOf(r) \in UnderWay(r.key) \/ r.seq <= Visible(r.key).seq

\* Every write that returns does so: no call of put, delete, write_batch or flush
\* waits forever.
CallsReturn == \A t \in Threads : pc[t] # "idle" ~> pc[t] = "idle"
=============================================================================
