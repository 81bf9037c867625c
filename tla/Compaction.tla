----------------------------- MODULE Compaction -----------------------------
(***************************************************************************)
(* The tables of FlashStore, their levels and their compaction             *)
(* (src/src/compaction/mod.rs, compact() of engine.rs, VersionSet of       *)
(* manifest/mod.rs): the compactor merges tables into the next level while *)
(* flushes add tables to Level 0 and get walks the tables of a version it  *)
(* took before.  Flushes are serialised by flush_lock and compactions by   *)
(* compact_lock, so there is one of each; neither lock excludes the other. *)
(*                                                                         *)
(* The entries of one flush share a sequence number here: only the order   *)
(* of the entries of a key matters to a merge.  A file's size is the       *)
(* number of its entries.                                                  *)
(***************************************************************************)
EXTENDS Integers, Sequences, FiniteSets

CONSTANTS
    Keys,           \* numbers, for their order
    Values, Tombstone,
    Getters,        \* threads that call get
    MaxLevels,      \* options.max_levels
    L0Trigger,      \* l0_compaction_trigger, 4 in the code
    BaseLevelSize,  \* options.base_level_size_bytes, counted in entries
    MaxPasses,      \* passes of a call of compact(), 100 in the code
    MaxFlushes,     \* bound: flushes
    MaxCrashes,     \* bound: crashes
    SlowWriters,    \* whether a write can reach a memtable after a later-numbered
                    \* write of its key was flushed
    MaxFailures     \* bound: writes to a file that fail and return an error

Contents == Values \cup {Tombstone}
Levels == 0..(MaxLevels - 1)

ASSUME KeysAreNumbers == Keys \subseteq Nat /\ IsFiniteSet(Keys)
ASSUME OptionsAreSane == /\ MaxLevels \in Nat \ {0, 1}
                         /\ L0Trigger \in Nat \ {0}
                         /\ BaseLevelSize \in Nat
                         /\ MaxPasses \in Nat
ASSUME CompactionBounds == MaxFlushes \in Nat /\ MaxCrashes \in Nat /\ MaxFailures \in Nat
ASSUME CompactionFaults == SlowWriters \in BOOLEAN

VARIABLES
    \* directory
    files,      \* contents of <n>.sst, by n
    manifest,   \* what open() rebuilds from the edits of MANIFEST
    \* VersionSet
    levels,     \* current.levels: sequences of FileMetaData
    nextFile,   \* next_file_number
    \* flush
    fpc, fedit,     \* where the flush is, and its edit
    \* compact
    cpc, task, cedit, passes,
    obsolete,   \* files still to be removed
    \* get
    rpc,        \* where each get is
    todo,       \* tables it has yet to search
    result,     \* what it found
    \* observers, not in the code
    want,       \* its key
    due,        \* what a get at the time it took the version would find
    missed,     \* whether a table it had yet to search was removed
    \* bounds
    used,       \* sequence numbers flushed
    crashes, failures

flushVars == <<fpc, fedit>>
compactVars == <<cpc, task, cedit, passes, obsolete>>
getVars == <<rpc, todo, result, want, due, missed>>
versionVars == <<levels, nextFile>>
bounds == <<used, crashes, failures>>
cvars == <<files, manifest, levels, nextFile, fpc, fedit, cpc, task, cedit, passes, obsolete,
           rpc, todo, result, want, due, missed, used, crashes, failures>>

-----------------------------------------------------------------------------
(* Tables and levels                                                       *)

\* A table maps the keys it has to entries.
Entry == [seq : Nat, val : Contents]
NoEntry == [seq |-> 0, val |-> Tombstone]

SetMin(S) == CHOOSE n \in S : \A m \in S : n <= m
SetMax(S) == CHOOSE n \in S : \A m \in S : m <= n

MetaOf(num, table) ==
    [num |-> num, lo |-> SetMin(DOMAIN table), hi |-> SetMax(DOMAIN table),
     size |-> Cardinality(DOMAIN table)]

RangesOverlap(lo1, hi1, lo2, hi2) == ~ (hi1 < lo2 \/ hi2 < lo1)

\* filter, or retain: the elements of s at the positions I, in their order.  (SelectSeq,
\* as a recursive function, which the provers can expand.)
Select(s, I) ==
    LET kept[n \in 0..Len(s)] == IF n = 0 THEN << >>
                                 ELSE IF n \in I THEN Append(kept[n - 1], s[n])
                                 ELSE kept[n - 1]
    IN  kept[Len(s)]

\* sort_by smallest_key, which keeps equal elements in order.
SortedByLo(fs) ==
    LET Before(i, j) == fs[i].lo < fs[j].lo \/ (fs[i].lo = fs[j].lo /\ i < j)
    IN  [p \in 1..Len(fs) |->
            fs[CHOOSE i \in 1..Len(fs) : Cardinality({j \in 1..Len(fs) : Before(j, i)}) = p - 1]]

\* A VersionEdit: files it deletes, files it adds to a level, next_file_number (0: none).
EmptyLevels == [l \in Levels |-> << >>]
NoEdit == [dels |-> << >>, level |-> 0, adds |-> << >>, next |-> 0]

Apply(lv, edit) ==
    [l \in Levels |->
        LET Deleted(f) == \E i \in 1..Len(edit.dels) : edit.dels[i] = <<l, f.num>>
            kept == Select(lv[l], {p \in 1..Len(lv[l]) : ~Deleted(lv[l][p])})
        IN  IF l # edit.level \/ edit.adds = << >> THEN kept
            ELSE IF l = 0 THEN kept \o edit.adds
            ELSE SortedByLo(kept \o edit.adds)]

\* Faulty: only the edits of flushes count.
NextAfterFlush(next, edit) == SetMax({next, edit.next})

\* next_file_number after an edit: above the files it adds.
NextAfter(next, edit) ==
    SetMax({next, edit.next} \cup {edit.adds[i].num + 1 : i \in 1..Len(edit.adds)})

\* MANIFEST is only appended to and only read as a whole: what its edits amount to is
\* kept instead of the edits.
EmptyVersion == [levels |-> EmptyLevels, next |-> 1]

\* Faulty: open() takes no notice of the deletions.
LoggedKeepsDeleted(version, edit) ==
    [levels |-> Apply(version.levels, [edit EXCEPT !.dels = << >>]),
     next |-> NextAfter(version.next, edit)]

\* One more edit.
Logged(version, edit) ==
    [levels |-> Apply(version.levels, edit), next |-> NextAfter(version.next, edit)]

\* The order in which get(k) searches the tables of a version: Level 0 from the end,
\* then each level, skipping the files whose range excludes k.
SearchOrder(lv, k) ==
    LET InRange(fs) == {p \in 1..Len(fs) : fs[p].lo <= k /\ k <= fs[p].hi}
        From[l \in 1..MaxLevels] ==
            IF l = MaxLevels THEN << >> ELSE Select(lv[l], InRange(lv[l])) \o From[l + 1]
        n == Len(lv[0])
    IN  [i \in 1..n |-> lv[0][n + 1 - i]] \o From[1]

\* What a get(k) finds in those tables if none of them is removed meanwhile.
FindIn(fs, k) ==
    LET Hit(i) == fs[i].num \in DOMAIN files /\ k \in DOMAIN files[fs[i].num]
    IN  IF \E i \in 1..Len(fs) : Hit(i)
          THEN files[fs[SetMin({i \in 1..Len(fs) : Hit(i)})].num][k]
          ELSE NoEntry

Find(k) == FindIn(SearchOrder(levels, k), k)

-----------------------------------------------------------------------------
(* Picking and merging                                                     *)

NoTask == [level |-> 0, inputs |-> << >>, targets |-> << >>]

FindOverlapping(fs, lo, hi) ==
    Select(fs, {p \in 1..Len(fs) : RangesOverlap(lo, hi, fs[p].lo, fs[p].hi)})

LevelSize(fs) ==
    LET sum[i \in 0..Len(fs)] == IF i = 0 THEN 0 ELSE sum[i - 1] + fs[i].size
    IN  sum[Len(fs)]

LevelLimit(l) == BaseLevelSize * 10^(l - 1)

\* Levels over their limit that have a level below them.
Oversized == {l \in 1..(MaxLevels - 2) : levels[l] # << >> /\ LevelSize(levels[l]) > LevelLimit(l)}

\* Faulty: only the files of the level above are merged.
TaskForAlone(level, inputs) ==
    [level |-> level, inputs |-> inputs, targets |-> << >>]

\* The input files and the files of the next level that overlap their range.
TaskFor(level, inputs) ==
    [level |-> level, inputs |-> inputs,
     targets |-> FindOverlapping(levels[level + 1],
                                 SetMin({inputs[i].lo : i \in 1..Len(inputs)}),
                                 SetMax({inputs[i].hi : i \in 1..Len(inputs)}))]

\* Faulty: one file of Level 0 at a time, the newest.
PickedTaskNewest ==
    IF Len(levels[0]) >= L0Trigger THEN TaskFor(0, <<levels[0][Len(levels[0])]>>)
    ELSE IF Oversized # {} THEN LET l == SetMin(Oversized) IN TaskFor(l, <<levels[l][1]>>)
    ELSE NoTask

\* pick_compaction: all of Level 0 when it has enough files, otherwise the first file
\* of the first level that is over its limit.
PickedTask ==
    IF Len(levels[0]) >= L0Trigger THEN TaskFor(0, levels[0])
    ELSE IF Oversized # {} THEN LET l == SetMin(Oversized) IN TaskFor(l, <<levels[l][1]>>)
    ELSE NoTask

\* The entry that the tables fs, read one after the other, leave for key k: the highest
\* sequence number, the last of equal ones.  A file that does not exist is skipped.
MergedEntry(fs, k) ==
    LET Has == {i \in 1..Len(fs) : fs[i].num \in DOMAIN files /\ k \in DOMAIN files[fs[i].num]}
        SeqNo(i) == files[fs[i].num][k].seq
        Latest == {i \in Has : \A j \in Has : SeqNo(j) <= SeqNo(i)}
    IN  IF Has = {} THEN NoEntry ELSE files[fs[SetMax(Latest)].num][k]

BottomLevel(l) == l >= MaxLevels - 1

\* Faulty: a tombstone is dropped on whatever level.
SurvivorsNoTombstone(t) ==
    {k \in Keys : LET e == MergedEntry(t.inputs \o t.targets, k) IN e.val # Tombstone}

\* Keys that the merge keeps: on the bottom level, not those of tombstones.
Survivors(t) ==
    {k \in Keys : LET e == MergedEntry(t.inputs \o t.targets, k) IN
                    e # NoEntry /\ ~ (BottomLevel(t.level + 1) /\ e.val = Tombstone)}

MergedTable(t) == [k \in Survivors(t) |-> MergedEntry(t.inputs \o t.targets, k)]

Deletions(t) ==
    [i \in 1..Len(t.inputs) |-> <<t.level, t.inputs[i].num>>]
        \o [i \in 1..Len(t.targets) |-> <<t.level + 1, t.targets[i].num>>]

WithFile(num, table) ==
    [n \in DOMAIN files \cup {num} |-> IF n = num THEN table ELSE files[n]]

-----------------------------------------------------------------------------
Init ==
    /\ files = [n \in {} |-> [k \in {} |-> NoEntry]]
    /\ manifest = EmptyVersion
    /\ levels = EmptyLevels /\ nextFile = 1
    /\ fpc = "idle" /\ fedit = NoEdit
    /\ cpc = "idle" /\ task = NoTask /\ cedit = NoEdit /\ passes = 0 /\ obsolete = << >>
    /\ rpc = [g \in Getters |-> "idle"]
    /\ todo = [g \in Getters |-> << >>]
    /\ result = [g \in Getters |-> NoEntry]
    /\ want = [g \in Getters |-> SetMin(Keys)]
    /\ due = [g \in Getters |-> NoEntry]
    /\ missed = [g \in Getters |-> FALSE]
    /\ used = {} /\ crashes = 0 /\ failures = 0

-----------------------------------------------------------------------------
(* flush                                                                   *)

\* The numbers that the entries of the next flush may have.
NextNumbers ==
    IF SlowWriters THEN (1..MaxFlushes) \ used ELSE {Cardinality(used) + 1}

\* The table of a frozen memtable is written to a file of its own.
FlushTable(D, c) ==
    /\ fpc = "idle"
    /\ Cardinality(used) < MaxFlushes
    /\ \E s \in NextNumbers :
         LET table == [k \in D |-> [seq |-> s, val |-> c[k]]] IN
         /\ used' = used \cup {s}
         /\ files' = WithFile(nextFile, table)
         /\ fedit' = [dels |-> << >>, level |-> 0, adds |-> <<MetaOf(nextFile, table)>>,
                      next |-> nextFile + 1]
    /\ nextFile' = nextFile + 1
    /\ fpc' = "log"
    /\ UNCHANGED <<manifest, levels, compactVars, getVars, crashes, failures>>

\* Its edit is appended to the manifest, then applied to the version.
FlushLogEdit ==
    /\ fpc = "log"
    /\ manifest' = Logged(manifest, fedit)
    /\ fpc' = "apply"
    /\ UNCHANGED <<files, versionVars, fedit, compactVars, getVars, bounds>>

\* Writing or syncing the edit fails: flush returns the error.  The edit may be in the
\* manifest.
FlushFails ==
    /\ failures < MaxFailures
    /\ failures' = failures + 1
    /\ fpc = "log"
    /\ manifest' \in {manifest, Logged(manifest, fedit)}
    /\ fpc' = "idle" /\ fedit' = NoEdit
    /\ UNCHANGED <<files, versionVars, compactVars, getVars, used, crashes>>

FlushApplyEdit ==
    /\ fpc = "apply"
    /\ levels' = Apply(levels, fedit)
    /\ nextFile' = NextAfter(nextFile, fedit)
    /\ fpc' = "idle" /\ fedit' = NoEdit
    /\ UNCHANGED <<files, manifest, compactVars, getVars, bounds>>

-----------------------------------------------------------------------------
(* compact                                                                 *)

\* A call of compact().
Compact ==
    /\ cpc = "idle"
    /\ cpc' = "pick" /\ passes' = 0
    /\ UNCHANGED <<files, manifest, versionVars, flushVars, task, cedit, obsolete, getVars, bounds>>

\* A pass takes the current version and picks a task; without one, or after the last
\* pass, the call returns.
PickCompaction ==
    /\ cpc = "pick"
    /\ IF passes < MaxPasses /\ PickedTask # NoTask
         THEN /\ cpc' = "run" /\ task' = PickedTask /\ passes' = passes + 1
         ELSE /\ cpc' = "idle" /\ task' = NoTask /\ passes' = 0
    /\ UNCHANGED <<files, manifest, versionVars, flushVars, cedit, obsolete, getVars, bounds>>

\* run_compaction: the merged table, if it has entries, is written to a new file.
RunCompaction ==
    /\ cpc = "run"
    /\ LET table == MergedTable(task) IN
         IF DOMAIN table = {}
           THEN /\ cedit' = [NoEdit EXCEPT !.dels = Deletions(task)]
                /\ UNCHANGED <<files, nextFile>>
           ELSE /\ cedit' = [NoEdit EXCEPT !.dels = Deletions(task), !.level = task.level + 1,
                                           !.adds = <<MetaOf(nextFile, table)>>]
                /\ files' = WithFile(nextFile, table)
                /\ nextFile' = nextFile + 1
    /\ cpc' = "log"
    /\ UNCHANGED <<manifest, levels, flushVars, task, passes, obsolete, getVars, bounds>>

\* Faulty: the edit of a compaction is not logged.
LogCompactionForgets ==
    /\ cpc = "log"
    /\ cpc' = "apply"
    /\ UNCHANGED <<manifest, files, versionVars, flushVars, task, cedit, passes, obsolete, getVars,
                   bounds>>

\* manifest.log_edit(&edit)?
LogCompaction ==
    /\ cpc = "log"
    /\ manifest' = Logged(manifest, cedit)
    /\ cpc' = "apply"
    /\ UNCHANGED <<files, versionVars, flushVars, task, cedit, passes, obsolete, getVars, bounds>>

\* Writing or syncing the table or the edit fails: compact() returns the error.  The
\* edit may be in the manifest.
CompactFails ==
    /\ failures < MaxFailures
    /\ failures' = failures + 1
    /\ cpc = "log"
    /\ manifest' \in {manifest, Logged(manifest, cedit)}
    /\ cpc' = "idle" /\ task' = NoTask /\ cedit' = NoEdit /\ passes' = 0
    /\ UNCHANGED <<files, versionVars, flushVars, obsolete, getVars, used, crashes>>

\* version_set.log_and_apply(edit): the version without the inputs and with the output.
ApplyCompaction ==
    /\ cpc = "apply"
    /\ levels' = Apply(levels, cedit)
    /\ nextFile' = NextAfter(nextFile, cedit)
    /\ obsolete' = [i \in 1..Len(cedit.dels) |-> cedit.dels[i][2]]
    /\ cpc' = "remove" /\ task' = NoTask /\ cedit' = NoEdit
    /\ UNCHANGED <<files, manifest, flushVars, passes, getVars, bounds>>

\* The obsolete files are removed one after the other; then the next pass begins.
RemoveObsolete ==
    /\ cpc = "remove"
    /\ LET n == Head(obsolete) IN
         /\ files' = [m \in DOMAIN files \ {n} |-> files[m]]
         /\ missed' = [g \in Getters |-> missed[g] \/ \E i \in 1..Len(todo[g]) : todo[g][i].num = n]
    /\ obsolete' = Tail(obsolete)
    /\ cpc' = IF Len(obsolete) = 1 THEN "pick" ELSE "remove"
    /\ UNCHANGED <<manifest, versionVars, flushVars, task, cedit, passes,
                   rpc, todo, result, want, due, bounds>>

-----------------------------------------------------------------------------
(* get                                                                     *)

\* A get(k) that found nothing in the memtables takes the current version.
GetVersion(g, k) ==
    /\ rpc[g] \in {"idle", "done", "failed"}
    /\ todo' = [todo EXCEPT ![g] = SearchOrder(levels, k)]
    /\ rpc' = [rpc EXCEPT ![g] = "next"]
    /\ result' = [result EXCEPT ![g] = NoEntry]
    /\ want' = [want EXCEPT ![g] = k]
    /\ due' = [due EXCEPT ![g] = Find(k)]
    /\ missed' = [missed EXCEPT ![g] = FALSE]
    /\ UNCHANGED <<files, manifest, versionVars, flushVars, compactVars, bounds>>

\* file_path.exists(), for the next table: it is skipped if it does not.
GetExists(g) ==
    /\ rpc[g] = "next"
    /\ IF todo[g] = << >> THEN rpc' = [rpc EXCEPT ![g] = "done"] /\ UNCHANGED todo
       ELSE IF Head(todo[g]).num \in DOMAIN files
         THEN rpc' = [rpc EXCEPT ![g] = "open"] /\ UNCHANGED todo
         ELSE todo' = [todo EXCEPT ![g] = Tail(@)] /\ UNCHANGED rpc
    /\ UNCHANGED <<files, manifest, versionVars, flushVars, compactVars, result, want, due,
                   missed, bounds>>

\* Faulty: a tombstone is taken for a miss.
GetOpenPastTombstone(g) ==
    /\ rpc[g] = "open"
    /\ LET n == Head(todo[g]).num IN
         IF n \notin DOMAIN files
           THEN rpc' = [rpc EXCEPT ![g] = "failed"] /\ UNCHANGED <<todo, result>>
         ELSE IF want[g] \in DOMAIN files[n] /\ files[n][want[g]].val # Tombstone
           THEN /\ result' = [result EXCEPT ![g] = files[n][want[g]]]
                /\ rpc' = [rpc EXCEPT ![g] = "done"]
                /\ todo' = [todo EXCEPT ![g] = << >>]
           ELSE /\ todo' = [todo EXCEPT ![g] = Tail(@)]
                /\ rpc' = [rpc EXCEPT ![g] = "next"]
                /\ UNCHANGED result
    /\ UNCHANGED <<files, manifest, versionVars, flushVars, compactVars, want, due, missed, bounds>>

\* open_with_cache, which returns an error if the file has gone since, and the search.
GetOpen(g) ==
    /\ rpc[g] = "open"
    /\ LET n == Head(todo[g]).num IN
         IF n \notin DOMAIN files
           THEN rpc' = [rpc EXCEPT ![g] = "failed"] /\ UNCHANGED <<todo, result>>
         ELSE IF want[g] \in DOMAIN files[n]
           THEN /\ result' = [result EXCEPT ![g] = files[n][want[g]]]
                /\ rpc' = [rpc EXCEPT ![g] = "done"]
                /\ todo' = [todo EXCEPT ![g] = << >>]
           ELSE /\ todo' = [todo EXCEPT ![g] = Tail(@)]
                /\ rpc' = [rpc EXCEPT ![g] = "next"]
                /\ UNCHANGED result
    /\ UNCHANGED <<files, manifest, versionVars, flushVars, compactVars, want, due, missed, bounds>>

-----------------------------------------------------------------------------
\* The process dies and open() replays the manifest; nothing removes a table that no
\* edit refers to.
CrashAndOpen ==
    /\ crashes < MaxCrashes
    /\ crashes' = crashes + 1
    /\ levels' = manifest.levels
    /\ nextFile' = manifest.next
    /\ fpc' = "idle" /\ fedit' = NoEdit
    /\ cpc' = "idle" /\ task' = NoTask /\ cedit' = NoEdit /\ passes' = 0 /\ obsolete' = << >>
    /\ rpc' = [g \in Getters |-> "idle"]
    /\ todo' = [g \in Getters |-> << >>]
    /\ UNCHANGED <<files, manifest, result, want, due, missed, used, failures>>

CompactStep ==
    PickCompaction \/ RunCompaction \/ LogCompaction \/ ApplyCompaction \/ RemoveObsolete

Next ==
    \/ \E D \in (SUBSET Keys) \ {{}} : \E c \in [D -> Contents] : FlushTable(D, c)
    \/ FlushLogEdit \/ FlushFails \/ FlushApplyEdit
    \/ Compact \/ CompactStep \/ CompactFails
    \/ \E g \in Getters : (\E k \in Keys : GetVersion(g, k)) \/ GetExists(g) \/ GetOpen(g)
    \/ CrashAndOpen

Spec == Init /\ [][Next]_cvars

-----------------------------------------------------------------------------
(* Properties                                                              *)

\* Levels below 0 are sorted and their files do not overlap, in memory and in what a
\* reopen would rebuild, so that the first file whose range has the key is the only one.
Disjoint(lv) ==
    \A l \in Levels \ {0} : \A i, j \in 1..Len(lv[l]) : i < j => lv[l][i].hi < lv[l][j].lo

LevelsDisjoint == Disjoint(levels) /\ Disjoint(manifest.levels)

\* Every table of the version, and of the version a reopen would rebuild, is on disk:
\* whenever the process dies, no entry is lost with a removed file.
Referenced(lv) == UNION {{lv[l][i].num : i \in 1..Len(lv[l])} : l \in Levels}

FilesPresent == Referenced(levels) \cup Referenced(manifest.levels) \subseteq DOMAIN files

\* No table that a version refers to is overwritten: a new table never takes its number,
\* not even after a crash.
TablesImmutable ==
    [][\A n \in Referenced(levels) \cup Referenced(manifest.levels) :
          n \in DOMAIN files' => files'[n] = files[n]]_cvars

\* The version in memory is the one a reopen would rebuild, up to the edits that are
\* logged and not yet applied: flush and compact may apply them in another order than
\* they were logged.
LoggedVersion ==
    LET f == IF fpc = "apply" THEN Apply(levels, fedit) ELSE levels
    IN  IF cpc = "apply" THEN Apply(f, cedit) ELSE f

VersionIsLogged == LoggedVersion = manifest.levels

\* Of two tables with entries for a key, the one searched first has the newer entry: a
\* lower level is never newer than a higher one.
NewerAbove ==
    \A k \in Keys :
        LET fs == SearchOrder(levels, k) IN
        \A i, j \in 1..Len(fs) :
            i < j /\ k \in DOMAIN files[fs[i].num] /\ k \in DOMAIN files[fs[j].num] =>
                files[fs[i].num][k].seq > files[fs[j].num][k].seq

\* The tables are the map of TableStore: lookups change by flushes alone, and neither
\* the merge of tables, nor the dropping of tombstones, nor the removal of files, nor a
\* crash at any point of them makes a key change its value, or come back.
TS == INSTANCE TableStore
        WITH view <- [k \in Keys |-> Find(k).val],
             adding <- IF fpc = "idle" THEN [k \in {} |-> Tombstone]
                       ELSE LET t == files[fedit.adds[1].num]
                            IN  [k \in DOMAIN t |-> t[k].val]

ImplementsTableStore == TS!Spec

\* A get whose tables are not removed while it searches finds what it would have found
\* without the compactor and the flushes that ran meanwhile.
GetFromVersion ==
    \A g \in Getters : rpc[g] = "done" /\ ~missed[g] => result[g] = due[g]

\* So does any other.
GetSeesItsVersion ==
    \A g \in Getters : rpc[g] = "done" => result[g].val = due[g].val

\* A get returns no error when no write failed.
GetNeverFails == \A g \in Getters : rpc[g] # "failed"

\* A merge keeps the version of a key that get found before it.
MergeKeepsVisible ==
    [][cpc = "apply" /\ cpc' = "remove" => \A k \in Keys : Find(k)'.val = Find(k).val]_cvars
=============================================================================
