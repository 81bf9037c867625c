-------------------------------- MODULE Reads --------------------------------
(***************************************************************************)
(* get and scan (src/src/engine.rs) running beside the writers and the     *)
(* flushes of module Engine.  Each looks at the active memtable, the       *)
(* immutable memtables and the tables one after the other, with no lock    *)
(* held between two looks.  get goes from the newest source to the oldest  *)
(* and stops at the first that has the key, a tombstone included; scan     *)
(* goes from the oldest to the newest and keeps the entry of the highest   *)
(* sequence number.                                                        *)
(***************************************************************************)
EXTENDS Engine

CONSTANTS Getters, Scanners     \* threads that call get, and scan

Readers == Getters \cup Scanners

ASSUME ReadersDistinct == Getters \cap Scanners = {}

VARIABLES
    rpc,     \* where each reader is
    want,    \* keys of its call
    got,     \* what it has found for each key
    \* observers, not in the code
    seen,    \* entries get would have found for each key since its call began
    swapped  \* whether a memtable was frozen or retired since its call began

readVars == <<rpc, want, got, seen, swapped>>
allVars == <<vars, readVars>>

Underway(r) == rpc[r] \in {"imm", "sst", "active"}

ReadsInit ==
    /\ Init
    /\ rpc = [r \in Readers |-> "idle"]
    /\ want = [r \in Readers |-> {}]
    /\ got = [r \in Readers |-> EmptyTable]
    /\ seen = [r \in Readers |-> [k \in Keys |-> {}]]
    /\ swapped = [r \in Readers |-> FALSE]

\* imm_memtables.read() waits for a flush that holds the write lock.
ImmReadable == walLock = Free

-----------------------------------------------------------------------------
(* get                                                                     *)

\* A call get(k) begins and looks into the active memtable.
GetActive(g, k) ==
    LET e == active.table[k] IN
    /\ ~Underway(g)
    /\ want' = [want EXCEPT ![g] = {k}]
    /\ got' = [got EXCEPT ![g] = [EmptyTable EXCEPT ![k] = e]]
    /\ rpc' = [rpc EXCEPT ![g] = IF e # NoEntry THEN "done" ELSE "imm"]
    /\ seen' = [seen EXCEPT ![g] = [j \in Keys |-> IF j = k THEN {Visible(k)} ELSE {}]]
    /\ UNCHANGED <<vars, swapped>>

\* Faulty: a tombstone is taken for a miss.
GetImmPastTombstone(g) ==
    /\ rpc[g] = "imm"
    /\ ImmReadable
    /\ \E k \in want[g] :
         LET e == Newest(imm, k) IN
         /\ got' = [got EXCEPT ![g] = [@ EXCEPT ![k] = e]]
         /\ rpc' = [rpc EXCEPT ![g] = IF e.val # Tombstone THEN "done" ELSE "sst"]
    /\ UNCHANGED <<vars, want, seen, swapped>>

\* It looks into the immutable memtables, newest first.
GetImm(g) ==
    /\ rpc[g] = "imm"
    /\ ImmReadable
    /\ \E k \in want[g] :
         LET e == Newest(imm, k) IN
         /\ got' = [got EXCEPT ![g] = [@ EXCEPT ![k] = e]]
         /\ rpc' = [rpc EXCEPT ![g] = IF e # NoEntry THEN "done" ELSE "sst"]
    /\ UNCHANGED <<vars, want, seen, swapped>>

\* It takes the current version and looks into its tables, newest first.
GetTables(g) ==
    /\ rpc[g] = "sst"
    /\ \E k \in want[g] : got' = [got EXCEPT ![g] = [@ EXCEPT ![k] = Newest(l0, k)]]
    /\ rpc' = [rpc EXCEPT ![g] = "done"]
    /\ UNCHANGED <<vars, want, seen, swapped>>

-----------------------------------------------------------------------------
(* scan                                                                    *)

\* Faulty: the first entry met for a key stays.
MergeKeepsFirst(found, ts) ==
    [k \in Keys |-> IF found[k] # NoEntry THEN found[k] ELSE Newest(ts, k)]

\* update_entry over every entry of the tables ts: the highest seq_no wins.
Merge(found, ts) ==
    [k \in Keys |->
        LET E == {found[k]} \cup {ts[i].table[k] : i \in 1..Len(ts)}
        IN  CHOOSE e \in E : \A f \in E : f.seq <= e.seq]

\* A scan of every key begins with the tables of the current version.
ScanTables(s) ==
    /\ ~Underway(s)
    /\ want' = [want EXCEPT ![s] = Keys]
    /\ got' = [got EXCEPT ![s] = Merge(EmptyTable, l0)]
    /\ rpc' = [rpc EXCEPT ![s] = "imm"]
    /\ seen' = [seen EXCEPT ![s] = [k \in Keys |-> {Visible(k)}]]
    /\ swapped' = [swapped EXCEPT ![s] = FALSE]
    /\ UNCHANGED vars

\* Then the immutable memtables.
ScanImm(s) ==
    /\ rpc[s] = "imm"
    /\ ImmReadable
    /\ got' = [got EXCEPT ![s] = Merge(@, imm)]
    /\ rpc' = [rpc EXCEPT ![s] = "active"]
    /\ UNCHANGED <<vars, want, seen, swapped>>

\* Then the active memtable.
ScanActive(s) ==
    /\ rpc[s] = "active"
    /\ got' = [got EXCEPT ![s] = Merge(@, <<active>>)]
    /\ rpc' = [rpc EXCEPT ![s] = "done"]
    /\ UNCHANGED <<vars, want, seen, swapped>>

-----------------------------------------------------------------------------
\* A step of a writer or a flush, as the calls under way observe it.
RunObserved ==
    /\ Run
    /\ seen' = [r \in Readers |-> [k \in Keys |->
                   IF Underway(r) /\ k \in want[r] THEN seen[r][k] \cup {Visible(k)'}
                   ELSE seen[r][k]]]
    /\ swapped' = [r \in Readers |-> swapped[r] \/ (Underway(r) /\ imm' # imm)]
    /\ UNCHANGED <<rpc, want, got>>

\* A crash ends the calls of the process.
CrashObserved ==
    /\ CrashAndOpen
    /\ rpc' = [r \in Readers |-> "idle"]
    /\ UNCHANGED <<want, got, seen, swapped>>

ReadsNext ==
    \/ RunObserved
    \/ CrashObserved
    \/ \E g \in Getters : GetImm(g) \/ GetTables(g) \/ \E k \in Keys : GetActive(g, k)
    \/ \E s \in Scanners : ScanTables(s) \/ ScanImm(s) \/ ScanActive(s)

ReadsSpec == ReadsInit /\ [][ReadsNext]_allVars

-----------------------------------------------------------------------------
(* Properties                                                              *)

ReadsTypeOK ==
    /\ rpc \in [Readers -> {"idle", "imm", "sst", "active", "done"}]
    /\ want \in [Readers -> SUBSET Keys]
    /\ got \in [Readers -> Table]
    /\ seen \in [Readers -> [Keys -> SUBSET Entry]]
    /\ swapped \in [Readers -> BOOLEAN]

\* get is linearizable: what it returns is what the key held at some point between
\* its call and its return, however the writers, the freezing of the memtable, the
\* new version and the retirement of the frozen memtable fall between its looks.
GetLinearizable ==
    \A g \in Getters : rpc[g] = "done" =>
        \A k \in want[g] : got[g][k] \in seen[g][k]

\* So is scan, key by key, if no memtable is frozen or retired while it runs and one thread
\* writes: of two, the one that drew the lower number may insert last.
ScanExactBetweenFlushes ==
    \A s \in Scanners : rpc[s] = "done" /\ ~swapped[s] =>
        \A k \in Keys : got[s][k] \in seen[s][k]

\* The same with no such proviso: a scan returns for every key what it held at some
\* point of the scan.
ScanSeesEveryKey ==
    \A s \in Scanners : rpc[s] = "done" => \A k \in Keys : got[s][k] \in seen[s][k]

\* A batch is seen as one unit: no scan returns with an operation of a batch whose
\* later operations are still to be applied (for one writer, whose batches draw
\* consecutive numbers).
BatchSeenWhole ==
    \A w \in Writers, s \in Scanners :
        pc[w] = "applying" /\ rpc[s] = "done" =>
            \A k \in Keys : got[s][k].seq # Head(buf[w]).seq - 1
=============================================================================
