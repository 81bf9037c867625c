----------------------------- MODULE StorageParts -----------------------------
(***************************************************************************)
(* The parts of the storage engine that share no state with each other:    *)
(* tables with their readers and the block cache, the merging iterator,    *)
(* the byte counter of a memtable, and the locks, with those of the server *)
(* over the engine.  A behaviour is one of one of them.                    *)
(***************************************************************************)
EXTENDS TableReads, MergingIterator, MemTableSize, EngineLocks, TLC

VARIABLE part   \* the one that runs

partsVars == <<tableReadVars, mergeVars, sizeVars, lvars, part>>

\* The merge of sources without entries, which has nothing to do.
MergeIdle ==
    /\ sources = [s \in Sources |-> << >>] /\ cursor = [s \in Sources |-> 1]
    /\ current = << >> /\ emitted = << >>
LocksIdle ==
    /\ kind = "engine" /\ asking = {}
    /\ steps = [t \in Threads |-> << >>] /\ held = [t \in Threads |-> {}]

Init ==
    \/ part = "tables" /\ TablesInit /\ MergeIdle /\ SizeInit /\ LocksIdle
    \/ part = "merge" /\ TablesInit /\ MergeInit /\ SizeInit /\ LocksIdle
    \/ part = "memtable" /\ TablesInit /\ MergeIdle /\ SizeInit /\ LocksIdle
    \/ part = "locks" /\ TablesInit /\ MergeIdle /\ SizeInit /\ LocksInit

Next ==
    \/ part = "tables" /\ TablesNext /\ UNCHANGED <<mergeVars, sizeVars, lvars, part>>
    \/ part = "merge" /\ MergeNext /\ UNCHANGED <<tableReadVars, sizeVars, lvars, part>>
    \/ part = "memtable" /\ SizeNext /\ UNCHANGED <<tableReadVars, mergeVars, lvars, part>>
    \/ part = "locks" /\ LocksNext /\ UNCHANGED <<tableReadVars, mergeVars, sizeVars, part>>

Spec == Init /\ [][Next]_partsVars

\* The threads are all alike.
AlikeThreads == Permutations(Threads)
=============================================================================
