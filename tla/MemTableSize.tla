----------------------------- MODULE MemTableSize -----------------------------
(***************************************************************************)
(* The byte counter of a memtable (src/src/memtable/mod.rs).  put and      *)
(* delete insert the entry under the lock of the map and adjust the        *)
(* counter afterwards, by the difference to the entry they replaced;       *)
(* maybe_schedule_flush (engine.rs) reads it with no lock.  The counter is *)
(* a usize, here one of Words values.                                      *)
(***************************************************************************)
EXTENDS Integers, FiniteSets, FiniteSetsExt

CONSTANTS
    SizeWriters,
    SizedKeys,
    Sizes,          \* of entries, in bytes
    Words,          \* values of a usize, 2^64 in the code
    MaxInserts

ASSUME SizesArePositive == Sizes \subseteq Nat \ {0} /\ Words \in Nat \ {0}

ASSUME FiniteSizes == IsFiniteSet(SizeWriters) /\ IsFiniteSet(SizedKeys)

VARIABLES
    sizeOf,     \* the size of the entry of each key, 0 without one
    counter,    \* size_bytes
    owed,       \* what each writer that has inserted is about to add, negative to subtract
    inserts

sizeVars == <<sizeOf, counter, owed, inserts>>

SizeInit ==
    /\ sizeOf = [k \in SizedKeys |-> 0]
    /\ counter = 0
    /\ owed = [w \in SizeWriters |-> 0]
    /\ inserts = 0

\* Faulty: the size of what was replaced is read before the insert, from a key's first entry.
InsertForgetsOld(w, k, size) ==
    /\ owed[w] = 0 /\ inserts < MaxInserts
    /\ sizeOf' = [sizeOf EXCEPT ![k] = size]
    /\ owed' = [owed EXCEPT ![w] = size]
    /\ inserts' = inserts + 1
    /\ UNCHANGED counter

\* table.insert returns the size of the entry it replaces, in one step.
Insert(w, k, size) ==
    /\ owed[w] = 0 /\ inserts < MaxInserts
    /\ sizeOf' = [sizeOf EXCEPT ![k] = size]
    /\ owed' = [owed EXCEPT ![w] = size - sizeOf[k]]
    /\ inserts' = inserts + 1
    /\ UNCHANGED counter

\* update_size_bytes: fetch_add or fetch_sub, which wrap around.
UpdateSize(w) ==
    /\ owed[w] # 0
    /\ counter' = (counter + owed[w]) % Words
    /\ owed' = [owed EXCEPT ![w] = 0]
    /\ UNCHANGED <<sizeOf, inserts>>

SizeNext ==
    \E w \in SizeWriters :
        \/ \E k \in SizedKeys, size \in Sizes : Insert(w, k, size)
        \/ UpdateSize(w)

SizeSpec == SizeInit /\ [][SizeNext]_sizeVars

-----------------------------------------------------------------------------
(* Properties                                                              *)

TotalSize == SumFunction(sizeOf)

\* Replacements of a key by several writers, larger and smaller, reach the counter in any
\* order and through values below zero: what is still owed is all that it is off by.
CounterAccounts ==
    (counter + SumFunction(owed)) % Words = TotalSize % Words

\* The counter is never above what the entries ever took together.
CounterNeverWraps == counter <= inserts * Max(Sizes)
=============================================================================
