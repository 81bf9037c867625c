----------------------------- MODULE TableStore -----------------------------
(***************************************************************************)
(* What the tables of a version are to the rest of the engine: one map     *)
(* from keys to values, over which a flush lays the memtable it froze, in  *)
(* one step.  How many tables there are, on which levels, and what the     *)
(* compactor does with them cannot be seen.  Module Engine relies on no    *)
(* more than this; module Compaction provides it.                          *)
(***************************************************************************)
CONSTANTS Keys, Values, Tombstone

Contents == Values \cup {Tombstone}

VARIABLES
    view,      \* what a lookup in the tables finds, Tombstone for nothing
    adding     \* the entries of the flush under way, as a function; no entries: none

tableVars == <<view, adding>>

Nothing == [k \in {} |-> Tombstone]

\* The entries t laid over the map v.
Overlay(v, t) == [k \in Keys |-> IF k \in DOMAIN t THEN t[k] ELSE v[k]]

Init ==
    /\ view = [k \in Keys |-> Tombstone]
    /\ adding = Nothing

\* A flush freezes a memtable.
Freeze ==
    /\ adding = Nothing
    /\ \E D \in (SUBSET Keys) \ {{}} : adding' \in [D -> Contents]
    /\ UNCHANGED view

\* Its table is added to the version.
Add ==
    /\ view' = Overlay(view, adding)
    /\ adding' = Nothing

\* It fails, or the process dies: its table was added or was not.
Lose ==
    /\ view' \in {view, Overlay(view, adding)}
    /\ adding' = Nothing

Next == Freeze \/ Add \/ Lose

Spec == Init /\ [][Next]_tableVars
=============================================================================
