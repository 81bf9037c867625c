--------------------------- MODULE MergingIterator ---------------------------
(***************************************************************************)
(* The merging iterator (src/src/iterator/mod.rs) over sorted sources, the *)
(* newest first: memtable snapshots and the entries of tables.  The heap   *)
(* orders the sources that are not used up by their current key and, for   *)
(* equal keys, by their place; so the heap is the set of their cursors.    *)
(***************************************************************************)
EXTENDS Integers, Sequences, FiniteSets

CONSTANTS
    MergeKeys,      \* integers
    SourceCount

ASSUME SourcesAreFinite ==
    MergeKeys \in SUBSET Int /\ IsFiniteSet(MergeKeys) /\ SourceCount \in Nat

VARIABLES
    sources,    \* the keys of each source; its number stands for the values in it
    cursor,     \* index of the current entry of each source
    current,    \* the key and the source of the current entry; none: << >>
    emitted     \* observer, not in the code: the entries that were current, in order

mergeVars == <<sources, cursor, current, emitted>>

Sources == 1..SourceCount

\* The keys of a set, ascending.
Sorted(S) == [i \in 1..Cardinality(S) |->
                CHOOSE k \in S : Cardinality({j \in S : j < k}) = i - 1]

Valid(c, s) == c[s] <= Len(sources[s])
KeyAt(c, s) == sources[s][c[s]]

Heap(c) == {s \in Sources : Valid(c, s)}

\* Faulty: only the source on top moves on.
AdvancedNoDedup(c, top) == [c EXCEPT ![top] = @ + 1]

\* The top moves on, and so do the sources that are at the same key.
Advanced(c, top) ==
    [s \in Sources |-> IF Valid(c, s) /\ KeyAt(c, s) = KeyAt(c, top) THEN c[s] + 1 ELSE c[s]]

\* The least key, of the first source that has it.
Top(c) ==
    CHOOSE s \in Heap(c) : \A o \in Heap(c) \ {s} :
        KeyAt(c, s) < KeyAt(c, o) \/ (KeyAt(c, s) = KeyAt(c, o) /\ s < o)

\* new: sources without entries stay out of the heap, and the first entry is current.
MergeInit ==
    /\ \E content \in [Sources -> SUBSET MergeKeys] :
         sources = [s \in Sources |-> Sorted(content[s])]
    /\ LET start == [s \in Sources |-> 1] IN
       IF Heap(start) = {}
         THEN cursor = start /\ current = << >> /\ emitted = << >>
         ELSE /\ cursor = Advanced(start, Top(start))
              /\ current = <<KeyAt(start, Top(start)), Top(start)>>
              /\ emitted = <<current>>

\* next: the current entry gives way to the following one.
Advance ==
    /\ current # << >>
    /\ IF Heap(cursor) = {}
         THEN current' = << >> /\ UNCHANGED <<cursor, emitted>>
         ELSE /\ current' = <<KeyAt(cursor, Top(cursor)), Top(cursor)>>
              /\ cursor' = Advanced(cursor, Top(cursor))
              /\ emitted' = Append(emitted, current')
    /\ UNCHANGED sources

MergeNext == Advance

MergeSpec == MergeInit /\ [][MergeNext]_mergeVars

-----------------------------------------------------------------------------
(* Properties                                                              *)

\* What a merge of the sources is: their keys in order, each from the first that has it.
Merged ==
    LET keys == UNION {{sources[s][i] : i \in 1..Len(sources[s])} : s \in Sources}
    IN  [i \in 1..Cardinality(keys) |->
           LET k == Sorted(keys)[i]
               has == {s \in Sources : \E j \in 1..Len(sources[s]) : sources[s][j] = k}
           IN  <<k, CHOOSE s \in has : \A o \in has : s <= o>>]

\* The entries come in the order of their keys, none is left out or comes twice, and each
\* is the newest: whatever is in the other sources, an older entry of a key never shows
\* (iterator/mod.rs:111-173).
MergeIsExact ==
    /\ Len(emitted) <= Len(Merged)
    /\ emitted = SubSeq(Merged, 1, Len(emitted))
    /\ current = << >> => emitted = Merged
=============================================================================
