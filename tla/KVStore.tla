------------------------------ MODULE KVStore ------------------------------
(***************************************************************************)
(* What the storage engine promises its callers, with no WAL, memtable or  *)
(* table in sight: a map from keys to values, and for each client the      *)
(* operations of its call that have not taken effect yet.  A put or a      *)
(* delete is a call of one operation, a WriteBatch a call of several.      *)
(* Operations take effect one at a time, in the order of the call; nothing *)
(* else changes the map.  After a crash and reopen every key holds what it *)
(* held or the value of an operation that was under way.                   *)
(***************************************************************************)
EXTENDS Sequences, Naturals

CONSTANTS Keys, Values, Tombstone, Clients

Contents == Values \cup {Tombstone}
Op == [key : Keys, val : Contents]

VARIABLES
    store,     \* store[k]: the value a get of k returns, Tombstone for None
    pending    \* pending[c]: operations of c's call that have yet to take effect

kvVars == <<store, pending>>

Init ==
    /\ store = [k \in Keys |-> Tombstone]
    /\ pending = [c \in Clients |-> << >>]

\* A call adds an operation to the ones it will perform.
Submit(c) ==
    /\ \E op \in Op : pending' = [pending EXCEPT ![c] = Append(@, op)]
    /\ UNCHANGED store

\* The next operation of the call takes effect.
Take(c) ==
    /\ pending[c] # << >>
    /\ store' = [store EXCEPT ![Head(pending[c]).key] = Head(pending[c]).val]
    /\ pending' = [pending EXCEPT ![c] = Tail(@)]

\* The call returns an error before any more of it takes effect.
Abandon(c) ==
    /\ pending' = [pending EXCEPT ![c] = << >>]
    /\ UNCHANGED store

\* Values that an operation under way would give to key k.
UnderWay(k) ==
    {op.val : op \in {o \in UNION {{pending[c][i] : i \in 1..Len(pending[c])} :
                                       c \in Clients} : o.key = k}}

\* The process dies and the store is reopened.
Crash ==
    /\ pending' = [c \in Clients |-> << >>]
    /\ store' \in [Keys -> Contents]
    /\ \A k \in Keys : store'[k] \in {store[k]} \cup UnderWay(k)

Next ==
    \/ \E c \in Clients : Submit(c) \/ Take(c) \/ Abandon(c)
    \/ Crash

Spec == Init /\ [][Next]_kvVars
=============================================================================
