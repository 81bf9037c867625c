------------------------------ MODULE TableReads ------------------------------
(***************************************************************************)
(* Tables being written, read and removed beside the block cache that all  *)
(* readers share (src/src/sstable/reader.rs, cache/mod.rs).  A reader      *)
(* looks into the cache, reads the block from its file if it is not there  *)
(* and puts it in, in three steps with no lock across them.  A table that  *)
(* the compactor removes is no longer opened, stays readable for who has   *)
(* it open, and keeps its blocks in the cache until they fall out; there   *)
(* is nothing to see of that here, where a table need not be opened again. *)
(***************************************************************************)
EXTENDS SSTable, Functions

CONSTANTS
    Readers,
    Capacity,   \* of the cache, in blocks
    MaxTables

ASSUME CapacityIsACount == Capacity \in Nat

VARIABLES
    files,      \* the file of every table that was written
    built,      \* the entries it was written from
    lru,
    rd          \* what each reader is doing

tableReadVars == <<files, built, lru, rd>>

Cache == INSTANCE LruCache

Idle == [at |-> "idle"]

TablesInit ==
    /\ files = << >> /\ built = << >>
    /\ Cache!CacheInit
    /\ rd = [t \in Readers |-> Idle]

\* The entries t, a function, by ascending key.
Ascending(t) ==
    [i \in 1..Cardinality(DOMAIN t) |->
        LET k == CHOOSE k \in DOMAIN t : Cardinality({j \in DOMAIN t : j < k}) = i - 1
        IN  [key |-> k, value |-> t[k]]]

\* A flush or a compaction writes a table under a number of its own.
WriteTable(t) ==
    /\ Len(files) < MaxTables
    /\ files' = Append(files, TableFile(Ascending(t)))
    /\ built' = Append(built, t)
    /\ UNCHANGED <<lru, rd>>

Answer(t, result) ==
    rd' = [rd EXCEPT ![t] = [at |-> "done", num |-> rd[t].num, key |-> rd[t].key,
                             result |-> result]]

\* A reader opens a table and asks it for a key: the filter turns it away, or it goes for
\* a block.
Open(t, n, k) ==
    LET r == OpenTable(files[n]) IN
    /\ rd[t].at \in {"idle", "done"}
    /\ rd' = [rd EXCEPT ![t] =
                IF r.offsets # << >> /\ MayContain(r.filter, k)
                  THEN [at |-> "cache", num |-> n, key |-> k, block |-> BlockFor(r, k)]
                ELSE [at |-> "done", num |-> n, key |-> k, result |-> NotFound]]
    /\ UNCHANGED <<files, built, lru>>

\* Faulty: the block's index alone is the key of the cache.
LookInCacheByIndex(t) ==
    /\ rd[t].at = "cache"
    /\ LET id == <<1, rd[t].block>> IN
       IF id \in DOMAIN lru.map
         THEN /\ Answer(t, GetByKey(Decode(lru.nodes[lru.map[id]].value), rd[t].key))
              /\ Cache!CacheGet(id)
         ELSE /\ rd' = [rd EXCEPT ![t].at = "read"]
              /\ UNCHANGED lru
    /\ UNCHANGED <<files, built>>

\* read_block: the block is in the cache.
LookInCache(t) ==
    /\ rd[t].at = "cache"
    /\ LET id == <<rd[t].num, rd[t].block>> IN
       IF id \in DOMAIN lru.map
         THEN /\ Answer(t, GetByKey(Decode(lru.nodes[lru.map[id]].value), rd[t].key))
              /\ Cache!CacheGet(id)
         ELSE /\ rd' = [rd EXCEPT ![t].at = "read"]
              /\ UNCHANGED lru
    /\ UNCHANGED <<files, built>>

\* Or it is read from the file and put in, and so may another reader have done.
ReadBlock(t) ==
    /\ rd[t].at = "read"
    /\ LET raw == RawBlock(OpenTable(files[rd[t].num]), rd[t].block)
       IN  /\ Answer(t, GetByKey(Decode(raw), rd[t].key))
           /\ Cache!CacheInsert(<<rd[t].num, rd[t].block>>, raw)
    /\ UNCHANGED <<files, built>>

\* What any number of other readers and users do to the cache meanwhile: they ask for
\* blocks and put in what they read from a table that they opened when it was there.
OthersUseCache ==
    /\ \/ \E id \in DOMAIN lru.map : Cache!CacheGet(id) \/ Cache!CacheRemove(id)
       \/ \E n \in 1..Len(files) :
            LET r == OpenTable(files[n])
            IN  \E i \in 1..Len(r.offsets) : Cache!CacheInsert(<<n, i>>, RawBlock(r, i))
       \/ Cache!CacheClear
    /\ UNCHANGED <<files, built, rd>>

Tables == UNION {[D -> Contents] : D \in SUBSET Keys \ {{}}}

TablesNext ==
    \/ \E t \in Tables : WriteTable(t)
    \/ \E t \in Readers, n \in 1..Len(files), k \in Keys : Open(t, n, k)
    \/ \E t \in Readers : LookInCache(t) \/ ReadBlock(t)
    \/ OthersUseCache

TablesSpec == TablesInit /\ [][TablesNext]_tableReadVars

-----------------------------------------------------------------------------
(* Properties                                                              *)

\* A lookup through filter, index, block and cache, beside readers of the same blocks and
\* the removal of the table, finds what the table was built from: a value, a tombstone,
\* or nothing for every key it does not have (reader.rs:74-145).
TableGetIsExact ==
    \A t \in Readers :
        rd[t].at = "done" =>
            rd[t].result = LET b == built[rd[t].num]
                           IN  IF rd[t].key \in DOMAIN b THEN b[rd[t].key] ELSE NotFound

\* read_all_entries gives back the entries in their order: no offset of a block, of the
\* filter or of the index is off, and none is lost between builder and reader.  A file never
\* changes and is read past the cache, so the states in which that is empty show it all
\* (builder.rs:23-94, reader.rs:105-144).
TablesReadBack ==
    lru = Cache!NewCache =>
        \A n \in 1..Len(files) : ReadAllEntries(OpenTable(files[n])) = Ascending(built[n])

TablesReadExactly == TableGetIsExact /\ TablesReadBack

CacheLinked == Cache!CacheLinked
ImplementsRecency == Cache!ImplementsRecency
=============================================================================
