------------------------------ MODULE LruCache ------------------------------
(***************************************************************************)
(* The block cache (src/src/cache/mod.rs): a doubly linked list whose      *)
(* nodes are slots of a vector, the slots that are free, and a map from    *)
(* block ids to slots.  Every call holds the mutex of the cache from start *)
(* to end, so a call is a step.  Slots are numbered from 1; 0 is None.     *)
(***************************************************************************)
EXTENDS Naturals, Sequences, FiniteSets, Functions

CONSTANT Capacity   \* in blocks

VARIABLE lru    \* LruInner: nodes, free, map, head and tail

\* A slot that was given up: nodes are records with the fields key (a file number and the
\* index of a block), value, prev and next.
Vacant == << >>

NewCache == [nodes |-> << >>, free |-> << >>, map |-> [id \in {} |-> 0], head |-> 0, tail |-> 0]

\* The node of slot i leaves the list; its neighbours, or head and tail, close the gap.
Detach(c, i) ==
    LET p == c.nodes[i].prev
        n == c.nodes[i].next
        a == IF p # 0 THEN [c EXCEPT !.nodes[p].next = n] ELSE [c EXCEPT !.head = n]
        b == IF n # 0 THEN [a EXCEPT !.nodes[n].prev = p] ELSE [a EXCEPT !.tail = p]
    IN  [b EXCEPT !.nodes[i].prev = 0, !.nodes[i].next = 0]

\* Faulty: the node that was first does not learn of the new one.
AttachHeadOneWay(c, i) ==
    LET a == [c EXCEPT !.nodes[i].prev = 0, !.nodes[i].next = c.head]
        b == IF c.head # 0 THEN a ELSE [a EXCEPT !.tail = i]
    IN  [b EXCEPT !.head = i]

\* It becomes the first.
AttachHead(c, i) ==
    LET a == [c EXCEPT !.nodes[i].prev = 0, !.nodes[i].next = c.head]
        b == IF c.head # 0 THEN [a EXCEPT !.nodes[c.head].prev = i] ELSE [a EXCEPT !.tail = i]
    IN  [b EXCEPT !.head = i]

MoveToHead(c, i) == AttachHead(Detach(c, i), i)

\* get: the first node stays where it is.
Touched(c, id) ==
    LET i == c.map[id] IN IF c.head = i THEN c ELSE MoveToHead(c, i)

\* At capacity the node at the tail gives up its slot.
Evicted(c) ==
    IF Cardinality(DOMAIN c.map) < Capacity THEN c
    ELSE LET i == c.tail
             d == Detach(c, i)
         IN  [d EXCEPT !.nodes[i] = Vacant,
                       !.map = Restrict(c.map, DOMAIN c.map \ {c.nodes[i].key}),
                       !.free = Append(c.free, i)]

\* A new node takes the slot that was freed last, or a new one.
Placed(c, id, b) ==
    LET node == [key |-> id, value |-> b, prev |-> 0, next |-> 0]
        i == IF c.free # << >> THEN c.free[Len(c.free)] ELSE Len(c.nodes) + 1
        s == IF c.free # << >>
               THEN [c EXCEPT !.nodes[i] = node, !.free = SubSeq(c.free, 1, Len(c.free) - 1)]
               ELSE [c EXCEPT !.nodes = Append(c.nodes, node)]
    IN  [AttachHead(s, i) EXCEPT !.map = [k \in DOMAIN c.map \cup {id} |->
                                             IF k = id THEN i ELSE c.map[k]]]

Inserted(c, id, b) ==
    IF Capacity = 0 THEN c
    ELSE IF id \in DOMAIN c.map
           THEN MoveToHead([c EXCEPT !.nodes[c.map[id]].value = b], c.map[id])
    ELSE Placed(Evicted(c), id, b)

\* Faulty: the slot of a removed block is not given up.
RemovedKeepsSlot(c, id) ==
    IF id \notin DOMAIN c.map THEN c
    ELSE LET i == c.map[id]
             d == Detach(c, i)
         IN  [d EXCEPT !.map = Restrict(c.map, DOMAIN c.map \ {id}),
                       !.free = Append(c.free, i)]

Removed(c, id) ==
    IF id \notin DOMAIN c.map THEN c
    ELSE LET i == c.map[id]
             d == Detach(c, i)
         IN  [d EXCEPT !.nodes[i] = Vacant,
                       !.map = Restrict(c.map, DOMAIN c.map \ {id}),
                       !.free = Append(c.free, i)]

-----------------------------------------------------------------------------
CacheInit == lru = NewCache

CacheGet(id) == id \in DOMAIN lru.map /\ lru' = Touched(lru, id)
CacheInsert(id, b) == lru' = Inserted(lru, id, b)
CacheRemove(id) == lru' = Removed(lru, id)
CacheClear == lru' = NewCache

-----------------------------------------------------------------------------
(* The list a cache stands for                                             *)

\* The slot n steps behind the first.
Walk(c) ==
    LET at[n \in 0..Len(c.nodes)] ==
          IF n = 0 THEN c.head ELSE LET i == at[n - 1] IN IF i = 0 THEN 0 ELSE c.nodes[i].next
    IN  at

\* The blocks from head to tail.
Listed(c) ==
    LET at == Walk(c)
        n == CHOOSE m \in 0..Len(c.nodes) : at[m] = 0 /\ \A j \in 0..(m - 1) : at[j] # 0
    IN  [j \in 1..n |-> LET node == c.nodes[at[j - 1]] IN <<node.key, node.value>>]

Recency == INSTANCE RecencyList WITH recent <- Listed(lru)

\* The slots, the map, the free slots and the links in both directions agree: every key
\* of the map names the slot that holds it, every other slot is free once, and going
\* from the head along next or from the tail along prev meets the same slots.  What the
\* cache can lose or hand out twice is lost or handed out here (cache/mod.rs:109-162).
CacheLinked ==
    LET used == {i \in 1..Len(lru.nodes) : lru.nodes[i] # Vacant} IN
    /\ \A id \in DOMAIN lru.map : lru.map[id] \in used /\ lru.nodes[lru.map[id]].key = id
    /\ \A i \in used :
         /\ lru.nodes[i].key \in DOMAIN lru.map /\ lru.map[lru.nodes[i].key] = i
         /\ IF lru.nodes[i].next = 0 THEN lru.tail = i
            ELSE lru.nodes[i].next \in used /\ lru.nodes[lru.nodes[i].next].prev = i
         /\ IF lru.nodes[i].prev = 0 THEN lru.head = i
            ELSE lru.nodes[i].prev \in used /\ lru.nodes[lru.nodes[i].prev].next = i
    /\ (used = {}) <=> (lru.head = 0 /\ lru.tail = 0)
    /\ IsInjective(lru.free)
    /\ Range(lru.free) = 1..Len(lru.nodes) \ used
    /\ Cardinality(used) <= Capacity /\ Len(lru.nodes) <= Capacity

\* Through any mix of calls the list is the abstract one: a block that is looked up moves
\* to the front, and it is the least recent one that an insertion at capacity drops.
ImplementsRecency == Recency!RecencySpec
=============================================================================
