------------------------------ MODULE RagStore ------------------------------
(***************************************************************************)
(* The retrieval engine over a store (src/src/rag/engine.rs with dense.rs, *)
(* sparse.rs, cache.rs, store.rs and the ingestion of pipeline.rs): texts, *)
(* vectors, postings and metadata in memory, the documents under rag: in   *)
(* the store, and a semantic cache of search results.  The engine is a     *)
(* &mut self: its calls follow each other, and a call that fails part of   *)
(* the way returns an error.                                               *)
(*                                                                         *)
(* A text is the sequence of its terms.  A vector is a number; neighbours  *)
(* are the more similar the closer they are, 0 is a vector of length 0 and *)
(* OtherDim one with another number of components.  Scores are left out:   *)
(* hits come in any order (module Ranking has what order that is).  An id  *)
(* is a number with a digit for each part between colons: 12 is a:b if 1   *)
(* is a.  An optional value is a set of at most one element.               *)
(***************************************************************************)
EXTENDS Integers, Sequences, FiniteSets, SequencesExt

CONSTANTS
    DocIds,
    QueryTexts,
    Metas,          \* values of metadata that is not empty
    Bodies,         \* the documents that are added: Ingested and Plain ones
    Embed(_),       \* the embedding provider
    QueryVectors,
    TopKLimits,
    SemanticCapacity,
    Reach,          \* vectors this far apart still meet the similarity threshold
    Ttl,
    MaxCalls,       \* bound: calls that change documents or the cache
    MaxTicks        \* bound: of the clock

ASSUME CapacityIsPositive == SemanticCapacity \in Nat \ {0}     \* capacity.max(1)

\* Vectors, the threshold and top_k are numbers; a body has a finite text, and at most one
\* value of metadata.
ASSUME RagOptions == QueryVectors \subseteq Int /\ Reach \in Int /\ TopKLimits \subseteq Nat
ASSUME BodiesAreDocuments ==
    \A b \in Bodies : b.text \in Seq(Range(b.text)) /\ \A x, y \in b.meta : x = y

VARIABLES
    mem,        \* what RagEngine holds
    stored,     \* the keys of the store
    clock,      \* current_timestamp_secs, which goes forward
    answer,     \* ids the last call returned, if it was a search
    failed,     \* observer, not in the code: ids a call returned an error for since a restart
    calls

ragVars == <<mem, stored, clock, answer, failed, calls>>

OtherDim == -1

Put(f, k, v) == [x \in DOMAIN f \union {k} |-> IF x = k THEN v ELSE f[x]]
Drop(f, k) == [x \in DOMAIN f \ {k} |-> f[x]]
Optional(f, k) == {f[x] : x \in {k} \intersect DOMAIN f}

-----------------------------------------------------------------------------
(* The sparse index                                                        *)

EmptySparse == [postings |-> << >>, lengths |-> << >>, total |-> 0]

\* Faulty: the postings stay.
SparseRemoveLength(s, d) ==
    IF d \notin DOMAIN s.lengths THEN s
    ELSE [s EXCEPT !.lengths = Drop(@, d), !.total = Max({0, @ - s.lengths[d]})]

SparseRemove(s, d) ==
    IF d \notin DOMAIN s.lengths THEN s
    ELSE LET left == [t \in DOMAIN s.postings |-> Drop(s.postings[t], d)]
         IN  [postings |-> Restrict(left, {t \in DOMAIN left : DOMAIN left[t] # {}}),
              lengths  |-> Drop(s.lengths, d),
              total    |-> Max({0, s.total - s.lengths[d]})]

Occurrences(text, t) == Cardinality({i \in DOMAIN text : text[i] = t})

SparseAdd(s, d, text) ==
    LET r == SparseRemove(s, d)
    IN  [postings |-> [t \in DOMAIN r.postings \union Range(text) |->
                         LET p == IF t \in DOMAIN r.postings THEN r.postings[t] ELSE << >>
                         IN  IF t \in Range(text) THEN Put(p, d, Occurrences(text, t)) ELSE p],
         lengths |-> Put(r.lengths, d, Len(text)),
         total   |-> r.total + Len(text)]

\* The documents that have a term of the query.
SparseMatches(s, query) ==
    UNION {DOMAIN s.postings[t] : t \in Range(query) \intersect DOMAIN s.postings}

-----------------------------------------------------------------------------
(* The semantic cache                                                      *)

Similarity(a, b) == IF a > b THEN b - a ELSE a - b
MeetsThreshold(a, b) == a > 0 /\ b > 0 /\ Similarity(a, b) >= - Reach

\* Vec::retain: what is at these places, in the order it had.
Keeping(cache, places) ==
    LET kept[n \in 0..Len(cache)] ==
          IF n = 0 THEN << >> ELSE IF n \in places THEN Append(kept[n - 1], cache[n]) ELSE kept[n - 1]
    IN  kept[Len(cache)]

Unexpired(cache, now) ==
    Keeping(cache, {i \in DOMAIN cache : Ttl = 0 \/ now - cache[i].created < Ttl})

\* The place of the most similar entry, the first of those that are level.
BestMatch(cache, v) ==
    LET near == {i \in DOMAIN cache : MeetsThreshold(cache[i].embedding, v)}
    IN  {i \in near : \A j \in near \ {i} :
           \/ Similarity(cache[i].embedding, v) > Similarity(cache[j].embedding, v)
           \/ Similarity(cache[i].embedding, v) = Similarity(cache[j].embedding, v) /\ i < j}

SwapRemoved(s, i) == [j \in 1..(Len(s) - 1) |-> IF j = i THEN Last(s) ELSE s[j]]

LeastRecent(cache) ==
    CHOOSE i \in DOMAIN cache : \A j \in DOMAIN cache \ {i} :
        cache[i].accessed < cache[j].accessed
          \/ (cache[i].accessed = cache[j].accessed /\ i < j)

\* Faulty: room is made when there is already an entry too many.
CacheInsertedLate(cache, entry) ==
    Append(IF Len(cache) > SemanticCapacity THEN SwapRemoved(cache, LeastRecent(cache)) ELSE cache,
           entry)

CacheInserted(cache, entry) ==
    Append(IF Len(cache) >= SemanticCapacity THEN SwapRemoved(cache, LeastRecent(cache)) ELSE cache,
           entry)

Lists(e, d) == d \in Range(e.results)

\* Faulty: only where the document is the best hit.
InvalidatedBest(cache, d) ==
    Keeping(cache, {i \in DOMAIN cache : cache[i].results = << >> \/ Head(cache[i].results) # d})

Invalidated(cache, d) == Keeping(cache, {i \in DOMAIN cache : ~ Lists(cache[i], d)})

-----------------------------------------------------------------------------
(* Documents in memory and in the store                                    *)

EmptyMem == [documents |-> << >>, metadata |-> << >>, vectors |-> << >>,
             sparse |-> EmptySparse, cache |-> << >>]

\* What ingest_text makes of a text: a vector of the provider, and a chunk for each term.
Ingested(text, meta) == [text |-> text, embedding |-> {Embed(text)}, meta |-> meta, chunks |-> text]
\* What add_document makes of it.
Plain(text, embedding) == [text |-> text, embedding |-> embedding, meta |-> {}, chunks |-> << >>]

\* validate_dim: otherwise index_in_memory returns before it changes anything.
DimensionFits(b) == OtherDim \notin b.embedding

IndexInMemory(m, d, b) ==
    [documents |-> Put(m.documents, d, b.text),
     metadata  |-> Put(m.metadata, d, b.meta),
     vectors   |-> IF b.embedding = {} THEN m.vectors
                   ELSE Put(m.vectors, d, CHOOSE v \in b.embedding : TRUE),
     sparse    |-> SparseAdd(m.sparse, d, b.text),
     cache     |-> Invalidated(m.cache, d)]

RemoveFromMemory(m, d) ==
    [documents |-> Drop(m.documents, d), metadata |-> Drop(m.metadata, d),
     vectors |-> Drop(m.vectors, d), sparse |-> SparseRemove(m.sparse, d),
     cache |-> Invalidated(m.cache, d)]

EmptyStore == [docs |-> << >>, vecs |-> << >>, metas |-> << >>, chunks |-> << >>]

\* stage_document_put: a vector and metadata are put only if there are any.
StageDocumentPut(s, d, b) ==
    [docs   |-> Put(s.docs, d, b.text),
     vecs   |-> IF b.embedding = {} THEN s.vecs ELSE Put(s.vecs, d, CHOOSE v \in b.embedding : TRUE),
     metas  |-> IF b.meta = {} THEN s.metas ELSE Put(s.metas, d, CHOOSE x \in b.meta : TRUE),
     chunks |-> [k \in DOMAIN s.chunks \union ({d} \X DOMAIN b.chunks) |->
                   IF k[1] = d /\ k[2] \in DOMAIN b.chunks THEN b.chunks[k[2]] ELSE s.chunks[k]]]

\* rag:chunk:d: is a prefix of the key of a chunk of e.
ChunkPrefix(d, e) == e = d \/ e \div 10 = d

\* Faulty: the vector's key is forgotten.
DeleteFromStoreKeepsVector(s, d) ==
    IF d \notin DOMAIN s.docs THEN s
    ELSE [docs |-> Drop(s.docs, d), vecs |-> s.vecs, metas |-> Drop(s.metas, d),
          chunks |-> Restrict(s.chunks, {k \in DOMAIN s.chunks : ~ ChunkPrefix(d, k[1])})]

DeleteFromStore(s, d) ==
    IF d \notin DOMAIN s.docs THEN s
    ELSE [docs |-> Drop(s.docs, d), vecs |-> Drop(s.vecs, d), metas |-> Drop(s.metas, d),
          chunks |-> Restrict(s.chunks, {k \in DOMAIN s.chunks : ~ ChunkPrefix(d, k[1])})]

\* load_document, as recover_all gathers it too; the chunks are only kept in the store.
LoadDocument(s, d) ==
    [text |-> s.docs[d], embedding |-> Optional(s.vecs, d), meta |-> Optional(s.metas, d),
     chunks |-> << >>]

Recovered(s) ==
    FoldSet(LAMBDA d, m : IndexInMemory(m, d, LoadDocument(s, d)), EmptyMem, DOMAIN s.docs)

\* get_document asks the store first; the metadata it has not got are empty.
GetDocument(d) ==
    IF d \in DOMAIN stored.docs THEN {LoadDocument(stored, d)}
    ELSE IF d \in DOMAIN mem.documents
      THEN {[text |-> mem.documents[d], embedding |-> Optional(mem.vectors, d),
             meta |-> mem.metadata[d], chunks |-> << >>]}
    ELSE {}

-----------------------------------------------------------------------------
(* Calls                                                                   *)

RagInit ==
    /\ mem = EmptyMem /\ stored = EmptyStore /\ clock = 0
    /\ answer = << >> /\ failed = {} /\ calls = 0

Called == calls < MaxCalls /\ calls' = calls + 1

\* A write to the store, which fails with or without leaving the batch behind.
Write(new, ids) ==
    \/ stored' = new /\ failed' = failed
    \/ stored' \in {stored, new} /\ failed' = failed \union ids

AddDocument(d, b) ==
    /\ Called /\ answer' = << >>
    /\ IF DimensionFits(b)
         THEN /\ mem' = IndexInMemory(mem, d, b)
              /\ Write(StageDocumentPut(stored, d, b), {d})
         ELSE UNCHANGED <<mem, stored, failed>>
    /\ UNCHANGED clock

\* All in memory first, up to one that does not fit, and then all in the store.
BatchAddDocuments(d, b, e, c) ==
    /\ Called /\ answer' = << >> /\ DimensionFits(b)
    /\ LET first == IndexInMemory(mem, d, b) IN
       IF DimensionFits(c)
         THEN /\ mem' = IndexInMemory(first, e, c)
              /\ Write(StageDocumentPut(StageDocumentPut(stored, d, b), e, c), {d, e})
         ELSE /\ mem' = first /\ stored' = stored
              /\ failed' = failed \union {d}
    /\ UNCHANGED clock

\* A delete that succeeded leaves nothing of the document anywhere.
DeleteDocument(d) ==
    /\ Called /\ answer' = << >>
    /\ mem' = RemoveFromMemory(mem, d)
    /\ \/ stored' = DeleteFromStore(stored, d) /\ failed' = failed \ {d}
       \/ stored' \in {stored, DeleteFromStore(stored, d)} /\ failed' = failed \union {d}
    /\ UNCHANGED clock

\* The n best of the documents, in any order.
Best(docs, n) ==
    UNION {SetToSeqs(S) : S \in {T \in SUBSET docs : Cardinality(T) = Min({n, Cardinality(docs)})}}

FirstOf(s, n) == SubSeq(s, 1, Min({n, Len(s)}))

\* Observer: what the documents of a result are.
Seen(results) == [d \in Range(results) |-> <<mem.documents[d], Optional(mem.vectors, d)>>]

\* A query with a vector is answered from the cache, or searched for and put there, and
\* what is left of the hits is returned.
AskCache(v, topK, Search(_), Left(_)) ==
    LET live == Unexpired(mem.cache, clock)
    IN  \/ \E i \in BestMatch(live, v) :
             /\ answer' = FirstOf(live[i].results, topK)
             /\ mem' = [mem EXCEPT !.cache = [live EXCEPT ![i].accessed = clock]]
        \/ /\ BestMatch(live, v) = {}
           /\ \E hits \in Search(v) :
                /\ answer' \in Left(hits)
                /\ mem' = [mem EXCEPT !.cache =
                             CacheInserted(live, [embedding |-> v, results |-> hits, created |-> clock,
                                                  accessed |-> clock, seen |-> Seen(hits)])]

\* Hits of both indexes fused, or of the one that has any.
FusedHits(query, v, fetch, topK) ==
    LET fused == UNION {Best(Range(s) \union Range(t), topK) :
                          s \in Best(SparseMatches(mem.sparse, query), fetch),
                          t \in Best(DOMAIN mem.vectors, fetch)}
    IN  IF DOMAIN mem.vectors = {} THEN {FirstOf(s, topK) : s \in Best(SparseMatches(mem.sparse, query), fetch)}
        ELSE IF SparseMatches(mem.sparse, query) = {}
          THEN {FirstOf(s, topK) : s \in Best(DOMAIN mem.vectors, fetch)}
        ELSE fused

\* search: with a vector, through the cache; without, by its terms.
Search(query, embedding, topK) ==
    /\ Called
    /\ \/ \E v \in embedding :
            AskCache(v, topK, LAMBDA w : FusedHits(query, w, 2 * topK, topK),
                     LAMBDA hits : {FirstOf(hits, topK)})
       \/ embedding = {} /\ mem' = mem /\ answer' \in Best(SparseMatches(mem.sparse, query), topK)
    /\ UNCHANGED <<stored, clock, failed>>

\* search_query: the strategy picks the indexes, three times as many hits are kept and
\* cached, and reranking leaves topK of them in an order of its own.  A filter goes past
\* the cache.
SearchQuery(query, v, topK, strategy, filter) ==
    LET fetch == 3 * topK
        Hits(w) == CASE strategy = "DenseOnly" -> Best(DOMAIN mem.vectors, fetch)
                     [] strategy = "SparseOnly" -> Best(SparseMatches(mem.sparse, query), fetch)
                     [] OTHER -> FusedHits(query, w, fetch, fetch)
    IN  /\ Called
        /\ IF filter = {}
             THEN AskCache(v, topK, Hits, LAMBDA hits : Best(Range(hits), topK))
             ELSE /\ \E hits \in Hits(v) :
                       answer' \in Best({d \in Range(hits) : mem.metadata[d] \subseteq filter}, topK)
                  /\ mem' = mem
        /\ UNCHANGED <<stored, clock, failed>>

ClearCache ==
    /\ Called /\ answer' = << >>
    /\ mem' = [mem EXCEPT !.cache = << >>]
    /\ UNCHANGED <<stored, clock, failed>>

Tick ==
    /\ clock < MaxTicks /\ clock' = clock + 1
    /\ answer' = << >>
    /\ UNCHANGED <<mem, stored, failed, calls>>

\* The process ends and RagEngine::recover starts from what is stored.
Restart ==
    /\ Called /\ answer' = << >>
    /\ mem' = Recovered(stored) /\ failed' = {}
    /\ UNCHANGED <<stored, clock>>

RagNext ==
    \/ \E d \in DocIds, b \in Bodies : AddDocument(d, b)
    \/ \E d, e \in DocIds, b, c \in Bodies : BatchAddDocuments(d, b, e, c)
    \/ \E d \in DocIds : DeleteDocument(d)
    \/ \E q \in QueryTexts, v \in {{}} \union {{x} : x \in QueryVectors}, k \in TopKLimits :
         Search(q, v, k)
    \/ \E q \in QueryTexts, v \in QueryVectors, k \in TopKLimits :
         \/ \E strategy \in {"Fused", "DenseOnly", "SparseOnly"} : SearchQuery(q, v, k, strategy, {})
         \/ SearchQuery(q, v, k, "Fused", Metas)
    \/ ClearCache \/ Tick \/ Restart

RagSpec == RagInit /\ [][RagNext]_ragVars

-----------------------------------------------------------------------------
(* Properties                                                              *)

\* The documents of every index are the same ones, but for vectors, which need not be there.
DomainsAgree ==
    /\ DOMAIN mem.metadata = DOMAIN mem.documents
    /\ DOMAIN mem.sparse.lengths = DOMAIN mem.documents
    /\ DOMAIN mem.vectors \subseteq DOMAIN mem.documents

\* The postings of a term are the documents with it and how often they have it, whatever was
\* added, replaced and removed before, and the lengths add up (engine.rs:92-225, sparse.rs:98-126).
IndexesAgree ==
    /\ DomainsAgree
    /\ DOMAIN mem.sparse.postings = UNION {Range(mem.documents[d]) : d \in DOMAIN mem.documents}
    /\ \A t \in DOMAIN mem.sparse.postings :
         mem.sparse.postings[t] =
           [d \in {e \in DOMAIN mem.documents : t \in Range(mem.documents[e])} |->
              Occurrences(mem.documents[d], t)]
    /\ \A d \in DOMAIN mem.documents : mem.sparse.lengths[d] = Len(mem.documents[d])
    /\ mem.sparse.total = SumFunction(mem.sparse.lengths)

\* A cached result lists documents that are still there as they were when it was computed;
\* so does an answer, whether from the cache or not (engine.rs:98, 218, 281, cache.rs:211-216).
CachedAreCurrent ==
    /\ \A i \in DOMAIN mem.cache : \A d \in Range(mem.cache[i].results) :
         /\ d \in DOMAIN mem.documents
         /\ mem.cache[i].seen[d] = <<mem.documents[d], Optional(mem.vectors, d)>>
    /\ Range(answer) \subseteq DOMAIN mem.documents

\* No two entries would answer each other's queries, so that the cache holds no more than it
\* can tell apart, and no more than its capacity; vectors of length 0 are the exception, they
\* never match (cache.rs:116-206).
CacheIsSpread ==
    /\ Len(mem.cache) <= SemanticCapacity
    /\ \A i, j \in DOMAIN mem.cache :
         i # j => ~ MeetsThreshold(mem.cache[i].embedding, mem.cache[j].embedding)

\* A result that the semantic cache may return lists only documents that are as they were when
\* it was computed, and no two of its entries would answer each other's queries.
SemanticCacheSound == CachedAreCurrent /\ CacheIsSpread

\* Unless a call failed for a document a restart finds it as it is in memory, and so does
\* get_document: the same text and vector, and the same metadata if there are any
\* (engine.rs:162-225, store.rs:60-255).
RestartKeepsIndex ==
    LET next == Recovered(stored) IN
    \A d \in DocIds \ failed :
        /\ Optional(next.documents, d) = Optional(mem.documents, d)
        /\ Optional(next.vectors, d) = Optional(mem.vectors, d)
        /\ d \in DOMAIN mem.documents =>
             mem.metadata[d] \in {{}, next.metadata[d]}
        /\ {b.text : b \in GetDocument(d)} = Optional(mem.documents, d)
=============================================================================
