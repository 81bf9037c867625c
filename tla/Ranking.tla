------------------------------- MODULE Ranking -------------------------------
(***************************************************************************)
(* How hits are fused, reranked and spread out (src/src/rag/hybrid.rs and  *)
(* reranker.rs).  The scores are fractions in the code; each formula here  *)
(* is multiplied by a common denominator, which keeps the order exact.     *)
(* An optional value is a set of at most one element.                      *)
(***************************************************************************)
EXTENDS Integers, Sequences, FiniteSets
LOCAL INSTANCE SequencesExt
LOCAL INSTANCE FiniteSetsExt

CONSTANTS
    RankIds,        \* document ids, ordered as numbers
    RankScores,     \* natural numbers
    RrfKs,          \* smoothing parameters k of RRF
    Weights,        \* weights of the dense list and lambdas, in tenths
    TopKs,
    RankTerms       \* words of a query or a text

VARIABLE ranked     \* the last call and what it returned; before it "none"

\* Lists of hits as an index returns them: no document twice, scores descending.
IsHitList(s) ==
    \A i, j \in DOMAIN s : i < j => s[i].id # s[j].id /\ s[i].score >= s[j].score

HitLists == {s \in BoundedSeq([id : RankIds, score : RankScores], Cardinality(RankIds)) : IsHitList(s)}

IdsOf(list) == {list[i].id : i \in DOMAIN list}
RankOf(list, d) == CHOOSE i \in DOMAIN list : list[i].id = d
ScoreIn(list, d) == {list[i].score : i \in {j \in DOMAIN list : list[j].id = d}}

Truncated(s, k) == SubSeq(s, 1, Min({k, Len(s)}))

\* A fused list: by score, then by id, and no longer than k.
Fused(dense, sparse, points, k) ==
    Truncated(
      SetToSortSeq({[id |-> d, score |-> points[d], dense |-> ScoreIn(dense, d),
                     sparse |-> ScoreIn(sparse, d)] : d \in DOMAIN points},
                   LAMBDA a, b : a.score > b.score \/ (a.score = b.score /\ a.id < b.id)), k)

SumOfBoth(dense, sparse, Gain(_, _)) ==
    [d \in IdsOf(dense) \union IdsOf(sparse) |->
        (IF d \in IdsOf(dense) THEN Gain(dense, d) ELSE 0)
      + (IF d \in IdsOf(sparse) THEN Gain(sparse, d) ELSE 0)]


\* 1 / (k + rank) for each list, times (k + 1) * ... * (k + n).
ReciprocalRankFusion(dense, sparse, k, topK) ==
    LET n == Max({Len(dense), Len(sparse)})
        Inc(list, d) == ProductSet({k + j : j \in (1..n) \ {RankOf(list, d)}})
    IN  Fused(dense, sparse, SumOfBoth(dense, sparse, Inc), topK)

LowestOf(list) == list[Len(list)].score
Spread(list) == list[1].score - LowestOf(list)

\* Min-max: the lowest of a list gets 0 and the highest 1; all get 1 if they are level.
MinMaxNormalized(list, d, unit) ==
    IF Spread(list) = 0 THEN unit
    ELSE (list[RankOf(list, d)].score - LowestOf(list)) * (unit \div Spread(list))

\* weight tenths of the dense score and the rest of the sparse one, in a unit that the
\* ranges of both lists divide.
WeightedLinearFusion(dense, sparse, weight, topK) ==
    LET RangeOr1(list) == IF list = << >> \/ Spread(list) = 0 THEN 1 ELSE Spread(list)
        unit == RangeOr1(dense) * RangeOr1(sparse)
        alpha == Max({0, Min({10, weight})})
    IN  Fused(dense, sparse,
              [d \in IdsOf(dense) \union IdsOf(sparse) |->
                  (IF d \in IdsOf(dense) THEN alpha * MinMaxNormalized(dense, d, unit) ELSE 0)
                + (IF d \in IdsOf(sparse) THEN (10 - alpha) * MinMaxNormalized(sparse, d, unit)
                                          ELSE 0)], topK)

\* n points for the first of a list of n, and one less for every place.
BordaCountFusion(dense, sparse, topK) ==
    LET Points(list, d) == Len(list) - RankOf(list, d) + 1
    IN  Fused(dense, sparse, SumOfBoth(dense, sparse, Points), topK)

-----------------------------------------------------------------------------
(* The cross-encoder and maximal marginal relevance                        *)

Bigrams(text) == {<<text[i], text[i + 1]>> : i \in 1..(Len(text) - 1)}

\* How well a text fits a query, in units of 1 / unit; the words of the query that the text
\* has, its pairs of neighbours, and how close together the words are.
Explain(query, text, unit) ==
    LET matched == Cardinality({i \in DOMAIN query : query[i] \in Range(text)})
        coverage == (matched * unit) \div Len(query)
        phrase == IF Len(query) < 2 THEN coverage
                  ELSE (Cardinality({i \in 1..(Len(query) - 1) :
                                       <<query[i], query[i + 1]>> \in Bigrams(text)}) * unit)
                       \div (Len(query) - 1)
        places == {i \in DOMAIN text : text[i] \in Range(query)}
        proximity == IF places = {} THEN 0
                     ELSE IF matched > 1
                       THEN Min({unit, (matched * unit) \div (Max(places) - Min(places) + 1)})
                     ELSE unit
    IN  IF query = << >> \/ text = << >>
          THEN [coverage |-> 0, phrase |-> 0, proximity |-> 0, combined |-> 0]
        ELSE [coverage |-> coverage, phrase |-> phrase, proximity |-> proximity,
              combined |-> 5 * coverage + 3 * phrase + 2 * proximity]

\* Candidates by crossWeight tenths of the encoder's score and the rest of their own, those
\* that are level in the order they came.
RerankCandidates(query, candidates, crossWeight, unit, topK) ==
    LET alpha == Max({0, Min({10, crossWeight})})
        Final(i) == alpha * Explain(query, candidates[i].text, unit).combined
                  + (10 - alpha) * candidates[i].score
        order == SetToSortSeq(DOMAIN candidates,
                   LAMBDA i, j : Final(i) > Final(j) \/ (Final(i) = Final(j) /\ i < j))
    IN  Truncated([r \in DOMAIN order |->
                     [id |-> candidates[order[r]].id, score |-> Final(order[r]),
                      delta |-> order[r] - r]], topK)

\* Vectors are directions that are level, at right angles or opposite, so that their cosine
\* is their dot product; the empty one stands for a document without a vector.
Directions == {<<1, 0>>, <<0, 1>>, <<-1, 0>>, << >>}
Cosine(a, b) == IF a = << >> \/ b = << >> THEN 0 ELSE a[1] * b[1] + a[2] * b[2]

SwapRemove(s, i) == [j \in 1..(Len(s) - 1) |-> IF j = i THEN Last(s) ELSE s[j]]

\* Of the candidates that remain the one that is most relevant and least like the selected
\* ones, again and again.  Scores are hundredths, a step's value is in thousandths.
MaximalMarginalRelevance(query, candidates, lambda, topK) ==
    LET l == Max({0, Min({10, lambda})})
        Relevance(c) == IF query = << >> \/ c.vector = << >> THEN 10 * c.score
                        ELSE 70 * Cosine(query, c.vector) + 3 * c.score
        MaxSim(c, sel) == IF sel = << >> THEN 0
                          ELSE Max({100 * Cosine(c.vector, candidates[sel[j].at].vector) :
                                      j \in DOMAIN sel})
        Value(i, sel) == l * Relevance(candidates[i]) - (10 - l) * MaxSim(candidates[i], sel)
        Best(rest, sel) == CHOOSE p \in DOMAIN rest : \A o \in DOMAIN rest \ {p} :
                             Value(rest[o], sel) < Value(rest[p], sel)
                               \/ (Value(rest[o], sel) = Value(rest[p], sel) /\ p < o)
        pick[n \in 0..Len(candidates)] ==
          IF n = 0 THEN [rest |-> [i \in DOMAIN candidates |-> i], sel |-> << >>]
          ELSE LET before == pick[n - 1]
                   p == Best(before.rest, before.sel)
               IN  [rest |-> SwapRemove(before.rest, p),
                    sel  |-> Append(before.sel, [at |-> before.rest[p],
                                                 value |-> Value(before.rest[p], before.sel)])]
        chosen == pick[Min({topK, Len(candidates)})].sel
    IN  [r \in DOMAIN chosen |-> [id |-> candidates[chosen[r].at].id, score |-> chosen[r].value,
                                  delta |-> chosen[r].at - r]]

-----------------------------------------------------------------------------
(* The evaluation of a sample of retrieved documents                       *)

\* 1 / log2(rank + 1) in thousandths.
Discount == <<1000, 631, 500, 431>>
Gained(ranks) == MapThenSumSet(LAMBDA i : Discount[i], ranks)

\* The summary of a single sample; several are averaged.  What was found is a number of
\* documents of k and of the relevant ones, and the gain one of the ideal gain.
Evaluation(retrieved, truth, k) ==
    LET relevant == Range(truth)
        top == Truncated(retrieved, k)
        hits == {i \in DOMAIN top : top[i] \in relevant}
    IN  IF k = 0 THEN [first |-> 0, found |-> 0, relevant |-> 0, gain |-> 0, ideal |-> 0]
        ELSE [first |-> IF hits = {} THEN 0 ELSE Min(hits),
              found |-> Cardinality(hits),
              relevant |-> Cardinality(relevant),
              gain |-> Gained(hits),
              ideal |-> Gained(1..Min({Cardinality(relevant), k}))]

-----------------------------------------------------------------------------
(* Every call on small inputs                                              *)

RankInit == ranked = [of |-> "none"]

Fuse ==
    \E dense, sparse \in HitLists, k \in TopKs :
        /\ dense # << >> /\ sparse # << >>    \* a single list is taken as it is
        /\ \/ \E rrf \in RrfKs :
                ranked' = [of |-> "rrf", dense |-> dense, sparse |-> sparse, topK |-> k,
                           out |-> ReciprocalRankFusion(dense, sparse, rrf, k)]
           \/ \E w \in Weights :
                ranked' = [of |-> "linear", dense |-> dense, sparse |-> sparse, topK |-> k,
                           out |-> WeightedLinearFusion(dense, sparse, w, k)]
           \/ ranked' = [of |-> "borda", dense |-> dense, sparse |-> sparse, topK |-> k,
                         out |-> BordaCountFusion(dense, sparse, k)]

RankTexts == BoundedSeq(RankTerms, 3)

Rerank ==
    \E query \in RankTexts, a, b \in RankTexts, scores \in [1..2 -> {0, 90}], w \in {0, 7}, k \in TopKs :
        LET candidates == <<[id |-> 1, text |-> a, score |-> scores[1]],
                            [id |-> 2, text |-> b, score |-> scores[2]]>>
        IN  ranked' = [of |-> "rerank", query |-> query, candidates |-> candidates, weight |-> w,
                       topK |-> k, out |-> RerankCandidates(query, candidates, w, 6, k)]

Diversify ==
    \E query \in Directions, vectors \in [1..3 -> Directions], scores \in [1..3 -> {0, 5}],
       l \in Weights, k \in TopKs :
        LET candidates == [i \in 1..3 |-> [id |-> i, vector |-> vectors[i], score |-> scores[i]]]
        IN  ranked' = [of |-> "mmr", query |-> query, candidates |-> candidates, lambda |-> l, topK |-> k,
                       out |-> MaximalMarginalRelevance(query, candidates, l, k)]

Evaluate ==
    \E retrieved, truth \in BoundedSeq(RankIds, 3), k \in {0} \union TopKs :
        ranked' = [of |-> "evaluation", retrieved |-> retrieved, topK |-> k,
                   truth |-> truth, out |-> Evaluation(retrieved, truth, k)]

RankNext == ranked.of = "none" /\ (Fuse \/ Rerank \/ Diversify \/ Evaluate)

-----------------------------------------------------------------------------
(* Properties                                                              *)

\* d is at least as early as e in a list, or e is not in it at all.
NotBehind(list, d, e) ==
    e \in IdsOf(list) => d \in IdsOf(list) /\ RankOf(list, d) <= RankOf(list, e)

NotBelow(list, d, e) ==
    e \in IdsOf(list) => d \in IdsOf(list) /\ list[RankOf(list, d)].score >= list[RankOf(list, e)].score

\* Every fusion keeps each document of the two lists once, cut to topK, with its own scores
\* beside the fused one; a document that no list puts behind another is not behind it after
\* the fusion, and with linear weights has no lower score (hybrid.rs:45-198).
FusionKeepsOrder ==
    ranked.of \in {"rrf", "linear", "borda"} =>
        LET dense == ranked.dense  sparse == ranked.sparse  out == ranked.out
            ids == IdsOf(dense) \union IdsOf(sparse)
        IN  /\ Len(out) = Min({ranked.topK, Cardinality(ids)})
            /\ Cardinality(IdsOf(out)) = Len(out)
            /\ \A i \in DOMAIN out : out[i].dense = ScoreIn(dense, out[i].id)
                                     /\ out[i].sparse = ScoreIn(sparse, out[i].id)
            /\ \A d, e \in ids :
                 /\ ranked.of # "linear" /\ d # e /\ NotBehind(dense, d, e) /\ NotBehind(sparse, d, e)
                      /\ e \in IdsOf(out) => d \in IdsOf(out) /\ RankOf(out, d) < RankOf(out, e)
                 /\ ranked.of = "linear" /\ NotBelow(dense, d, e) /\ NotBelow(sparse, d, e)
                      /\ {d, e} \subseteq IdsOf(out)
                      => out[RankOf(out, d)].score >= out[RankOf(out, e)].score

\* The encoder's score is between 0 and 1, 1 for the query's own words and 0 for a text with
\* none of them, so that its blend with a score between 0 and 1 is between 0 and 1; and what
\* is level keeps its order (reranker.rs:65-207).
RerankIsBounded ==
    ranked.of = "rerank" =>
        LET out == ranked.out  c == ranked.candidates IN
        /\ \A t \in {c[1].text, c[2].text} :
             LET e == Explain(ranked.query, t, 6) IN
             /\ {e.coverage, e.phrase, e.proximity} \subseteq 0..6
             /\ t = ranked.query /\ t # << >> => e.combined = 60
             /\ Range(t) \intersect Range(ranked.query) = {} => e.combined = 0
        /\ \A i, j \in DOMAIN out : i < j =>
             out[i].score > out[j].score \/ (out[i].score = out[j].score /\ out[i].id < out[j].id)

\* MMR selects as many documents as it may, none twice; and with lambda 1, or if no vectors
\* point away from each other, its values never rise, so that sorting by them afterwards
\* keeps the order of the selection (reranker.rs:240-312, engine.rs:582).
SelectionKeepsOrder ==
    ranked.of = "mmr" =>
        LET out == ranked.out  c == ranked.candidates IN
        /\ Len(out) = Min({ranked.topK, Len(c)})
        /\ Cardinality(IdsOf(out)) = Len(out)
        /\ (ranked.lambda = 10 \/ \A i, j \in DOMAIN c : Cosine(c[i].vector, c[j].vector) >= 0)
             => \A i, j \in DOMAIN out : i < j => out[i].score >= out[j].score

\* Precision, recall and gain are at most 1 for a list without duplicates, and the gain is 1
\* only for a list that has as many relevant documents in front as there can be
\* (metrics.rs:200-300).
EvaluationIsBounded ==
    ranked.of = "evaluation" /\ Cardinality(Range(ranked.retrieved)) = Len(ranked.retrieved) =>
        LET e == ranked.out  relevant == Range(ranked.truth)  best == Min({e.relevant, ranked.topK}) IN
        /\ e.found <= best /\ e.gain <= e.ideal
        /\ e.gain = e.ideal <=> e.found >= best
                /\ \A i \in 1..best : i \in DOMAIN ranked.retrieved /\ ranked.retrieved[i] \in relevant

RankingSound == FusionKeepsOrder /\ RerankIsBounded /\ SelectionKeepsOrder /\ EvaluationIsBounded
=============================================================================
