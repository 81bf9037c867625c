----------------------------- MODULE AgentMemory -----------------------------
(***************************************************************************)
(* The memory that agents share (src/src/agent/memory.rs): the blackboard, *)
(* the episodes with their eviction and recall, and the two records they   *)
(* are persisted as.  Threads write while one persists; each access to the *)
(* blackboard, to the episodes and to the store is a step of its own.      *)
(*                                                                         *)
(* Without an embedder the relevance of an episode is the overlap of its   *)
(* words with the query; words are numbers.  Weights are the default ones, *)
(* importance is in tenths.                                                *)
(***************************************************************************)
EXTENDS Integers, Sequences, FiniteSets

CONSTANTS
    BoardKeys,
    EpisodeWords,   \* what an episode may consist of: sets of words
    Importances,
    Queries,        \* sets of words
    FewestEpisodes, \* the least capacity, 10 in the code
    Capacities,     \* what a memory is created with
    Decay,          \* what is left of the recency of an episode after so many ticks
    MaxEpisodes, MaxBoardWrites, MaxPersists, MaxTime   \* bounds

\* Something is left at any age, and less than before: recency_half_life_secs is at least 1.
ASSUME DecayFalls ==
    /\ MaxTime \in Nat /\ Decay \in [0..MaxTime -> Nat \ {0}]
    /\ \A age \in 1..MaxTime : Decay[age] < Decay[age - 1]

ASSUME EpisodesAreFinite ==
    /\ FewestEpisodes \in Nat /\ Capacities \subseteq Nat /\ Importances \subseteq Nat
    /\ \A words \in EpisodeWords \cup Queries : IsFiniteSet(words)

VARIABLES
    capacity,   \* max_episodes
    blackboard, \* keys that are set, with the number of the write
    remembered, \* episodes, the oldest first
    clock,
    persisting, \* "no", "blackboard", "episodes": the record to be put next
    storedBoard, storedMemory,  \* the two records, {} or {what was put}
    history,    \* observer: the episodes loaded and recorded since, in order
    promisedMemory, \* observer: what the last persist that returned had put, {} without one
    boardWrites, persists   \* counts

memoryVars == <<capacity, blackboard, remembered, clock, persisting, storedBoard,
                storedMemory, history, promisedMemory, boardWrites, persists>>

EmptyBoard == [k \in {} |-> 0]
AtLeast(n, least) == IF n < least THEN least ELSE n
LastOf(s, n) == IF Len(s) <= n THEN s ELSE SubSeq(s, Len(s) - n + 1, Len(s))

-----------------------------------------------------------------------------
(* Recall                                                                  *)

\* lexical_overlap: words in common over all words, in twelfths; there are at most four.
Overlap(query, words) ==
    IF query = {} \/ words = {} THEN 0
    ELSE (12 * Cardinality(query \cap words)) \div Cardinality(query \cup words)

Recency(e) == Decay[clock - e.at]

\* 0.5 of the relevance, 0.3 of the recency and 0.2 of the importance; Decay[0] is all of it.
MemoryScore(query, e) ==
    Decay[0] * (50 * Overlap(query, e.words) + 24 * e.importance) + 360 * Recency(e)

\* A stable sort puts the i-th episode before the j-th.
Before(query, i, j) ==
    LET a == MemoryScore(query, remembered[i])
        b == MemoryScore(query, remembered[j])
    IN  a > b \/ (a = b /\ i < j)

\* The indexes of the episodes recalled: the sorted ones, cut off.
Recall(query, topK) ==
    LET All == DOMAIN remembered
        sorted == [n \in All |-> CHOOSE i \in All : Cardinality({j \in All : Before(query, j, i)}) = n - 1]
    IN  SubSeq(sorted, 1, IF Len(remembered) < topK THEN Len(remembered) ELSE topK)

-----------------------------------------------------------------------------
MemoryInit ==
    /\ capacity \in {AtLeast(c, FewestEpisodes) : c \in Capacities}
    /\ blackboard = EmptyBoard /\ remembered = << >> /\ clock = 0
    /\ persisting = "no" /\ storedBoard = {} /\ storedMemory = {}
    /\ history = << >> /\ promisedMemory = {}
    /\ boardWrites = 0 /\ persists = 0

Board(new) ==
    /\ boardWrites < MaxBoardWrites
    /\ boardWrites' = boardWrites + 1
    /\ blackboard' = new
    /\ UNCHANGED <<capacity, remembered, clock, persisting, storedBoard, storedMemory,
                   history, promisedMemory, persists>>

SetBlackboard(k) ==
    Board([j \in DOMAIN blackboard \cup {k} |-> IF j = k THEN boardWrites ELSE blackboard[j]])
RemoveBlackboard(k) ==
    k \in DOMAIN blackboard /\ Board([j \in DOMAIN blackboard \ {k} |-> blackboard[j]])
ClearBlackboard == blackboard # EmptyBoard /\ Board(EmptyBoard)

\* record_episode: the overflow is drained from the front, however much it is.
RecordEpisode(words, importance) ==
    /\ Len(history) < MaxEpisodes
    /\ LET entry == [words |-> words, importance |-> importance, at |-> clock]
       IN  /\ remembered' = LastOf(Append(remembered, entry), capacity)
           /\ history' = Append(history, entry)
    /\ UNCHANGED <<capacity, blackboard, clock, persisting, storedBoard, storedMemory,
                   promisedMemory, boardWrites, persists>>

\* persist_to_store begins.
StartPersist ==
    /\ persisting = "no" /\ persists < MaxPersists
    /\ persists' = persists + 1
    /\ persisting' = "blackboard"
    /\ UNCHANGED <<capacity, blackboard, remembered, clock, storedBoard, storedMemory,
                   history, promisedMemory, boardWrites>>

PersistBlackboard ==
    /\ persisting = "blackboard" /\ persisting' = "episodes"
    /\ storedBoard' = {blackboard}
    /\ UNCHANGED <<capacity, blackboard, remembered, clock, storedMemory, history,
                   promisedMemory, boardWrites, persists>>

\* The episodes are copied after the first put; then the call returns.
PersistEpisodes ==
    /\ persisting = "episodes" /\ persisting' = "no"
    /\ storedMemory' = {remembered}
    /\ promisedMemory' = {<<storedBoard, remembered>>}
    /\ UNCHANGED <<capacity, blackboard, remembered, clock, storedBoard, history,
                   boardWrites, persists>>

\* Either put returns an error.
PersistFails ==
    /\ persisting # "no" /\ persisting' = "no"
    /\ UNCHANGED <<capacity, blackboard, remembered, clock, storedBoard, storedMemory,
                   history, promisedMemory, boardWrites, persists>>

\* The process dies; a new memory, perhaps of another capacity, loads what is stored:
\* load_from_store takes the records as they are.
RestartMemory ==
    /\ capacity' \in {AtLeast(c, FewestEpisodes) : c \in Capacities}
    /\ blackboard' = IF storedBoard = {} THEN EmptyBoard ELSE CHOOSE b \in storedBoard : TRUE
    /\ remembered' = IF storedMemory = {} THEN << >> ELSE CHOOSE m \in storedMemory : TRUE
    /\ history' = remembered'
    /\ persisting' = "no"
    /\ UNCHANGED <<clock, storedBoard, storedMemory, promisedMemory, boardWrites, persists>>

MemoryTick ==
    /\ clock < MaxTime /\ clock' = clock + 1
    /\ UNCHANGED <<capacity, blackboard, remembered, persisting, storedBoard, storedMemory,
                   history, promisedMemory, boardWrites, persists>>

MemoryNext ==
    \/ \E k \in BoardKeys : SetBlackboard(k) \/ RemoveBlackboard(k)
    \/ ClearBlackboard
    \/ \E words \in EpisodeWords, importance \in Importances : RecordEpisode(words, importance)
    \/ StartPersist
    \/ PersistBlackboard
    \/ PersistEpisodes
    \/ PersistFails
    \/ RestartMemory
    \/ MemoryTick

MemorySpec == MemoryInit /\ [][MemoryNext]_memoryVars

-----------------------------------------------------------------------------
(* Properties                                                              *)

\* What is remembered is the newest part of what was loaded and recorded, all of it while
\* it fits; only what was loaded into a smaller memory may exceed it
\* (memory.rs:208-216, 369-389).
NewestRemembered ==
    /\ remembered = LastOf(history, Len(remembered))
    /\ Len(remembered) <= capacity \/ remembered = history
    /\ Len(remembered) >= (IF Len(history) < capacity THEN Len(history) ELSE capacity)

\* An episode that is as relevant, as new and as important as one that is recalled, and
\* more so in one of them, is recalled before it (memory.rs:260-321).
BetterRecalledFirst ==
    \A query \in Queries, topK \in 0..2 :
        LET found == Recall(query, topK)
            AsGood(i, j) ==
                /\ Overlap(query, remembered[i].words) >= Overlap(query, remembered[j].words)
                /\ remembered[i].at >= remembered[j].at
                /\ remembered[i].importance >= remembered[j].importance
        IN  \A n \in DOMAIN found : \A i \in DOMAIN remembered :
              AsGood(i, found[n]) /\ ~ AsGood(found[n], i) => \E m \in 1..(n - 1) : found[m] = i

\* The two together.
MemorySound == NewestRemembered /\ BetterRecalledFirst

-----------------------------------------------------------------------------
(* Statements of the repository that do not hold                           *)

\* "with a maximum capacity of episodic entries" (memory.rs:136).
CapacityIsKept == Len(remembered) <= capacity

\* "Synchronizes in-memory working memory and episodes" (memory.rs:350): the two records
\* are of one persist.
RecordsAreOfOnePersist ==
    promisedMemory # {} /\ persisting = "no" =>
        \A p \in promisedMemory : storedBoard = p[1]
=============================================================================
