----------------------------- MODULE AgentProofs -----------------------------
(***************************************************************************)
(* What AgentWorkflow acknowledges survives, its tiers are sound and its   *)
(* runs are never blocked, for any tasks, submissions and crashes; the     *)
(* reflection loop of a task ends, approves what it should and takes what  *)
(* passed, for any scores and limits; the routers pass over no better      *)
(* agent, for any agents, tasks and dispatchers; no update of the counters *)
(* of Telemetry is lost, for any threads and events; memory recalls and    *)
(* evicts what it should, and batches of tool calls take effect in order,  *)
(* for any episodes, decays, stores and calls; commands find what the ones *)
(* before them saved; and words of any length come out of their line.      *)
(***************************************************************************)
EXTENDS AgentParts, CountingTheorems

-----------------------------------------------------------------------------
(* The workflow and its checkpoints                                        *)

\* The part of the types that the argument needs.
StatusesInv ==
    /\ tasks \in [TaskIds -> TaskStatus]
    /\ stored \in [TaskIds -> TaskStatus]
    /\ snapshot = NoSnapshot \/ snapshot \in [TaskIds -> TaskStatus]
    /\ acked = [tasks |-> acked.tasks, episodes |-> acked.episodes]
    /\ acked.tasks \subseteq TaskIds

\* What is acknowledged when the episodes are written has been in the snapshot since the
\* step before.  And a pipeline that finds no snapshot starts without episodes: none may
\* have been acknowledged then, for which the snapshot has to be written before them.
SnapshotFirst ==
    /\ call = "memory" => snapshot # NoSnapshot /\ snapshot = tasks
    /\ snapshot = NoSnapshot => acked.episodes = {}

AckedInv == StatusesInv /\ SnapshotFirst /\ AckedWorkSurvives

\* No map of tasks is the absent snapshot: there are tasks.
LEMMA TasksAreSnapshot ==
    ASSUME NEW ts \in [TaskIds -> TaskStatus]
    PROVE  ts # NoSnapshot
<1>1. DOMAIN ts = TaskIds
  OBVIOUS
<1>2. DOMAIN NoSnapshot = {}
  BY DEF NoSnapshot
<1> QED BY <1>1, <1>2, TaskIdsAreNumbers

\* Initially nothing is acknowledged.
LEMMA InitAckedInv == Init => AckedInv
BY DEF Init, AckedInv, StatusesInv, SnapshotFirst, AckedWorkSurvives, NoTasks, TaskStatus,
       CompletedIn

\* Only a crash, a restart and the two steps of a checkpoint touch what is stored and
\* promised in a way that matters; other steps complete tasks or withdraw the promise.
LEMMA NextAckedInv == AckedInv /\ [Next]_wvars => AckedInv'
<1> SUFFICES ASSUME AckedInv, [Next]_wvars PROVE AckedInv'
  OBVIOUS
<1> USE DEF AckedInv, StatusesInv, SnapshotFirst, AckedWorkSurvives, CompletedIn, TaskStatus
<1>1. ASSUME NEW t \in TaskIds, NEW depends \in Dependencies, SubmitTask(t, depends)
      PROVE  AckedInv'
  <2>1. CASE UNCHANGED <<tasks, asked, acked>>
    BY <1>1, <2>1 DEF SubmitTask
  <2>2. CASE tasks' = [tasks EXCEPT ![t] = "Pending"] /\ acked' = Forget(t)
    BY <1>1, <2>2 DEF SubmitTask, Forget
  <2> QED BY <1>1, <2>1, <2>2 DEF SubmitTask
<1>2. ASSUME NEW t \in TaskIds, RunSingleTask(t) PROVE AckedInv'
  BY <1>2 DEF RunSingleTask, Forget
<1>3. CASE RunWorkflow
  BY <1>3 DEF RunWorkflow, store, promised
<1>4. CASE ExecuteTask
  BY <1>4 DEF ExecuteTask, store, promised
<1>5. CASE TaskFails
  BY <1>5 DEF TaskFails, Forget, store
<1>6. CASE FinishRun
  BY <1>6 DEF FinishRun, store, promised
<1>7. CASE Checkpoint
  BY <1>7 DEF Checkpoint, store, promised
<1>8. CASE CheckpointFullWorkflow
  <2>1. snapshot' # NoSnapshot
    BY <1>8, TasksAreSnapshot DEF CheckpointFullWorkflow
  <2> QED BY <1>8, <2>1 DEF CheckpointFullWorkflow, promised
<1>9. CASE PersistMemory
  BY <1>9 DEF PersistMemory
<1>10. CASE StoreFails
  BY <1>10 DEF StoreFails, store, promised
<1>11. CASE Crash
  <2>1. CASE UNCHANGED <<stored, snapshot>>
    BY <1>11, <2>1 DEF Crash, promised, NoTasks
  <2>2. CASE /\ snapshot' = tasks
             /\ \E ts \in SUBSET {t \in TaskIds : tasks[t] # "none"} :
                    stored' = [t \in TaskIds |-> IF t \in ts THEN tasks[t] ELSE stored[t]]
    <3>1. snapshot' # NoSnapshot
      BY <2>2, TasksAreSnapshot
    <3> QED BY <1>11, <2>2, <3>1 DEF Crash, promised, NoTasks
  <2> QED BY <1>11, <2>1, <2>2 DEF Crash
<1>12. CASE Restore
  BY <1>12 DEF Restore, store
<1>13. CASE UNCHANGED wvars
  BY <1>13 DEF wvars, store, promised
<1> QED BY <1>1, <1>2, <1>3, <1>4, <1>5, <1>6, <1>7, <1>8, <1>9, <1>10, <1>11, <1>12, <1>13
        DEF Next

\* Tasks and episodes that a returned checkpoint held are there after any crash and
\* restart (checkpoint_full_workflow, persist_to_store, restore_from_store).
THEOREM AckedWorkIsDurable == Spec => []AckedWorkSurvives
<1>1. AckedInv => AckedWorkSurvives
  BY DEF AckedInv
<1> QED BY <1>1, InitAckedInv, NextAckedInv, PTL DEF Spec

-----------------------------------------------------------------------------
(* The tiers                                                               *)

TierRun(f, g) ==
    /\ f \in [0..Cardinality(DOMAIN g) -> SUBSET DOMAIN g]
    /\ f[0] = {}
    /\ \A n \in 1..Cardinality(DOMAIN g) : f[n] = {t \in DOMAIN g : g[t] \subseteq f[n - 1]}

LEMMA UpToRuns ==
    ASSUME NEW g, IsFiniteSet(DOMAIN g)
    PROVE  TierRun(UpTo(g), g)
<1> DEFINE D == DOMAIN g
           N == Cardinality(D)
           S == SUBSET D
           Freed(u) == {t \in D : g[t] \subseteq u}
           G == [n \in 1..N |-> [u \in S |-> Freed(u)]]
           Body(f, n) == IF n = 0 THEN {} ELSE {t \in D : g[t] \subseteq f[n - 1]}
           Loop(f) == f = [n \in 0..N |-> Body(f, n)]
<1>1. N \in Nat
  BY FS_CardinalityType
<1>2. UpTo(g) = CHOOSE f : Loop(f)
  BY DEF UpTo
<1>3. G \in [1..N -> [S -> S]] /\ {} \in S
  OBVIOUS
<1>4. \A n \in 1..N : \A u \in S : G[n][u] = Freed(u)
  OBVIOUS
<1>5. \A f : Body(f, 0) = {}
  OBVIOUS
<1>6. \A f : \A n \in 1..N : Body(f, n) = Freed(f[n - 1])
  BY <1>1
<1>7. \A u : Freed(u) \in S
  OBVIOUS
<1> HIDE DEF N, G
<1>8. PICK f : StepRun(f, N, S, {}, G)
  <2>1. {} \in S
    BY <1>3
  <2>2. G \in StepMaps(N, S)
    BY <1>3 DEF StepMaps
  <2> HIDE DEF S
  <2> QED BY <1>1, <2>1, <2>2, StepsExist
<1>9. f \in [0..N -> S] /\ f[0] = {} /\ \A n \in 1..N : f[n] = G[n][f[n - 1]]
  BY <1>8 DEF StepRun
<1> HIDE DEF S, Freed, Body
<1>10. \A n \in 0..N : f[n] = Body(f, n)
  <2> SUFFICES ASSUME NEW n \in 0..N PROVE f[n] = Body(f, n)
    OBVIOUS
  <2>1. CASE n = 0
    BY <1>5, <1>9, <2>1
  <2>2. CASE n # 0
    <3>1. n \in 1..N /\ n - 1 \in 0..N
      BY <1>1, <2>2
    <3>2. f[n - 1] \in S
      BY <1>9, <3>1
    <3> QED BY <1>4, <1>6, <1>9, <3>1, <3>2
  <2> QED BY <2>1, <2>2
<1>11. Loop(f)
  BY <1>9, <1>10
<1> DEFINE h == CHOOSE x : Loop(x)
<1>12. Loop(h)
  BY <1>11
<1>13. UpTo(g) = h
  BY <1>2
<1> HIDE DEF h
<1>14. h = [n \in 0..N |-> Body(h, n)]
  BY <1>12
<1>15. \A n \in 0..N : h[n] = Body(h, n)
  BY <1>14
<1>16. h[0] = {} /\ \A n \in 1..N : h[n] = Freed(h[n - 1])
  <2>1. 0 \in 0..N /\ \A n \in 1..N : n \in 0..N
    BY <1>1
  <2> QED BY <1>5, <1>6, <1>15, <2>1
<1>17. \A n \in 0..N : h[n] \in S
  <2>1. {} \in S
    BY DEF S
  <2>2. \A n \in 0..N : n = 0 \/ n \in 1..N
    BY <1>1
  <2> QED BY <1>7, <1>16, <2>1, <2>2
<1>18. h \in [0..N -> S]
  <2>1. h = [n \in 0..N |-> h[n]]
    BY <1>14, <1>15
  <2> QED BY <1>17, <2>1
<1> QED BY <1>13, <1>16, <1>18 DEF TierRun, N, S, Freed

\* What the first tiers hold only grows.
LEMMA TiersGrow ==
    ASSUME NEW g, IsFiniteSet(DOMAIN g), NEW f, TierRun(f, g)
    PROVE  \A n \in 0..Cardinality(DOMAIN g) : \A m \in 0..n : f[m] \subseteq f[n]
<1> DEFINE D == DOMAIN g
           N == Cardinality(D)
           Freed(u) == {t \in D : g[t] \subseteq u}
           Up == {n \in 0..N : n < N => f[n] \subseteq f[n + 1]}
           All == {n \in 0..N : \A m \in 0..n : f[m] \subseteq f[n]}
<1>1. N \in Nat
  BY FS_CardinalityType
<1>2. f[0] = {} /\ \A n \in 1..N : f[n] = Freed(f[n - 1])
  BY DEF TierRun
<1>3. \A u, v : u \subseteq v => Freed(u) \subseteq Freed(v)
  OBVIOUS
<1> HIDE DEF N, Freed
<1>4. 0 \in Up
  BY <1>1, <1>2
<1>5. ASSUME NEW n \in 0..N, n < N, n \in Up PROVE n + 1 \in Up
  <2>1. n + 1 \in 0..N /\ n + 1 \in 1..N /\ (n + 1) - 1 = n
    BY <1>1, <1>5
  <2>2. f[n + 1] = Freed(f[n]) /\ f[n] \subseteq f[n + 1]
    BY <1>2, <1>5, <2>1
  <2>3. ASSUME n + 1 < N PROVE f[n + 1] \subseteq f[(n + 1) + 1]
    <3>1. (n + 1) + 1 \in 1..N /\ ((n + 1) + 1) - 1 = n + 1
      BY <1>1, <2>3
    <3>2. f[(n + 1) + 1] = Freed(f[n + 1])
      BY <1>2, <3>1
    <3> QED BY <1>3, <2>2, <3>2
  <2> QED BY <2>1, <2>3
<1>6. \A n \in 0..N : n \in Up
  <2> HIDE DEF Up
  <2> QED BY <1>1, <1>4, <1>5, Climbing
<1>7. 0 \in All
  <2>1. 0 \in 0..N /\ \A m \in 0..0 : m = 0
    BY <1>1
  <2> QED BY <2>1
<1>8. ASSUME NEW n \in 0..N, n < N, n \in All PROVE n + 1 \in All
  <2>1. f[n] \subseteq f[n + 1] /\ n + 1 \in 0..N
    BY <1>1, <1>6, <1>8
  <2>2. \A m \in 0..(n + 1) : m = n + 1 \/ m \in 0..n
    OBVIOUS
  <2>3. \A m \in 0..n : f[m] \subseteq f[n]
    BY <1>8
  <2> QED BY <2>1, <2>2, <2>3
<1>9. \A n \in 0..N : n \in All
  <2> HIDE DEF All
  <2> QED BY <1>1, <1>7, <1>8, Climbing
<1> QED BY <1>9 DEF N

\* After as many tiers as there are tasks nothing is left that could be in a further one.
LEMMA TiersEnd ==
    ASSUME NEW g, IsFiniteSet(DOMAIN g), \A t \in DOMAIN g : g[t] \subseteq DOMAIN g,
           NEW f, TierRun(f, g)
    PROVE  {t \in DOMAIN g : g[t] \subseteq f[Cardinality(DOMAIN g)]}
               = f[Cardinality(DOMAIN g)]
<1> DEFINE D == DOMAIN g
           N == Cardinality(D)
           Freed(u) == {t \in D : g[t] \subseteq u}
<1>1. N \in Nat
  BY FS_CardinalityType
<1>2. \A n \in 1..N : f[n] = Freed(f[n - 1])
  BY DEF TierRun
<1>3. \A n \in 0..N : f[n] \subseteq D
  BY DEF TierRun
<1>4. \A n \in 0..N : \A m \in 0..n : f[m] \subseteq f[n]
  BY TiersGrow
<1>5. \A n \in 0..N : IsFiniteSet(f[n]) /\ Cardinality(f[n]) \in Nat
  BY <1>3, FS_Subset, FS_CardinalityType
<1>6. Freed(D) = D
  OBVIOUS
<1> HIDE DEF N, Freed
<1>7. CASE \E n \in 0..N : n < N /\ f[n] = f[n + 1]
  <2>1. PICK n \in 0..N : n < N /\ f[n] = f[n + 1]
    BY <1>7
  <2>2. n + 1 \in 1..N /\ (n + 1) - 1 = n
    BY <1>1, <2>1
  <2>3. Freed(f[n]) = f[n]
    BY <1>2, <2>1, <2>2
  <2> DEFINE Settled == {m \in 0..N : m >= n => f[m] = f[n]}
  <2>4. 0 \in Settled
    <3>1. 0 \in 0..N /\ (0 >= n => n = 0)
      BY <1>1
    <3> QED BY <3>1
  <2>5. ASSUME NEW m \in 0..N, m < N, m \in Settled PROVE m + 1 \in Settled
    <3>1. m + 1 \in 1..N /\ (m + 1) - 1 = m /\ m + 1 \in 0..N
      BY <1>1, <2>5
    <3>2. f[m + 1] = Freed(f[m])
      BY <1>2, <3>1
    <3>3. CASE m >= n
      BY <2>3, <2>5, <3>1, <3>2, <3>3
    <3>4. CASE ~ (m >= n)
      <4>1. m + 1 >= n => m + 1 = n
        BY <3>4
      <4> QED BY <3>1, <4>1
    <3> QED BY <3>3, <3>4
  <2>6. \A m \in 0..N : m \in Settled
    <3> HIDE DEF Settled
    <3> QED BY <1>1, <2>4, <2>5, Climbing
  <2>7. N \in 0..N /\ N >= n
    BY <1>1
  <2>8. f[N] = f[n]
    BY <2>6, <2>7
  <2> QED BY <2>3, <2>8 DEF Freed, N
<1>8. CASE \A n \in 0..N : n < N => f[n] # f[n + 1]
  <2> DEFINE Large == {n \in 0..N : Cardinality(f[n]) >= n}
  <2>1. 0 \in Large
    BY <1>1, <1>5
  <2>2. ASSUME NEW n \in 0..N, n < N, n \in Large PROVE n + 1 \in Large
    <3>1. n + 1 \in 0..N /\ n \in 0..(n + 1)
      BY <1>1, <2>2
    <3>2. f[n] \subseteq f[n + 1] /\ f[n] # f[n + 1]
      BY <1>4, <1>8, <2>2, <3>1
    <3>3. IsFiniteSet(f[n + 1]) /\ Cardinality(f[n]) \in Nat /\ Cardinality(f[n + 1]) \in Nat
      BY <1>5, <3>1
    <3>4. Cardinality(f[n]) < Cardinality(f[n + 1])
      BY <3>2, <3>3, FS_Subset
    <3>5. Cardinality(f[n]) >= n
      BY <2>2
    <3>6. Cardinality(f[n + 1]) >= n + 1
      BY <3>3, <3>4, <3>5
    <3> QED BY <3>1, <3>6
  <2>3. \A n \in 0..N : n \in Large
    <3> HIDE DEF Large
    <3> QED BY <1>1, <2>1, <2>2, Climbing
  <2>4. N \in 0..N
    BY <1>1
  <2>5. Cardinality(f[N]) >= N /\ f[N] \subseteq D /\ Cardinality(f[N]) \in Nat
    BY <1>3, <1>5, <2>3, <2>4
  <2>6. Cardinality(f[N]) <= N /\ (N = Cardinality(f[N]) => D = f[N])
    <3>1. IsFiniteSet(D) /\ f[N] \in SUBSET D
      BY <2>5
    <3> HIDE DEF D
    <3> QED BY <3>1, FS_Subset DEF N
  <2>7. f[N] = D
    BY <1>1, <2>5, <2>6
  <2> QED BY <1>6, <2>7 DEF Freed, N
<1> QED BY <1>7, <1>8

\* Where something is in one of the first n tiers, it is in one of them.
LEMMA TierOf ==
    ASSUME NEW g, IsFiniteSet(DOMAIN g), NEW n \in 0..Cardinality(DOMAIN g),
           NEW f, TierRun(f, g), NEW t \in f[n]
    PROVE  \E m \in 1..n : t \in f[m] \ f[m - 1]
<1> DEFINE N == Cardinality(DOMAIN g)
           At == {m \in 0..N : t \in f[m]}
<1>1. N \in Nat
  BY FS_CardinalityType
<1>2. f[0] = {}
  BY DEF TierRun
<1> HIDE DEF N
<1>3. n \in 0..N /\ n \in At
  BY DEF N
<1>4. At \in SUBSET Nat
  OBVIOUS
<1>5. PICK m \in At : \A x \in At : m <= x
  <2> HIDE DEF At
  <2> QED BY <1>3, <1>4, LeastExists
<1>6. m \in 0..N /\ t \in f[m] /\ m <= n
  BY <1>3, <1>5
<1>7. m # 0
  BY <1>2, <1>6
<1>8. m \in 1..n /\ m - 1 \in 0..N /\ ~ (m <= m - 1)
  BY <1>1, <1>3, <1>6, <1>7
<1>9. m - 1 \notin At
  BY <1>5, <1>8
<1> QED BY <1>6, <1>8, <1>9

TiersAt(g) == /\ DOMAIN Tiers(g) = 1..Cardinality(DOMAIN g)
              /\ \A n \in 1..Cardinality(DOMAIN g) : Tiers(g)[n] = UpTo(g)[n] \ UpTo(g)[n - 1]

LEMMA TiersAre == ASSUME NEW g PROVE TiersAt(g)
BY DEF Tiers, TiersAt

\* What TiersSound says of the tiers, and that they hold no other tasks.
TiersRight(g) ==
    /\ DOMAIN Tiers(g) = 1..Cardinality(DOMAIN g)
    /\ \A n \in DOMAIN Tiers(g) : Tiers(g)[n] \subseteq DOMAIN g
    /\ (UNION Range(Tiers(g))) = DOMAIN g <=> Acyclic(g)
    /\ \A m, n \in DOMAIN Tiers(g) : m < n => Tiers(g)[m] \cap Tiers(g)[n] = {}
    /\ \A n \in DOMAIN Tiers(g) : \A t \in Tiers(g)[n] :
           \A d \in g[t] : \E m \in 1..(n - 1) : d \in Tiers(g)[m]

LEMMA TiersAreRight ==
    ASSUME NEW g, IsFiniteSet(DOMAIN g), \A t \in DOMAIN g : g[t] \subseteq DOMAIN g
    PROVE  TiersRight(g)
<1> DEFINE D == DOMAIN g
           N == Cardinality(D)
           T == Tiers(g)
<1>1. N \in Nat
  BY FS_CardinalityType
<1>2. PICK f : f = UpTo(g)
  OBVIOUS
<1>3. TierRun(f, g)
  BY <1>2, UpToRuns
<1>4. \A n \in 0..N : f[n] \subseteq D
  BY <1>3 DEF TierRun
<1>5. \A n \in 1..N : f[n] = {t \in D : g[t] \subseteq f[n - 1]}
  BY <1>3 DEF TierRun
<1>6. \A n \in 0..N : \A m \in 0..n : f[m] \subseteq f[n]
  BY <1>3, TiersGrow
<1>7. \A n \in 0..N : \A t \in f[n] : \E m \in 1..n : t \in f[m] \ f[m - 1]
  BY <1>3, TierOf
<1>8. {t \in D : g[t] \subseteq f[N]} = f[N]
  BY <1>3, TiersEnd
<1>9. DOMAIN T = 1..N /\ \A n \in 1..N : T[n] = f[n] \ f[n - 1]
  BY <1>2, TiersAre DEF TiersAt
<1> HIDE DEF N, T
<1>10. N \in 0..N /\ \A n \in 1..N : n \in 0..N /\ n - 1 \in 0..N
  BY <1>1
<1>11. UNION Range(T) = f[N]
  <2>1. ASSUME NEW t \in f[N] PROVE t \in UNION Range(T)
    <3>1. PICK m \in 1..N : t \in f[m] \ f[m - 1]
      BY <1>7, <1>10
    <3>2. t \in T[m] /\ m \in DOMAIN T
      BY <1>9, <3>1
    <3> QED BY <3>2 DEF Range
  <2>2. ASSUME NEW t \in UNION Range(T) PROVE t \in f[N]
    <3>1. PICK m \in DOMAIN T : t \in T[m]
      BY DEF Range
    <3>2. m \in 1..N /\ t \in f[m]
      BY <1>9, <3>1
    <3>3. m \in 0..N
      BY <1>10, <3>2
    <3> QED BY <1>6, <1>10, <3>2, <3>3
  <2> QED BY <2>1, <2>2
<1>12. ASSUME f[N] = D PROVE Acyclic(g)
  <2> SUFFICES ASSUME NEW ts \in SUBSET D, ts # {} PROVE \E t \in ts : g[t] \cap ts = {}
    BY DEF Acyclic
  <2> DEFINE At == {n \in 0..N : f[n] \cap ts # {}}
  <2>1. N \in At
    BY <1>10, <1>12
  <2>2. At \in SUBSET Nat
    OBVIOUS
  <2>3. PICK n \in At : \A x \in At : n <= x
    <3> HIDE DEF At
    <3> QED BY <2>1, <2>2, LeastExists
  <2>4. n \in 0..N /\ f[n] \cap ts # {}
    BY <2>3
  <2>5. n # 0
    BY <1>3, <2>4 DEF TierRun
  <2>6. n \in 1..N /\ n - 1 \in 0..N /\ ~ (n <= n - 1)
    BY <1>1, <2>4, <2>5
  <2>7. f[n - 1] \cap ts = {}
    BY <2>3, <2>6
  <2>8. PICK t \in ts : t \in f[n]
    BY <2>4
  <2>9. g[t] \subseteq f[n - 1]
    BY <1>5, <2>6, <2>8
  <2> QED BY <2>7, <2>9
<1>13. ASSUME Acyclic(g) PROVE f[N] = D
  <2> DEFINE ts == D \ f[N]
  <2>1. SUFFICES ASSUME ts # {} PROVE FALSE
    BY <1>4, <1>10
  <2>2. ts \in SUBSET D
    OBVIOUS
  <2>3. PICK t \in ts : g[t] \cap ts = {}
    BY <1>13, <2>1, <2>2 DEF Acyclic
  <2>4. t \in D /\ g[t] \subseteq D
    BY <2>3
  <2>5. g[t] \subseteq f[N]
    BY <2>3, <2>4
  <2>6. t \in f[N]
    BY <1>8, <2>4, <2>5
  <2> QED BY <2>6
<1>14. ASSUME NEW m \in 1..N, NEW n \in 1..N, m < n PROVE T[m] \cap T[n] = {}
  <2>1. m \in 0..(n - 1) /\ n - 1 \in 0..N
    BY <1>1, <1>14
  <2>2. f[m] \subseteq f[n - 1]
    BY <1>6, <2>1
  <2> QED BY <1>9, <2>2
<1>15. ASSUME NEW n \in 1..N, NEW t \in T[n], NEW d \in g[t]
       PROVE  \E m \in 1..(n - 1) : d \in T[m]
  <2>1. t \in f[n]
    BY <1>9
  <2>2. d \in f[n - 1] /\ n - 1 \in 0..N
    BY <1>5, <1>10, <2>1
  <2>3. PICK m \in 1..(n - 1) : d \in f[m] \ f[m - 1]
    BY <1>7, <2>2
  <2>4. m \in 1..N
    BY <1>1, <2>3
  <2> QED BY <1>9, <2>3, <2>4
<1>16. \A n \in 1..N : T[n] \subseteq D
  BY <1>4, <1>9, <1>10
<1> QED BY <1>9, <1>11, <1>12, <1>13, <1>14, <1>15, <1>16 DEF TiersRight, N, T

-----------------------------------------------------------------------------
(* The order of a run                                                      *)

TierBefore(g) == {p \in (DOMAIN g) \X (DOMAIN g) : Precedes(Tiers(g), p[1], p[2])}

LEMMA BeforeIs ==
    ASSUME NEW g
    PROVE  \A t, u \in DOMAIN g : <<t, u>> \in TierBefore(g) <=> Precedes(Tiers(g), t, u)
<1> SUFFICES ASSUME NEW t \in DOMAIN g, NEW u \in DOMAIN g
             PROVE  <<t, u>> \in TierBefore(g) <=> Precedes(Tiers(g), t, u)
  OBVIOUS
<1>1. <<t, u>> \in (DOMAIN g) \X (DOMAIN g) /\ <<t, u>>[1] = t /\ <<t, u>>[2] = u
  OBVIOUS
<1> QED BY <1>1 DEF TierBefore

\* Where the tiers have every task, one of two tasks is before the other, and what a task
\* depends on is before it.
LEMMA TiersOrder ==
    ASSUME NEW g, IsFiniteSet(DOMAIN g), \A t \in DOMAIN g : g[t] \subseteq DOMAIN g,
           DOMAIN g \subseteq Nat, ~ HasCycle(g)
    PROVE  /\ Orders(TierBefore(g), DOMAIN g)
           /\ \A t \in DOMAIN g : \A d \in g[t] : <<d, t>> \in TierBefore(g)
<1> DEFINE D == DOMAIN g
           T == Tiers(g)
           I == DOMAIN T
<1>1. /\ DOMAIN T = 1..Cardinality(D) /\ \A n \in DOMAIN T : T[n] \subseteq D
      /\ \A m, n \in DOMAIN T : m < n => T[m] \cap T[n] = {}
      /\ \A n \in DOMAIN T : \A t \in T[n] : \A d \in g[t] : \E m \in 1..(n - 1) : d \in T[m]
  <2>1. TiersRight(g)
    BY TiersAreRight
  <2> QED BY <2>1 DEF TiersRight
<1>2. (UNION Range(T)) = D
  BY DEF HasCycle
<1>3. Cardinality(D) \in Nat
  BY FS_CardinalityType
<1> HIDE DEF T
<1>4. I \in SUBSET Nat
  BY <1>1, <1>3
<1>5. \A n \in I : \A m \in 1..(n - 1) : m \in I
  BY <1>1, <1>3
<1> HIDE DEF I
<1>6. \A t \in D : \E n \in I : t \in T[n]
  BY <1>2 DEF Range, I
<1> DEFINE at == [t \in D |-> CHOOSE n \in I : t \in T[n]]
<1>7. \A t \in D : at[t] \in I /\ t \in T[at[t]]
  BY <1>6
<1> HIDE DEF at
<1>8. \A t \in D : at[t] \in Nat
  BY <1>4, <1>7
<1>9. \A t \in D : \A n \in I : t \in T[n] => n = at[t]
  <2> SUFFICES ASSUME NEW t \in D, NEW n \in I, t \in T[n], n # at[t] PROVE FALSE
    OBVIOUS
  <2>1. n \in Nat /\ at[t] \in Nat /\ at[t] \in I /\ t \in T[at[t]]
    BY <1>4, <1>7
  <2>2. n < at[t] \/ at[t] < n
    BY <2>1
  <2> QED BY <1>1, <2>1, <2>2 DEF I
<1>10. \A t, u \in D : Precedes(T, t, u) <=> at[t] < at[u] \/ (at[t] = at[u] /\ t < u)
  <2> SUFFICES ASSUME NEW t \in D, NEW u \in D
               PROVE  Precedes(T, t, u) <=> at[t] < at[u] \/ (at[t] = at[u] /\ t < u)
    OBVIOUS
  <2>1. ASSUME Precedes(T, t, u) PROVE at[t] < at[u] \/ (at[t] = at[u] /\ t < u)
    <3>1. PICK n \in I : \E m \in I : t \in T[n] /\ u \in T[m] /\ (n < m \/ (n = m /\ t < u))
      BY <2>1 DEF Precedes, I
    <3>2. PICK m \in I : t \in T[n] /\ u \in T[m] /\ (n < m \/ (n = m /\ t < u))
      BY <3>1
    <3>3. n = at[t] /\ m = at[u]
      BY <1>9, <3>2
    <3> QED BY <3>2, <3>3
  <2>2. ASSUME at[t] < at[u] \/ (at[t] = at[u] /\ t < u) PROVE Precedes(T, t, u)
    BY <1>7, <2>2 DEF Precedes, I
  <2> QED BY <2>1, <2>2
<1>11. \A t, u \in D : <<t, u>> \in TierBefore(g) <=> at[t] < at[u] \/ (at[t] = at[u] /\ t < u)
  BY <1>10, BeforeIs DEF T
<1> DEFINE R == TierBefore(g)
<1> HIDE DEF R
<1>12. \A t, u \in D : <<t, u>> \in R <=> at[t] < at[u] \/ (at[t] = at[u] /\ t < u)
  BY <1>11 DEF R
<1>13. D \in SUBSET Nat
  OBVIOUS
<1> HIDE DEF D
<1>14. \A t \in D : <<t, t>> \notin R
  <2> SUFFICES ASSUME NEW t \in D PROVE <<t, t>> \notin R
    OBVIOUS
  <2>1. t \in Nat /\ at[t] \in Nat
    BY <1>8, <1>13
  <2>2. ~ (at[t] < at[t] \/ (at[t] = at[t] /\ t < t))
    BY <2>1
  <2> QED BY <1>12, <2>2
<1>15. \A t, u, v \in D : <<t, u>> \in R /\ <<u, v>> \in R => <<t, v>> \in R
  <2> SUFFICES ASSUME NEW t \in D, NEW u \in D, NEW v \in D, <<t, u>> \in R, <<u, v>> \in R
               PROVE  <<t, v>> \in R
    OBVIOUS
  <2>1. t \in Nat /\ u \in Nat /\ v \in Nat /\ at[t] \in Nat /\ at[u] \in Nat /\ at[v] \in Nat
    BY <1>8, <1>13
  <2>2. at[t] < at[u] \/ (at[t] = at[u] /\ t < u)
    BY <1>12
  <2>3. at[u] < at[v] \/ (at[u] = at[v] /\ u < v)
    BY <1>12
  <2>4. at[t] < at[v] \/ (at[t] = at[v] /\ t < v)
    BY <2>1, <2>2, <2>3
  <2> QED BY <1>12, <2>4
<1>16. \A t, u \in D : t # u => <<t, u>> \in R \/ <<u, t>> \in R
  <2> SUFFICES ASSUME NEW t \in D, NEW u \in D, t # u PROVE <<t, u>> \in R \/ <<u, t>> \in R
    OBVIOUS
  <2>1. t \in Nat /\ u \in Nat /\ at[t] \in Nat /\ at[u] \in Nat
    BY <1>8, <1>13
  <2>2. \/ at[t] < at[u] \/ (at[t] = at[u] /\ t < u)
        \/ at[u] < at[t] \/ (at[u] = at[t] /\ u < t)
    BY <2>1
  <2> QED BY <1>12, <2>2
<1>17. ASSUME NEW t \in D, NEW d \in g[t] PROVE <<d, t>> \in R
  <2>1. at[t] \in I /\ t \in T[at[t]]
    BY <1>7
  <2>2. PICK m \in 1..(at[t] - 1) : d \in T[m]
    BY <1>1, <2>1 DEF I
  <2>3. m \in I /\ m < at[t]
    BY <1>5, <1>8, <2>1, <2>2
  <2>4. d \in D
    BY <1>1, <2>2, <2>3 DEF I
  <2>5. m = at[d]
    BY <1>9, <2>2, <2>3, <2>4
  <2> QED BY <1>12, <2>3, <2>4, <2>5
<1> QED BY <1>14, <1>15, <1>16, <1>17 DEF Orders, D, R

\* q has every task of g, and each after all that it depends on.
Runs(q, g) ==
    /\ q \in Seq(DOMAIN g)
    /\ \A t \in DOMAIN g : \E i \in 1..Len(q) : q[i] = t
    /\ \A i \in 1..Len(q) : \A d \in g[q[i]] : \E j \in 1..(i - 1) : q[j] = d

LEMMA RunOrderRuns ==
    ASSUME NEW g, IsFiniteSet(DOMAIN g), \A t \in DOMAIN g : g[t] \subseteq DOMAIN g,
           DOMAIN g \subseteq Nat, ~ HasCycle(g)
    PROVE  Runs(RunOrder(g), g)
<1> DEFINE D == DOMAIN g
           N == Cardinality(D)
           R == TierBefore(g)
           Rank(t) == RankBy(R, D, t)
           Place(t) == Cardinality({u \in D : Precedes(Tiers(g), u, t)})
           q == RunOrder(g)
<1>1. Orders(R, D) /\ \A t \in D : \A d \in g[t] : <<d, t>> \in R
  BY TiersOrder
<1>2. \A t \in D : Place(t) = Rank(t)
  <2> SUFFICES ASSUME NEW t \in D PROVE Place(t) = Rank(t)
    OBVIOUS
  <2>1. {u \in D : Precedes(Tiers(g), u, t)} = {u \in D : <<u, t>> \in R}
    BY BeforeIs
  <2> QED BY <2>1 DEF RankBy, Under
<1>3. q = [i \in 1..N |-> CHOOSE t \in D : Place(t) = i - 1]
  BY DEF RunOrder
<1> HIDE DEF q, Place, Rank, N, R
<1>4. N \in Nat
  BY FS_CardinalityType DEF N
<1>5. /\ \A i \in 1..N : \E t \in D : Rank(t) = i - 1
      /\ \A t, u \in D : Rank(t) = Rank(u) => t = u
  BY <1>1, RanksCover DEF N, Rank
<1>6. \A t \in D : Rank(t) \in 0..(N - 1)
  BY <1>1, RanksClimb DEF N, Rank
<1>7. \A t, u \in D : <<t, u>> \in R => Rank(t) < Rank(u)
  BY <1>1, RanksClimb DEF Rank
<1>8. ASSUME NEW i \in 1..N PROVE q[i] \in D /\ Rank(q[i]) = i - 1
  <2>1. \E t \in D : Place(t) = i - 1
    BY <1>2, <1>5
  <2>2. q[i] = CHOOSE t \in D : Place(t) = i - 1
    BY <1>3
  <2>3. q[i] \in D /\ Place(q[i]) = i - 1
    BY <2>1, <2>2
  <2> QED BY <1>2, <2>3
<1>9. q \in [1..N -> D]
  <2>1. q = [i \in 1..N |-> q[i]]
    BY <1>3
  <2> QED BY <1>8, <2>1
<1>10. q \in Seq(D) /\ Len(q) = N
  BY <1>4, <1>9
<1>11. ASSUME NEW t \in D PROVE \E i \in 1..N : q[i] = t
  <2>1. Rank(t) + 1 \in 1..N /\ (Rank(t) + 1) - 1 = Rank(t)
    BY <1>4, <1>6
  <2>2. q[Rank(t) + 1] \in D /\ Rank(q[Rank(t) + 1]) = Rank(t)
    BY <1>8, <2>1
  <2>3. q[Rank(t) + 1] = t
    BY <1>5, <2>2
  <2> QED BY <2>1, <2>3
<1>12. ASSUME NEW i \in 1..N, NEW d \in g[q[i]] PROVE \E j \in 1..(i - 1) : q[j] = d
  <2>1. q[i] \in D /\ Rank(q[i]) = i - 1
    BY <1>8
  <2>2. d \in D /\ <<d, q[i]>> \in R
    BY <1>1, <2>1
  <2>3. Rank(d) < Rank(q[i]) /\ Rank(d) \in 0..(N - 1)
    BY <1>6, <1>7, <2>1, <2>2
  <2>4. PICK j \in 1..N : q[j] = d
    BY <1>11, <2>2
  <2>5. Rank(d) = j - 1
    BY <1>8, <2>4
  <2>6. j \in 1..(i - 1)
    BY <1>4, <2>1, <2>3, <2>5
  <2> QED BY <2>4, <2>6
<1> QED BY <1>10, <1>11, <1>12 DEF Runs, q

-----------------------------------------------------------------------------
(* Submissions                                                             *)

\* A graph of tasks, closed under dependencies.
IsGraph(g) == DOMAIN g \subseteq TaskIds /\ \A t \in DOMAIN g : g[t] \subseteq DOMAIN g

GraphsOver == UNION {[ts -> SUBSET TaskIds] : ts \in SUBSET TaskIds}
Accumulators == [graph : GraphsOver, ok : BOOLEAN]

\* h has the tasks and the dependencies of g.
Extends(h, g) == DOMAIN g \subseteq DOMAIN h /\ \A t \in DOMAIN g : g[t] \subseteq h[t]

LEMMA AddTaskExtends ==
    ASSUME NEW g, IsGraph(g), NEW t \in TaskIds
    PROVE  /\ IsGraph(AddTask(g, t)) /\ AddTask(g, t) \in GraphsOver
           /\ Extends(AddTask(g, t), g)
           /\ DOMAIN AddTask(g, t) = DOMAIN g \cup {t}
<1> DEFINE h == AddTask(g, t)
           D == DOMAIN g \cup {t}
<1>1. /\ DOMAIN h = D
      /\ \A u \in D : h[u] = IF u \in DOMAIN g THEN g[u] ELSE {}
  BY DEF AddTask
<1>2. h = [u \in D |-> h[u]]
  BY DEF AddTask
<1>3. D \subseteq TaskIds
  BY DEF IsGraph
<1> HIDE DEF h
<1>4. \A u \in D : h[u] \subseteq DOMAIN g /\ (u \in DOMAIN g => h[u] = g[u])
  BY <1>1 DEF IsGraph
<1>5. \A u \in D : h[u] \in SUBSET TaskIds
  BY <1>4 DEF IsGraph
<1>6. h \in [D -> SUBSET TaskIds]
  BY <1>2, <1>5
<1> QED BY <1>1, <1>3, <1>4, <1>6 DEF IsGraph, GraphsOver, Extends, h

\* A submission only adds to the graph; one that is accepted adds the dependency.
LEMMA AddDependencyExtends ==
    ASSUME NEW acc \in Accumulators, IsGraph(acc.graph), NEW t \in TaskIds, NEW d \in TaskIds
    PROVE  LET r == AddDependency(acc, t, d)
           IN  /\ r \in Accumulators /\ IsGraph(r.graph) /\ Extends(r.graph, acc.graph)
               /\ r.ok => acc.ok /\ t \in DOMAIN r.graph /\ d \in r.graph[t]
<1> DEFINE r == AddDependency(acc, t, d)
           h == AddTask(AddTask(acc.graph, t), d)
           g == [h EXCEPT ![t] = @ \cup {d}]
<1>1. CASE ~ acc.ok \/ t = d
  <2>1. r = [acc EXCEPT !.ok = FALSE]
    BY <1>1 DEF AddDependency
  <2>2. r \in Accumulators /\ r.graph = acc.graph /\ r.ok = FALSE
    BY <2>1 DEF Accumulators
  <2>3. Extends(acc.graph, acc.graph)
    BY DEF Extends
  <2> HIDE DEF r
  <2>4. /\ r \in Accumulators /\ IsGraph(r.graph) /\ Extends(r.graph, acc.graph)
        /\ r.ok => acc.ok /\ t \in DOMAIN r.graph /\ d \in r.graph[t]
    BY <2>2, <2>3
  <2> QED BY <2>4 DEF r
<1>2. CASE acc.ok /\ t # d
  <2>1. r = [graph |-> g, ok |-> ~ HasCycle(g)]
    BY <1>2 DEF AddDependency
  <2>2. r.graph = g
    BY <2>1
  <2>3. /\ IsGraph(h) /\ h \in GraphsOver /\ Extends(h, acc.graph)
        /\ t \in DOMAIN h /\ d \in DOMAIN h
    <3> DEFINE k == AddTask(acc.graph, t)
    <3>1. IsGraph(k) /\ Extends(k, acc.graph) /\ t \in DOMAIN k
      BY AddTaskExtends, ZenonT(30)
    <3> HIDE DEF k
    <3>2. /\ IsGraph(AddTask(k, d)) /\ AddTask(k, d) \in GraphsOver /\ Extends(AddTask(k, d), k)
          /\ DOMAIN AddTask(k, d) = DOMAIN k \cup {d}
      BY <3>1, AddTaskExtends
    <3>3. Extends(AddTask(k, d), acc.graph)
      BY <3>1, <3>2 DEF Extends
    <3> QED BY <3>1, <3>2, <3>3 DEF k
  <2> HIDE DEF h
  <2>4. PICK D \in SUBSET TaskIds : h \in [D -> SUBSET TaskIds]
    BY <2>3 DEF GraphsOver
  <2>5. DOMAIN g = DOMAIN h /\ DOMAIN h = D
    BY <2>4
  <2>6. \A u \in DOMAIN h : g[u] = IF u = t THEN h[t] \cup {d} ELSE h[u]
    BY <2>3
  <2>7. g = [u \in DOMAIN h |-> g[u]]
    BY <2>4
  <2> HIDE DEF g
  <2>8. IsGraph(g)
    BY <2>3, <2>5, <2>6 DEF IsGraph
  <2>9. Extends(g, acc.graph)
    BY <2>3, <2>5, <2>6 DEF Extends
  <2>10. \A u \in D : g[u] \in SUBSET TaskIds
    BY <2>5, <2>8 DEF IsGraph
  <2>11. g \in [D -> SUBSET TaskIds]
    BY <2>5, <2>7, <2>10
  <2>12. g \in GraphsOver
    BY <2>11 DEF GraphsOver
  <2>13. HasCycle(g) \in BOOLEAN
    BY DEF HasCycle
  <2>14. r \in Accumulators
    BY <2>1, <2>12, <2>13 DEF Accumulators
  <2>15. d \in g[t]
    BY <2>3, <2>6
  <2> HIDE DEF r
  <2>16. /\ r \in Accumulators /\ IsGraph(r.graph) /\ Extends(r.graph, acc.graph)
         /\ r.ok => acc.ok /\ t \in DOMAIN r.graph /\ d \in r.graph[t]
    BY <1>2, <2>2, <2>3, <2>5, <2>8, <2>9, <2>14, <2>15
  <2> QED BY <2>16 DEF r
<1>3. acc.ok \in BOOLEAN
  BY DEF Accumulators
<1> QED BY <1>1, <1>2, <1>3

\* What a submission does to the graph.
Accepts(r, g, t, depends) ==
    /\ IsGraph(r.graph) /\ Extends(r.graph, g)
    /\ r.ok => t \in DOMAIN r.graph /\ \A i \in 1..Len(depends) : depends[i] \in r.graph[t]

LEMMA SubmittedExtends ==
    ASSUME IsGraph(graph), NEW t \in TaskIds, NEW depends \in Seq(TaskIds)
    PROVE  Accepts(Submitted(t, depends), graph, t, depends)
<1> DEFINE L == Len(depends)
           b == [graph |-> AddTask(graph, t), ok |-> TRUE]
           A == {acc \in Accumulators : IsGraph(acc.graph)}
           G == [n \in 1..L |-> [acc \in A |-> AddDependency(acc, t, depends[n])]]
           Body(f, n) == IF n = 0 THEN [graph |-> AddTask(graph, t), ok |-> TRUE]
                         ELSE AddDependency(f[n - 1], t, depends[n])
           Loop(f) == f = [n \in 0..L |-> Body(f, n)]
           After == CHOOSE f : Loop(f)
<1>1. L \in Nat /\ \A n \in 1..L : depends[n] \in TaskIds
  OBVIOUS
<1>2. Submitted(t, depends) = After[L]
  BY DEF Submitted
<1>3. \A f : Body(f, 0) = b
  OBVIOUS
<1>4. \A f : \A n \in 1..L : Body(f, n) = AddDependency(f[n - 1], t, depends[n])
  BY <1>1
<1>5. b \in A /\ b.graph = AddTask(graph, t) /\ b.ok
  <2>1. AddTask(graph, t) \in GraphsOver /\ IsGraph(AddTask(graph, t))
    BY AddTaskExtends
  <2> QED BY <2>1 DEF Accumulators
<1>6. ASSUME NEW acc \in A, NEW d \in TaskIds
      PROVE  /\ AddDependency(acc, t, d) \in A /\ Extends(AddDependency(acc, t, d).graph, acc.graph)
             /\ AddDependency(acc, t, d).ok =>
                    /\ acc.ok /\ t \in DOMAIN AddDependency(acc, t, d).graph
                    /\ d \in AddDependency(acc, t, d).graph[t]
  BY AddDependencyExtends
<1> HIDE DEF L, b, A, Body
<1>7. \A n \in 1..L : \A acc \in A : G[n][acc] = AddDependency(acc, t, depends[n])
  OBVIOUS
<1>8. G \in StepMaps(L, A)
  <2>1. \A n \in 1..L : \A acc \in A : AddDependency(acc, t, depends[n]) \in A
    BY <1>1, <1>6
  <2> QED BY <2>1 DEF StepMaps
<1> HIDE DEF G
<1>9. PICK f : StepRun(f, L, A, b, G)
  BY <1>1, <1>5, <1>8, StepsExist
<1>10. f \in [0..L -> A] /\ f[0] = b /\ \A n \in 1..L : f[n] = G[n][f[n - 1]]
  BY <1>9 DEF StepRun
<1>11. \A n \in 0..L : f[n] = Body(f, n)
  <2> SUFFICES ASSUME NEW n \in 0..L PROVE f[n] = Body(f, n)
    OBVIOUS
  <2>1. CASE n = 0
    BY <1>3, <1>10, <2>1
  <2>2. CASE n # 0
    <3>1. n \in 1..L /\ n - 1 \in 0..L
      BY <1>1, <2>2
    <3>2. PICK acc \in A : acc = f[n - 1]
      BY <1>10, <3>1
    <3>3. f[n] = G[n][acc]
      BY <1>10, <3>1, <3>2
    <3>4. Body(f, n) = AddDependency(acc, t, depends[n])
      BY <1>4, <3>1, <3>2
    <3> QED BY <1>7, <3>1, <3>3, <3>4
  <2> QED BY <2>1, <2>2
<1>12. Loop(f)
  BY <1>10, <1>11
<1>13. Loop(After)
  BY <1>12
<1> HIDE DEF After
<1>14. \A n \in 0..L : After[n] = Body(After, n)
  BY <1>13
<1> DEFINE Right(n) == /\ After[n] \in A /\ Extends(After[n].graph, graph)
                       /\ t \in DOMAIN After[n].graph
                       /\ After[n].ok => \A i \in 1..n : depends[i] \in After[n].graph[t]
           S == {n \in 0..L : Right(n)}
<1>15. 0 \in S
  <2>1. After[0] = b /\ 0 \in 0..L
    BY <1>1, <1>3, <1>14
  <2>2. Extends(AddTask(graph, t), graph) /\ t \in DOMAIN AddTask(graph, t)
    BY AddTaskExtends
  <2>3. \A i \in 1..0 : FALSE
    OBVIOUS
  <2>4. Extends(b.graph, graph) /\ t \in DOMAIN b.graph
    BY <1>5, <2>2
  <2> QED BY <1>5, <2>1, <2>3, <2>4
<1>16. ASSUME NEW n \in 0..L, n < L, n \in S PROVE n + 1 \in S
  <2>1. n + 1 \in 1..L /\ n + 1 \in 0..L /\ (n + 1) - 1 = n
    BY <1>1, <1>16
  <2>2. PICK acc \in A : acc = After[n]
    BY <1>16
  <2>3. PICK d \in TaskIds : d = depends[n + 1]
    BY <1>1, <2>1
  <2>4. PICK r : r = AddDependency(acc, t, d)
    OBVIOUS
  <2>5. After[n + 1] = r
    BY <1>4, <1>14, <2>1, <2>2, <2>3, <2>4
  <2>6. /\ r \in A /\ Extends(r.graph, acc.graph)
        /\ r.ok => acc.ok /\ t \in DOMAIN r.graph /\ d \in r.graph[t]
    BY <1>6, <2>4
  <2>7. /\ Extends(acc.graph, graph) /\ t \in DOMAIN acc.graph
        /\ acc.ok => \A i \in 1..n : depends[i] \in acc.graph[t]
    BY <1>16, <2>2
  <2>8. Extends(r.graph, graph) /\ t \in DOMAIN r.graph /\ acc.graph[t] \subseteq r.graph[t]
    BY <2>6, <2>7 DEF Extends
  <2>9. \A i \in 1..(n + 1) : i \in 1..n \/ i = n + 1
    OBVIOUS
  <2>10. r.ok => \A i \in 1..(n + 1) : depends[i] \in r.graph[t]
    BY <2>3, <2>6, <2>7, <2>8, <2>9
  <2> QED BY <2>1, <2>5, <2>6, <2>8, <2>10
<1>17. \A n \in 0..L : n \in S
  <2> HIDE DEF S
  <2> QED BY <1>1, <1>15, <1>16, Climbing
<1>18. L \in 0..L
  BY <1>1
<1>19. Right(L)
  BY <1>17, <1>18
<1> QED BY <1>2, <1>19 DEF Accepts, A, L

-----------------------------------------------------------------------------
(* The workflow                                                            *)

\* The types that the argument needs.
FlowTypes ==
    /\ IsGraph(graph)
    /\ tasks \in [TaskIds -> TaskStatus]
    /\ snapshot = NoSnapshot \/ snapshot \in [TaskIds -> TaskStatus]
    /\ asked \in [TaskIds -> SUBSET TaskIds]

\* What an accepted submission asked for is still in the graph.
AskedIsKept ==
    call # "down" =>
        \A t \in TaskIds : asked[t] # {} => t \in DOMAIN graph /\ asked[t] \subseteq graph[t]

\* A task is completed or queued, behind all that it depends on.
Queued(q, g, ts) ==
    /\ q \in Seq(DOMAIN g)
    /\ \A t \in DOMAIN g : ts[t] = "Completed" \/ \E i \in 1..Len(q) : q[i] = t
    /\ \A i \in 1..Len(q) : \A d \in g[q[i]] :
           ts[d] = "Completed" \/ \E j \in 1..(i - 1) : q[j] = d

QueueInv == call = "running" => Queued(queue, graph, tasks)

FlowInv == FlowTypes /\ AskedIsKept /\ QueueInv

LEMMA InitFlowInv == Init => FlowInv
<1> SUFFICES ASSUME Init PROVE FlowInv
  OBVIOUS
<1>1. DOMAIN graph = {}
  BY DEF Init, NoGraph
<1>2. FlowTypes /\ AskedIsKept
  BY <1>1 DEF Init, FlowTypes, AskedIsKept, IsGraph, NoTasks, TaskStatus
<1>3. QueueInv
  BY DEF Init, QueueInv
<1> QED BY <1>2, <1>3 DEF FlowInv

\* What dependencies a submission names.
LEMMA DependenciesAre ==
    ASSUME NEW depends \in Dependencies
    PROVE  /\ depends \in Seq(TaskIds)
           /\ Range(depends) = {depends[i] : i \in 1..Len(depends)}
           /\ Range(depends) \subseteq TaskIds
<1>1. PICK n \in 0..MaxDeps : depends \in [1..n -> TaskIds]
  BY DEF Dependencies
<1>2. n \in Nat
  BY <1>1, WorkflowBoundsAreCounts
<1>3. depends \in Seq(TaskIds) /\ DOMAIN depends = 1..Len(depends)
  BY <1>1, <1>2
<1> QED BY <1>1, <1>3 DEF Range

\* The graph of a restored snapshot: no dependencies.
LEMMA BareIsGraph ==
    ASSUME NEW ts
    PROVE  IsGraph([t \in {u \in TaskIds : ts[u] # "none"} |-> {}])
BY DEF IsGraph

\* A queue without its head.
LEMMA TailRuns ==
    ASSUME NEW S, NEW q \in Seq(S), q # << >>
    PROVE  /\ Head(q) \in S /\ Head(q) = q[1] /\ Tail(q) \in Seq(S)
           /\ Len(q) \in Nat /\ Len(q) >= 1 /\ Len(Tail(q)) = Len(q) - 1
           /\ \A i \in 1..(Len(q) - 1) : Tail(q)[i] = q[i + 1]
<1>1. Len(q) \in Nat /\ Len(q) >= 1
  OBVIOUS
<1>2. Head(q) \in S /\ Head(q) = q[1] /\ Tail(q) \in Seq(S) /\ Len(Tail(q)) = Len(q) - 1
  OBVIOUS
<1>3. \A i \in 1..(Len(q) - 1) : Tail(q)[i] = q[i + 1]
  OBVIOUS
<1> QED BY <1>1, <1>2, <1>3

\* The rest of the queue after its head was completed.
LEMMA QueueGoesOn ==
    ASSUME NEW g, NEW ts, NEW us, NEW q, q # << >>, Queued(q, g, ts),
           \A t \in DOMAIN g : g[t] \subseteq DOMAIN g,
           us[Head(q)] = "Completed",
           \A t \in DOMAIN g : ts[t] = "Completed" => us[t] = "Completed"
    PROVE  Queued(Tail(q), g, us)
<1>1. /\ q \in Seq(DOMAIN g)
      /\ \A t \in DOMAIN g : ts[t] = "Completed" \/ \E i \in 1..Len(q) : q[i] = t
      /\ \A i \in 1..Len(q) : \A d \in g[q[i]] :
             ts[d] = "Completed" \/ \E j \in 1..(i - 1) : q[j] = d
  BY DEF Queued
<1> DEFINE r == Tail(q)
<1>2. /\ r \in Seq(DOMAIN g) /\ Head(q) = q[1] /\ Len(q) \in Nat /\ Len(q) >= 1
      /\ Len(r) = Len(q) - 1
      /\ \A i \in 1..(Len(q) - 1) : r[i] = q[i + 1]
  BY <1>1, TailRuns
<1>3. \A i \in 1..Len(q) : q[i] \in DOMAIN g
  BY <1>1
<1> HIDE DEF r
<1>4. ASSUME NEW t \in DOMAIN g, us[t] # "Completed" PROVE \E i \in 1..Len(r) : r[i] = t
  <2>1. PICK i \in 1..Len(q) : q[i] = t
    BY <1>4, <1>1
  <2>2. i # 1
    BY <1>2, <1>4, <2>1
  <2>3. i - 1 \in 1..Len(r) /\ (i - 1) + 1 = i
    BY <1>2, <2>2
  <2> QED BY <1>2, <2>1, <2>3
<1>5. ASSUME NEW i \in 1..Len(r), NEW d \in g[r[i]], us[d] # "Completed"
      PROVE  \E j \in 1..(i - 1) : r[j] = d
  <2>1. i + 1 \in 1..Len(q) /\ r[i] = q[i + 1] /\ (i + 1) - 1 = i
    BY <1>2
  <2>2. d \in DOMAIN g /\ ts[d] # "Completed"
    BY <1>5, <1>3, <2>1
  <2>3. d \in g[q[i + 1]]
    BY <2>1
  <2>4. \E j \in 1..((i + 1) - 1) : q[j] = d
    BY <1>1, <2>1, <2>2, <2>3
  <2>5. PICK j \in 1..i : q[j] = d
    BY <2>1, <2>4
  <2>6. j # 1
    BY <1>2, <1>5, <2>5
  <2>7. j - 1 \in 1..(i - 1) /\ (j - 1) + 1 = j /\ j - 1 \in 1..(Len(q) - 1)
    BY <1>2, <2>5, <2>6
  <2> QED BY <1>2, <2>5, <2>7
<1> QED BY <1>2, <1>4, <1>5 DEF Queued, r

LEMMA TaskGraphs ==
    ASSUME NEW g, IsGraph(g)
    PROVE  IsFiniteSet(DOMAIN g) /\ (DOMAIN g \subseteq Nat)
           /\ \A t \in DOMAIN g : g[t] \subseteq DOMAIN g
<1>1. DOMAIN g \in SUBSET TaskIds
  BY DEF IsGraph
<1> QED BY <1>1, TaskIdsAreNumbers, FS_Subset DEF IsGraph

\* Submissions extend the graph; a run starts with the order of the tiers and takes the
\* queue from the front, which has nothing uncompleted before it.
LEMMA NextFlowInv == FlowInv /\ [Next]_wvars => FlowInv'
<1> SUFFICES ASSUME FlowInv, [Next]_wvars PROVE FlowInv'
  OBVIOUS
<1> USE DEF FlowInv
<1>1. ASSUME NEW t \in TaskIds, NEW depends \in Dependencies, SubmitTask(t, depends)
      PROVE  FlowInv'
  <2>1. PICK r : r = Submitted(t, depends)
    OBVIOUS
  <2>2. /\ call = "idle" /\ call' = "idle" /\ UNCHANGED snapshot
        /\ graph' = r.graph
        /\ IF r.ok THEN /\ tasks' = [tasks EXCEPT ![t] = "Pending"]
                        /\ asked' = [asked EXCEPT ![t] = @ \cup Range(depends)]
           ELSE UNCHANGED <<tasks, asked>>
    BY <1>1, <2>1 DEF SubmitTask
  <2>3. depends \in Seq(TaskIds) /\ Range(depends) \subseteq TaskIds
        /\ Range(depends) = {depends[i] : i \in 1..Len(depends)}
    BY DependenciesAre
  <2>4. Accepts(r, graph, t, depends)
    BY <2>1, <2>3, SubmittedExtends DEF FlowTypes
  <2>5. IsGraph(graph') /\ Extends(graph', graph)
    BY <2>2, <2>4 DEF Accepts
  <2>6. r.ok => t \in DOMAIN graph' /\ Range(depends) \subseteq graph'[t]
    BY <2>2, <2>3, <2>4 DEF Accepts
  <2>7. FlowTypes'
    <3>1. tasks' \in [TaskIds -> TaskStatus]
      BY <2>2 DEF FlowTypes, TaskStatus
    <3>2. asked' \in [TaskIds -> SUBSET TaskIds]
      BY <2>2, <2>3 DEF FlowTypes
    <3>3. IsGraph(graph)' = IsGraph(graph')
      BY DEF IsGraph
    <3> QED BY <2>2, <2>5, <3>1, <3>2 DEF FlowTypes, IsGraph
  <2>8. AskedIsKept'
    <3> SUFFICES ASSUME NEW u \in TaskIds, asked'[u] # {}
                 PROVE  u \in DOMAIN graph' /\ asked'[u] \subseteq graph'[u]
      BY DEF AskedIsKept
    <3>1. asked[u] # {} => u \in DOMAIN graph' /\ asked[u] \subseteq graph'[u]
      BY <2>2, <2>5 DEF AskedIsKept, Extends
    <3>2. CASE r.ok /\ u = t
      <4>1. asked'[u] = asked[u] \cup Range(depends)
        BY <2>2, <3>2 DEF FlowTypes
      <4> QED BY <2>6, <3>1, <3>2, <4>1
    <3>3. CASE ~ (r.ok /\ u = t)
      <4>1. asked'[u] = asked[u]
        BY <2>2, <3>3 DEF FlowTypes
      <4> QED BY <3>1, <4>1
    <3> QED BY <3>2, <3>3
  <2> QED BY <2>2, <2>7, <2>8 DEF QueueInv
<1>2. ASSUME NEW t \in TaskIds, RunSingleTask(t) PROVE FlowInv'
  <2>1. /\ call = "idle" /\ call' = "idle" /\ graph' = AddTask(graph, t)
        /\ UNCHANGED <<snapshot, asked>>
        /\ \/ tasks' = [tasks EXCEPT ![t] = "Completed"]
           \/ tasks' = [tasks EXCEPT ![t] = "Pending"]
    BY <1>2 DEF RunSingleTask
  <2>2. IsGraph(graph') /\ Extends(graph', graph)
    BY <2>1, AddTaskExtends DEF FlowTypes
  <2>3. tasks' \in [TaskIds -> TaskStatus]
    BY <2>1 DEF FlowTypes, TaskStatus
  <2>4. FlowTypes'
    BY <2>1, <2>2, <2>3 DEF FlowTypes, IsGraph
  <2>5. AskedIsKept'
    BY <2>1, <2>2 DEF AskedIsKept, Extends
  <2> QED BY <2>1, <2>4, <2>5 DEF QueueInv
<1>3. CASE RunWorkflow
  <2>1. call = "idle" /\ UNCHANGED <<graph, tasks, snapshot, asked>>
    BY <1>3 DEF RunWorkflow, store, promised
  <2>2. FlowTypes' /\ AskedIsKept'
    BY <2>1 DEF FlowTypes, AskedIsKept, IsGraph
  <2>3. CASE HasCycle(graph)
    <3>1. call' = "idle"
      BY <1>3, <2>1, <2>3 DEF RunWorkflow
    <3> QED BY <2>2, <3>1 DEF QueueInv
  <2>4. CASE ~ HasCycle(graph)
    <3>1. queue' = RunOrder(graph)
      BY <1>3, <2>4 DEF RunWorkflow
    <3>2. Runs(queue', graph)
      BY <2>4, <3>1, RunOrderRuns, TaskGraphs DEF FlowTypes
    <3>3. QueueInv'
      BY <2>1, <3>2 DEF Runs, QueueInv, Queued
    <3> QED BY <2>2, <3>3
  <2> QED BY <2>3, <2>4
<1>4. CASE ExecuteTask
  <2>1. PICK t : t = Head(queue)
    OBVIOUS
  <2>2. /\ call = "running" /\ queue # << >> /\ queue' = Tail(queue)
        /\ tasks' = [tasks EXCEPT ![t] = "Completed"]
        /\ UNCHANGED <<graph, call, snapshot, asked>>
    BY <1>4, <2>1 DEF ExecuteTask, store, promised
  <2>3. Queued(queue, graph, tasks)
    BY <2>2 DEF QueueInv
  <2>4. t \in DOMAIN graph
    <3>1. queue \in Seq(DOMAIN graph)
      BY <2>3 DEF Queued
    <3> QED BY <2>1, <2>2, <3>1, TailRuns
  <2>5. t \in TaskIds
    BY <2>4 DEF FlowTypes, IsGraph
  <2>6. tasks' \in [TaskIds -> TaskStatus] /\ tasks'[t] = "Completed"
        /\ \A u \in TaskIds : tasks[u] = "Completed" => tasks'[u] = "Completed"
    BY <2>2, <2>5 DEF FlowTypes, TaskStatus
  <2>7. FlowTypes' /\ AskedIsKept'
    BY <2>2, <2>6 DEF FlowTypes, AskedIsKept, IsGraph
  <2>8. PICK us : us = tasks'
    OBVIOUS
  <2>9. Queued(Tail(queue), graph, us)
    <3>1. \A u \in DOMAIN graph : graph[u] \subseteq DOMAIN graph /\ u \in TaskIds
      BY DEF FlowTypes, IsGraph
    <3>2. us[Head(queue)] = "Completed"
      BY <2>1, <2>6, <2>8
    <3>3. \A u \in DOMAIN graph : tasks[u] = "Completed" => us[u] = "Completed"
      BY <2>6, <2>8, <3>1
    <3>4. queue # << >>
      BY <2>2
    <3> HIDE DEF FlowInv
    <3> QED BY <2>3, <3>1, <3>2, <3>3, <3>4, QueueGoesOn
  <2>10. QueueInv'
    <3>1. PICK q, g : q = Tail(queue) /\ g = graph
      OBVIOUS
    <3>2. queue' = q /\ graph' = g /\ tasks' = us
      BY <2>2, <2>8, <3>1
    <3>3. Queued(q, g, us)
      BY <2>9, <3>1
    <3> HIDE DEF FlowInv
    <3> QED BY ONLY <3>2, <3>3 DEF QueueInv, Queued
  <2> QED BY <2>7, <2>10
<1>5. CASE TaskFails
  <2>1. /\ call' = "idle" /\ call = "running" /\ UNCHANGED <<graph, snapshot, asked>>
        /\ tasks' = IF tasks[Head(queue)] = "none" THEN tasks
                    ELSE [tasks EXCEPT ![Head(queue)] = "Failed"]
    BY <1>5 DEF TaskFails, store
  <2>2. tasks' \in [TaskIds -> TaskStatus]
    BY <2>1 DEF FlowTypes, TaskStatus
  <2> QED BY <2>1, <2>2 DEF FlowTypes, AskedIsKept, QueueInv, IsGraph
<1>6. CASE FinishRun \/ Checkpoint \/ PersistMemory \/ StoreFails
  <2>1. call' # "running" /\ call # "down" /\ UNCHANGED <<graph, tasks, snapshot, asked>>
    BY <1>6 DEF FinishRun, Checkpoint, PersistMemory, StoreFails, store, promised
  <2> QED BY <2>1 DEF FlowTypes, AskedIsKept, QueueInv, IsGraph
<1>7. CASE CheckpointFullWorkflow
  <2>1. call' = "memory" /\ call # "down" /\ snapshot' = tasks /\ UNCHANGED <<graph, tasks, asked>>
    BY <1>7 DEF CheckpointFullWorkflow, promised
  <2> QED BY <2>1 DEF FlowTypes, AskedIsKept, QueueInv, IsGraph
<1>8. CASE Crash
  <2>1. /\ call' = "down" /\ graph' = NoGraph /\ tasks' = NoTasks /\ UNCHANGED asked
        /\ snapshot' = snapshot \/ snapshot' = tasks
    BY <1>8 DEF Crash, promised
  <2>2. DOMAIN graph' = {} /\ tasks' \in [TaskIds -> TaskStatus]
    BY <2>1 DEF NoGraph, NoTasks, TaskStatus
  <2> QED BY <2>1, <2>2 DEF FlowTypes, AskedIsKept, QueueInv, IsGraph
<1>9. CASE Restore
  <2>1. call' = "idle" /\ asked' = [t \in TaskIds |-> {}] /\ UNCHANGED snapshot
    BY <1>9 DEF Restore, store
  <2>2. IsGraph(graph') /\ tasks' \in [TaskIds -> TaskStatus]
    <3>1. CASE snapshot = NoSnapshot
      BY <1>9, <3>1 DEF Restore, FlowTypes
    <3>2. CASE snapshot # NoSnapshot
      <4>1. tasks' = snapshot /\ graph' = [t \in {u \in TaskIds : snapshot[u] # "none"} |-> {}]
        BY <1>9, <3>2 DEF Restore
      <4> QED BY <3>2, <4>1, BareIsGraph DEF FlowTypes
    <3> QED BY <3>1, <3>2
  <2>3. asked' \in [TaskIds -> SUBSET TaskIds] /\ \A t \in TaskIds : asked'[t] = {}
    BY <2>1
  <2> QED BY <2>1, <2>2, <2>3 DEF FlowTypes, AskedIsKept, QueueInv, IsGraph
<1>10. CASE UNCHANGED wvars
  <2>1. UNCHANGED <<graph, tasks, snapshot, asked, call, queue>>
    BY <1>10 DEF wvars, store, promised
  <2> QED BY <2>1 DEF FlowTypes, AskedIsKept, QueueInv, Queued, IsGraph
<1> QED BY <1>1, <1>2, <1>3, <1>4, <1>5, <1>6, <1>7, <1>8, <1>9, <1>10 DEF Next

\* A run of the tiers one after the other is never blocked, and the tiers are what they
\* should be in any graph that submissions can make (topological_tiers, run_workflow).
THEOREM TiersAreSound == Spec => []TiersSound
<1>1. FlowInv => TiersSound
  <2> SUFFICES ASSUME FlowInv PROVE TiersSound
    OBVIOUS
  <2>1. TiersRight(graph)
    BY TaskGraphs, TiersAreRight DEF FlowInv, FlowTypes
  <2>2. RunNeverBlocked
    <3> SUFFICES ASSUME call = "running" PROVE \A i \in DOMAIN queue : \A d \in graph[queue[i]] :
                     tasks[d] = "Completed" \/ \E j \in 1..(i - 1) : queue[j] = d
      BY DEF RunNeverBlocked
    <3>1. queue \in Seq(DOMAIN graph)
      BY DEF FlowInv, QueueInv, Queued
    <3>2. DOMAIN queue = 1..Len(queue)
      BY <3>1
    <3> QED BY <3>2 DEF FlowInv, QueueInv, Queued
  <2> QED BY <2>1, <2>2 DEF TiersRight, TiersSound
<1> QED BY <1>1, InitFlowInv, NextFlowInv, PTL DEF Spec

\* Neither a run nor a single task completes a task before what it was accepted with
\* (execute_task, run_single_task).
THEOREM DependenciesComeFirst == Spec => DependenciesFirst
<1> DEFINE First == \A t \in TaskIds :
                        tasks[t] # "Completed" /\ tasks'[t] = "Completed" =>
                            \A d \in asked[t] : tasks[d] = "Completed"
<1>1. FlowInv /\ [Next]_wvars => [call # "down" => First]_wvars
  <2> SUFFICES ASSUME FlowInv, Next, call # "down", NEW t \in TaskIds,
                      tasks[t] # "Completed", tasks'[t] = "Completed",
                      NEW d \in asked[t]
               PROVE  tasks[d] = "Completed"
    OBVIOUS
  <2>1. d \in TaskIds /\ t \in DOMAIN graph /\ d \in graph[t]
    BY DEF FlowInv, FlowTypes, AskedIsKept
  <2>2. tasks \in [TaskIds -> TaskStatus]
    BY DEF FlowInv, FlowTypes
  <2>3. ASSUME NEW u \in TaskIds, NEW depends \in Dependencies, SubmitTask(u, depends) PROVE FALSE
    <3>1. tasks' = tasks \/ tasks' = [tasks EXCEPT ![u] = "Pending"]
      BY <2>3 DEF SubmitTask
    <3> QED BY <2>2, <3>1
  <2>4. ASSUME NEW u \in TaskIds, RunSingleTask(u) PROVE tasks[d] = "Completed"
    <3>1. CASE tasks' = [tasks EXCEPT ![u] = "Pending"]
      BY <2>2, <3>1
    <3>2. CASE /\ tasks' = [tasks EXCEPT ![u] = "Completed"]
               /\ Executable(graph', [tasks EXCEPT ![u] = "Pending"], u)
      <4>1. u = t
        BY <2>2, <3>2
      <4>2. graph' = AddTask(graph, t)
        BY <2>4, <4>1 DEF RunSingleTask
      <4>3. t \in DOMAIN graph' /\ d \in graph'[t]
        BY <2>1, <4>2 DEF AddTask
      <4> DEFINE ts == [tasks EXCEPT ![t] = "Pending"]
      <4>4. ts[d] = "Completed"
        BY <3>2, <4>1, <4>3 DEF Executable
      <4>5. ts[d] = IF d = t THEN "Pending" ELSE tasks[d]
        BY <2>1, <2>2
      <4> HIDE DEF ts
      <4> QED BY <4>4, <4>5
    <3> QED BY <2>4, <3>1, <3>2 DEF RunSingleTask
  <2>5. CASE ExecuteTask
    <3>1. /\ Executable(graph, tasks, Head(queue))
          /\ tasks' = [tasks EXCEPT ![Head(queue)] = "Completed"]
      BY <2>5 DEF ExecuteTask
    <3>2. Head(queue) = t
      BY <2>2, <3>1
    <3> QED BY <2>1, <3>1, <3>2 DEF Executable
  <2>6. CASE TaskFails
    <3>1. tasks' = IF tasks[Head(queue)] = "none" THEN tasks
                   ELSE [tasks EXCEPT ![Head(queue)] = "Failed"]
      BY <2>6 DEF TaskFails
    <3> QED BY <2>2, <3>1
  <2>7. CASE RunWorkflow \/ FinishRun \/ Checkpoint \/ CheckpointFullWorkflow \/ PersistMemory
             \/ StoreFails
    BY <2>7 DEF RunWorkflow, FinishRun, Checkpoint, CheckpointFullWorkflow, PersistMemory,
                StoreFails
  <2>8. CASE Crash
    BY <2>8 DEF Crash, NoTasks
  <2>9. CASE Restore
    BY <2>9 DEF Restore
  <2> QED BY <2>3, <2>4, <2>5, <2>6, <2>7, <2>8, <2>9 DEF Next
<1> QED BY <1>1, InitFlowInv, NextFlowInv, PTL DEF Spec, DependenciesFirst

\* A run that ends well has executed all that is in the graph (run_workflow).
THEOREM SuccessIsComplete == Spec => SucceededIsComplete
<1> DEFINE Whole == \A t \in DOMAIN graph : tasks[t] = "Completed"
<1>1. FlowInv /\ [Next]_wvars => [status # "Succeeded" /\ status' = "Succeeded" => Whole]_wvars
  <2> SUFFICES ASSUME FlowInv, Next, status # "Succeeded", status' = "Succeeded"
               PROVE  Whole
    OBVIOUS
  <2>1. CASE FinishRun
    <3>1. call = "running" /\ queue = << >>
      BY <2>1 DEF FinishRun
    <3>2. \A i \in 1..Len(queue) : FALSE
      BY <3>1
    <3> QED BY <3>1, <3>2 DEF FlowInv, QueueInv, Queued
  <2>2. ~ FinishRun => FALSE
    BY DEF Next, SubmitTask, RunSingleTask, RunWorkflow, ExecuteTask, TaskFails, Checkpoint,
           CheckpointFullWorkflow, PersistMemory, StoreFails, Crash, Restore
  <2> QED BY <2>1, <2>2
<1> QED BY <1>1, InitFlowInv, NextFlowInv, PTL DEF Spec, SucceededIsComplete

-----------------------------------------------------------------------------
(* The reflection loop                                                     *)

\* A verdict is one of the four.
LEMMA EvaluateIsVerdict ==
    ASSUME NEW n, NEW score, NEW veto
    PROVE  Evaluate(n, score, veto) \in Verdicts
BY DEF Evaluate, Verdicts

\* The last element of a sequence that was appended to.
LEMMA LastOfAppend ==
    ASSUME NEW S, NEW s \in Seq(S), NEW e \in S
    PROVE  /\ Append(s, e) \in Seq(S)
           /\ Len(Append(s, e)) = Len(s) + 1
           /\ LatestStep(Append(s, e)) = e
           /\ \A i \in 1..Len(s) : Append(s, e)[i] = s[i]
BY DEF LatestStep

\* Nothing but a sequence of steps, a count of them and a verdict is ever recorded
\* (record_step).
THEOREM ReflectionTypeCorrect == LoopSpec => []ReflectionTypeOK
<1>1. LoopInit => ReflectionTypeOK
  <2> SUFFICES ASSUME LoopInit PROVE ReflectionTypeOK
    OBVIOUS
  <2>1. limit \in 0..5
    BY LimitsAreCounts DEF LoopInit
  <2>2. steps \in Seq(Step) /\ Len(steps) = 0
    BY DEF LoopInit
  <2> QED BY <2>1, <2>2 DEF LoopInit, ReflectionTypeOK
<1>2. ReflectionTypeOK /\ [LoopNext]_rvars => ReflectionTypeOK'
  <2> SUFFICES ASSUME ReflectionTypeOK, [LoopNext]_rvars PROVE ReflectionTypeOK'
    OBVIOUS
  <2>1. ASSUME NEW score \in Scores, NEW veto \in BOOLEAN, Iterate(score, veto)
        PROVE  ReflectionTypeOK'
    <3> DEFINE verdict == Evaluate(iteration + 1, score, veto)
               e == [score |-> score, veto |-> veto, verdict |-> verdict]
    <3>1. verdict \in Verdicts
      BY EvaluateIsVerdict
    <3>2. e \in Step
      BY <3>1 DEF Step
    <3>3. steps' = Append(steps, e) /\ iteration' = iteration + 1
      BY <2>1 DEF Iterate
    <3> HIDE DEF verdict, e
    <3>4. steps' \in Seq(Step) /\ Len(steps') = iteration'
      BY <3>2, <3>3, LastOfAppend DEF ReflectionTypeOK
    <3>5. RecordStep(iteration + 1, score, verdict)
      BY <2>1 DEF Iterate, verdict
    <3>6. converged' \in BOOLEAN /\ final' \in Verdicts \cup {"none"}
      BY <3>1, <3>5 DEF RecordStep, ReflectionTypeOK, Verdicts
    <3>7. loop' \in {"running", "done", "failed"} /\ UNCHANGED limit
      BY <2>1 DEF Iterate
    <3> QED BY <3>3, <3>4, <3>6, <3>7 DEF ReflectionTypeOK
  <2>2. CASE ReflectorFails
    BY <2>2 DEF ReflectorFails, ReflectionTypeOK
  <2>3. CASE UNCHANGED rvars
    BY <2>3 DEF rvars, ReflectionTypeOK
  <2> QED BY <2>1, <2>2, <2>3 DEF LoopNext
<1> QED BY <1>1, <1>2, PTL DEF LoopSpec

\* The last pass that is allowed never asks for a revision.
LEMMA RevisionHasPassLeft ==
    ASSUME NEW n \in Nat, NEW score \in Scores, NEW veto \in BOOLEAN, limit \in Nat,
           Evaluate(n, score, veto) = "NeedsRevision"
    PROVE  n < limit
BY DEF Evaluate

\* A vetoed candidate is not approved, nor one below the threshold that has not stagnated.
LEMMA ApprovalHasGrounds ==
    ASSUME NEW n \in Nat, NEW score \in Scores, NEW veto \in BOOLEAN,
           Evaluate(n, score, veto) = "Approved"
    PROVE  /\ ~ veto
           /\ score >= PassingThreshold \/ (score >= PassingThreshold - 5 /\ Stagnates(score))
<1> score \in Int
  BY ScoresAreHundredths
<1> QED BY DEF Evaluate, PassingThreshold

\* execute_loop has no count of its own: it ends because evaluate gives up at
\* max_iterations, after which no step follows.
THEOREM LoopEnds == LoopSpec => []LoopIsBounded
<1>1. LoopInit => LoopIsBounded
  <2> SUFFICES ASSUME LoopInit PROVE LoopIsBounded
    OBVIOUS
  <2>1. limit \in Nat
    <3>1. PICK m \in IterationLimits : limit = IF m < 5 THEN m ELSE 5
      BY DEF LoopInit
    <3> QED BY <3>1, LimitsAreCounts
  <2> QED BY <2>1 DEF LoopInit, LoopIsBounded
<1>2. ReflectionTypeOK /\ LoopIsBounded /\ [LoopNext]_rvars => LoopIsBounded'
  <2> SUFFICES ASSUME ReflectionTypeOK, LoopIsBounded, [LoopNext]_rvars PROVE LoopIsBounded'
    OBVIOUS
  <2> limit \in Nat /\ iteration \in Nat
    BY DEF ReflectionTypeOK
  <2>1. ASSUME NEW score \in Scores, NEW veto \in BOOLEAN, Iterate(score, veto)
        PROVE  LoopIsBounded'
    <3>1. iteration' = iteration + 1 /\ limit' = limit /\ loop = "running"
      BY <2>1 DEF Iterate
    <3>2. loop' = "running" => iteration + 1 < limit
      BY <2>1, RevisionHasPassLeft DEF Iterate
    <3> QED BY <3>1, <3>2 DEF LoopIsBounded
  <2>2. CASE ReflectorFails
    BY <2>2 DEF ReflectorFails, LoopIsBounded
  <2>3. CASE UNCHANGED rvars
    BY <2>3 DEF rvars, LoopIsBounded
  <2> QED BY <2>1, <2>2, <2>3 DEF LoopNext
<1> QED BY <1>1, <1>2, ReflectionTypeCorrect, PTL DEF LoopSpec

\* An approved end of execute_loop is one that evaluate had grounds for.
THEOREM ApprovalIsSound == LoopSpec => []ApprovedIsSound
<1>1. LoopInit => ApprovedIsSound
  BY DEF LoopInit, ApprovedIsSound
<1>2. ReflectionTypeOK /\ ApprovedIsSound /\ [LoopNext]_rvars => ApprovedIsSound'
  <2> SUFFICES ASSUME ReflectionTypeOK, ApprovedIsSound, [LoopNext]_rvars PROVE ApprovedIsSound'
    OBVIOUS
  <2>1. ASSUME NEW score \in Scores, NEW veto \in BOOLEAN, Iterate(score, veto)
        PROVE  ApprovedIsSound'
    <3> DEFINE verdict == Evaluate(iteration + 1, score, veto)
               e == [score |-> score, veto |-> veto, verdict |-> verdict]
    <3>1. iteration + 1 \in Nat /\ score \in Int /\ steps \in Seq(Step)
      BY ScoresAreHundredths DEF ReflectionTypeOK
    <3>2. e \in Step
      BY EvaluateIsVerdict DEF Step
    <3>3. e.score = score /\ e.veto = veto /\ e.verdict = verdict
      OBVIOUS
    <3>4. steps' = Append(steps, e)
      BY <2>1 DEF Iterate
    <3>5. verdict = "Approved" =>
            /\ ~ veto
            /\ score >= PassingThreshold \/ (score >= PassingThreshold - 5 /\ Stagnates(score))
      BY <3>1, ApprovalHasGrounds
    <3> HIDE DEF e, verdict
    <3>6. /\ Len(steps') = Len(steps) + 1 /\ LatestStep(steps') = e
          /\ \A i \in 1..Len(steps) : steps'[i] = steps[i]
      BY <3>1, <3>2, <3>4, LastOfAppend
    <3>7. Stagnates(score) =>
            Len(steps') >= 3 /\ score - steps'[Len(steps') - 2].score <= 2
      <4> SUFFICES ASSUME Stagnates(score)
                   PROVE  Len(steps') >= 3 /\ score - steps'[Len(steps') - 2].score <= 2
        OBVIOUS
      <4> DEFINE m == Len(steps)
      <4>1. m \in Nat /\ m >= 2
        BY <3>1 DEF Stagnates
      <4>2. steps[m] \in Step /\ steps[m - 1] \in Step
        BY <3>1, <4>1
      <4>3. steps[m].score \in Int /\ steps[m - 1].score \in Int
        <5> HIDE DEF m
        <5>1. \A s \in Step : s.score \in Scores
          BY DEF Step
        <5>2. Scores \subseteq Int
          BY ScoresAreHundredths
        <5>3. steps[m].score \in Scores /\ steps[m - 1].score \in Scores
          BY <4>2, <5>1
        <5> QED BY <5>2, <5>3
      <4>4. /\ Distance(score, steps[m].score) < 2
            /\ Distance(steps[m].score, steps[m - 1].score) < 2
        BY DEF Stagnates, StagnationEpsilon, LatestStep
      <4>5. score - steps[m - 1].score <= 2
        BY <3>1, <4>3, <4>4 DEF Distance
      <4>6. Len(steps') = m + 1 /\ steps'[m - 1] = steps[m - 1]
        BY <3>6, <4>1
      <4>7. Len(steps') - 2 = m - 1
        BY <4>1, <4>6
      <4> QED BY <4>1, <4>5, <4>6, <4>7
    <3> QED BY <3>1, <3>3, <3>5, <3>6, <3>7 DEF ApprovedIsSound, PassingThreshold
  <2>2. CASE ReflectorFails
    BY <2>2 DEF ReflectorFails, ApprovedIsSound
  <2>3. CASE UNCHANGED rvars
    BY <2>3 DEF rvars, ApprovedIsSound, LatestStep
  <2> QED BY <2>1, <2>2, <2>3 DEF LoopNext
<1> QED BY <1>1, <1>2, ReflectionTypeCorrect, PTL DEF LoopSpec

LEMMA StepScores == \A e \in Step : e.score \in Int
<1>1. \A e \in Step : e.score \in Scores
  BY DEF Step
<1>2. Scores \subseteq Int
  BY ScoresAreHundredths
<1> QED BY <1>1, <1>2

\* max_by finds the last step if that has the highest score alone.
LEMMA BestIsLast ==
    ASSUME NEW s \in Seq(Step), Len(s) >= 1,
           \A j \in 1..(Len(s) - 1) : s[j].score < s[Len(s)].score
    PROVE  BestCandidate(s) = Len(s)
<1> DEFINE last == Len(s)
           Best(i) == \A j \in 1..last :
                        s[j].score <= s[i].score /\ (s[j].score = s[i].score => j <= i)
<1>1. last \in Nat /\ last \in 1..last
  OBVIOUS
<1>2. \A j \in 1..last : s[j].score \in Int
  <2> TAKE j \in 1..last
  <2>1. s[j] \in Step
    OBVIOUS
  <2> QED BY <2>1, StepScores
<1>3. \A j \in 1..last : j # last => j \in 1..(last - 1)
  BY <1>1
<1>4. \A j \in 1..last : j # last => s[j].score < s[last].score
  BY <1>3
<1>5. Best(last)
  <2> TAKE j \in 1..last
  <2>1. CASE j = last
    BY <1>1, <1>2, <2>1
  <2>2. CASE j # last
    BY <1>1, <1>2, <1>4, <2>2
  <2> QED BY <2>1, <2>2
<1>6. \A i \in 1..last : Best(i) => i = last
  <2> SUFFICES ASSUME NEW i \in 1..last, Best(i), i # last PROVE FALSE
    OBVIOUS
  <2>1. s[last].score <= s[i].score
    BY <1>1
  <2>2. s[i].score < s[last].score
    BY <1>4
  <2> QED BY <1>1, <1>2, <2>1, <2>2
<1>7. BestCandidate(s) = CHOOSE i \in 1..last : Best(i)
  BY DEF BestCandidate
<1> HIDE DEF Best, last
<1>8. (CHOOSE i \in 1..last : Best(i)) = last
  BY <1>1, <1>5, <1>6
<1> QED BY <1>7, <1>8 DEF last

\* A candidate that the loop went on from was vetoed or failed to pass.
SentBackInv ==
    loop = "running" =>
        \A i \in 1..Len(steps) : ~ steps[i].veto => steps[i].score < PassingThreshold

\* evaluate sends a candidate back for a veto, or for a score below the threshold.
LEMMA RevisionHasGrounds ==
    ASSUME NEW n \in Nat, NEW score \in Scores, NEW veto \in BOOLEAN, limit \in Nat,
           Evaluate(n, score, veto) = "NeedsRevision", ~ veto
    PROVE  score < PassingThreshold
<1> score \in Int
  BY ScoresAreHundredths
<1> QED BY DEF Evaluate, PassingThreshold

\* execute_task takes the best candidate and not the last (types.rs, best_candidate):
\* without vetoes that is the one that passed, whatever was sent back before it.
THEOREM PassedIsTaken == LoopSpec => []PassedIsBest
<1>1. LoopInit => SentBackInv /\ PassedIsBest
  BY DEF LoopInit, SentBackInv, PassedIsBest
<1>2. ReflectionTypeOK /\ SentBackInv /\ PassedIsBest /\ [LoopNext]_rvars
        => SentBackInv' /\ PassedIsBest'
  <2> SUFFICES ASSUME ReflectionTypeOK, SentBackInv, PassedIsBest, [LoopNext]_rvars
               PROVE  SentBackInv' /\ PassedIsBest'
    OBVIOUS
  <2>1. ASSUME NEW score \in Scores, NEW veto \in BOOLEAN, Iterate(score, veto)
        PROVE  SentBackInv' /\ PassedIsBest'
    <3> DEFINE verdict == Evaluate(iteration + 1, score, veto)
               e == [score |-> score, veto |-> veto, verdict |-> verdict]
               m == Len(steps)
    <3>1. /\ iteration + 1 \in Nat /\ limit \in Nat /\ score \in Int
          /\ steps \in Seq(Step) /\ m \in Nat
      BY ScoresAreHundredths DEF ReflectionTypeOK
    <3>2. e \in Step
      BY EvaluateIsVerdict DEF Step
    <3>3. e.score = score /\ e.veto = veto
      OBVIOUS
    <3>4. steps' = Append(steps, e) /\ loop = "running"
      BY <2>1 DEF Iterate
    <3>5. verdict = "NeedsRevision" /\ ~ veto => score < PassingThreshold
      BY <3>1, RevisionHasGrounds
    <3>6. loop' = "running" => verdict = "NeedsRevision"
      BY <2>1 DEF Iterate
    <3> HIDE DEF e, verdict
    <3>7. /\ steps' \in Seq(Step) /\ Len(steps') = m + 1 /\ LatestStep(steps') = e
          /\ \A i \in 1..m : steps'[i] = steps[i]
      BY <3>1, <3>2, <3>4, LastOfAppend
    <3>8. steps'[m + 1] = e
      BY <3>7 DEF LatestStep
    <3>9. \A i \in 1..m : ~ steps'[i].veto => steps'[i].score < PassingThreshold
      BY <3>4, <3>7 DEF SentBackInv
    <3> HIDE DEF m
    <3>10. \A i \in 1..(m + 1) : i \in 1..m \/ i = m + 1
      BY <3>1
    <3>11. SentBackInv'
      BY <3>3, <3>5, <3>6, <3>7, <3>8, <3>9, <3>10 DEF SentBackInv
    <3>12. PassedIsBest'
      <4> SUFFICES ASSUME score >= PassingThreshold, \A i \in 1..(m + 1) : ~ steps'[i].veto
                   PROVE  BestCandidate(steps') = m + 1
        BY <3>3, <3>7 DEF PassedIsBest
      <4>1. \A j \in 1..m : steps'[j] \in Step /\ ~ steps'[j].veto
        BY <3>1, <3>7
      <4>2. \A s \in Step : s.score \in Int
        BY StepScores
      <4>3. \A j \in 1..m : steps'[j].score < score
        <5> TAKE j \in 1..m
        <5>1. steps'[j].score \in Int /\ steps'[j].score < PassingThreshold
          BY <3>9, <4>1, <4>2
        <5> QED BY <3>1, <5>1 DEF PassingThreshold
      <4>4. Len(steps') - 1 = m /\ Len(steps') >= 1 /\ steps'[Len(steps')].score = score
        BY <3>1, <3>3, <3>7, <3>8
      <4>5. \A j \in 1..(Len(steps') - 1) : steps'[j].score < steps'[Len(steps')].score
        BY <4>3, <4>4
      <4> DEFINE after == steps'
      <4> HIDE DEF after
      <4>6. BestCandidate(after) = Len(after)
        BY <3>7, <4>4, <4>5, BestIsLast DEF after
      <4> QED BY <3>7, <4>6 DEF after
    <3> QED BY <3>11, <3>12
  <2>2. CASE ReflectorFails
    BY <2>2 DEF ReflectorFails, SentBackInv, PassedIsBest
  <2>3. CASE UNCHANGED rvars
    BY <2>3 DEF rvars, SentBackInv, PassedIsBest, LatestStep
  <2> QED BY <2>1, <2>2, <2>3 DEF LoopNext
<1> QED BY <1>1, <1>2, ReflectionTypeCorrect, PTL DEF LoopSpec

-----------------------------------------------------------------------------
(* What the commands on a workflow have done and saved is found by every    *)
(* later one, for any workflows, tasks, agents, commands and faults.        *)

Parts == {"tasks", "agents", "episodes"}
AnyAgents == SUBSET (StandardAgents \cup CustomAgents)
AnyEpisodes == SUBSET (SessionTasks \cup Nat)
States == [tasks : SUBSET SessionTasks, agents : AnyAgents, messages : SUBSET SessionTasks]
Pipes == [tasks : SUBSET SessionTasks, agents : AnyAgents, messages : SUBSET SessionTasks,
          episodes : AnyEpisodes]

\* A record is in the store once or not at all.
SessionTypeInv ==
    /\ workflow \in Workflows
    /\ pipe \in Pipes
    /\ misread \in BOOLEAN
    /\ savedState \in [Workflows -> {{}} \cup {{s} : s \in States}]
    /\ savedMemory \in [Workflows -> {{}} \cup {{e} : e \in AnyEpisodes}]
    /\ reported \in [Workflows -> Pipes]
    /\ commands \in Nat

\* A command works on all that was reported, unless it could not read it; in that case the
\* workflow counts as overwritten from its first write on.
WorkInv ==
    /\ step \in {"opened", "state", "memory"} /\ ~ misread /\ workflow \notin overwritten =>
         \A part \in Parts : AllIn(reported[workflow], part, pipe)
    /\ step = "memory" =>
         /\ misread => workflow \in overwritten
         /\ savedState[workflow] =
              {[tasks |-> pipe.tasks, agents |-> pipe.agents, messages |-> pipe.messages]}

SessionInv == SessionTypeInv /\ WorkInv /\ SessionsContinue

-----------------------------------------------------------------------------
\* What a restored pipeline holds.
LEMMA RestoredHolds ==
    ASSUME NEW w \in Workflows, SessionTypeInv
    PROVE  /\ Restored(w) \in Pipes
           /\ savedState[w] = {} => Restored(w) = EmptyPipe
           /\ \A s \in States : savedState[w] = {s} =>
                Restored(w) = [tasks |-> s.tasks, agents |-> s.agents, messages |-> {},
                               episodes |-> UNION savedMemory[w]]
           /\ UNION savedMemory[w] \in AnyEpisodes
<1>1. UNION savedMemory[w] \in AnyEpisodes
  BY DEF SessionTypeInv, AnyEpisodes
<1>2. CASE savedState[w] = {}
  BY <1>1, <1>2 DEF Restored, EmptyPipe, Pipes, AnyAgents, AnyEpisodes
<1>3. ASSUME NEW s \in States, savedState[w] = {s}
      PROVE  Restored(w) = [tasks |-> s.tasks, agents |-> s.agents, messages |-> {},
                            episodes |-> UNION savedMemory[w]]
  <2>1. (CHOOSE t \in savedState[w] : TRUE) = s
    BY <1>3
  <2> QED BY <1>3, <2>1 DEF Restored, Namespace
<1>4. savedState[w] = {} \/ \E s \in States : savedState[w] = {s}
  BY DEF SessionTypeInv
<1>5. ASSUME NEW s \in States, savedState[w] = {s} PROVE Restored(w) \in Pipes
  <2>1. Restored(w) = [tasks |-> s.tasks, agents |-> s.agents, messages |-> {},
                       episodes |-> UNION savedMemory[w]]
    BY <1>3, <1>5
  <2>2. s.tasks \in SUBSET SessionTasks /\ s.agents \in AnyAgents
    BY DEF States
  <2> QED BY <1>1, <2>1, <2>2 DEF Pipes
<1> QED BY <1>1, <1>2, <1>3, <1>4, <1>5 DEF Restored

\* Agents are seeded only where there are none.
LEMMA SeededHolds ==
    ASSUME NEW p \in Pipes
    PROVE  Seeded(p) \in Pipes /\ \A part \in Parts : AllIn(p, part, Seeded(p))
BY DEF Seeded, Pipes, AnyAgents, Parts, AllIn

LEMMA EmptyIsPipe == EmptyPipe \in Pipes
BY DEF EmptyPipe, Pipes, AnyAgents, AnyEpisodes

LEMMA SessionInitInv == SessionInit => SessionInv
<1> SUFFICES ASSUME SessionInit PROVE SessionInv
  OBVIOUS
<1>1. SessionTypeInv
  BY EmptyIsPipe DEF SessionInit, SessionTypeInv
<1>2. WorkInv
  BY DEF SessionInit, WorkInv
<1>3. SessionsContinue
  BY <1>1, RestoredHolds DEF SessionInit, SessionsContinue, AllIn, EmptyPipe
<1> QED BY <1>1, <1>2, <1>3 DEF SessionInv

\* A step that writes nothing and reports nothing leaves what there is to restore.
LEMMA StoreUnchanged ==
    ASSUME SessionInv, UNCHANGED <<savedState, savedMemory, reported>>,
           overwritten \subseteq overwritten'
    PROVE  SessionsContinue'
BY DEF SessionInv, SessionsContinue, Restored, AllIn

LEMMA OpenInv ==
    ASSUME SessionInv, NEW w \in Workflows, OpenAgentPipeline(w)
    PROVE  SessionInv'
<1>1. SessionTypeInv'
  <2>1. Restored(w) \in Pipes
    BY RestoredHolds DEF SessionInv
  <2>2. Seeded(Restored(w)) \in Pipes /\ Seeded(EmptyPipe) \in Pipes
    BY <2>1, SeededHolds, EmptyIsPipe
  <2>3. pipe' \in Pipes /\ misread' \in BOOLEAN /\ workflow' \in Workflows
    BY <2>2 DEF OpenAgentPipeline
  <2>4. commands' = commands + 1 /\ UNCHANGED <<savedState, savedMemory, reported>>
    BY DEF OpenAgentPipeline
  <2>5. commands' \in Nat
    BY <2>4 DEF SessionInv, SessionTypeInv
  <2> QED BY <2>3, <2>4, <2>5 DEF SessionInv, SessionTypeInv
<1>2. SessionsContinue'
  BY StoreUnchanged DEF OpenAgentPipeline
<1>3. WorkInv'
  <2>1. workflow' = w /\ step' = "opened" /\ UNCHANGED <<reported, overwritten>>
    BY DEF OpenAgentPipeline
  <2>2. ASSUME ~ misread', w \notin overwritten, NEW part \in Parts
        PROVE  AllIn(reported[w], part, pipe')
    <3>1. pipe' = Seeded(Restored(w))
      BY <2>2 DEF OpenAgentPipeline
    <3>2. AllIn(reported[w], part, Restored(w))
      BY <2>2 DEF SessionInv, SessionsContinue, Parts
    <3>3. AllIn(Restored(w), part, Seeded(Restored(w)))
      BY RestoredHolds, SeededHolds DEF SessionInv
    <3> QED BY <3>1, <3>2, <3>3 DEF AllIn
  <2> QED BY <2>1, <2>2 DEF WorkInv
<1> QED BY <1>1, <1>2, <1>3 DEF SessionInv

\* Work only adds to the pipeline.
LEMMA WorkKeeps ==
    ASSUME SessionInv, NEW new \in Pipes, NEW checkpoints, Work(new, checkpoints),
           \A part \in Parts : AllIn(pipe, part, new)
    PROVE  SessionInv'
<1>1. SessionTypeInv'
  BY DEF SessionInv, SessionTypeInv, Work
<1>2. SessionsContinue'
  BY StoreUnchanged DEF Work
<1>3. WorkInv'
  BY DEF SessionInv, WorkInv, Work, AllIn
<1> QED BY <1>1, <1>2, <1>3 DEF SessionInv

LEMMA CommandInv ==
    ASSUME SessionInv,
           \/ \E t \in SessionTasks : Run(t)
           \/ \E ts \in SUBSET SessionTasks : Workflow(ts)
           \/ \E a \in CustomAgents : Register(a)
           \/ RecordMemory \/ CheckpointNow
    PROVE  SessionInv'
<1> USE DEF SessionInv, SessionTypeInv, Pipes, Parts, AllIn, AnyAgents, AnyEpisodes
<1>1. ASSUME NEW t \in SessionTasks, Run(t) PROVE SessionInv'
  BY <1>1, WorkKeeps DEF Run
<1>2. ASSUME NEW ts \in SUBSET SessionTasks, Workflow(ts) PROVE SessionInv'
  BY <1>2, WorkKeeps DEF Workflow
<1>3. ASSUME NEW a \in CustomAgents, Register(a) PROVE SessionInv'
  BY <1>3, WorkKeeps DEF Register
<1>4. CASE RecordMemory
  BY <1>4, WorkKeeps DEF RecordMemory
<1>5. CASE CheckpointNow
  BY <1>5, WorkKeeps DEF CheckpointNow
<1> QED BY <1>1, <1>2, <1>3, <1>4, <1>5

\* The end of a command, with or without an error, or of the process.
LEMMA LeaveInv ==
    ASSUME SessionInv, Leave \/ SaveFails
    PROVE  SessionInv'
<1>1. SessionTypeInv'
  BY EmptyIsPipe DEF SessionInv, SessionTypeInv, Leave, SaveFails
<1>2. SessionsContinue'
  BY StoreUnchanged DEF Leave, SaveFails
<1>3. WorkInv'
  BY DEF WorkInv, Leave, SaveFails, End
<1> QED BY <1>1, <1>2, <1>3 DEF SessionInv

LEMMA SaveStateInv ==
    ASSUME SessionInv, SaveState
    PROVE  SessionInv'
<1> DEFINE s == [tasks |-> pipe.tasks, agents |-> pipe.agents, messages |-> pipe.messages]
<1>1. s \in States
  BY DEF SessionInv, SessionTypeInv, Pipes, States
<1>2. savedState' = [savedState EXCEPT ![workflow] = {s}]
  BY DEF SaveState
<1>3. SessionTypeInv'
  BY <1>1, <1>2 DEF SessionInv, SessionTypeInv, SaveState
<1>4. savedState'[workflow] = {s}
  BY <1>2 DEF SessionInv, SessionTypeInv
<1>5. WorkInv'
  BY <1>4 DEF SessionInv, WorkInv, SaveState
<1>6. ASSUME NEW w \in Workflows, w \notin overwritten', NEW part \in Parts
      PROVE  AllIn(reported[w], part, Restored(w)')
  <2>1. AllIn(reported[w], part, Restored(w)) /\ w \notin overwritten
    BY <1>6 DEF SessionInv, SessionsContinue, SaveState, Parts
  <2>2. CASE w # workflow
    <3>1. savedState'[w] = savedState[w] /\ savedMemory' = savedMemory
      BY <1>2, <2>2 DEF SessionInv, SessionTypeInv, SaveState
    <3> QED BY <2>1, <3>1 DEF Restored
  <2>3. CASE w = workflow
    <3>1. AllIn(reported[w], part, pipe)
      BY <1>6, <2>3 DEF SessionInv, WorkInv, SaveState
    <3>2. Restored(w)' = [tasks |-> s.tasks, agents |-> s.agents, messages |-> {},
                          episodes |-> UNION savedMemory[w]]
      BY <1>1, <1>3, <1>4, <2>3, RestoredHolds, ZenonT(30) DEF SaveState, Restored, Namespace
    <3>3. CASE part # "episodes"
      BY <3>1, <3>2, <3>3 DEF AllIn, Parts
    <3>4. CASE part = "episodes"
      <4>1. Restored(w).episodes \subseteq UNION savedMemory[w]
        BY DEF Restored, EmptyPipe, Namespace
      <4> QED BY <2>1, <3>2, <3>4, <4>1 DEF AllIn
    <3> QED BY <3>3, <3>4
  <2> QED BY <2>2, <2>3
<1>7. SessionsContinue'
  BY <1>6 DEF SessionsContinue, SaveState, Parts
<1> QED BY <1>3, <1>5, <1>7 DEF SessionInv

LEMMA SaveMemoryInv ==
    ASSUME SessionInv, SaveMemory
    PROVE  SessionInv'
<1> DEFINE s == [tasks |-> pipe.tasks, agents |-> pipe.agents, messages |-> pipe.messages]
           more == [part \in DOMAIN reported[workflow] |-> reported[workflow][part] \cup pipe[part]]
<1>1. s \in States /\ pipe \in Pipes /\ workflow \in Workflows
  BY DEF SessionInv, SessionTypeInv, Pipes, States
<1>2. savedMemory' = [savedMemory EXCEPT ![workflow] = {pipe.episodes}]
  BY DEF SaveMemory, Namespace
<1>3. reported' = reported \/ reported' = [reported EXCEPT ![workflow] = more]
  BY DEF SaveMemory
<1>4. more \in Pipes /\ \A part \in Parts : more[part] = reported[workflow][part] \cup pipe[part]
  BY DEF SessionInv, SessionTypeInv, Pipes, Parts, AnyAgents, AnyEpisodes
<1>5. SessionTypeInv'
  <2>1. reported' \in [Workflows -> Pipes]
    BY <1>1, <1>3, <1>4 DEF SessionInv, SessionTypeInv
  <2>2. pipe.episodes \in AnyEpisodes
    BY <1>1 DEF Pipes
  <2>3. savedMemory' \in [Workflows -> {{}} \cup {{e} : e \in AnyEpisodes}]
    BY <1>2, <2>2 DEF SessionInv, SessionTypeInv
  <2> QED BY <2>1, <2>3 DEF SessionInv, SessionTypeInv, SaveMemory
<1>6. savedState'[workflow] = {s} /\ savedMemory'[workflow] = {pipe.episodes}
  BY <1>2 DEF SessionInv, SessionTypeInv, WorkInv, SaveMemory
<1>7. workflow \notin overwritten => \A part \in Parts : AllIn(reported[workflow], part, pipe)
  BY DEF SessionInv, WorkInv, SaveMemory
<1>8. WorkInv'
  <2>1. step' \in {"state", "prompt"} /\ (step' = "state" => reported' = reported)
    BY DEF SaveMemory, End
  <2>2. UNCHANGED <<workflow, pipe, misread, overwritten>>
    BY DEF SaveMemory
  <2> QED BY <2>1, <2>2, <1>7 DEF WorkInv, AllIn
<1>9. ASSUME NEW w \in Workflows, w \notin overwritten, NEW part \in Parts
      PROVE  AllIn(reported'[w], part, Restored(w)')
  <2>1. CASE w # workflow
    <3>1. /\ savedState'[w] = savedState[w] /\ savedMemory'[w] = savedMemory[w]
          /\ reported'[w] = reported[w]
      BY <1>2, <1>3, <2>1 DEF SessionInv, SessionTypeInv, SaveMemory
    <3>2. Restored(w)' = Restored(w)
      BY <3>1 DEF Restored, Namespace
    <3> QED BY <1>9, <3>1, <3>2 DEF SessionInv, SessionsContinue, Parts
  <2>2. CASE w = workflow
    <3>1. Restored(w)' = [tasks |-> s.tasks, agents |-> s.agents, messages |-> {},
                          episodes |-> UNION savedMemory'[w]]
      BY <1>1, <1>5, <1>6, <2>2 DEF Restored, Namespace
    <3>2. AllIn(pipe, part, Restored(w)')
      BY <1>6, <2>2, <3>1 DEF AllIn, Parts
    <3>3. reported'[w][part] \subseteq pipe[part]
      BY <1>1, <1>3, <1>4, <1>7, <1>9, <2>2 DEF AllIn, SessionInv, SessionTypeInv
    <3> QED BY <3>2, <3>3 DEF AllIn
  <2> QED BY <2>1, <2>2
<1>10. SessionsContinue'
  BY <1>9 DEF SessionsContinue, SaveMemory, Parts
<1> QED BY <1>5, <1>8, <1>10 DEF SessionInv

LEMMA NextSessionInv == SessionInv /\ [SessionNext]_sessionVars => SessionInv'
<1> SUFFICES ASSUME SessionInv, [SessionNext]_sessionVars PROVE SessionInv'
  OBVIOUS
<1>1. ASSUME NEW w \in Workflows, OpenAgentPipeline(w) PROVE SessionInv'
  BY <1>1, OpenInv
<1>2. CASE \/ \E t \in SessionTasks : Run(t)
           \/ \E ts \in SUBSET SessionTasks : Workflow(ts)
           \/ \E a \in CustomAgents : Register(a)
           \/ RecordMemory \/ CheckpointNow
  BY <1>2, CommandInv
<1>3. CASE Leave \/ SaveFails
  BY <1>3, LeaveInv
<1>4. CASE SaveState
  BY <1>4, SaveStateInv
<1>5. CASE SaveMemory
  BY <1>5, SaveMemoryInv
<1>6. CASE UNCHANGED sessionVars
  BY <1>6 DEF sessionVars, SessionInv, SessionTypeInv, WorkInv, SessionsContinue, AllIn, Restored
<1> QED BY <1>1, <1>2, <1>3, <1>4, <1>5, <1>6 DEF SessionNext

\* Whatever commands follow each other, fail or die, on whatever workflows, each finds the
\* tasks, agents and episodes that the ones before it have saved, as long as all of them could
\* read (cli/agent.rs:355-364, agent/pipeline.rs:283-324).
THEOREM CommandsContinue == SessionSpec => []SessionsContinue
<1>1. SessionInv => SessionsContinue
  BY DEF SessionInv
<1> QED BY <1>1, SessionInitInv, NextSessionInv, PTL DEF SessionSpec

-----------------------------------------------------------------------------
(* The routers                                                             *)

LEMMA StaffIs ==
    /\ Len(Roster) \in Nat /\ Staff = 1..Len(Roster) /\ 1 \in Staff
    /\ IsFiniteSet(Staff) /\ Cardinality(Staff) = Len(Roster)
BY RosterHasAgents, CountTo DEF Staff

LEMMA AheadOrders ==
    ASSUME NEW score \in [Staff -> Int]
    PROVE  Orders({p \in Staff \X Staff : Ahead(score, p[1], p[2])}, Staff)
<1> DEFINE R == {p \in Staff \X Staff : Ahead(score, p[1], p[2])}
<1>1. \A x, y \in Staff : <<x, y>> \in R <=> Ahead(score, x, y)
  OBVIOUS
<1> HIDE DEF R
<1>2. \A x \in Staff : x \in Int /\ score[x] \in Int
  BY StaffIs
<1>3. \A x \in Staff : ~ Ahead(score, x, x)
  BY <1>2 DEF Ahead
<1>4. \A x, y, z \in Staff : Ahead(score, x, y) /\ Ahead(score, y, z) => Ahead(score, x, z)
  BY <1>2 DEF Ahead
<1>5. \A x, y \in Staff : x # y => Ahead(score, x, y) \/ Ahead(score, y, x)
  BY <1>2 DEF Ahead
<1>6. Orders(R, Staff)
  BY <1>1, <1>3, <1>4, <1>5 DEF Orders
<1> QED BY <1>6 DEF R

\* A ranking has every agent once, the best score first.
LEMMA RankedIs ==
    ASSUME NEW score \in [Staff -> Int]
    PROVE  /\ Ranked(score) \in [Staff -> Staff]
           /\ \A i, j \in Staff : Ranked(score)[i] = Ranked(score)[j] => i = j
           /\ \A a \in Staff : score[a] <= score[Ranked(score)[1]]
<1> DEFINE R == {p \in Staff \X Staff : Ahead(score, p[1], p[2])}
           Place(a) == Cardinality({b \in Staff : Ahead(score, b, a)})
           order == Ranked(score)
<1>1. \A a \in Staff : {b \in Staff : Ahead(score, b, a)} = Under(R, Staff, a)
  BY DEF Under
<1>2. \A a \in Staff : Place(a) = RankBy(R, Staff, a)
  BY <1>1 DEF RankBy
<1>3. \A i \in Staff : \E a \in Staff : Place(a) = i - 1
  <2>1. \A i \in 1..Len(Roster) : \E a \in Staff : RankBy(R, Staff, a) = i - 1
    <3>1. Orders(R, Staff)
      BY AheadOrders
    <3> HIDE DEF R
    <3> QED BY <3>1, StaffIs, RanksCover
  <2> HIDE DEF R, Place
  <2> QED BY <1>2, <2>1, StaffIs
<1>4. \A i \in Staff : order[i] = CHOOSE a \in Staff : Place(a) = i - 1
  BY DEF Ranked
<1>5. DOMAIN order = Staff /\ order = [i \in Staff |-> order[i]]
  BY SMTT(30) DEF Ranked
<1>6. {b \in Staff : Ahead(score, b, order[1])} = {} \/ Place(order[1]) # 0
  <2>1. IsFiniteSet({b \in Staff : Ahead(score, b, order[1])})
    BY StaffIs, FS_Subset
  <2> QED BY <2>1, FS_EmptySet
<1> HIDE DEF Place, order, R
<1>7. \A i \in Staff : order[i] \in Staff /\ Place(order[i]) = i - 1
  BY <1>3, <1>4
<1>8. order \in [Staff -> Staff]
  BY <1>5, <1>7
<1>9. \A i, j \in Staff : order[i] = order[j] => i = j
  <2>1. \A i, j \in Staff : order[i] = order[j] => i - 1 = j - 1
    BY <1>7
  <2> QED BY <2>1, StaffIs
<1>10. ASSUME NEW a \in Staff PROVE score[a] <= score[order[1]]
  <2>1. Place(order[1]) = 0 /\ order[1] \in Staff
    BY <1>7, StaffIs
  <2>2. ~ Ahead(score, a, order[1])
    BY <1>6, <2>1
  <2>3. score[a] \in Int /\ score[order[1]] \in Int
    BY <2>1
  <2> QED BY <2>2, <2>3 DEF Ahead
<1> QED BY <1>8, <1>9, <1>10 DEF order

\* The agent that is chosen is not among its fallbacks, and these are different.
LEMMA DecisionIs ==
    ASSUME NEW order \in [Staff -> Staff], \A i, j \in Staff : order[i] = order[j] => i = j
    PROVE  LET decision == Decision(order)
           IN  /\ decision.target = order[1] /\ order[1] \in Staff
               /\ order[1] \notin Range(decision.fallbacks)
               /\ IsInjective(decision.fallbacks)
<1> DEFINE m == IF Len(order) < 3 THEN Len(order) ELSE 3
           fallbacks == SubSeq(order, 2, m)
<1>1. order \in Seq(Staff) /\ Len(order) = Len(Roster)
  BY StaffIs
<1>2. m \in 1..Len(Roster)
  BY <1>1, StaffIs
<1> HIDE DEF m
<1>3. DOMAIN fallbacks = 1..(m - 1) /\ \A i \in 1..(m - 1) : fallbacks[i] = order[i + 1]
  BY <1>1, <1>2, StaffIs
<1> HIDE DEF fallbacks
<1>4. \A i \in 1..(m - 1) : i + 1 \in Staff /\ i + 1 # 1
  BY <1>2, StaffIs
<1>5. order[1] \notin Range(fallbacks)
  BY <1>3, <1>4, StaffIs DEF Range
<1>6. IsInjective(fallbacks)
  <2> SUFFICES ASSUME NEW i \in 1..(m - 1), NEW j \in 1..(m - 1), fallbacks[i] = fallbacks[j]
               PROVE  i = j
    BY <1>3 DEF IsInjective
  <2>1. i + 1 = j + 1
    BY <1>3, <1>4
  <2> QED BY <1>2, <2>1
<1> QED BY <1>5, <1>6, StaffIs DEF Decision, m, fallbacks

LEMMA MatchIsNumber ==
    ASSUME NEW task \in Requests, NEW a \in Staff
    PROVE  CapabilityMatch(task, a) \in Nat
<1>1. CASE task.needs = {}
  BY <1>1 DEF CapabilityMatch
<1>2. CASE task.needs # {}
  <2> DEFINE n == Cardinality(task.needs)
             k == Cardinality(task.needs \cap Roster[a].capabilities)
  <2>1. IsFiniteSet(task.needs)
    BY RequestsAreTasks
  <2>2. n \in Nat /\ n # 0
    BY <1>2, <2>1, FS_CardinalityType, FS_EmptySet
  <2>3. IsFiniteSet(task.needs \cap Roster[a].capabilities)
    BY <2>1, FS_Subset
  <2>4. k \in Nat
    BY <2>3, FS_CardinalityType
  <2> HIDE DEF n, k
  <2>5. (100 * k) \div n \in Nat
    BY <2>2, <2>4
  <2> QED BY <1>2, <2>5 DEF CapabilityMatch, n, k
<1> QED BY <1>1, <1>2

LEMMA AffinityIsNumber ==
    ASSUME NEW task, NEW a \in Staff
    PROVE  RoleAffinity(task, a) \in Nat
<1>1. \A need, role : \A bonus \in Nat : RoleBonus(task, a, need, role, bonus) \in Nat
  BY DEF RoleBonus
<1>2. RoleBonus(task, a, "CodeExecution", "Coder", 25) \in Nat
  BY <1>1
<1>3. RoleBonus(task, a, "Reflection", "Critic", 25) \in Nat
  BY <1>1
<1>4. RoleBonus(task, a, "ToolCalling", "ToolExecutor", 20) \in Nat
  BY <1>1
<1>5. RoleBonus(task, a, "StorageOps", "MemoryAgent", 25) \in Nat
  BY <1>1
<1>6. RoleBonus(task, a, "MemoryRetrieval", "MemoryAgent", 25) \in Nat
  BY <1>1
<1>7. RoleBonus(task, a, "TextGeneration", "Planner", 15) \in Nat
  BY <1>1
<1>8. (IF Roster[a].role \in task.words THEN 20 ELSE 0) \in Nat
  OBVIOUS
<1> QED BY <1>2, <1>3, <1>4, <1>5, <1>6, <1>7, <1>8 DEF RoleAffinity

\* A factor keeps what is greater greater.
LEMMA Scaled ==
    ASSUME NEW c \in Nat, c > 0, NEW x \in Int, NEW y \in Int
    PROVE  (x <= y => c * x <= c * y) /\ (x < y => c * x < c * y)
OBVIOUS

\* One more in what counts M + 1 times outweighs all of what is at most M.
LEMMA Outweighs ==
    ASSUME NEW M \in Nat, NEW m \in Nat, NEW n \in Nat, n < m, NEW s \in 0..M, NEW t \in 0..M
    PROVE  (M + 1) * n - t < (M + 1) * m - s
<1>1. n + 1 <= m /\ n + 1 \in Int /\ M + 1 \in Nat /\ M + 1 > 0
  OBVIOUS
<1>2. (M + 1) * (n + 1) <= (M + 1) * m
  BY <1>1, Scaled
<1>3. (M + 1) * (n + 1) = (M + 1) * n + (M + 1)
  OBVIOUS
<1>4. (M + 1) * n \in Int /\ (M + 1) * m \in Int
  OBVIOUS
<1> QED BY <1>2, <1>3, <1>4

\* What DecisionsSound asks of one decision.
Soundly(task, seen, decision) ==
    LET better == {a \in Staff : CapabilityMatch(task, a) > CapabilityMatch(task, decision.target)}
    IN  /\ router \in {"LeastLoaded", "Default"} => better = {}
        /\ \A a \in better :
             \/ RoleAffinity(task, a) < RoleAffinity(task, decision.target)
             \/ router = "Adaptive" /\ seen[a] > seen[decision.target]
        /\ decision.target \notin Range(decision.fallbacks) /\ IsInjective(decision.fallbacks)

SeenLoads == [Staff -> 0..MaxRouted]

\* The decision for the first of a ranking: nobody has a better score.
LEMMA FirstIsBest ==
    ASSUME NEW score \in [Staff -> Int]
    PROVE  LET decision == Decision(Ranked(score))
           IN  /\ decision.target = Ranked(score)[1] /\ decision.target \in Staff
               /\ decision.target \notin Range(decision.fallbacks)
               /\ IsInjective(decision.fallbacks)
               /\ \A a \in Staff : score[a] <= score[decision.target]
BY RankedIs, DecisionIs

LEMMA LeastLoadedSound ==
    ASSUME NEW task \in Requests, NEW seen \in SeenLoads, router = "LeastLoaded"
    PROVE  LET decision == RouteLeastLoaded(task, seen)
           IN  /\ decision.target \in Staff /\ Soundly(task, seen, decision)
               /\ \A b \in Staff : CapabilityMatch(task, decision.target) = CapabilityMatch(task, b)
                    => seen[decision.target] <= seen[b]
<1> DEFINE score == [a \in Staff |-> (MaxRouted + 1) * CapabilityMatch(task, a) - seen[a]]
           decision == RouteLeastLoaded(task, seen)
           c == decision.target
<1>1. \A a \in Staff : CapabilityMatch(task, a) \in Nat /\ seen[a] \in 0..MaxRouted
  BY MatchIsNumber DEF SeenLoads
<1>2. score \in [Staff -> Int]
  BY <1>1, RoutingBounds
<1>3. decision = Decision(Ranked(score))
  BY DEF RouteLeastLoaded
<1>4. \A a \in Staff : score[a] = (MaxRouted + 1) * CapabilityMatch(task, a) - seen[a]
  OBVIOUS
<1> HIDE DEF score, decision
<1>5. /\ c \in Staff /\ c \notin Range(decision.fallbacks) /\ IsInjective(decision.fallbacks)
      /\ \A a \in Staff : score[a] <= score[c]
  BY <1>2, <1>3, FirstIsBest
<1>6. ASSUME NEW a \in Staff, CapabilityMatch(task, a) > CapabilityMatch(task, c) PROVE FALSE
  <2>1. (MaxRouted + 1) * CapabilityMatch(task, c) - seen[c]
          < (MaxRouted + 1) * CapabilityMatch(task, a) - seen[a]
    BY <1>1, <1>5, <1>6, RoutingBounds, Outweighs
  <2>2. score[c] < score[a] /\ score[a] <= score[c] /\ score[a] \in Int /\ score[c] \in Int
    BY <1>2, <1>4, <1>5, <2>1
  <2> QED BY <2>2
<1>7. ASSUME NEW b \in Staff, CapabilityMatch(task, c) = CapabilityMatch(task, b)
      PROVE  seen[c] <= seen[b]
  <2> DEFINE k == (MaxRouted + 1) * CapabilityMatch(task, b)
  <2>1. k \in Int
    BY <1>1, RoutingBounds
  <2>2. score[b] = k - seen[b] /\ score[c] = k - seen[c] /\ score[b] <= score[c]
    BY <1>4, <1>5, <1>7
  <2> HIDE DEF k
  <2>3. seen[b] \in Int /\ seen[c] \in Int
    BY <1>1, <1>5
  <2> QED BY <2>1, <2>2, <2>3
<1>8. Soundly(task, seen, decision)
  BY <1>5, <1>6 DEF Soundly
<1> QED BY <1>5, <1>7, <1>8 DEF decision

LEMMA PriorityTieredSound ==
    ASSUME NEW task \in Requests, NEW seen, router = "PriorityTiered",
           RoutePriorityTiered(task) # Refused
    PROVE  LET decision == RoutePriorityTiered(task)
           IN  decision.target \in Staff /\ Soundly(task, seen, decision)
<1> DEFINE score == [a \in Staff |-> RoleAndCapability(task, a)]
           decision == RoutePriorityTiered(task)
           c == decision.target
<1>1. \A a \in Staff : CapabilityMatch(task, a) \in Nat /\ RoleAffinity(task, a) \in Nat
  BY MatchIsNumber, AffinityIsNumber
<1>2. \A a \in Staff : score[a] = 6 * CapabilityMatch(task, a) + 4 * RoleAffinity(task, a)
  BY DEF RoleAndCapability
<1>3. score \in [Staff -> Int]
  BY <1>1, <1>2
<1>4. decision = Decision(Ranked(score))
  BY DEF RoutePriorityTiered
<1> HIDE DEF score, decision
<1>5. /\ c \in Staff /\ c \notin Range(decision.fallbacks) /\ IsInjective(decision.fallbacks)
      /\ \A a \in Staff : score[a] <= score[c]
  BY <1>3, <1>4, FirstIsBest
<1>6. ASSUME NEW a \in Staff, CapabilityMatch(task, a) > CapabilityMatch(task, c)
      PROVE  RoleAffinity(task, a) < RoleAffinity(task, c)
  <2>1. 6 * CapabilityMatch(task, a) + 4 * RoleAffinity(task, a)
          <= 6 * CapabilityMatch(task, c) + 4 * RoleAffinity(task, c)
    BY <1>2, <1>5
  <2> QED BY <1>1, <1>5, <1>6, <2>1
<1>7. Soundly(task, seen, decision)
  BY <1>5, <1>6 DEF Soundly
<1> QED BY <1>5, <1>7 DEF decision

\* What a load and a match count for in the fitness falls and rises with them.
LEMMA WorkloadFalls ==
    /\ Cap \in Nat /\ Cap > 0
    /\ \A n \in Nat : Workload(n) \in Nat
    /\ \A m, n \in Nat : m <= n => Workload(n) <= Workload(m)
BY RoutingBounds DEF Workload, Cap

LEMMA TierRises ==
    ASSUME NEW task \in Requests
    PROVE  /\ \A m \in Nat : PriorityTier(task.priority, m) \in Nat
           /\ \A m, n \in Nat : m <= n =>
                PriorityTier(task.priority, m) <= PriorityTier(task.priority, n)
<1>1. task.priority \in {"Critical", "High", "Medium", "Low"}
  BY RequestsAreTasks
<1> QED BY <1>1 DEF PriorityTier

LEMMA AdaptiveSound ==
    ASSUME NEW task \in Requests, NEW seen \in SeenLoads, router = "Adaptive"
    PROVE  LET decision == RouteAdaptive(task, seen)
           IN  decision.target \in Staff /\ Soundly(task, seen, decision)
<1> DEFINE score == [a \in Staff |-> Fitness(task, a, seen[a])]
           decision == RouteAdaptive(task, seen)
           c == decision.target
           Match(a) == CapabilityMatch(task, a)
           Role(a) == RoleAffinity(task, a)
           Busyness(a) == Workload(seen[a])
           Tier(a) == PriorityTier(task.priority, CapabilityMatch(task, a))
<1>1. \A a \in Staff : Match(a) \in Nat /\ Role(a) \in Nat /\ seen[a] \in Nat
  BY MatchIsNumber, AffinityIsNumber DEF SeenLoads
<1>2. \A a \in Staff : Busyness(a) \in Nat /\ Tier(a) \in Nat
  BY <1>1, WorkloadFalls, TierRises
<1>3. \A a \in Staff :
        score[a] = 45 * Cap * Match(a) + 25 * Cap * Role(a) + 20 * Busyness(a) + 10 * Cap * Tier(a)
  BY DEF Fitness
<1>4. \A a, b \in Staff : Match(b) > Match(a) => Tier(a) <= Tier(b)
  BY <1>1, TierRises
<1>5. \A a, b \in Staff : seen[b] <= seen[a] => Busyness(a) <= Busyness(b)
  BY <1>1, WorkloadFalls
<1>6. decision = Decision(Ranked(score)) /\ score = [a \in Staff |-> score[a]]
  BY DEF RouteAdaptive
<1> HIDE DEF score, decision, Match, Role, Busyness, Tier
<1>7. \A a \in Staff :
        /\ (45 * Cap) * Match(a) \in Int /\ (25 * Cap) * Role(a) \in Int
        /\ 20 * Busyness(a) \in Int /\ (10 * Cap) * Tier(a) \in Int
  BY <1>1, <1>2, WorkloadFalls
<1>8. score \in [Staff -> Int]
  BY <1>3, <1>6, <1>7
<1>9. /\ c \in Staff /\ c \notin Range(decision.fallbacks) /\ IsInjective(decision.fallbacks)
      /\ \A a \in Staff : score[a] <= score[c]
  BY <1>6, <1>8, FirstIsBest
<1>10. ASSUME NEW a \in Staff, Match(a) > Match(c)
       PROVE  Role(a) < Role(c) \/ seen[a] > seen[c]
  <2> SUFFICES ASSUME Role(c) <= Role(a), seen[a] <= seen[c] PROVE FALSE
    BY <1>1, <1>9
  <2>1. 45 * Cap \in Nat /\ 45 * Cap > 0 /\ 25 * Cap \in Nat /\ 25 * Cap > 0
          /\ 10 * Cap \in Nat /\ 10 * Cap > 0
    BY WorkloadFalls
  <2>2. (45 * Cap) * Match(c) < (45 * Cap) * Match(a)
    BY <1>1, <1>9, <1>10, <2>1, Scaled
  <2>3. (25 * Cap) * Role(c) <= (25 * Cap) * Role(a)
    BY <1>1, <1>9, <2>1, Scaled
  <2>4. (10 * Cap) * Tier(c) <= (10 * Cap) * Tier(a)
    BY <1>2, <1>4, <1>9, <1>10, <2>1, Scaled
  <2>5. 20 * Busyness(c) <= 20 * Busyness(a)
    BY <1>2, <1>5, <1>9
  <2>6. score[c] < score[a]
    BY <1>3, <1>7, <1>9, <2>2, <2>3, <2>4, <2>5
  <2>7. score[a] \in Int /\ score[c] \in Int /\ score[a] <= score[c]
    BY <1>8, <1>9
  <2> QED BY <2>6, <2>7
<1>11. Soundly(task, seen, decision)
  BY <1>9, <1>10 DEF Soundly, Match, Role
<1> QED BY <1>9, <1>11 DEF decision

LEMMA DefaultSound ==
    ASSUME NEW task \in Requests, NEW seen, router = "Default"
    PROVE  LET decision == RouteDefault(task)
           IN  decision.target \in Staff /\ Soundly(task, seen, decision)
<1> DEFINE score == [a \in Staff |-> CapabilityMatch(task, a)]
           decision == RouteDefault(task)
           order == Ranked(score)
<1>1. \A a \in Staff : CapabilityMatch(task, a) \in Nat
  BY MatchIsNumber
<1>2. score \in [Staff -> Int] /\ \A a \in Staff : score[a] = CapabilityMatch(task, a)
  BY <1>1
<1>3. decision = IF task.needs # {} /\ CapabilityMatch(task, order[1]) > 0 THEN Decision(order)
                 ELSE [target |-> 1, fallbacks |-> << >>]
  BY DEF RouteDefault
<1>4. LET d == Decision(order)
      IN  /\ d.target = order[1] /\ d.target \in Staff /\ d.target \notin Range(d.fallbacks)
          /\ IsInjective(d.fallbacks) /\ \A a \in Staff : score[a] <= score[d.target]
  <2> HIDE DEF score
  <2> QED BY <1>2, FirstIsBest
<1> HIDE DEF score, decision, order
<1>5. CASE task.needs # {} /\ CapabilityMatch(task, order[1]) > 0
  <2>1. \A a \in Staff : ~ (CapabilityMatch(task, a) > CapabilityMatch(task, Decision(order).target))
    BY <1>1, <1>2, <1>4
  <2>2. decision = Decision(order)
    BY <1>3, <1>5
  <2>3. decision.target \in Staff /\ Soundly(task, seen, decision)
    BY <1>4, <2>1, <2>2 DEF Soundly
  <2> QED BY <2>3 DEF decision
<1>6. CASE ~ (task.needs # {} /\ CapabilityMatch(task, order[1]) > 0)
  <2>1. decision.target = 1 /\ decision.fallbacks = << >>
    BY <1>3, <1>6
  <2>2. ASSUME NEW a \in Staff PROVE ~ (CapabilityMatch(task, a) > CapabilityMatch(task, 1))
    <3>1. CASE task.needs = {}
      BY <3>1 DEF CapabilityMatch
    <3>2. CASE task.needs # {}
      <4>1. CapabilityMatch(task, a) <= CapabilityMatch(task, order[1])
        BY <1>2, <1>4
      <4> QED BY <1>1, <1>4, <1>6, <3>2, <4>1, StaffIs
    <3> QED BY <3>1, <3>2
  <2>3. 1 \notin Range(<< >>) /\ IsInjective(<< >>)
    BY DEF Range, IsInjective
  <2>4. decision.target \in Staff /\ Soundly(task, seen, decision)
    BY <2>1, <2>2, <2>3, StaffIs DEF Soundly
  <2> QED BY <2>4 DEF decision
<1> QED BY <1>5, <1>6

\* Every router decides soundly, and the least loaded of the most capable is one.
LEMMA RouteSound ==
    ASSUME NEW task \in Requests, NEW seen \in SeenLoads, router \in Routers,
           Route(task, seen) # Refused
    PROVE  /\ Route(task, seen).target \in Staff
           /\ Soundly(task, seen, Route(task, seen))
           /\ router = "LeastLoaded" =>
                \A b \in Staff :
                  CapabilityMatch(task, Route(task, seen).target) = CapabilityMatch(task, b)
                    => seen[Route(task, seen).target] <= seen[b]
<1>1. CASE router = "LeastLoaded"
  <2>1. Route(task, seen) = RouteLeastLoaded(task, seen)
    BY <1>1 DEF Route
  <2> QED BY <1>1, <2>1, LeastLoadedSound
<1>2. CASE router = "PriorityTiered"
  <2>1. Route(task, seen) = RoutePriorityTiered(task)
    BY <1>2 DEF Route
  <2> QED BY <1>2, <2>1, PriorityTieredSound
<1>3. CASE router = "Adaptive"
  <2>1. Route(task, seen) = RouteAdaptive(task, seen)
    BY <1>3 DEF Route
  <2> QED BY <1>3, <2>1, AdaptiveSound
<1>4. CASE router = "Default"
  <2>1. Route(task, seen) = RouteDefault(task)
    BY <1>4 DEF Route
  <2> QED BY <1>4, <2>1, DefaultSound
<1> QED BY <1>1, <1>2, <1>3, <1>4 DEF Routers

-----------------------------------------------------------------------------
(* The dispatchers                                                         *)

\* What a dispatcher may be doing.
Glances ==
    {s \in Seq(0..MaxRouted) :
        /\ Len(s) <= Len(Roster)
        /\ router # "Adaptive" => s = << >> \/ Len(s) = Len(Roster)}
Desks ==
    {Free}
      \cup {[at |-> "looking", task |-> t, seen |-> s] : t \in Requests, s \in Glances}
      \cup {[at |-> "decided", task |-> t, seen |-> s, decision |-> Route(t, s)] :
              t \in Requests, s \in SeenLoads}

RoutingTypes ==
    /\ router \in Routers
    /\ loads \in [Staff -> Nat] /\ running \in [Staff -> Nat]
    /\ desk \in [Dispatchers -> Desks]
    /\ routed \in 0..MaxRouted /\ resets \in Nat /\ ended \in Nat

\* No agent runs more than was routed and is not on a desk: no load exceeds MaxRouted.
Occupied == {d \in Dispatchers : desk[d] # Free}
RunningBounded == \A a \in Staff : running[a] + Cardinality(Occupied) <= routed

\* Those who have seen no more on a than on b, or have chosen a, may all start a task on a.
Tempted(a, b) ==
    {d \in Dispatchers :
        \/ /\ desk[d].at = "looking" /\ Len(desk[d].seen) = Len(Roster)
           /\ desk[d].seen[a] <= desk[d].seen[b]
        \/ desk[d].at = "decided" /\ desk[d].decision.target = a}
TemptedBounded ==
    router = "LeastLoaded" /\ ended = 0 /\ resets = 0 =>
        \A a, b \in Staff : Alike(a, b) =>
            loads[a] - loads[b] + Cardinality(Tempted(a, b)) <= Cardinality(Dispatchers)

RoutingInv == RoutingTypes /\ LoadsAccount /\ RunningBounded /\ TemptedBounded

LEMMA OccupiedIs ==
    /\ IsFiniteSet(Occupied) /\ Cardinality(Occupied) \in Nat
    /\ \A a, b : IsFiniteSet(Tempted(a, b)) /\ Cardinality(Tempted(a, b)) \in Nat
                   /\ Cardinality(Tempted(a, b)) <= Cardinality(Dispatchers)
    /\ Cardinality(Dispatchers) \in Nat
<1>1. IsFiniteSet(Dispatchers)
  BY RoutingBounds
<1>2. Occupied \in SUBSET Dispatchers /\ \A a, b : Tempted(a, b) \in SUBSET Dispatchers
  BY DEF Occupied, Tempted
<1> QED BY <1>1, <1>2, FS_Subset, FS_CardinalityType

LEMMA InitRoutingInv == RoutingInit => RoutingInv
<1> SUFFICES ASSUME RoutingInit PROVE RoutingInv
  OBVIOUS
<1> USE DEF RoutingInit
<1>1. RoutingTypes
  BY RoutingBounds DEF RoutingTypes, Desks
<1>2. LoadsAccount
  BY DEF LoadsAccount
<1>3. RunningBounded
  <2>1. Occupied = {}
    BY DEF Occupied
  <2>2. Cardinality(Occupied) = 0
    BY <2>1, FS_EmptySet
  <2> QED BY <2>2 DEF RunningBounded
<1>4. TemptedBounded
  <2>1. \A a, b \in Staff : loads[a] - loads[b] = 0
    OBVIOUS
  <2> QED BY <2>1, OccupiedIs DEF TemptedBounded
<1> QED BY <1>1, <1>2, <1>3, <1>4 DEF RoutingInv

LEMMA SameDesks == UNCHANGED router => Desks' = Desks
BY DEF Desks, Glances, Route

\* What a step of d leaves of the other desks.
LEMMA OtherDesks ==
    ASSUME RoutingTypes, NEW d \in Dispatchers, NEW e \in Desks, UNCHANGED router,
           desk' = [desk EXCEPT ![d] = e]
    PROVE  /\ desk'[d] = e /\ \A f \in Dispatchers : f # d => desk'[f] = desk[f]
           /\ desk' \in [Dispatchers -> Desks']
<1>1. Desks' = Desks
  BY SameDesks
<1> HIDE DEF Desks
<1> QED BY <1>1 DEF RoutingTypes

\* What a dispatcher that looks, or that has decided, has.
LEMMA DeskIs ==
    ASSUME RoutingTypes, NEW d \in Dispatchers
    PROVE  /\ desk[d].at = "looking" =>
                /\ desk[d].task \in Requests /\ desk[d].seen \in Glances /\ desk[d] # Free
                /\ desk[d] = [at |-> "looking", task |-> desk[d].task, seen |-> desk[d].seen]
           /\ desk[d].at = "decided" =>
                /\ desk[d].task \in Requests /\ desk[d].seen \in SeenLoads /\ desk[d] # Free
                /\ desk[d].decision = Route(desk[d].task, desk[d].seen)
<1>1. desk[d] \in Desks
  BY DEF RoutingTypes
<1>2. CASE desk[d] = Free
  BY <1>2 DEF Free
<1>3. ASSUME NEW t \in Requests, NEW s \in Glances,
             desk[d] = [at |-> "looking", task |-> t, seen |-> s]
      PROVE  desk[d].at = "looking" /\ desk[d].task = t /\ desk[d].seen = s /\ desk[d] # Free
  BY <1>3 DEF Free
<1>4. ASSUME NEW t \in Requests, NEW s \in SeenLoads,
             desk[d] = [at |-> "decided", task |-> t, seen |-> s, decision |-> Route(t, s)]
      PROVE  /\ desk[d].at = "decided" /\ desk[d].task = t /\ desk[d].seen = s
             /\ desk[d].decision = Route(t, s) /\ desk[d] # Free
  BY <1>4 DEF Free
<1>5. \/ desk[d] = Free
      \/ \E t \in Requests, s \in Glances : desk[d] = [at |-> "looking", task |-> t, seen |-> s]
      \/ \E t \in Requests, s \in SeenLoads :
           desk[d] = [at |-> "decided", task |-> t, seen |-> s, decision |-> Route(t, s)]
  BY <1>1 DEF Desks
<1> QED BY <1>2, <1>3, <1>4, <1>5

LEMMA LoadsBelow ==
    ASSUME RoutingInv
    PROVE  \A a \in Staff : loads[a] \in 0..MaxRouted
<1> SUFFICES ASSUME NEW a \in Staff PROVE loads[a] \in 0..MaxRouted
  OBVIOUS
<1>1. loads[a] \in Nat /\ running[a] \in Nat /\ routed \in Nat /\ routed <= MaxRouted
  BY RoutingBounds DEF RoutingInv, RoutingTypes
<1>2. loads[a] <= running[a] /\ running[a] + Cardinality(Occupied) <= routed
  BY DEF RoutingInv, LoadsAccount, RunningBounded
<1> QED BY <1>1, <1>2, OccupiedIs, RoutingBounds

LEMMA StartKeeps ==
    ASSUME RoutingInv, NEW d \in Dispatchers, NEW task \in Requests, StartRouting(d, task)
    PROVE  RoutingInv'
<1> DEFINE e == [at |-> "looking", task |-> task, seen |-> << >>]
<1> USE DEF RoutingInv
<1>1. /\ desk[d] = Free /\ routed < MaxRouted /\ routed' = routed + 1
      /\ desk' = [desk EXCEPT ![d] = e]
      /\ UNCHANGED <<router, loads, running, resets, ended>>
  BY DEF StartRouting
<1>2. e.at = "looking" /\ e.seen = << >> /\ e # Free
  BY DEF Free
<1>3. e \in Desks
  <2>1. << >> \in Glances
    BY StaffIs DEF Glances
  <2> QED BY <2>1 DEF Desks
<1> HIDE DEF e
<1>4. /\ desk'[d] = e /\ \A f \in Dispatchers : f # d => desk'[f] = desk[f]
      /\ desk' \in [Dispatchers -> Desks']
  BY <1>1, <1>3, OtherDesks
<1>5. RoutingTypes'
  BY <1>1, <1>4, RoutingBounds DEF RoutingTypes
<1>6. LoadsAccount'
  BY <1>1 DEF LoadsAccount
<1>7. RunningBounded'
  <2>1. Occupied' = Occupied \cup {d} /\ d \notin Occupied
    BY <1>1, <1>2, <1>4 DEF Occupied
  <2>2. Cardinality(Occupied') = Cardinality(Occupied) + 1
    BY <2>1, OccupiedIs, FS_AddElement
  <2>3. \A a \in Staff : running[a] \in Nat /\ routed \in Nat
    BY DEF RoutingTypes
  <2> QED BY <1>1, <2>2, <2>3, OccupiedIs DEF RunningBounded
<1>8. TemptedBounded'
  <2>1. \A a, b \in Staff : Tempted(a, b)' = Tempted(a, b)
    <3>1. Len(e.seen) # Len(Roster)
      BY <1>2, StaffIs
    <3> QED BY <1>1, <1>2, <1>4, <3>1 DEF Tempted, Free
  <2> QED BY <1>1, <2>1 DEF TemptedBounded, Alike
<1> QED BY <1>5, <1>6, <1>7, <1>8

\* Where the loads stay and nobody new is tempted, the bound stays.
LEMMA FewerTempted ==
    ASSUME RoutingInv, NEW a \in Staff, NEW b \in Staff, Alike(a, b),
           router = "LeastLoaded", ended = 0, resets = 0,
           Tempted(a, b)' \in SUBSET Tempted(a, b)
    PROVE  loads[a] - loads[b] + Cardinality(Tempted(a, b)') <= Cardinality(Dispatchers)
<1>1. Cardinality(Tempted(a, b)') \in Nat
        /\ Cardinality(Tempted(a, b)') <= Cardinality(Tempted(a, b))
  BY OccupiedIs, FS_Subset, FS_CardinalityType
<1>2. loads[a] - loads[b] + Cardinality(Tempted(a, b)) <= Cardinality(Dispatchers)
  BY DEF RoutingInv, TemptedBounded
<1>3. loads[a] \in Nat /\ loads[b] \in Nat
  BY DEF RoutingInv, RoutingTypes
<1> QED BY <1>1, <1>2, <1>3, OccupiedIs

\* Loads are looked at one by one, or all at once: then nobody is tempted by the greater.
LEMMA LookKeeps ==
    ASSUME RoutingInv, NEW d \in Dispatchers, Look(d)
    PROVE  RoutingInv'
<1> DEFINE all == [i \in Staff |-> loads[i]]
           next == Append(desk[d].seen, loads[Len(desk[d].seen) + 1])
           seen == IF router = "Adaptive" THEN next ELSE all
           e == [desk[d] EXCEPT !.seen = seen]
           task == desk[d].task
<1> USE DEF RoutingInv
<1>1. /\ desk[d].at = "looking" /\ Len(desk[d].seen) < Len(Roster)
      /\ desk' = [desk EXCEPT ![d] = e]
      /\ UNCHANGED <<router, loads, running, routed, resets, ended>>
  BY DEF Look
<1>2. /\ desk[d] # Free /\ task \in Requests /\ desk[d].seen \in Seq(0..MaxRouted)
      /\ desk[d] = [at |-> "looking", task |-> task, seen |-> desk[d].seen]
  BY <1>1, DeskIs DEF Glances
<1>3. e = [at |-> "looking", task |-> task, seen |-> seen]
  <2> HIDE DEF seen
  <2>1. \A r, t, s, n : r = [at |-> "looking", task |-> t, seen |-> s]
          => [r EXCEPT !.seen = n] = [at |-> "looking", task |-> t, seen |-> n]
    OBVIOUS
  <2>2. desk[d] = [at |-> "looking", task |-> task, seen |-> desk[d].seen]
    BY <1>2
  <2> QED BY <2>1, <2>2
<1>4. \A a \in Staff : loads[a] \in 0..MaxRouted
  BY LoadsBelow
<1>5. /\ all \in Seq(0..MaxRouted) /\ Len(all) = Len(Roster)
      /\ \A a \in Staff : all[a] = loads[a]
  BY <1>4, StaffIs
<1>6. next \in Seq(0..MaxRouted) /\ Len(next) <= Len(Roster)
  <2>1. Len(desk[d].seen) + 1 \in Staff
    BY <1>1, <1>2, StaffIs
  <2>2. loads[Len(desk[d].seen) + 1] \in 0..MaxRouted
    BY <1>4, <2>1
  <2> QED BY <1>1, <1>2, <2>2, StaffIs
<1> HIDE DEF all, next
<1>7. seen \in Glances /\ (router # "Adaptive" => seen = all)
  BY <1>5, <1>6, StaffIs DEF Glances
<1> HIDE DEF seen
<1>8. e.at = "looking" /\ e.seen = seen /\ e # Free
  BY <1>3 DEF Free
<1>9. e \in Desks
  BY <1>2, <1>3, <1>7 DEF Desks
<1> HIDE DEF e, task
<1>10. /\ desk'[d] = e /\ \A f \in Dispatchers : f # d => desk'[f] = desk[f]
       /\ desk' \in [Dispatchers -> Desks']
  BY <1>1, <1>9, OtherDesks
<1>11. RoutingTypes'
  BY <1>1, <1>10 DEF RoutingTypes
<1>12. LoadsAccount'
  BY <1>1 DEF LoadsAccount
<1>13. RunningBounded'
  <2>1. Occupied' = Occupied
    BY <1>2, <1>8, <1>10 DEF Occupied
  <2> QED BY <1>1, <2>1 DEF RunningBounded
<1>14. TemptedBounded'
  <2> SUFFICES ASSUME router = "LeastLoaded", ended = 0, resets = 0,
                      NEW a \in Staff, NEW b \in Staff, Alike(a, b)
               PROVE  loads[a] - loads[b] + Cardinality(Tempted(a, b)') <= Cardinality(Dispatchers)
    BY <1>1 DEF TemptedBounded, Alike
  <2>1. loads[a] \in Nat /\ loads[b] \in Nat
    BY DEF RoutingTypes
  <2>2. e.seen[a] = loads[a] /\ e.seen[b] = loads[b]
    BY <1>5, <1>7, <1>8
  <2>3. CASE loads[a] <= loads[b]
    <3>1. Tempted(a, b)' \in SUBSET Dispatchers
      BY DEF Tempted
    <3>2. Cardinality(Tempted(a, b)') \in Nat /\ Cardinality(Tempted(a, b)') <= Cardinality(Dispatchers)
      BY <3>1, RoutingBounds, FS_Subset, FS_CardinalityType
    <3> QED BY <2>1, <2>3, <3>2, OccupiedIs
  <2>4. CASE ~ (loads[a] <= loads[b])
    <3>1. Tempted(a, b)' \in SUBSET Tempted(a, b)
      BY <1>8, <1>10, <2>2, <2>4 DEF Tempted
    <3> QED BY <3>1, FewerTempted
  <2> QED BY <2>3, <2>4
<1> QED BY <1>11, <1>12, <1>13, <1>14

LEMMA AllSeen ==
    ASSUME NEW s \in Seq(0..MaxRouted), Len(s) = Len(Roster)
    PROVE  s \in SeenLoads
<1> DEFINE S == 0..MaxRouted
<1>1. DOMAIN s = Staff /\ \A i \in Staff : s[i] \in S
  <2>1. s \in Seq(S)
    OBVIOUS
  <2> HIDE DEF S
  <2>2. DOMAIN s = 1..Len(s) /\ \A i \in 1..Len(s) : s[i] \in S
    BY <2>1
  <2>3. 1..Len(s) = Staff
    BY StaffIs
  <2> QED BY <2>2, <2>3
<1>2. s = [i \in Staff |-> s[i]]
  BY <1>1
<1> QED BY <1>1, <1>2 DEF SeenLoads

LEMMA RefusedIs == Refused.target = 0 /\ 0 \notin Staff
BY StaffIs DEF Refused

\* Whoever chooses a over an agent like it had seen no more on a.
LEMMA DecideKeeps ==
    ASSUME RoutingInv, NEW d \in Dispatchers, Decide(d)
    PROVE  RoutingInv'
<1> DEFINE task == desk[d].task
           seen == desk[d].seen
           decision == Route(task, seen)
           e == [at |-> "decided", task |-> task, seen |-> seen, decision |-> decision]
<1> USE DEF RoutingInv
<1>1. /\ desk[d].at = "looking" /\ Len(seen) = Len(Roster)
      /\ desk' = [desk EXCEPT ![d] = e]
      /\ UNCHANGED <<router, loads, running, routed, resets, ended>>
  BY DEF Decide
<1>2. task \in Requests /\ seen \in Seq(0..MaxRouted) /\ desk[d] # Free
  BY <1>1, DeskIs DEF Glances
<1>3. seen \in SeenLoads
  <2> HIDE DEF seen
  <2> QED BY <1>1, <1>2, AllSeen
<1>4. e.at = "decided" /\ e.decision = decision /\ e # Free
  BY DEF Free
<1>5. e \in Desks
  BY <1>2, <1>3 DEF Desks
<1>6. /\ desk'[d] = e /\ \A f \in Dispatchers : f # d => desk'[f] = desk[f]
      /\ desk' \in [Dispatchers -> Desks']
  <2> HIDE DEF e
  <2> QED BY <1>1, <1>5, OtherDesks
<1>7. ASSUME router = "LeastLoaded", NEW a \in Staff, NEW b \in Staff, Alike(a, b),
             decision.target = a
      PROVE  seen[a] <= seen[b]
  <2>1. decision # Refused
    BY <1>7, RefusedIs
  <2>2. CapabilityMatch(task, a) = CapabilityMatch(task, b)
    BY <1>2, <1>7 DEF Alike
  <2>3. router \in Routers
    BY DEF RoutingTypes
  <2> HIDE DEF task, seen
  <2> QED BY <1>2, <1>3, <1>7, <2>1, <2>2, <2>3, RouteSound
<1> HIDE DEF e, decision
<1>8. RoutingTypes'
  BY <1>1, <1>6 DEF RoutingTypes
<1>9. LoadsAccount'
  BY <1>1 DEF LoadsAccount
<1>10. RunningBounded'
  <2>1. Occupied' = Occupied
    BY <1>2, <1>4, <1>6 DEF Occupied
  <2> QED BY <1>1, <2>1 DEF RunningBounded
<1>11. TemptedBounded'
  <2> SUFFICES ASSUME router = "LeastLoaded", ended = 0, resets = 0,
                      NEW a \in Staff, NEW b \in Staff, Alike(a, b)
               PROVE  loads[a] - loads[b] + Cardinality(Tempted(a, b)') <= Cardinality(Dispatchers)
    BY <1>1 DEF TemptedBounded, Alike
  <2>1. Tempted(a, b)' \in SUBSET Tempted(a, b)
    BY <1>1, <1>4, <1>6, <1>7 DEF Tempted
  <2> QED BY <2>1, FewerTempted
<1> QED BY <1>8, <1>9, <1>10, <1>11

\* A start moves its dispatcher from those who are tempted to the load of one agent.
LEMMA TrackStartKeeps ==
    ASSUME RoutingInv, NEW d \in Dispatchers, TrackTaskStarted(d)
    PROVE  RoutingInv'
<1> DEFINE t == desk[d].decision.target
<1> USE DEF RoutingInv
<1>1. /\ desk[d].at = "decided" /\ desk' = [desk EXCEPT ![d] = Free]
      /\ UNCHANGED <<router, routed, resets, ended>>
  BY DEF TrackTaskStarted
<1>2. /\ desk[d].task \in Requests /\ desk[d].seen \in SeenLoads /\ desk[d] # Free
      /\ desk[d].decision = Route(desk[d].task, desk[d].seen)
  BY <1>1, DeskIs
<1>3. t = 0 \/ t \in Staff
  <2>1. router \in Routers
    BY DEF RoutingTypes
  <2> QED BY <1>2, <2>1, RouteSound, RefusedIs
<1>4. /\ desk'[d] = Free /\ \A f \in Dispatchers : f # d => desk'[f] = desk[f]
      /\ desk' \in [Dispatchers -> Desks']
  <2>1. Free \in Desks
    BY DEF Desks
  <2> QED BY <1>1, <2>1, OtherDesks
<1>5. /\ t = 0 => UNCHANGED <<loads, running>>
      /\ t \in Staff => loads' = [loads EXCEPT ![t] = @ + 1] /\ running' = [running EXCEPT ![t] = @ + 1]
  BY RefusedIs DEF TrackTaskStarted
<1> HIDE DEF t
<1>6. \A a \in Staff :
        /\ loads[a] \in Nat /\ running[a] \in Nat
        /\ loads'[a] = (IF a = t THEN loads[a] + 1 ELSE loads[a])
        /\ running'[a] = (IF a = t THEN running[a] + 1 ELSE running[a])
  BY <1>3, <1>5, RefusedIs DEF RoutingTypes
<1>7. loads' \in [Staff -> Nat] /\ running' \in [Staff -> Nat]
  BY <1>3, <1>5 DEF RoutingTypes
<1>8. RoutingTypes'
  BY <1>1, <1>4, <1>7 DEF RoutingTypes
<1>9. LoadsAccount'
  <2>1. \A a \in Staff : loads'[a] >= 0 /\ loads'[a] <= running'[a]
    BY <1>6 DEF LoadsAccount
  <2>2. resets' = 0 => loads' = running'
    BY <1>1, <1>3, <1>5 DEF LoadsAccount
  <2> QED BY <2>1, <2>2 DEF LoadsAccount
<1>10. RunningBounded'
  <2>1. Occupied' = Occupied \ {d} /\ d \in Occupied
    BY <1>2, <1>4 DEF Occupied
  <2>2. Cardinality(Occupied') = Cardinality(Occupied) - 1
    BY <2>1, OccupiedIs, FS_RemoveElement
  <2>3. routed \in Nat
    BY RoutingBounds DEF RoutingTypes
  <2> QED BY <1>1, <1>6, <2>2, <2>3, OccupiedIs DEF RunningBounded
<1>11. TemptedBounded'
  <2> SUFFICES ASSUME router = "LeastLoaded", ended = 0, resets = 0,
                      NEW a \in Staff, NEW b \in Staff, Alike(a, b)
               PROVE  loads'[a] - loads'[b] + Cardinality(Tempted(a, b)') <= Cardinality(Dispatchers)
    BY <1>1 DEF TemptedBounded, Alike
  <2>1. Tempted(a, b)' \in SUBSET Tempted(a, b)
    BY <1>4 DEF Tempted, Free
  <2>2. loads[a] - loads[b] + Cardinality(Tempted(a, b)') <= Cardinality(Dispatchers)
    BY <2>1, FewerTempted
  <2>3. IsFiniteSet(Tempted(a, b)') /\ Cardinality(Tempted(a, b)') \in Nat
    BY <2>1, OccupiedIs, FS_Subset, FS_CardinalityType
  <2>4. CASE a = t /\ b # t
    <3>1. Tempted(a, b)' = Tempted(a, b) \ {d} /\ d \in Tempted(a, b)
      BY <1>1, <1>4, <2>4 DEF Tempted, Free, t
    <3>2. Cardinality(Tempted(a, b)') = Cardinality(Tempted(a, b)) - 1
      BY <3>1, OccupiedIs, FS_RemoveElement, ZenonT(30)
    <3>3. loads[a] - loads[b] + Cardinality(Tempted(a, b)) <= Cardinality(Dispatchers)
      BY DEF TemptedBounded
    <3> QED BY <1>6, <2>4, <3>2, <3>3, OccupiedIs
  <2>5. CASE ~ (a = t /\ b # t)
    <3>1. loads'[a] - loads'[b] <= loads[a] - loads[b] /\ loads'[a] - loads'[b] \in Int
            /\ loads[a] - loads[b] \in Int
      BY <1>6, <2>5
    <3> QED BY <2>2, <2>3, <3>1, OccupiedIs
  <2> QED BY <2>4, <2>5
<1> QED BY <1>8, <1>9, <1>10, <1>11

\* Ends and resets are not balanced: what is left is that loads never go below 0.
LEMMA EndKeeps ==
    ASSUME RoutingInv, NEW t \in Staff, TrackTaskCompleted(t)
    PROVE  RoutingInv'
<1> USE DEF RoutingInv
<1>1. /\ running[t] > 0 /\ running' = [running EXCEPT ![t] = @ - 1]
      /\ loads' = [loads EXCEPT ![t] = IF @ > 0 THEN @ - 1 ELSE @]
      /\ ended' = ended + 1 /\ UNCHANGED <<router, desk, routed, resets>>
  BY DEF TrackTaskCompleted
<1>2. \A a \in Staff :
        /\ loads[a] \in Nat /\ running[a] \in Nat
        /\ loads'[a] = (IF a = t /\ loads[a] > 0 THEN loads[a] - 1 ELSE loads[a])
        /\ running'[a] = (IF a = t THEN running[a] - 1 ELSE running[a])
  BY <1>1 DEF RoutingTypes
<1>3. loads' \in [Staff -> Nat] /\ running' \in [Staff -> Nat]
  BY <1>1 DEF RoutingTypes
<1>4. RoutingTypes'
  <2>1. Desks' = Desks
    BY <1>1, SameDesks
  <2> QED BY <1>1, <1>3, <2>1 DEF RoutingTypes
<1>5. LoadsAccount'
  <2>1. \A a \in Staff : loads'[a] >= 0 /\ loads'[a] <= running'[a]
    BY <1>1, <1>2 DEF LoadsAccount
  <2>2. resets' = 0 => loads' = running'
    BY <1>1 DEF LoadsAccount
  <2> QED BY <2>1, <2>2 DEF LoadsAccount
<1>6. RunningBounded'
  <2>1. Occupied' = Occupied
    BY <1>1 DEF Occupied
  <2>2. routed \in Nat
    BY RoutingBounds DEF RoutingTypes
  <2> QED BY <1>1, <1>2, <2>1, <2>2, OccupiedIs DEF RunningBounded
<1>7. TemptedBounded'
  <2>1. ended' # 0
    BY <1>1 DEF RoutingTypes
  <2> QED BY <2>1 DEF TemptedBounded
<1> QED BY <1>4, <1>5, <1>6, <1>7

LEMMA ResetKeeps ==
    ASSUME RoutingInv, ResetLoads
    PROVE  RoutingInv'
<1> USE DEF RoutingInv
<1>1. /\ resets' = resets + 1 /\ loads' = [a \in Staff |-> 0]
      /\ UNCHANGED <<router, desk, running, routed, ended>>
  BY DEF ResetLoads
<1>2. resets' \in Nat /\ resets' # 0 /\ \A a \in Staff : loads'[a] = 0 /\ running[a] \in Nat
  BY <1>1 DEF RoutingTypes
<1>3. RoutingTypes'
  <2>1. Desks' = Desks
    BY <1>1, SameDesks
  <2> QED BY <1>1, <1>2, <2>1 DEF RoutingTypes
<1>4. LoadsAccount'
  BY <1>1, <1>2 DEF LoadsAccount
<1>5. RunningBounded'
  BY <1>1 DEF RunningBounded, Occupied
<1>6. TemptedBounded'
  BY <1>2 DEF TemptedBounded
<1> QED BY <1>3, <1>4, <1>5, <1>6

LEMMA NextRoutingInv == RoutingInv /\ [RoutingNext]_routingVars => RoutingInv'
<1> SUFFICES ASSUME RoutingInv, [RoutingNext]_routingVars PROVE RoutingInv'
  OBVIOUS
<1>1. CASE UNCHANGED routingVars
  <2>1. Desks' = Desks
    BY <1>1, SameDesks DEF routingVars
  <2> QED BY <1>1, <2>1 DEF routingVars, RoutingInv, RoutingTypes, LoadsAccount, RunningBounded,
        Occupied, TemptedBounded, Tempted, Alike
<1>2. CASE RoutingNext
  BY <1>2, StartKeeps, LookKeeps, DecideKeeps, TrackStartKeeps, EndKeeps, ResetKeeps DEF RoutingNext
<1> QED BY <1>1, <1>2

\* The invariant says what the routers promise.
LEMMA RoutingInvSound == RoutingInv => RoutingSound
<1> SUFFICES ASSUME RoutingInv PROVE RoutingSound
  OBVIOUS
<1> USE DEF RoutingInv
<1>1. LoadsBalanced
  <2> SUFFICES ASSUME router = "LeastLoaded", ended = 0, resets = 0,
                      NEW a \in Staff, NEW b \in Staff, Alike(a, b)
               PROVE  loads[a] - loads[b] <= Cardinality(Dispatchers)
    BY DEF LoadsBalanced
  <2>1. loads[a] - loads[b] + Cardinality(Tempted(a, b)) <= Cardinality(Dispatchers)
    BY DEF TemptedBounded
  <2>2. loads[a] \in Nat /\ loads[b] \in Nat
    BY DEF RoutingTypes
  <2> QED BY <2>1, <2>2, OccupiedIs
<1>2. DecisionsSound
  <2>1. ASSUME NEW d \in Dispatchers, desk[d].at = "decided", desk[d].decision # Refused
        PROVE  Soundly(desk[d].task, desk[d].seen, desk[d].decision)
    <3>1. router \in Routers
      BY DEF RoutingTypes
    <3> QED BY <2>1, <3>1, DeskIs, RouteSound
  <2> QED BY <2>1 DEF DecisionsSound, Soundly
<1> QED BY <1>1, <1>2 DEF RoutingSound

\* For any agents, tasks, dispatchers and limit: loads are the tasks that run, or fewer
\* after a reset; agents that are alike are kept level to within the number of dispatchers;
\* and no router passes over an agent that is better in all it goes by.
THEOREM RoutersAreSound == RoutingSpec => []RoutingSound
<1>1. RoutingSpec => []RoutingInv
  BY InitRoutingInv, NextRoutingInv, PTL DEF RoutingSpec
<1> QED BY <1>1, RoutingInvSound, PTL

-----------------------------------------------------------------------------
(* The programs of the counters                                            *)

Trackers == {"task", "tool"}
KindsOf(tracker) == IF tracker = "tool" THEN {"ToolCallCompleted"} ELSE {"TaskCompleted", "TaskFailed"}
Lows == {Timer.task.min, Timer.tool.min}
Highs == {Timer.task.max, Timer.tool.max}

\* The counters that recordings change, and those that they add to.
Touched == Changed \cup {"dispatched"}
Added == Touched \ (Lows \cup Highs)

Lower(name, amount) == [op |-> "lower", name |-> name, amount |-> amount]
Raise(name, amount) == [op |-> "raise", name |-> name, amount |-> amount]
Collecting(e) == [op |-> "collect", event |-> e]

\* The steps of a recording, of a snapshot and of a reset.
RecordSteps ==
    {Collecting(e) : e \in Events}
      \cup {Add(name, amount) : name \in Added, amount \in Nat}
      \cup {Lower(name, amount) : name \in Lows \cap Changed, amount \in 0..Huge}
      \cup {Raise(name, amount) : name \in Highs \cap Changed, amount \in 0..Huge}
ReadSteps == {Read(name) : name \in Counters}
StoreSteps == {Store(name, Initially(name)) : name \in Counters}

\* No step of a recording is made twice, and none adds to what another adds to.
Clash(s, u) == s = u \/ (s.op = "add" /\ u.op = "add" /\ s.name = u.name)
Apart(p) == \A i, j \in 1..Len(p) : i # j => ~ Clash(p[i], p[j])
Recordings == {p \in Seq(RecordSteps) : Apart(p)}
Programs == Recordings \cup Seq(ReadSteps) \cup Seq(StoreSteps)

\* What steps still have to add to a counter.
Adds(L, name) == {s \in L : s.op = "add" /\ s.name = name}
AmountOf(A) == IF A = {} THEN 0 ELSE (CHOOSE s \in A : TRUE).amount
Owes(L, name) == AmountOf(Adds(L, name))
Owed(threads, name) == SumFunction([t \in Recorders |-> Owes(Range(threads[t]), name)])

\* What events have to add up to.
Due(es, name) == SumFunction([i \in DOMAIN es |-> Owes(Range(Recording(es[i])), name)])

-----------------------------------------------------------------------------
(* Counters beside each other                                              *)

CounterTypes ==
    /\ counter \in [Counters -> Int]
    /\ thread \in [Recorders -> Programs]
    /\ DOMAIN reading = Recorders
    /\ told \in Seq(Events)

\* What no event changes stays as it is.
UntouchedInv == \A name \in Counters \ Touched : counter[name] = Initially(name)

\* A reset that nobody records beside leaves each counter as it was at first, or has yet to
\* write it.
SweepInv ==
    Resetting # {} =>
        /\ told = << >>
        /\ \A t \in Busy : thread[t][1].op \in {"read", "store"}
        /\ \A name \in Changed :
             counter[name] = Initially(name)
               \/ \E t \in Recorders : Store(name, Initially(name)) \in Range(thread[t])

\* What is counted and what is still owed are together what the events add up to.
CountsInv ==
    Resetting = {} =>
        \A name \in Changed \ (Lows \cup Highs) :
            counter[name] + Owed(thread, name) = Due(told, name)

\* A bound is that of no event or of one of those recorded, and each of them is within it or
\* has yet to be compared.
Durations(tracker) == {told[i].duration : i \in {j \in DOMAIN told : told[j].kind \in KindsOf(tracker)}}
Bounded(tracker) ==
    /\ counter[Timer[tracker].min] \in Durations(tracker) \cup {Huge}
    /\ counter[Timer[tracker].max] \in Durations(tracker) \cup {0}
    /\ \A d \in Durations(tracker) :
         /\ \/ counter[Timer[tracker].min] <= d
            \/ \E t \in Recorders : Lower(Timer[tracker].min, d) \in Range(thread[t])
         /\ \/ d <= counter[Timer[tracker].max]
            \/ \E t \in Recorders : Raise(Timer[tracker].max, d) \in Range(thread[t])
    /\ \A t \in Recorders : \A d \in 0..Huge :
         /\ Lower(Timer[tracker].min, d) \in Range(thread[t]) => d \in Durations(tracker)
         /\ Raise(Timer[tracker].max, d) \in Range(thread[t]) => d \in Durations(tracker)
BoundsInv == Resetting = {} => \A tracker \in Trackers : Bounded(tracker)

\* What a loop has loaded is no better than the bound is now.
Loaded(t) ==
    /\ thread[t][1].op \in {"collect", "add"} => reading[t] = Nothing
    /\ thread[t][1].op \in {"lower", "raise"} =>
         \/ reading[t] = Nothing
         \/ \E c \in Int :
              /\ reading[t] = {<<thread[t][1].name, c>>}
              /\ thread[t][1].op = "lower" => counter[thread[t][1].name] <= c
              /\ thread[t][1].op = "raise" => c <= counter[thread[t][1].name]
LoadedInv == \A t \in Busy : Loaded(t)

CountersInv ==
    ~ torn => CounterTypes /\ UntouchedInv /\ SweepInv /\ CountsInv /\ BoundsInv /\ LoadedInv

-----------------------------------------------------------------------------
(* Programs, and what is left of them                                      *)

\* What is left of a program without its first step.
LEMMA TailIs ==
    ASSUME NEW S, NEW p \in Seq(S), p # << >>
    PROVE  /\ Tail(p) \in Seq(S) /\ p[1] \in S /\ p[1] \in Range(p)
           /\ Range(Tail(p)) \subseteq Range(p)
           /\ \A s \in Range(p) : s = p[1] \/ s \in Range(Tail(p))
           /\ Tail(p) = << >> \/ Tail(p)[1] \in Range(p)
<1>1. /\ Len(p) \in Nat /\ Len(p) >= 1 /\ DOMAIN p = 1..Len(p)
      /\ Tail(p) \in Seq(S) /\ DOMAIN Tail(p) = 1..(Len(p) - 1)
      /\ \A i \in 1..(Len(p) - 1) : Tail(p)[i] = p[i + 1]
  OBVIOUS
<1>2. p[1] \in S /\ p[1] \in Range(p)
  BY <1>1 DEF Range
<1>3. Range(Tail(p)) \subseteq Range(p)
  <2>1. ASSUME NEW i \in 1..(Len(p) - 1) PROVE Tail(p)[i] = p[i + 1] /\ i + 1 \in 1..Len(p)
    BY <1>1
  <2> QED BY <1>1, <2>1 DEF Range
<1>4. ASSUME NEW s \in Range(p) PROVE s = p[1] \/ s \in Range(Tail(p))
  <2>1. PICK i \in 1..Len(p) : s = p[i]
    BY <1>1 DEF Range
  <2>2. CASE i = 1
    BY <2>1, <2>2
  <2>3. CASE i # 1
    <3>1. i - 1 \in 1..(Len(p) - 1) /\ Tail(p)[i - 1] = p[(i - 1) + 1] /\ (i - 1) + 1 = i
      BY <1>1, <2>3
    <3>2. s = Tail(p)[i - 1]
      BY <2>1, <3>1
    <3> QED BY <1>1, <3>1, <3>2 DEF Range
  <2> QED BY <2>2, <2>3
<1>5. Tail(p) = << >> \/ Tail(p)[1] \in Range(Tail(p))
  <2>1. CASE Len(p) = 1
    <3>1. Len(Tail(p)) = 0
      BY <1>1, <2>1
    <3>2. \A q \in Seq(S) : Len(q) = 0 => q = << >>
      OBVIOUS
    <3> QED BY <1>1, <3>1, <3>2
  <2>2. CASE Len(p) # 1
    <3>1. 1 \in 1..(Len(p) - 1)
      BY <1>1, <2>2
    <3> QED BY <1>1, <3>1 DEF Range
  <2> QED BY <2>1, <2>2
<1> QED BY <1>1, <1>2, <1>3, <1>4, <1>5

\* No two steps of what is left clash either, nor any of them with the step that is gone.
LEMMA TailStaysApart ==
    ASSUME NEW S, NEW p \in Seq(S), p # << >>, Apart(p)
    PROVE  /\ Apart(Tail(p))
           /\ \A s \in Range(Tail(p)) : ~ Clash(p[1], s)
<1>1. /\ Len(p) \in Nat /\ Len(p) >= 1
      /\ DOMAIN Tail(p) = 1..(Len(p) - 1) /\ Len(Tail(p)) = Len(p) - 1
      /\ \A i \in 1..(Len(p) - 1) : Tail(p)[i] = p[i + 1]
  OBVIOUS
<1>2. \A i \in 1..(Len(p) - 1) : i + 1 \in 1..Len(p) /\ i + 1 # 1
  BY <1>1
<1>3. \A i, j \in 1..(Len(p) - 1) : i # j => i + 1 # j + 1
  OBVIOUS
<1>4. Apart(Tail(p))
  BY <1>1, <1>2, <1>3 DEF Apart
<1>5. 1 \in 1..Len(p)
  BY <1>1
<1>6. ASSUME NEW s \in Range(Tail(p)) PROVE ~ Clash(p[1], s)
  <2>1. PICK i \in 1..(Len(p) - 1) : s = Tail(p)[i]
    BY <1>1 DEF Range
  <2> QED BY <1>1, <1>2, <1>5, <2>1 DEF Apart
<1> QED BY <1>4, <1>6

\* One program after another.
LEMMA JoinIs ==
    ASSUME NEW S, NEW p \in Seq(S), NEW q \in Seq(S)
    PROVE  /\ p \o q \in Seq(S)
           /\ Range(p \o q) = Range(p) \cup Range(q)
           /\ Apart(p) /\ Apart(q) /\ (\A s \in Range(p), u \in Range(q) : ~ Clash(s, u))
                => Apart(p \o q)
<1> DEFINE m == Len(p)
           n == Len(q)
           r == p \o q
<1>1. /\ m \in Nat /\ n \in Nat /\ r \in Seq(S) /\ Len(r) = m + n
      /\ DOMAIN p = 1..m /\ DOMAIN q = 1..n /\ DOMAIN r = 1..(m + n)
      /\ \A i \in 1..m : r[i] = p[i]
      /\ \A i \in (m + 1)..(m + n) : r[i] = q[i - m]
  OBVIOUS
<1> HIDE DEF m, n, r
<1>2. \A i \in 1..(m + n) : i \in 1..m \/ (i \in (m + 1)..(m + n) /\ i - m \in 1..n)
  BY <1>1
<1>3. \A i \in 1..n : m + i \in (m + 1)..(m + n) /\ (m + i) - m = i
  BY <1>1
<1>4. 1..m \subseteq 1..(m + n) /\ (m + 1)..(m + n) \subseteq 1..(m + n)
  BY <1>1
<1>5. Range(r) \subseteq Range(p) \cup Range(q)
  BY <1>1, <1>2 DEF Range
<1>6. Range(p) \subseteq Range(r)
  BY <1>1, <1>4 DEF Range
<1>7. Range(q) \subseteq Range(r)
  <2> SUFFICES ASSUME NEW u \in Range(q) PROVE u \in Range(r)
    OBVIOUS
  <2>1. PICK i \in 1..n : u = q[i]
    BY <1>1 DEF Range
  <2>2. m + i \in 1..(m + n) /\ r[m + i] = u
    BY <1>1, <1>3, <1>4, <2>1
  <2> QED BY <1>1, <2>2 DEF Range
<1>8. ASSUME Apart(p), Apart(q), \A s \in Range(p), u \in Range(q) : ~ Clash(s, u)
      PROVE  Apart(r)
  <2> SUFFICES ASSUME NEW i \in 1..(m + n), NEW j \in 1..(m + n), i # j
               PROVE  ~ Clash(r[i], r[j])
    BY <1>1 DEF Apart
  <2>1. CASE i \in 1..m /\ j \in 1..m
    BY <1>1, <1>8, <2>1 DEF Apart, m
  <2>2. CASE i \in 1..m /\ j \in (m + 1)..(m + n) /\ j - m \in 1..n
    <3>1. r[i] \in Range(p) /\ r[j] \in Range(q)
      BY <1>1, <2>2 DEF Range
    <3> QED BY <1>8, <3>1
  <2>3. CASE i \in (m + 1)..(m + n) /\ i - m \in 1..n /\ j \in 1..m
    <3>1. r[j] \in Range(p) /\ r[i] \in Range(q)
      BY <1>1, <2>3 DEF Range
    <3> QED BY <1>8, <3>1 DEF Clash
  <2>4. CASE i \in (m + 1)..(m + n) /\ i - m \in 1..n /\ j \in (m + 1)..(m + n) /\ j - m \in 1..n
    <3>1. i - m # j - m /\ r[i] = q[i - m] /\ r[j] = q[j - m]
      BY <1>1, <2>4
    <3> QED BY <1>8, <2>4, <3>1 DEF Apart, n
  <2> QED BY <1>2, <2>1, <2>2, <2>3, <2>4
<1> QED BY <1>1, <1>5, <1>6, <1>7, <1>8 DEF r

\* Programs of up to four steps, written out.
LEMMA ListedIs ==
    /\ Range(<< >>) = {} /\ Apart(<< >>)
    /\ \A a : Range(<<a>>) = {a} /\ Apart(<<a>>)
    /\ \A a, b : Range(<<a, b>>) = {a, b} /\ (~ Clash(a, b) => Apart(<<a, b>>))
    /\ \A a, b, c :
         /\ Range(<<a, b, c>>) = {a, b, c}
         /\ ~ Clash(a, b) /\ ~ Clash(a, c) /\ ~ Clash(b, c) => Apart(<<a, b, c>>)
    /\ \A a, b, c, d :
         /\ Range(<<a, b, c, d>>) = {a, b, c, d}
         /\ ~ Clash(a, b) /\ ~ Clash(a, c) /\ ~ Clash(a, d) /\ ~ Clash(b, c) /\ ~ Clash(b, d)
              /\ ~ Clash(c, d) => Apart(<<a, b, c, d>>)
<1>1. \A a, b : Clash(a, b) => Clash(b, a)
  BY DEF Clash
<1>2. Range(<< >>) = {} /\ Apart(<< >>)
  BY DEF Range, Apart
<1>3. ASSUME NEW a PROVE Range(<<a>>) = {a} /\ Apart(<<a>>)
  BY DEF Range, Apart
<1>4. ASSUME NEW a, NEW b
      PROVE  Range(<<a, b>>) = {a, b} /\ (~ Clash(a, b) => Apart(<<a, b>>))
  BY <1>1 DEF Range, Apart
<1>5. ASSUME NEW a, NEW b, NEW c
      PROVE  /\ Range(<<a, b, c>>) = {a, b, c}
             /\ ~ Clash(a, b) /\ ~ Clash(a, c) /\ ~ Clash(b, c) => Apart(<<a, b, c>>)
  BY <1>1 DEF Range, Apart
<1>6. ASSUME NEW a, NEW b, NEW c, NEW d
      PROVE  /\ Range(<<a, b, c, d>>) = {a, b, c, d}
             /\ ~ Clash(a, b) /\ ~ Clash(a, c) /\ ~ Clash(a, d) /\ ~ Clash(b, c) /\ ~ Clash(b, d)
                  /\ ~ Clash(c, d) => Apart(<<a, b, c, d>>)
  BY <1>1 DEF Range, Apart
<1> QED BY <1>2, <1>3, <1>4, <1>5, <1>6

\* What the steps of each program are.
LEMMA RecordStepIs ==
    ASSUME NEW s \in RecordSteps
    PROVE  /\ s.op \in {"collect", "add", "lower", "raise"}
           /\ s.op = "collect" => s.event \in Events
           /\ s.op = "add" => s.name \in Added /\ s.amount \in Nat
           /\ s.op = "lower" => /\ s.name \in Lows \cap Changed /\ s.amount \in 0..Huge
                                /\ s = Lower(s.name, s.amount)
           /\ s.op = "raise" => /\ s.name \in Highs \cap Changed /\ s.amount \in 0..Huge
                                /\ s = Raise(s.name, s.amount)
<1>1. CASE \E e \in Events : s = Collecting(e)
  BY <1>1 DEF Collecting
<1>2. CASE \E name \in Added, amount \in Nat : s = Add(name, amount)
  BY <1>2 DEF Add
<1>3. CASE \E name \in Lows \cap Changed, amount \in 0..Huge : s = Lower(name, amount)
  BY <1>3 DEF Lower
<1>4. CASE \E name \in Highs \cap Changed, amount \in 0..Huge : s = Raise(name, amount)
  BY <1>4 DEF Raise
<1> QED BY <1>1, <1>2, <1>3, <1>4 DEF RecordSteps

\* The steps of a snapshot are loads.
LEMMA ReadStepIs ==
    ASSUME NEW s \in ReadSteps
    PROVE  s.op = "read"
BY DEF ReadSteps, Read

\* The steps of a reset store the first value of a counter.
LEMMA StoreStepIs ==
    ASSUME NEW s \in StoreSteps
    PROVE  /\ s.op = "store" /\ s.name \in Counters /\ s.amount = Initially(s.name)
           /\ s = Store(s.name, Initially(s.name))
BY DEF StoreSteps, Store

\* The first step of a program says what the program is: a recording, a snapshot or a reset.
LEMMA ProgramIs ==
    ASSUME NEW p \in Programs
    PROVE  /\ p = << >> \/ (p \in Recordings /\ p[1].op \in {"collect", "add", "lower", "raise"})
                        \/ (p \in Seq(ReadSteps) /\ p[1].op = "read")
                        \/ (p \in Seq(StoreSteps) /\ p[1].op = "store")
           /\ p # << >> => p[1] \in Range(p) /\ Tail(p) \in Programs
<1>1. CASE p = << >>
  BY <1>1
<1>2. CASE p # << >> /\ p \in Recordings
  <2>1. p \in Seq(RecordSteps) /\ Apart(p)
    BY <1>2 DEF Recordings
  <2>2. p[1] \in RecordSteps /\ Tail(p) \in Recordings /\ p[1] \in Range(p)
    BY <1>2, <2>1, TailIs, TailStaysApart DEF Recordings
  <2> QED BY <1>2, <2>2, RecordStepIs DEF Programs
<1>3. CASE p # << >> /\ p \in Seq(ReadSteps)
  BY <1>3, TailIs, ReadStepIs DEF Programs
<1>4. CASE p # << >> /\ p \in Seq(StoreSteps)
  BY <1>4, TailIs, StoreStepIs DEF Programs
<1> QED BY <1>1, <1>2, <1>3, <1>4 DEF Programs

\* Where nothing adds to a counter nothing is owed to it.
LEMMA OwesNone ==
    ASSUME NEW L, NEW name, \A s \in L : s.op = "add" => s.name # name
    PROVE  Owes(L, name) = 0
BY DEF Owes, AmountOf, Adds

\* The one step that adds to a counter is what is owed to it.
LEMMA OwesOne ==
    ASSUME NEW L, NEW s \in L, s.op = "add",
           \A u \in L : u.op = "add" /\ u.name = s.name => u = s
    PROVE  Owes(L, s.name) = s.amount
<1>1. Adds(L, s.name) = {s}
  BY DEF Adds
<1>2. (CHOOSE u \in Adds(L, s.name) : TRUE) = s /\ Adds(L, s.name) # {}
  BY <1>1
<1> QED BY <1>2 DEF Owes, AmountOf

\* What a program owes is a number, of a snapshot or a reset 0.
LEMMA OwesNat ==
    ASSUME NEW p \in Programs, NEW name
    PROVE  /\ Owes(Range(p), name) \in Nat
           /\ p = << >> \/ p[1].op \in {"read", "store"} => Owes(Range(p), name) = 0
<1>1. CASE p = << >>
  <2>1. Range(p) = {}
    BY <1>1, ListedIs
  <2> QED BY <2>1, OwesNone
<1>2. CASE p \in Seq(ReadSteps)
  <2>1. \A s \in Range(p) : s.op = "read"
    BY <1>2, ReadStepIs DEF Range
  <2> QED BY <2>1, OwesNone
<1>3. CASE p \in Seq(StoreSteps)
  <2>1. \A s \in Range(p) : s.op = "store"
    BY <1>3, StoreStepIs DEF Range
  <2> QED BY <2>1, OwesNone
<1>4. CASE p # << >> /\ p \in Recordings
  <2>1. \A s \in Range(p) : s \in RecordSteps
    BY <1>4 DEF Range, Recordings
  <2>2. p[1].op \notin {"read", "store"}
    <3>1. p[1] \in RecordSteps
      BY <1>4, TailIs DEF Recordings
    <3> QED BY <3>1, RecordStepIs
  <2>3. Owes(Range(p), name) \in Nat
    <3>1. CASE Adds(Range(p), name) = {}
      BY <3>1 DEF Owes, AmountOf
    <3>2. CASE Adds(Range(p), name) # {}
      <4>1. PICK s \in Adds(Range(p), name) : s = CHOOSE u \in Adds(Range(p), name) : TRUE
        BY <3>2
      <4>2. s.amount \in Nat
        BY <2>1, <4>1, RecordStepIs DEF Adds
      <4> QED BY <3>2, <4>1, <4>2 DEF Owes, AmountOf
    <3> QED BY <3>1, <3>2
  <2> QED BY <1>4, <2>2, <2>3
<1> QED BY <1>1, <1>2, <1>3, <1>4 DEF Programs

\* A step that adds leaves that much less to add, any other leaves what it is.
LEMMA OwesLess ==
    ASSUME NEW p \in Recordings, p # << >>, NEW name
    PROVE  /\ p[1].op = "add" /\ p[1].name = name =>
                Owes(Range(p), name) = p[1].amount /\ Owes(Range(Tail(p)), name) = 0
           /\ ~ (p[1].op = "add" /\ p[1].name = name) =>
                Owes(Range(Tail(p)), name) = Owes(Range(p), name)
<1>1. p \in Seq(RecordSteps) /\ Apart(p)
  BY DEF Recordings
<1>2. /\ p[1] \in Range(p) /\ Range(Tail(p)) \subseteq Range(p)
      /\ \A s \in Range(p) : s = p[1] \/ s \in Range(Tail(p))
  BY <1>1, TailIs
<1>3. \A s \in Range(Tail(p)) : ~ Clash(p[1], s)
  BY <1>1, TailStaysApart
<1>4. ASSUME p[1].op = "add", p[1].name = name
      PROVE  Owes(Range(p), name) = p[1].amount /\ Owes(Range(Tail(p)), name) = 0
  <2>1. \A s \in Range(Tail(p)) : s.op = "add" => s.name # name
    BY <1>3, <1>4 DEF Clash
  <2>2. \A s \in Range(p) : s.op = "add" /\ s.name = p[1].name => s = p[1]
    BY <1>2, <1>4, <2>1
  <2> QED BY <1>2, <1>4, <2>1, <2>2, OwesNone, OwesOne
<1>5. ASSUME ~ (p[1].op = "add" /\ p[1].name = name)
      PROVE  Owes(Range(Tail(p)), name) = Owes(Range(p), name)
  <2>1. Adds(Range(Tail(p)), name) = Adds(Range(p), name)
    BY <1>2, <1>5 DEF Adds
  <2> QED BY <2>1, Zenon DEF Owes
<1> QED BY <1>4, <1>5

-----------------------------------------------------------------------------
(* The sums over threads and events                                        *)

\* A thread that goes from one program to another changes the sum by the difference.
LEMMA OwedMoves ==
    ASSUME NEW threads \in [Recorders -> Programs], NEW t \in Recorders, NEW q \in Programs, NEW name
    PROVE  /\ Owed(threads, name) \in Int
           /\ Owed([threads EXCEPT ![t] = q], name)
                = Owed(threads, name) + (Owes(Range(q), name) - Owes(Range(threads[t]), name))
<1> DEFINE f == [u \in Recorders |-> Owes(Range(threads[u]), name)]
           moved == [threads EXCEPT ![t] = q]
           g == [u \in Recorders |-> Owes(Range(moved[u]), name)]
<1>1. f \in [Recorders -> Int] /\ Owes(Range(q), name) \in Int
  BY OwesNat
<1>2. g = [f EXCEPT ![t] = Owes(Range(q), name)]
  OBVIOUS
<1>3. f[t] = Owes(Range(threads[t]), name)
  OBVIOUS
<1>4. Owed(threads, name) = SumFunction(f) /\ Owed(moved, name) = SumFunction(g)
  BY DEF Owed
<1> HIDE DEF f, g, moved
<1>5. Moves(f, g, t, Owes(Range(q), name)) /\ SumFunction(f) \in Int
  BY <1>1, <1>2, RecordersAreFinite, SumChanges, SumIsInt
<1> QED BY <1>3, <1>4, <1>5 DEF Moves, moved

\* Nothing is owed where nobody records.
LEMMA OwedNothing ==
    ASSUME NEW threads \in [Recorders -> Programs],
           \A t \in Recorders : threads[t] # << >> => threads[t][1].op \in {"read", "store"}
    PROVE  \A name : Owed(threads, name) = 0
<1> SUFFICES ASSUME NEW name PROVE Owed(threads, name) = 0
  OBVIOUS
<1>1. \A t \in Recorders : Owes(Range(threads[t]), name) = 0
  BY OwesNat
<1>2. [t \in Recorders |-> Owes(Range(threads[t]), name)] = [t \in Recorders |-> 0]
  BY <1>1
<1> QED BY <1>2, RecordersAreFinite, SumOfNothing DEF Owed

-----------------------------------------------------------------------------
(* Recordings                                                              *)

\* The counters by their names.
LEMMA NamesAre ==
    /\ Timer.task.count = "taskCount" /\ Timer.task.total = "taskTotal"
    /\ Timer.task.min = "taskMin" /\ Timer.task.max = "taskMax"
    /\ Timer.tool.count = "toolCount" /\ Timer.tool.total = "toolTotal"
    /\ Timer.tool.min = "toolMin" /\ Timer.tool.max = "toolMax"
    /\ Timer["task"] = Timer.task /\ Timer["tool"] = Timer.tool
    /\ Lows = {"taskMin", "toolMin"} /\ Highs = {"taskMax", "toolMax"}
    /\ Counters = Plain \cup {"taskCount", "taskTotal", "taskMin", "taskMax"}
                        \cup {"toolCount", "toolTotal", "toolMin", "toolMax"}
<1>1. /\ Timer.task.count = "taskCount" /\ Timer.task.total = "taskTotal"
      /\ Timer.task.min = "taskMin" /\ Timer.task.max = "taskMax"
      /\ Timer.tool.count = "toolCount" /\ Timer.tool.total = "toolTotal"
      /\ Timer.tool.min = "toolMin" /\ Timer.tool.max = "toolMax"
      /\ Timer["task"] = Timer.task /\ Timer["tool"] = Timer.tool
  BY DEF Timer
<1>2. /\ Range(TimerFields(Timer.task)) = {"taskCount", "taskTotal", "taskMin", "taskMax"}
      /\ Range(TimerFields(Timer.tool)) = {"toolCount", "toolTotal", "toolMin", "toolMax"}
  BY <1>1, ListedIs DEF TimerFields
<1> QED BY <1>1, <1>2 DEF Lows, Highs, Counters

\* The steps that can make up a recording.
RawSteps ==
    {Add(name, amount) : name \in Counters \ (Lows \cup Highs \cup {"dispatched"}), amount \in Nat}
      \cup {Lower(name, amount) : name \in Lows, amount \in 0..Huge}
      \cup {Raise(name, amount) : name \in Highs, amount \in 0..Huge}

DurationSteps(timer, d) == {Add(timer.count, 1), Add(timer.total, d), Lower(timer.min, d), Raise(timer.max, d)}

\* The steps that do make up that of an event.
StepsOf(e) ==
    CASE e.kind = "TaskSubmitted" -> {Add("submitted", 1)}
      [] e.kind = "TaskRouted" -> IF e.preempted THEN {Add("preempted", 1)} ELSE {}
      [] e.kind = "ToolCallCompleted" ->
            {Add("tools", 1), Add(IF e.success THEN "toolsOk" ELSE "toolsFailed", 1), Add("uses", 1)}
              \cup DurationSteps(Timer.tool, e.duration)
      [] e.kind = "ReflectionEvaluated" ->
            {Add("passes", 1), Add("iterations", e.iteration), Add(e.verdict, 1)}
      [] e.kind = "TaskCompleted" -> {Add("completed", 1)} \cup DurationSteps(Timer.task, e.duration)
      [] e.kind = "TaskFailed" -> {Add("failed", 1)} \cup DurationSteps(Timer.task, e.duration)
      [] e.kind = "RoutingDecision" ->
            {Add("routes", 1), Add("confidence", e.millis)}
              \cup (IF e.tiered THEN {Add("preemptiveRoutes", 1)} ELSE {})
              \cup (IF e.fallbacks THEN {Add("fallbackRoutes", 1)} ELSE {})
      [] e.kind = "Memory" -> {Add(e.use, 1)}

\* Laid(p, L): p makes the steps L, none twice.
Laid(p, L) == p \in Seq(RawSteps) /\ Apart(p) /\ Range(p) = L

\* Which steps a recording can consist of, and that these do not clash.
LEMMA RawStepIs ==
    /\ \A name \in Counters \ (Lows \cup Highs \cup {"dispatched"}), amount \in Nat : Add(name, amount) \in RawSteps
    /\ \A name \in Lows, amount \in 0..Huge : Lower(name, amount) \in RawSteps
    /\ \A name \in Highs, amount \in 0..Huge : Raise(name, amount) \in RawSteps
    /\ \A n, m, a, b : n # m => ~ Clash(Add(n, a), Add(m, b))
    /\ \A n, m, a, b : /\ ~ Clash(Add(n, a), Lower(m, b)) /\ ~ Clash(Add(n, a), Raise(m, b))
                       /\ ~ Clash(Lower(n, a), Raise(m, b))
                       /\ ~ Clash(Lower(n, a), Add(m, b)) /\ ~ Clash(Raise(n, a), Add(m, b))
<1>1. /\ \A name \in Counters \ (Lows \cup Highs \cup {"dispatched"}), amount \in Nat : Add(name, amount) \in RawSteps
      /\ \A name \in Lows, amount \in 0..Huge : Lower(name, amount) \in RawSteps
      /\ \A name \in Highs, amount \in 0..Huge : Raise(name, amount) \in RawSteps
  BY DEF RawSteps
<1>2. \A n, m, a, b : n # m => ~ Clash(Add(n, a), Add(m, b))
  BY DEF Clash, Add
<1>3. \A n, m, a, b : /\ ~ Clash(Add(n, a), Lower(m, b)) /\ ~ Clash(Add(n, a), Raise(m, b))
                      /\ ~ Clash(Lower(n, a), Raise(m, b))
                      /\ ~ Clash(Lower(n, a), Add(m, b)) /\ ~ Clash(Raise(n, a), Add(m, b))
  BY DEF Clash, Add, Lower, Raise
<1> QED BY <1>1, <1>2, <1>3

\* One part of a recording after another.
LEMMA LaidJoins ==
    ASSUME NEW p, NEW q, NEW L, NEW M, Laid(p, L), Laid(q, M), \A s \in L, u \in M : ~ Clash(s, u)
    PROVE  Laid(p \o q, L \cup M)
BY JoinIs DEF Laid

\* DurationTracker::record counts, adds and compares with both bounds.
LEMMA LaidDuration ==
    ASSUME NEW timer \in {Timer.task, Timer.tool}, NEW d \in 0..Huge
    PROVE  Laid(RecordDuration(timer, d), DurationSteps(timer, d))
<1> DEFINE a == Add(timer.count, 1)
           b == Add(timer.total, d)
           c == Lower(timer.min, d)
           f == Raise(timer.max, d)
<1>1. /\ timer.count \in Counters \ (Lows \cup Highs \cup {"dispatched"})
      /\ timer.total \in Counters \ (Lows \cup Highs \cup {"dispatched"})
      /\ timer.count # timer.total /\ timer.min \in Lows /\ timer.max \in Highs
  BY NamesAre
<1>2. d \in Nat /\ 1 \in Nat
  BY RecordersAreFinite
<1>3. a \in RawSteps /\ b \in RawSteps /\ c \in RawSteps /\ f \in RawSteps
  BY <1>1, <1>2, RawStepIs
<1>4. /\ ~ Clash(a, b) /\ ~ Clash(a, c) /\ ~ Clash(a, f) /\ ~ Clash(b, c) /\ ~ Clash(b, f)
      /\ ~ Clash(c, f)
  BY <1>1, RawStepIs
<1>5. RecordDuration(timer, d) = <<a, b, c, f>> /\ DurationSteps(timer, d) = {a, b, c, f}
  BY DEF RecordDuration, DurationSteps, Lower, Raise
<1> HIDE DEF a, b, c, f
<1>6. <<a, b, c, f>> \in Seq(RawSteps)
  BY <1>3
<1> QED BY <1>4, <1>5, <1>6, ListedIs DEF Laid

\* A recording of one step.
LEMMA LaidOne ==
    ASSUME NEW s \in RawSteps
    PROVE  Laid(<<s>>, {s})
BY ListedIs DEF Laid

\* A recording of none.
LEMMA LaidNone == Laid(<< >>, {})
BY ListedIs DEF Laid

\* The recording of an event makes exactly the steps of its kind, none twice.
LEMMA LaidRecording ==
    ASSUME NEW e \in Events
    PROVE  Laid(Recording(e), StepsOf(e))
<1> DEFINE Adding == Counters \ (Lows \cup Highs \cup {"dispatched"})
<1>1. {"submitted", "completed", "failed", "preempted", "routes", "preemptiveRoutes",
       "fallbackRoutes", "confidence", "tools", "toolsOk", "toolsFailed", "uses",
       "passes", "iterations", "Approved", "NeedsRevision", "Rejected", "Escalated",
       "blackboardReads", "blackboardWrites", "episodes", "recalls"} \subseteq Adding
  BY NamesAre DEF Plain
<1> HIDE DEF Adding
<1>2. \A name \in Adding, amount \in Nat : Add(name, amount) \in RawSteps
  BY RawStepIs DEF Adding
<1>3. 1 \in Nat /\ \A d \in 0..Huge : d \in Nat
  BY RecordersAreFinite
<1>4. \A name \in Adding : \A tracker, d : \A s \in DurationSteps(tracker, d) :
          name # tracker.count /\ name # tracker.total => ~ Clash(Add(name, 1), s) /\ ~ Clash(s, Add(name, 1))
  <2>1. \A s, u : Clash(s, u) => Clash(u, s)
    BY DEF Clash
  <2> QED BY <2>1, RawStepIs DEF DurationSteps
<1>5. CASE e.kind = "TaskSubmitted"
  <2>1. Recording(e) = <<Add("submitted", 1)>> /\ StepsOf(e) = {Add("submitted", 1)}
    BY <1>5 DEF Recording, StepsOf
  <2> QED BY <1>1, <1>2, <1>3, <2>1, LaidOne
<1>6. CASE e.kind = "TaskRouted"
  <2>1. Recording(e) = If(e.preempted, <<Add("preempted", 1)>>)
    BY <1>6 DEF Recording
  <2>2. StepsOf(e) = IF e.preempted THEN {Add("preempted", 1)} ELSE {}
    BY <1>6 DEF StepsOf
  <2> QED BY <1>1, <1>2, <1>3, <2>1, <2>2, LaidOne, LaidNone DEF If
<1>7. CASE e.kind = "ToolCallCompleted"
  <2> DEFINE ok == IF e.success THEN "toolsOk" ELSE "toolsFailed"
             first == <<Add("tools", 1), Add(ok, 1)>>
             second == RecordDuration(Timer.tool, e.duration)
             third == <<Add("uses", 1)>>
  <2>1. Recording(e) = (first \o second) \o third
    BY <1>7 DEF Recording
  <2>2. StepsOf(e) = {Add("tools", 1), Add(ok, 1), Add("uses", 1)} \cup DurationSteps(Timer.tool, e.duration)
    BY <1>7 DEF StepsOf
  <2>3. e.duration \in 0..Huge
    BY <1>7, EventsAreKnown
  <2>4. ok \in {"toolsOk", "toolsFailed"}
    OBVIOUS
  <2> HIDE DEF ok
  <2>5. Laid(first, {Add("tools", 1), Add(ok, 1)})
    <3>1. Add("tools", 1) \in RawSteps /\ Add(ok, 1) \in RawSteps /\ ~ Clash(Add("tools", 1), Add(ok, 1))
      BY <1>1, <1>2, <1>3, <2>4, RawStepIs
    <3> QED BY <3>1, ListedIs DEF Laid
  <2>6. Laid(second, DurationSteps(Timer.tool, e.duration))
    BY <2>3, LaidDuration
  <2>7. Laid(third, {Add("uses", 1)})
    BY <1>1, <1>2, <1>3, LaidOne
  <2> HIDE DEF first, second, third
  <2>8. Laid(first \o second, {Add("tools", 1), Add(ok, 1)} \cup DurationSteps(Timer.tool, e.duration))
    <3>1. \A s \in {Add("tools", 1), Add(ok, 1)}, u \in DurationSteps(Timer.tool, e.duration) : ~ Clash(s, u)
      BY <1>1, <1>4, <2>4, NamesAre
    <3> QED BY <2>5, <2>6, <3>1, LaidJoins
  <2>9. \A s \in {Add("tools", 1), Add(ok, 1)} \cup DurationSteps(Timer.tool, e.duration) :
            ~ Clash(s, Add("uses", 1))
    BY <1>1, <1>4, <2>4, NamesAre, RawStepIs
  <2>10. Laid((first \o second) \o third,
              ({Add("tools", 1), Add(ok, 1)} \cup DurationSteps(Timer.tool, e.duration)) \cup {Add("uses", 1)})
    BY <2>7, <2>8, <2>9, LaidJoins
  <2>11. StepsOf(e) = ({Add("tools", 1), Add(ok, 1)} \cup DurationSteps(Timer.tool, e.duration)) \cup {Add("uses", 1)}
    BY <2>2
  <2> QED BY <2>1, <2>10, <2>11
<1>8. CASE e.kind = "ReflectionEvaluated"
  <2>1. Recording(e) = <<Add("passes", 1), Add("iterations", e.iteration), Add(e.verdict, 1)>>
    BY <1>8 DEF Recording
  <2>2. StepsOf(e) = {Add("passes", 1), Add("iterations", e.iteration), Add(e.verdict, 1)}
    BY <1>8 DEF StepsOf
  <2>3. e.iteration \in Nat /\ e.verdict \in {"Approved", "NeedsRevision", "Rejected", "Escalated"}
    BY <1>8, EventsAreKnown
  <2> DEFINE a == Add("passes", 1)
             b == Add("iterations", e.iteration)
             c == Add(e.verdict, 1)
  <2>4. a \in RawSteps /\ b \in RawSteps /\ c \in RawSteps
    BY <1>1, <1>2, <1>3, <2>3
  <2>5. ~ Clash(a, b) /\ ~ Clash(a, c) /\ ~ Clash(b, c)
    BY <2>3, RawStepIs
  <2>6. Recording(e) = <<a, b, c>> /\ StepsOf(e) = {a, b, c}
    BY <2>1, <2>2
  <2> HIDE DEF a, b, c
  <2> QED BY <2>4, <2>5, <2>6, ListedIs DEF Laid
<1>9. CASE e.kind = "TaskCompleted" \/ e.kind = "TaskFailed"
  <2> DEFINE end == IF e.kind = "TaskCompleted" THEN "completed" ELSE "failed"
  <2>1. Recording(e) = <<Add(end, 1)>> \o RecordDuration(Timer.task, e.duration)
    BY <1>9 DEF Recording
  <2>2. StepsOf(e) = {Add(end, 1)} \cup DurationSteps(Timer.task, e.duration)
    BY <1>9 DEF StepsOf
  <2>3. e.duration \in 0..Huge
    BY <1>9, EventsAreKnown
  <2>4. end \in {"completed", "failed"}
    OBVIOUS
  <2> HIDE DEF end
  <2>5. Laid(<<Add(end, 1)>>, {Add(end, 1)})
    BY <1>1, <1>2, <1>3, <2>4, LaidOne
  <2>6. Laid(RecordDuration(Timer.task, e.duration), DurationSteps(Timer.task, e.duration))
    BY <2>3, LaidDuration
  <2>7. \A s \in {Add(end, 1)}, u \in DurationSteps(Timer.task, e.duration) : ~ Clash(s, u)
    BY <1>1, <1>4, <2>4, NamesAre
  <2> QED BY <2>1, <2>2, <2>5, <2>6, <2>7, LaidJoins
<1>10. CASE e.kind = "RoutingDecision"
  <2> DEFINE tiered == If(e.tiered, <<Add("preemptiveRoutes", 1)>>)
             tieredSteps == IF e.tiered THEN {Add("preemptiveRoutes", 1)} ELSE {}
             fallbacks == If(e.fallbacks, <<Add("fallbackRoutes", 1)>>)
             fallbackSteps == IF e.fallbacks THEN {Add("fallbackRoutes", 1)} ELSE {}
             first == <<Add("routes", 1)>>
             last == <<Add("confidence", e.millis)>>
  <2>1. Recording(e) = ((first \o tiered) \o fallbacks) \o last
    BY <1>10 DEF Recording
  <2>2. StepsOf(e) = {Add("routes", 1), Add("confidence", e.millis)} \cup tieredSteps \cup fallbackSteps
    BY <1>10 DEF StepsOf
  <2>3. e.tiered \in BOOLEAN /\ e.fallbacks \in BOOLEAN /\ e.millis \in Nat
    BY <1>10, EventsAreKnown
  <2>4. Laid(first, {Add("routes", 1)})
    BY <1>1, <1>2, <1>3, LaidOne
  <2>5. Laid(tiered, tieredSteps)
    BY <1>1, <1>2, <1>3, LaidOne, LaidNone DEF If
  <2>6. Laid(fallbacks, fallbackSteps)
    BY <1>1, <1>2, <1>3, LaidOne, LaidNone DEF If
  <2>7. Laid(last, {Add("confidence", e.millis)})
    BY <1>1, <1>2, <2>3, LaidOne
  <2>8. tieredSteps \subseteq {Add("preemptiveRoutes", 1)} /\ fallbackSteps \subseteq {Add("fallbackRoutes", 1)}
    OBVIOUS
  <2> HIDE DEF tiered, fallbacks, tieredSteps, fallbackSteps, first, last
  <2>9. Laid(first \o tiered, {Add("routes", 1)} \cup tieredSteps)
    <3>1. \A s \in {Add("routes", 1)}, u \in tieredSteps : ~ Clash(s, u)
      BY <2>8, RawStepIs
    <3> QED BY <2>4, <2>5, <3>1, LaidJoins
  <2>10. Laid((first \o tiered) \o fallbacks, ({Add("routes", 1)} \cup tieredSteps) \cup fallbackSteps)
    <3>1. \A s \in {Add("routes", 1)} \cup tieredSteps, u \in fallbackSteps : ~ Clash(s, u)
      BY <2>8, RawStepIs
    <3> QED BY <2>6, <2>9, <3>1, LaidJoins
  <2>11. Laid(((first \o tiered) \o fallbacks) \o last,
              (({Add("routes", 1)} \cup tieredSteps) \cup fallbackSteps) \cup {Add("confidence", e.millis)})
    <3>1. \A s \in ({Add("routes", 1)} \cup tieredSteps) \cup fallbackSteps, u \in {Add("confidence", e.millis)} :
              ~ Clash(s, u)
      BY <2>8, RawStepIs
    <3> QED BY <2>7, <2>10, <3>1, LaidJoins
  <2>12. StepsOf(e) = (({Add("routes", 1)} \cup tieredSteps) \cup fallbackSteps) \cup {Add("confidence", e.millis)}
    BY <2>2
  <2> QED BY <2>1, <2>11, <2>12
<1>11. CASE e.kind = "Memory"
  <2>1. Recording(e) = <<Add(e.use, 1)>> /\ StepsOf(e) = {Add(e.use, 1)}
    BY <1>11 DEF Recording, StepsOf
  <2>2. e.use \in {"blackboardReads", "blackboardWrites", "episodes", "recalls"}
    BY <1>11, EventsAreKnown
  <2> QED BY <1>1, <1>2, <1>3, <2>1, <2>2, LaidOne
<1> QED BY <1>5, <1>6, <1>7, <1>8, <1>9, <1>10, <1>11, EventsAreKnown

\* What an event's thread goes through: beside the recording it is collected and counted.
Sent(e) == IF Broadcasts(e) THEN Broadcast(e) ELSE Recording(e)

\* What recordings change are counters, and not that of the broadcasts.
LEMMA ChangedIs ==
    /\ Changed \subseteq Counters \ {"dispatched"}
    /\ \A e \in Events : \A s \in Range(Recording(e)) : s \in RecordSteps /\ s.name \in Changed
<1>1. ASSUME NEW e \in Events, NEW i \in DOMAIN Recording(e)
      PROVE  Recording(e)[i].name \in Counters \ {"dispatched"}
  <2>1. Recording(e)[i] \in RawSteps
    BY LaidRecording DEF Laid
  <2> QED BY <2>1, NamesAre DEF RawSteps, Add, Lower, Raise
<1>2. Changed \subseteq Counters \ {"dispatched"}
  BY <1>1 DEF Changed
<1>3. ASSUME NEW e \in Events, NEW s \in Range(Recording(e))
      PROVE  s \in RecordSteps /\ s.name \in Changed
  <2>1. s.name \in Changed
    BY DEF Changed, Range
  <2>2. s \in RawSteps
    BY LaidRecording DEF Laid, Range
  <2>3. CASE \E name \in Counters \ (Lows \cup Highs \cup {"dispatched"}), amount \in Nat : s = Add(name, amount)
    <3>1. PICK name \in Counters \ (Lows \cup Highs \cup {"dispatched"}), amount \in Nat : s = Add(name, amount)
      BY <2>3
    <3>2. s.name = name
      BY <3>1 DEF Add
    <3>3. name \in Added
      BY <2>1, <3>2 DEF Added, Touched
    <3> QED BY <2>1, <3>1, <3>3 DEF RecordSteps
  <2>4. CASE \E name \in Lows, amount \in 0..Huge : s = Lower(name, amount)
    <3>1. PICK name \in Lows, amount \in 0..Huge : s = Lower(name, amount)
      BY <2>4
    <3>2. s.name = name
      BY <3>1 DEF Lower
    <3> QED BY <2>1, <3>1, <3>2 DEF RecordSteps
  <2>5. CASE \E name \in Highs, amount \in 0..Huge : s = Raise(name, amount)
    <3>1. PICK name \in Highs, amount \in 0..Huge : s = Raise(name, amount)
      BY <2>5
    <3>2. s.name = name
      BY <3>1 DEF Raise
    <3> QED BY <2>1, <3>1, <3>2 DEF RecordSteps
  <2> QED BY <2>2, <2>3, <2>4, <2>5 DEF RawSteps
<1> QED BY <1>2, <1>3

\* Each recording is one of the programs above.
LEMMA RecordingIs ==
    ASSUME NEW e \in Events
    PROVE  Recording(e) \in Recordings /\ Range(Recording(e)) = StepsOf(e)
<1>1. Recording(e) \in Seq(RawSteps) /\ Apart(Recording(e)) /\ Range(Recording(e)) = StepsOf(e)
  BY LaidRecording DEF Laid
<1>2. Recording(e) \in Seq(RecordSteps)
  <2>1. \A i \in 1..Len(Recording(e)) : Recording(e)[i] \in Range(Recording(e))
    BY <1>1 DEF Range
  <2>2. \A i \in 1..Len(Recording(e)) : Recording(e)[i] \in RecordSteps
    BY <2>1, ChangedIs
  <2> QED BY <1>1, <2>2
<1> QED BY <1>1, <1>2 DEF Recordings

\* Beside its recording an event is collected and counted as dispatched, nothing more.
LEMMA SentIs ==
    ASSUME NEW e \in Events
    PROVE  /\ Sent(e) \in Recordings
           /\ Range(Sent(e)) \subseteq StepsOf(e) \cup {Collecting(e), Add("dispatched", 1)}
           /\ StepsOf(e) \subseteq Range(Sent(e))
           /\ \A name \in Changed : Owes(Range(Sent(e)), name) = Owes(Range(Recording(e)), name)
<1>1. Recording(e) \in Seq(RecordSteps) /\ Apart(Recording(e)) /\ Range(Recording(e)) = StepsOf(e)
  BY RecordingIs DEF Recordings
<1>2. CASE ~ Broadcasts(e)
  <2>1. Sent(e) = Recording(e)
    BY <1>2 DEF Sent
  <2> QED BY <1>1, <2>1, RecordingIs
<1>3. CASE Broadcasts(e)
  <2> DEFINE first == <<Collecting(e)>>
             last == <<Add("dispatched", 1)>>
             r == Recording(e)
  <2>1. Sent(e) = (first \o r) \o last
    BY <1>3 DEF Sent, Broadcast, Collecting
  <2>2. first \in Seq(RecordSteps) /\ last \in Seq(RecordSteps)
    <3>1. "dispatched" \in Added
      BY NamesAre DEF Added, Touched
    <3>2. Collecting(e) \in RecordSteps /\ Add("dispatched", 1) \in RecordSteps
      BY <3>1 DEF RecordSteps
    <3> QED BY <3>2
  <2>3. /\ Range(first) = {Collecting(e)} /\ Apart(first)
        /\ Range(last) = {Add("dispatched", 1)} /\ Apart(last)
    BY ListedIs
  <2>4. \A s \in Range(r) : s.op # "collect" /\ s.name # "dispatched"
    <3>1. \A s \in Range(r) : s \in RawSteps
      BY LaidRecording DEF Laid, Range
    <3> QED BY <3>1, ChangedIs DEF RawSteps, Add, Lower, Raise
  <2>5. Collecting(e).op = "collect" /\ Add("dispatched", 1).op = "add" /\ Add("dispatched", 1).name = "dispatched"
    BY DEF Collecting, Add
  <2> HIDE DEF first, last, r
  <2>6. \A s \in Range(first), u \in Range(r) : ~ Clash(s, u)
    BY <2>3, <2>4, <2>5 DEF Clash
  <2>7. /\ first \o r \in Seq(RecordSteps) /\ Apart(first \o r)
        /\ Range(first \o r) = {Collecting(e)} \cup Range(r)
    BY <1>1, <2>2, <2>3, <2>6, JoinIs DEF r
  <2>8. \A s \in Range(first \o r), u \in Range(last) : ~ Clash(s, u)
    BY <2>3, <2>4, <2>5, <2>7 DEF Clash
  <2>9. /\ Sent(e) \in Seq(RecordSteps) /\ Apart(Sent(e))
        /\ Range(Sent(e)) = ({Collecting(e)} \cup Range(r)) \cup {Add("dispatched", 1)}
    <3>1. PICK p : p = first \o r
      OBVIOUS
    <3>2. p \in Seq(RecordSteps) /\ Apart(p) /\ \A s \in Range(p), u \in Range(last) : ~ Clash(s, u)
      BY <2>7, <2>8, <3>1
    <3>3. /\ p \o last \in Seq(RecordSteps) /\ Apart(p \o last)
          /\ Range(p \o last) = Range(p) \cup Range(last)
      BY <2>2, <2>3, <3>2, JoinIs
    <3>4. Sent(e) = p \o last /\ Range(p) = {Collecting(e)} \cup Range(r)
      BY <2>1, <2>7, <3>1
    <3> QED BY <2>3, <3>3, <3>4
  <2>10. ASSUME NEW name \in Changed
         PROVE  Owes(Range(Sent(e)), name) = Owes(Range(r), name)
    <3>1. name # "dispatched"
      BY ChangedIs
    <3>2. Adds(Range(Sent(e)), name) = Adds(Range(r), name)
      BY <2>5, <2>9, <3>1 DEF Adds
    <3> QED BY <3>2, Zenon DEF Owes
  <2> QED BY <1>1, <2>9, <2>10 DEF Recordings, r
<1> QED BY <1>2, <1>3

\* What the events add up to, one after the other.
LEMMA DueGrows ==
    ASSUME NEW es \in Seq(Events), NEW e \in Events, NEW name
    PROVE  Due(Append(es, e), name) = Due(es, name) + Owes(Range(Recording(e)), name)
<1> DEFINE n == Len(es)
           more == Append(es, e)
           f == [i \in DOMAIN more |-> Owes(Range(Recording(more[i])), name)]
           g == [i \in DOMAIN es |-> Owes(Range(Recording(es[i])), name)]
<1>1. /\ n \in Nat /\ DOMAIN es = 1..n /\ DOMAIN more = 1..(n + 1)
      /\ more[n + 1] = e /\ \A i \in 1..n : more[i] = es[i]
  OBVIOUS
<1>2. \A x \in Events : Owes(Range(Recording(x)), name) \in Nat
  BY RecordingIs, OwesNat DEF Programs
<1>3. \A i \in 1..(n + 1) : more[i] \in Events
  OBVIOUS
<1> HIDE DEF n, more
<1>4. f \in [1..(n + 1) -> Int] /\ f[n + 1] = Owes(Range(Recording(e)), name)
  BY <1>1, <1>2, <1>3
<1>5. g = [i \in 1..(n + 1) \ {n + 1} |-> f[i]]
  <2>1. 1..(n + 1) \ {n + 1} = 1..n
    BY <1>1
  <2> QED BY <1>1, <2>1
<1>6. IsFiniteSet(1..(n + 1)) /\ n + 1 \in 1..(n + 1)
  BY <1>1, CountTo
<1>7. Due(more, name) = SumFunction(f) /\ Due(es, name) = SumFunction(g)
  BY DEF Due
<1> HIDE DEF f, g
<1>8. SumFunction(f) = f[n + 1] + SumFunction(g) /\ SumFunction(g) \in Int
  <2>1. PICK D, x : D = 1..(n + 1) /\ x = n + 1
    OBVIOUS
  <2>2. IsFiniteSet(D) /\ x \in D /\ f \in [D -> Int] /\ g = [i \in D \ {x} |-> f[i]]
    BY <1>4, <1>5, <1>6, <2>1
  <2>3. SumFunction(f) = f[x] + SumFunction(g) /\ SumFunction(g) \in Int
    BY <2>2, SumDrop, ZenonT(30)
  <2> QED BY <2>1, <2>3
<1>9. f[n + 1] \in Int
  BY <1>1, <1>4
<1> QED BY <1>4, <1>7, <1>8, <1>9 DEF more

\* No events add up to nothing.
LEMMA DueNothing == \A name : Due(<< >>, name) = 0
<1> SUFFICES ASSUME NEW name PROVE Due(<< >>, name) = 0
  OBVIOUS
<1> DEFINE es == << >>
<1>1. [i \in DOMAIN es |-> Owes(Range(Recording(es[i])), name)] = [i \in {} |-> 0]
  OBVIOUS
<1>2. IsFiniteSet({})
  BY FS_EmptySet
<1> QED BY <1>1, <1>2, SumOfNothing DEF Due

-----------------------------------------------------------------------------
(* Sweeps                                                                  *)

\* A sweep goes over what events change, in some order.
LEMMA SweptIs ==
    ASSUME NEW S, NEW order \in Seq(S)
    PROVE  Swept(order) \in Seq(S) /\ Range(Swept(order)) = Range(order) \cap Changed
<1> DEFINE kept == {p \in DOMAIN order : order[p] \in Changed}
           n == Cardinality(kept)
           R == {pair \in kept \X kept : pair[1] < pair[2]}
           Place(i) == CHOOSE p \in kept : Cardinality({q \in kept : q < p}) = i - 1
<1>1. DOMAIN order = 1..Len(order) /\ Len(order) \in Nat
  OBVIOUS
<1>2. IsFiniteSet(kept) /\ kept \subseteq Int
  <2>1. IsFiniteSet(1..Len(order))
    BY <1>1, CountTo
  <2>2. kept \in SUBSET (1..Len(order))
    BY <1>1
  <2> QED BY <2>1, <2>2, FS_Subset
<1>3. \A x, y \in kept : <<x, y>> \in R <=> x < y
  OBVIOUS
<1> HIDE DEF R
<1>4. Orders(R, kept)
  BY <1>2, <1>3 DEF Orders
<1>5. \A p \in kept : {q \in kept : q < p} = Under(R, kept, p)
  BY <1>3 DEF Under
<1>6. \A p \in kept : Cardinality({q \in kept : q < p}) = RankBy(R, kept, p)
  BY <1>5 DEF RankBy
<1>7. /\ n \in Nat
      /\ \A i \in 1..n : \E p \in kept : Cardinality({q \in kept : q < p}) = i - 1
      /\ \A p \in kept : Cardinality({q \in kept : q < p}) \in 0..(n - 1)
      /\ \A p, q \in kept : Cardinality({r \in kept : r < p}) = Cardinality({r \in kept : r < q}) => p = q
  <2> HIDE DEF kept, n
  <2>1. /\ Cardinality(kept) \in Nat
        /\ \A i \in 1..Cardinality(kept) : \E x \in kept : RankBy(R, kept, x) = i - 1
        /\ \A x, y \in kept : RankBy(R, kept, x) = RankBy(R, kept, y) => x = y
    BY <1>2, <1>4, RanksCover
  <2>2. \A x \in kept : RankBy(R, kept, x) \in 0..(Cardinality(kept) - 1)
    BY <1>2, <1>4, RanksClimb
  <2> QED BY <1>6, <2>1, <2>2 DEF n
<1>8. Swept(order) = [i \in 1..n |-> order[Place(i)]]
  BY DEF Swept
<1>9. \A i \in 1..n : Place(i) \in kept /\ Cardinality({q \in kept : q < Place(i)}) = i - 1
  <2> HIDE DEF kept, n
  <2> QED BY <1>7
<1>10. \A p \in kept : \E i \in 1..n : p = Place(i)
  <2> SUFFICES ASSUME NEW p \in kept PROVE \E i \in 1..n : p = Place(i)
    OBVIOUS
  <2> DEFINE rank == Cardinality({q \in kept : q < p})
  <2>1. rank \in 0..(n - 1)
    BY <1>7
  <2> HIDE DEF n
  <2>2. rank + 1 \in 1..n /\ (rank + 1) - 1 = rank
    BY <1>7, <2>1
  <2>3. Place(rank + 1) \in kept /\ Cardinality({q \in kept : q < Place(rank + 1)}) = rank
    BY <1>9, <2>2
  <2> HIDE DEF kept, Place
  <2>4. p = Place(rank + 1)
    BY <1>7, <2>3
  <2> QED BY <2>2, <2>4
<1>11. \A p \in kept : order[p] \in S /\ order[p] \in Range(order) /\ order[p] \in Changed
  BY <1>1 DEF Range
<1>12. \A x \in Range(order) \cap Changed : \E p \in kept : x = order[p]
  BY DEF Range
<1> HIDE DEF kept, n, Place
<1>13. ASSUME NEW i \in 1..n
       PROVE  /\ Swept(order)[i] \in S
              /\ Swept(order)[i] \in Range(order) /\ Swept(order)[i] \in Changed
  <2>1. Swept(order)[i] = order[Place(i)]
    BY <1>8
  <2>2. Place(i) \in kept
    BY <1>9
  <2> QED BY <1>11, <2>1, <2>2
<1>14. DOMAIN Swept(order) = 1..n /\ Swept(order) \in Seq(S)
  <2>1. PICK p : p = Swept(order)
    OBVIOUS
  <2>2. p = [i \in 1..n |-> p[i]] /\ n \in Nat /\ \A i \in 1..n : p[i] \in S
    BY <1>7, <1>8, <1>13, <2>1
  <2> QED BY <2>1, <2>2
<1>16. Range(Swept(order)) \subseteq Range(order) \cap Changed
  <2> SUFFICES ASSUME NEW x \in Range(Swept(order)) PROVE x \in Range(order) \cap Changed
    OBVIOUS
  <2>1. PICK i \in 1..n : x = Swept(order)[i]
    BY <1>14 DEF Range
  <2> QED BY <1>13, <2>1
<1>15. Range(order) \cap Changed \subseteq Range(Swept(order))
  <2> SUFFICES ASSUME NEW x \in Range(order) \cap Changed PROVE x \in Range(Swept(order))
    OBVIOUS
  <2>1. PICK p \in kept : x = order[p]
    BY <1>12
  <2>2. PICK i \in 1..n : p = Place(i)
    BY <1>10
  <2>3. i \in DOMAIN Swept(order) /\ Swept(order)[i] = x
    BY <1>8, <2>1, <2>2
  <2> QED BY <2>3 DEF Range
<1> QED BY <1>14, <1>15, <1>16

\* The counters that a sweep lists are all but that of the broadcasts.
LEMMA CountersListed ==
    /\ TaskCounters \in Seq(Counters) /\ RouteCounters \in Seq(Counters)
    /\ ToolCounters \in Seq(Counters) /\ ReflectionCounters \in Seq(Counters)
    /\ MemoryCounters \in Seq(Counters) /\ <<"uses">> \in Seq(Counters)
    /\ TimerFields(Timer.task) \in Seq(Counters) /\ TimerFields(Timer.tool) \in Seq(Counters)
    /\ Counters \ {"dispatched"} \subseteq
         Range(TaskCounters) \cup Range(TimerFields(Timer.task)) \cup Range(RouteCounters)
           \cup Range(ToolCounters) \cup Range(TimerFields(Timer.tool)) \cup Range(<<"uses">>)
           \cup Range(ReflectionCounters) \cup Range(MemoryCounters)
<1>1. /\ "submitted" \in Counters /\ "completed" \in Counters /\ "failed" \in Counters
      /\ "preempted" \in Counters /\ "routes" \in Counters /\ "preemptiveRoutes" \in Counters
      /\ "fallbackRoutes" \in Counters /\ "confidence" \in Counters /\ "tools" \in Counters
      /\ "toolsOk" \in Counters /\ "toolsFailed" \in Counters /\ "uses" \in Counters
      /\ "passes" \in Counters /\ "iterations" \in Counters /\ "Approved" \in Counters
      /\ "NeedsRevision" \in Counters /\ "Rejected" \in Counters /\ "Escalated" \in Counters
      /\ "blackboardReads" \in Counters /\ "blackboardWrites" \in Counters
      /\ "episodes" \in Counters /\ "recalls" \in Counters
      /\ "taskCount" \in Counters /\ "taskTotal" \in Counters /\ "taskMin" \in Counters
      /\ "taskMax" \in Counters /\ "toolCount" \in Counters /\ "toolTotal" \in Counters
      /\ "toolMin" \in Counters /\ "toolMax" \in Counters
  BY NamesAre DEF Plain
<1>2. /\ TimerFields(Timer.task) = <<"taskCount", "taskTotal", "taskMin", "taskMax">>
      /\ TimerFields(Timer.tool) = <<"toolCount", "toolTotal", "toolMin", "toolMax">>
  BY NamesAre DEF TimerFields
<1>3. /\ Range(TaskCounters) = {"submitted", "completed", "failed", "preempted"}
      /\ Range(RouteCounters) = {"routes", "preemptiveRoutes", "fallbackRoutes", "confidence"}
      /\ Range(ToolCounters) = {"tools", "toolsOk", "toolsFailed"}
      /\ Range(MemoryCounters) = {"blackboardReads", "blackboardWrites", "episodes", "recalls"}
      /\ Range(<<"uses">>) = {"uses"}
  BY ListedIs DEF TaskCounters, RouteCounters, ToolCounters, MemoryCounters
<1>4. /\ Range(TimerFields(Timer.task)) = {"taskCount", "taskTotal", "taskMin", "taskMax"}
      /\ Range(TimerFields(Timer.tool)) = {"toolCount", "toolTotal", "toolMin", "toolMax"}
  BY <1>2, ListedIs
<1>5. Range(ReflectionCounters) = {"passes", "Approved", "NeedsRevision", "Rejected", "Escalated", "iterations"}
  BY DEF Range, ReflectionCounters
<1>6. /\ TaskCounters \in Seq(Counters) /\ RouteCounters \in Seq(Counters)
      /\ ToolCounters \in Seq(Counters) /\ ReflectionCounters \in Seq(Counters)
      /\ MemoryCounters \in Seq(Counters) /\ <<"uses">> \in Seq(Counters)
  <2> HIDE DEF Counters
  <2> QED BY <1>1 DEF TaskCounters, RouteCounters, ToolCounters, ReflectionCounters, MemoryCounters
<1>7. TimerFields(Timer.task) \in Seq(Counters) /\ TimerFields(Timer.tool) \in Seq(Counters)
  BY <1>1, <1>2
<1>8. Counters \ {"dispatched"} \subseteq
        Range(TaskCounters) \cup Range(TimerFields(Timer.task)) \cup Range(RouteCounters)
          \cup Range(ToolCounters) \cup Range(TimerFields(Timer.tool)) \cup Range(<<"uses">>)
          \cup Range(ReflectionCounters) \cup Range(MemoryCounters)
  BY <1>3, <1>4, <1>5, NamesAre DEF Plain
<1> QED BY <1>6, <1>7, <1>8

\* A reset writes to all that events change, a snapshot writes nothing.
LEMMA ResetIs ==
    /\ Reset \in Seq(StoreSteps)
    /\ \A name \in Changed : Store(name, Initially(name)) \in Range(Reset)
<1>1. PICK p1 : p1 = TaskCounters \o TimerFields(Timer.task)
  OBVIOUS
<1>2. PICK p2 : p2 = p1 \o RouteCounters
  OBVIOUS
<1>3. PICK p3 : p3 = p2 \o ToolCounters
  OBVIOUS
<1>4. PICK p4 : p4 = p3 \o TimerFields(Timer.tool)
  OBVIOUS
<1>5. PICK p5 : p5 = p4 \o <<"uses">>
  OBVIOUS
<1>6. PICK p6 : p6 = p5 \o ReflectionCounters
  OBVIOUS
<1>7. PICK all : all = p6 \o MemoryCounters
  OBVIOUS
<1>8. p1 \in Seq(Counters) /\ Range(p1) = Range(TaskCounters) \cup Range(TimerFields(Timer.task))
  BY <1>1, CountersListed, JoinIs
<1>9. p2 \in Seq(Counters) /\ Range(p2) = Range(p1) \cup Range(RouteCounters)
  BY <1>2, <1>8, CountersListed, JoinIs
<1>10. p3 \in Seq(Counters) /\ Range(p3) = Range(p2) \cup Range(ToolCounters)
  BY <1>3, <1>9, CountersListed, JoinIs
<1>11. p4 \in Seq(Counters) /\ Range(p4) = Range(p3) \cup Range(TimerFields(Timer.tool))
  BY <1>4, <1>10, CountersListed, JoinIs
<1>12. p5 \in Seq(Counters) /\ Range(p5) = Range(p4) \cup Range(<<"uses">>)
  <2>1. PICK u : u = <<"uses">>
    OBVIOUS
  <2>2. u \in Seq(Counters) /\ p4 \in Seq(Counters) /\ p5 = p4 \o u
    BY <1>5, <1>11, <2>1, CountersListed
  <2>3. p5 \in Seq(Counters) /\ Range(p5) = Range(p4) \cup Range(u)
    BY <2>2, JoinIs
  <2> QED BY <2>1, <2>3
<1>13. p6 \in Seq(Counters) /\ Range(p6) = Range(p5) \cup Range(ReflectionCounters)
  BY <1>6, <1>12, CountersListed, JoinIs
<1>14. all \in Seq(Counters) /\ Range(all) = Range(p6) \cup Range(MemoryCounters)
  BY <1>7, <1>13, CountersListed, JoinIs
<1>15. Changed \subseteq Range(all)
  BY <1>8, <1>9, <1>10, <1>11, <1>12, <1>13, <1>14, CountersListed, ChangedIs
<1>16. PICK order : order = Swept(all)
  OBVIOUS
<1>17. order \in Seq(Counters) /\ Range(order) = Changed
  BY <1>14, <1>15, <1>16, SweptIs
<1>18. Reset = [i \in DOMAIN order |-> Store(order[i], Initially(order[i]))]
  BY <1>1, <1>2, <1>3, <1>4, <1>5, <1>6, <1>7, <1>16 DEF Reset
<1>19. DOMAIN order = 1..Len(order) /\ Len(order) \in Nat /\ \A i \in 1..Len(order) : order[i] \in Counters
  BY <1>17
<1>20. \A i \in 1..Len(order) : Store(order[i], Initially(order[i])) \in StoreSteps
  BY <1>19 DEF StoreSteps
<1>21. Reset \in Seq(StoreSteps)
  BY <1>18, <1>19, <1>20
<1>22. \A name \in Changed : Store(name, Initially(name)) \in Range(Reset)
  BY <1>17, <1>18 DEF Range
<1> QED BY <1>21, <1>22

\* A snapshot only loads.
LEMMA SnapshotIs == Snapshot \in Seq(ReadSteps)
<1>1. PICK all : all = TaskCounters \o RouteCounters \o ToolCounters \o ReflectionCounters
                   \o TimerFields(Timer.task) \o TimerFields(Timer.tool) \o <<"uses">> \o MemoryCounters
  OBVIOUS
<1>2. all \in Seq(Counters)
  BY <1>1, CountersListed
<1>3. PICK order : order = Swept(all)
  OBVIOUS
<1>4. order \in Seq(Counters)
  BY <1>2, <1>3, SweptIs
<1>5. Snapshot = [i \in DOMAIN order |-> Read(order[i])]
  BY <1>1, <1>3 DEF Snapshot
<1>6. DOMAIN order = 1..Len(order) /\ Len(order) \in Nat /\ \A i \in 1..Len(order) : order[i] \in Counters
  BY <1>4
<1>7. \A i \in 1..Len(order) : Read(order[i]) \in ReadSteps
  BY <1>6 DEF ReadSteps
<1> QED BY <1>5, <1>6, <1>7

-----------------------------------------------------------------------------
(* One step less                                                           *)

\* The first step of a thread says what the thread is doing.
LEMMA HeadIs ==
    ASSUME CounterTypes, NEW t \in Recorders, thread[t] # << >>
    PROVE  /\ thread[t] \in Programs /\ thread[t][1] \in Range(thread[t])
           /\ thread[t][1].op \in {"collect", "add", "lower", "raise", "read", "store"}
           /\ thread[t][1].op \in {"collect", "add", "lower", "raise"}
                => thread[t] \in Recordings /\ thread[t][1] \in RecordSteps
           /\ thread[t][1].op = "read" => thread[t] \in Seq(ReadSteps)
           /\ thread[t][1].op = "store" => thread[t] \in Seq(StoreSteps) /\ thread[t][1] \in StoreSteps
           /\ Range(Tail(thread[t])) \subseteq Range(thread[t])
           /\ \A s \in Range(thread[t]) : s = thread[t][1] \/ s \in Range(Tail(thread[t]))
<1>1. PICK p \in Programs : p = thread[t] /\ p # << >>
  BY DEF CounterTypes
<1>2. \E S : p \in Seq(S)
  BY DEF Programs, Recordings
<1>3. /\ Range(Tail(p)) \subseteq Range(p)
      /\ \A s \in Range(p) : s = p[1] \/ s \in Range(Tail(p))
  BY <1>1, <1>2, TailIs
<1>4. p \in Recordings => p[1] \in RecordSteps
  BY <1>1, TailIs DEF Recordings
<1>5. p \in Seq(StoreSteps) => p[1] \in StoreSteps
  BY <1>1, TailIs
<1>6. /\ (p \in Recordings /\ p[1].op \in {"collect", "add", "lower", "raise"})
           \/ (p \in Seq(ReadSteps) /\ p[1].op = "read")
           \/ (p \in Seq(StoreSteps) /\ p[1].op = "store")
      /\ p[1] \in Range(p)
  BY <1>1, ProgramIs
<1> QED BY <1>1, <1>3, <1>4, <1>5, <1>6

\* Once its first step is done a thread goes on with what is left; the others stay.
LEMMA DoneIs ==
    ASSUME CounterTypes, NEW t \in Recorders, thread[t] # << >>, Done(t)
    PROVE  /\ thread' \in [Recorders -> Programs]
           /\ thread' = [thread EXCEPT ![t] = Tail(thread[t])] /\ Tail(thread[t]) \in Programs
           /\ thread'[t] = Tail(thread[t]) /\ \A u \in Recorders : u # t => thread'[u] = thread[u]
           /\ \A u \in Recorders : Range(thread'[u]) \subseteq Range(thread[u])
           /\ \A u \in Recorders : \A s \in Range(thread[u]) :
                s # thread[t][1] => s \in Range(thread'[u])
           /\ Busy' \subseteq Busy
           /\ \A u \in Busy' : thread[u][1].op \in {"read", "store"} => thread'[u][1].op = thread[u][1].op
           /\ Resetting' \subseteq Resetting
           /\ thread[t][1].op # "store" => Resetting' = Resetting
<1>1. thread \in [Recorders -> Programs]
  BY DEF CounterTypes
<1>2. Tail(thread[t]) \in Programs
  BY <1>1, ProgramIs
<1>3. thread' = [thread EXCEPT ![t] = Tail(thread[t])]
  BY DEF Done
<1>4. /\ thread' \in [Recorders -> Programs]
      /\ thread'[t] = Tail(thread[t]) /\ \A u \in Recorders : u # t => thread'[u] = thread[u]
  BY <1>1, <1>2, <1>3
<1>5. \A u \in Recorders : Range(thread'[u]) \subseteq Range(thread[u])
  BY <1>4, HeadIs
<1>6. \A u \in Recorders : \A s \in Range(thread[u]) : s # thread[t][1] => s \in Range(thread'[u])
  BY <1>4, HeadIs
<1>7. Busy' \subseteq Busy
  BY <1>4 DEF Busy
<1>8. /\ thread[t][1].op = "read" => thread'[t] = << >> \/ thread'[t][1].op = "read"
      /\ thread[t][1].op = "store" => thread'[t] = << >> \/ thread'[t][1].op = "store"
      /\ thread[t][1].op \in {"collect", "add", "lower", "raise"}
           => thread'[t] = << >> \/ thread'[t][1].op \in {"collect", "add", "lower", "raise"}
  <2>1. PICK p, q : p \in Programs /\ p = thread[t] /\ p # << >> /\ q = Tail(p) /\ thread'[t] = q
    BY <1>1, <1>4
  <2>2. CASE p[1].op = "read"
    <3>1. q \in Seq(ReadSteps)
      BY <2>1, <2>2, HeadIs, TailIs
    <3>2. q # << >> => q[1] \in ReadSteps
      BY <3>1, TailIs
    <3> QED BY <2>1, <2>2, <3>2, ReadStepIs
  <2>3. CASE p[1].op = "store"
    <3>1. q \in Seq(StoreSteps)
      BY <2>1, <2>3, HeadIs, TailIs
    <3>2. q # << >> => q[1] \in StoreSteps
      BY <3>1, TailIs
    <3> QED BY <2>1, <2>3, <3>2, StoreStepIs
  <2>4. CASE p[1].op \in {"collect", "add", "lower", "raise"}
    <3>1. p \in Seq(RecordSteps)
      BY <2>1, <2>4, HeadIs DEF Recordings
    <3>2. q \in Seq(RecordSteps)
      BY <2>1, <3>1, TailIs
    <3>3. q # << >> => q[1] \in RecordSteps
      BY <3>2, TailIs
    <3> QED BY <2>1, <2>4, <3>3, RecordStepIs
  <2>5. p[1].op \in {"collect", "add", "lower", "raise", "read", "store"}
    BY <2>1, HeadIs
  <2> QED BY <2>1, <2>2, <2>3, <2>4, <2>5
<1>9. \A u \in Busy' : thread[u][1].op \in {"read", "store"} => thread'[u][1].op = thread[u][1].op
  BY <1>4, <1>8 DEF Busy
<1>10. thread[t][1].op \in {"collect", "add", "lower", "raise", "read", "store"}
  BY HeadIs
<1>11. Resetting' \subseteq Resetting
  <2> SUFFICES ASSUME NEW u \in Resetting' PROVE u \in Resetting
    OBVIOUS
  <2>1. u \in Busy' /\ thread'[u][1].op = "store" /\ u \in Recorders /\ thread'[u] # << >>
    BY DEF Resetting, Busy
  <2> QED BY <1>4, <1>7, <1>8, <1>10, <2>1 DEF Resetting
<1>12. ASSUME thread[t][1].op # "store" PROVE Resetting \subseteq Resetting'
  <2> SUFFICES ASSUME NEW u \in Resetting PROVE u \in Resetting'
    OBVIOUS
  <2>1. u \in Recorders /\ thread[u] # << >> /\ thread[u][1].op = "store"
    BY DEF Resetting, Busy
  <2>2. thread'[u] = thread[u]
    BY <1>4, <1>12, <2>1
  <2> QED BY <2>1, <2>2 DEF Resetting, Busy
<1> QED BY <1>2, <1>3, <1>4, <1>5, <1>6, <1>7, <1>9, <1>11, <1>12

\* An addition is owed no more once it is made.
LEMMA OwedOnceDone ==
    ASSUME CounterTypes, NEW t \in Recorders, thread[t] # << >>, Done(t), NEW name
    PROVE  /\ Owed(thread, name) \in Int
           /\ thread[t][1].op = "add" /\ thread[t][1].name = name =>
                Owed(thread', name) = Owed(thread, name) - thread[t][1].amount
           /\ ~ (thread[t][1].op = "add" /\ thread[t][1].name = name) =>
                Owed(thread', name) = Owed(thread, name)
<1> DEFINE p == thread[t]
           q == Tail(thread[t])
<1>1. thread \in [Recorders -> Programs] /\ p \in Programs /\ q \in Programs
  BY DoneIs DEF CounterTypes
<1>2. /\ Owed(thread, name) \in Int
      /\ Owed([thread EXCEPT ![t] = q], name)
           = Owed(thread, name) + (Owes(Range(q), name) - Owes(Range(p), name))
  <2> HIDE DEF q
  <2> QED BY <1>1, OwedMoves
<1>3. Owed(thread', name) = Owed(thread, name) + (Owes(Range(q), name) - Owes(Range(p), name))
  BY <1>2, DoneIs
<1>4. Owes(Range(q), name) \in Nat /\ Owes(Range(p), name) \in Nat
  BY <1>1, OwesNat
<1>5. CASE p[1].op \in {"read", "store"}
  <2>1. Owes(Range(p), name) = 0
    BY <1>1, <1>5, OwesNat
  <2>2. Owes(Range(q), name) = 0
    <3>1. q = << >> \/ q[1].op \in {"read", "store"}
      BY <1>5, DoneIs DEF Busy
    <3> QED BY <1>1, <3>1, OwesNat
  <2> QED BY <1>2, <1>3, <1>5, <2>1, <2>2
<1>6. CASE p[1].op \in {"collect", "add", "lower", "raise"}
  <2>1. p \in Recordings /\ p[1] \in RecordSteps /\ p # << >>
    BY <1>6, HeadIs
  <2>2. p[1].op = "add" => p[1].amount \in Nat
    BY <2>1, RecordStepIs
  <2> HIDE DEF p
  <2>3. /\ p[1].op = "add" /\ p[1].name = name =>
             Owes(Range(p), name) = p[1].amount /\ Owes(Range(Tail(p)), name) = 0
        /\ ~ (p[1].op = "add" /\ p[1].name = name) =>
             Owes(Range(Tail(p)), name) = Owes(Range(p), name)
    BY <2>1, OwesLess
  <2>4. q = Tail(p)
    BY DEF p
  <2> HIDE DEF q
  <2> QED BY <1>2, <1>3, <1>4, <2>2, <2>3, <2>4 DEF p
<1> QED BY <1>5, <1>6, HeadIs

-----------------------------------------------------------------------------
(* Each step keeps the counters together                                   *)

\* Nobody resets while somebody records.
LEMMA NobodyResets ==
    ASSUME CounterTypes, SweepInv, NEW t \in Recorders, thread[t] # << >>,
           thread[t][1].op \notin {"read", "store"}
    PROVE  Resetting = {}
BY DEF SweepInv, Busy

\* A step that is no comparison leaves the bounds as they are.
LEMMA BoundsStay ==
    ASSUME CounterTypes, NEW t \in Recorders, thread[t] # << >>, Done(t),
           thread[t][1].op \notin {"lower", "raise"}, told' = told,
           NEW tracker \in Trackers, Bounded(tracker),
           counter'[Timer[tracker].min] = counter[Timer[tracker].min],
           counter'[Timer[tracker].max] = counter[Timer[tracker].max]
    PROVE  Bounded(tracker)'
<1>1. Durations(tracker)' = Durations(tracker)
  BY DEF Durations
<1>2. \A name, d : Lower(name, d) # thread[t][1] /\ Raise(name, d) # thread[t][1]
  BY DEF Lower, Raise
<1>3. /\ \A u \in Recorders : Range(thread'[u]) \subseteq Range(thread[u])
      /\ \A u \in Recorders : \A s \in Range(thread[u]) : s # thread[t][1] => s \in Range(thread'[u])
  BY DoneIs
<1>4. \A u \in Recorders : \A name, d :
        /\ Lower(name, d) \in Range(thread[u]) <=> Lower(name, d) \in Range(thread'[u])
        /\ Raise(name, d) \in Range(thread[u]) <=> Raise(name, d) \in Range(thread'[u])
  BY <1>2, <1>3
<1> QED BY <1>1, <1>4 DEF Bounded

\* Where no event is told, nobody records or writes and every counter is as it was at first,
\* everything adds up.
Fresh ==
    /\ CounterTypes /\ UntouchedInv /\ told = << >>
    /\ \A t \in Busy : thread[t][1].op = "read"
    /\ \A name \in Changed : counter[name] = Initially(name)

\* Then counts, bounds and what is loaded are as they should be.
LEMMA FreshIsSound == Fresh => CountsInv /\ BoundsInv /\ LoadedInv
<1> SUFFICES ASSUME Fresh PROVE CountsInv /\ BoundsInv /\ LoadedInv
  OBVIOUS
<1>1. /\ thread \in [Recorders -> Programs] /\ told = << >>
      /\ \A t \in Recorders : thread[t] # << >> => thread[t][1].op = "read"
  BY DEF Fresh, CounterTypes, Busy
<1>2. CountsInv
  <2> SUFFICES ASSUME NEW name \in Changed \ (Lows \cup Highs)
               PROVE  counter[name] + Owed(thread, name) = Due(told, name)
    BY DEF CountsInv
  <2>1. counter[name] = 0
    BY DEF Fresh, Initially, Lows
  <2>2. Owed(thread, name) = 0
    BY <1>1, OwedNothing
  <2> QED BY <1>1, <2>1, <2>2, DueNothing
<1>3. BoundsInv
  <2> SUFFICES ASSUME NEW tracker \in Trackers PROVE Bounded(tracker)
    BY DEF BoundsInv
  <2>1. Durations(tracker) = {}
    BY <1>1 DEF Durations
  <2>2. Timer[tracker].min \in Lows /\ Timer[tracker].max \in Highs
    BY NamesAre DEF Trackers
  <2>3. \A name \in (Lows \cup Highs) : counter[name] = Initially(name)
    <3>1. \A name \in (Lows \cup Highs) : name \in Counters /\ name # "dispatched"
      BY NamesAre
    <3> QED BY <3>1 DEF Fresh, UntouchedInv, Touched
  <2>4. \A x \in Lows : Initially(x) = Huge
    BY DEF Initially, Lows
  <2>5. \A x \in Highs : Initially(x) = 0
    BY NamesAre DEF Initially
  <2>6. counter[Timer[tracker].min] = Huge /\ counter[Timer[tracker].max] = 0
    BY <2>2, <2>3, <2>4, <2>5
  <2>7. ASSUME NEW t \in Recorders, NEW s \in Range(thread[t]) PROVE s.op = "read"
    <3>1. thread[t] # << >>
      BY <2>7, ListedIs
    <3>2. thread[t] \in Seq(ReadSteps)
      BY <1>1, <3>1, HeadIs DEF Fresh
    <3>3. s \in ReadSteps
      BY <3>2 DEF Range
    <3> QED BY <3>3, ReadStepIs
  <2>8. \A name, d : Lower(name, d).op = "lower" /\ Raise(name, d).op = "raise"
    BY DEF Lower, Raise
  <2>9. \A t \in Recorders : \A name, d :
          Lower(name, d) \notin Range(thread[t]) /\ Raise(name, d) \notin Range(thread[t])
    BY <2>7, <2>8
  <2> QED BY <2>1, <2>6, <2>9 DEF Bounded
<1>4. LoadedInv
  BY <1>1 DEF LoadedInv, Loaded, Busy
<1> QED BY <1>2, <1>3, <1>4

\* Bounds only become better, so what another thread has loaded is still no better.
LEMMA LoadedStays ==
    ASSUME CounterTypes, NEW u \in Busy, thread'[u] = thread[u], reading'[u] = reading[u],
           counter' \in [Counters -> Int], Loaded(u),
           \A name \in Lows : counter'[name] <= counter[name],
           \A name \in Highs : counter[name] <= counter'[name]
    PROVE  Loaded(u)'
<1>1. u \in Recorders /\ thread[u] # << >>
  BY DEF Busy
<1>2. /\ thread[u][1].op = "lower" => thread[u][1].name \in Lows
      /\ thread[u][1].op = "raise" => thread[u][1].name \in Highs
  BY <1>1, HeadIs, RecordStepIs
<1>3. \A name \in Lows \cup Highs : counter[name] \in Int /\ counter'[name] \in Int
  BY NamesAre DEF CounterTypes
<1>4. /\ thread[u][1].op \in {"collect", "add"} => reading[u] = Nothing
      /\ thread[u][1].op \in {"lower", "raise"} =>
           \/ reading[u] = Nothing
           \/ \E c \in Int :
                /\ reading[u] = {<<thread[u][1].name, c>>}
                /\ thread[u][1].op = "lower" => counter'[thread[u][1].name] <= c
                /\ thread[u][1].op = "raise" => c <= counter'[thread[u][1].name]
  BY <1>2, <1>3 DEF Loaded
<1> QED BY <1>4 DEF Loaded

\* What holds of the counters while no reset has run beside a call.
Sound == CounterTypes /\ UntouchedInv /\ SweepInv /\ CountsInv /\ BoundsInv /\ LoadedInv

\* fetch_add.
LEMMA AddIsSound ==
    ASSUME Sound, NEW t \in Recorders, Change(t), thread[t][1].op = "add"
    PROVE  Sound'
<1> DEFINE head == thread[t][1]
           n == head.name
<1> USE DEF Sound
<1>1. /\ thread[t] # << >> /\ Done(t) /\ told' = told /\ reading' = reading
      /\ counter' = [counter EXCEPT ![n] = counter[n] + head.amount]
  BY DEF Change, Same
<1>2. n \in Added /\ head.amount \in Nat
  BY <1>1, HeadIs, RecordStepIs
<1>3. /\ n \in Counters /\ n \in Touched /\ n \notin Lows \cup Highs
      /\ counter \in [Counters -> Int]
  BY <1>2, NamesAre, ChangedIs DEF Added, Touched, CounterTypes, Plain
<1> HIDE DEF n
<1>4. /\ counter' \in [Counters -> Int] /\ counter'[n] = counter[n] + head.amount
      /\ \A name \in Counters : name # n => counter'[name] = counter[name]
  <2> HIDE DEF head
  <2> QED BY <1>1, <1>2, <1>3
<1>5. Resetting = {}
  BY <1>1, NobodyResets
<1>6. Resetting' = {}
  BY <1>1, <1>5, DoneIs
<1>7. CounterTypes'
  BY <1>1, <1>4, DoneIs DEF CounterTypes
<1>8. UntouchedInv'
  BY <1>3, <1>4 DEF UntouchedInv
<1>9. SweepInv'
  BY <1>6 DEF SweepInv
<1>10. CountsInv'
  <2> SUFFICES ASSUME NEW name \in Changed \ (Lows \cup Highs)
               PROVE  counter'[name] + Owed(thread', name) = Due(told, name)
    BY <1>1 DEF CountsInv, Owed
  <2>1. counter[name] + Owed(thread, name) = Due(told, name) /\ name \in Counters /\ counter[name] \in Int
    BY <1>3, <1>5, ChangedIs DEF CountsInv
  <2>2. Owed(thread, name) \in Int
    BY <1>1, OwedOnceDone
  <2>3. CASE name = n
    <3>1. Owed(thread', name) = Owed(thread, name) - head.amount
      BY <1>1, <2>3, OwedOnceDone DEF n
    <3> QED BY <1>2, <1>4, <2>1, <2>2, <2>3, <3>1
  <2>4. CASE name # n
    <3>1. Owed(thread', name) = Owed(thread, name)
      BY <1>1, <2>4, OwedOnceDone DEF n
    <3> QED BY <1>4, <2>1, <2>4, <3>1
  <2> QED BY <2>3, <2>4
<1>11. BoundsInv'
  <2> SUFFICES ASSUME NEW tracker \in Trackers PROVE Bounded(tracker)'
    BY DEF BoundsInv
  <2>1. /\ Timer[tracker].min \in Counters /\ Timer[tracker].min \in Lows
        /\ Timer[tracker].max \in Counters /\ Timer[tracker].max \in Highs
    BY NamesAre DEF Trackers
  <2>2. Bounded(tracker)
    BY <1>5 DEF BoundsInv
  <2> QED BY <1>1, <1>3, <1>4, <2>1, <2>2, BoundsStay
<1>12. LoadedInv'
  <2> SUFFICES ASSUME NEW u \in Busy' PROVE Loaded(u)'
    BY DEF LoadedInv
  <2>1. u \in Busy /\ u \in Recorders /\ Loaded(u)
    BY <1>1, DoneIs DEF Busy, LoadedInv
  <2>2. CASE u = t
    BY <1>1, <2>1, <2>2 DEF Loaded
  <2>3. CASE u # t
    <3>1. thread'[u] = thread[u]
      BY <1>1, <2>1, <2>3, DoneIs
    <3>2. \A name \in Lows \cup Highs : counter'[name] = counter[name] /\ counter[name] \in Int
      BY <1>3, <1>4, NamesAre
    <3> QED BY <1>1, <1>4, <2>1, <3>1, <3>2, LoadedStays
  <2> QED BY <2>2, <2>3
<1> QED BY <1>7, <1>8, <1>9, <1>10, <1>11, <1>12

\* store.
LEMMA StoreIsSound ==
    ASSUME Sound, NEW t \in Recorders, Change(t), thread[t][1].op = "store"
    PROVE  Sound'
<1> DEFINE head == thread[t][1]
           n == head.name
<1> USE DEF Sound
<1>1. /\ thread[t] # << >> /\ Done(t) /\ told' = told /\ reading' = reading
      /\ counter' = [counter EXCEPT ![n] = head.amount]
  BY DEF Change, Same
<1>2. n \in Counters /\ head.amount = Initially(n) /\ head = Store(n, Initially(n))
  <2>1. head \in StoreSteps
    BY <1>1, HeadIs
  <2> HIDE DEF head
  <2> QED BY <2>1, StoreStepIs
<1>3. counter \in [Counters -> Int] /\ Initially(n) \in Int
  BY RecordersAreFinite DEF CounterTypes, Initially
<1> HIDE DEF n
<1>4. /\ counter' \in [Counters -> Int] /\ counter'[n] = Initially(n)
      /\ \A name \in Counters : name # n => counter'[name] = counter[name]
  <2> HIDE DEF head
  <2> QED BY <1>1, <1>2, <1>3
<1>5. Resetting # {}
  BY <1>1 DEF Resetting, Busy
<1>6. /\ told = << >>
      /\ \A u \in Busy : thread[u][1].op \in {"read", "store"}
      /\ \A name \in Changed :
           counter[name] = Initially(name)
             \/ \E u \in Recorders : Store(name, Initially(name)) \in Range(thread[u])
  BY <1>5 DEF SweepInv
<1>7. CounterTypes'
  BY <1>1, <1>4, DoneIs DEF CounterTypes
<1>8. UntouchedInv'
  BY <1>4 DEF UntouchedInv
<1>9. \A u \in Busy' : thread'[u][1].op \in {"read", "store"}
  <2>1. \A u \in Busy' : u \in Busy /\ (thread[u][1].op \in {"read", "store"} => thread'[u][1].op = thread[u][1].op)
    BY <1>1, DoneIs
  <2> QED BY <1>6, <2>1
<1>10. ASSUME NEW name \in Changed
       PROVE  counter'[name] = Initially(name)
                \/ \E u \in Recorders : Store(name, Initially(name)) \in Range(thread'[u])
  <2>1. CASE name = n
    BY <1>4, <2>1
  <2>2. CASE name # n /\ counter[name] = Initially(name)
    BY <1>4, <2>2, ChangedIs
  <2>3. CASE name # n /\ \E u \in Recorders : Store(name, Initially(name)) \in Range(thread[u])
    <3>1. PICK u \in Recorders : Store(name, Initially(name)) \in Range(thread[u])
      BY <2>3
    <3>2. Store(name, Initially(name)) # head
      BY <1>2, <2>3 DEF Store
    <3>3. Store(name, Initially(name)) \in Range(thread'[u])
      BY <1>1, <3>1, <3>2, DoneIs
    <3> QED BY <3>3
  <2> QED BY <1>6, <2>1, <2>2, <2>3
<1>11. SweepInv'
  BY <1>1, <1>6, <1>9, <1>10 DEF SweepInv
<1>12. CASE Resetting' # {}
  <2>1. CountsInv' /\ BoundsInv'
    BY <1>12 DEF CountsInv, BoundsInv
  <2>2. LoadedInv'
    BY <1>9 DEF LoadedInv, Loaded
  <2> QED BY <1>7, <1>8, <1>11, <2>1, <2>2
<1>13. CASE Resetting' = {}
  <2>1. \A u \in Busy' : thread'[u][1].op = "read"
    BY <1>9, <1>13 DEF Resetting
  <2>2. ASSUME NEW u \in Recorders, NEW name, NEW v PROVE Store(name, v) \notin Range(thread'[u])
    <3>1. PICK p \in Programs : p = thread'[u]
      BY <1>7 DEF CounterTypes
    <3>2. p = << >> \/ p \in Seq(ReadSteps)
      <4>1. p # << >> => p[1].op = "read"
        BY <2>1, <3>1 DEF Busy
      <4> QED BY <4>1, ProgramIs
    <3>3. \A s \in Range(p) : s.op = "read"
      BY <3>2, ReadStepIs, ListedIs DEF Range
    <3> QED BY <3>1, <3>3 DEF Store
  <2>3. \A name \in Changed : counter'[name] = Initially(name)
    BY <1>10, <2>2
  <2>4. Fresh'
    BY <1>1, <1>6, <1>7, <1>8, <2>1, <2>3 DEF Fresh
  <2>5. CountsInv' /\ BoundsInv' /\ LoadedInv'
    BY <2>4, FreshIsSound, PTL
  <2> QED BY <1>7, <1>8, <1>11, <2>5
<1> QED BY <1>12, <1>13

\* A step that neither changes a counter nor compares with one: a load and what a handler
\* collects.
LEMMA QuietIsSound ==
    ASSUME Sound, NEW t \in Recorders, thread[t] # << >>, Done(t), counter' = counter, told' = told,
           thread[t][1].op \in {"read", "collect"}, DOMAIN reading' = Recorders,
           \A u \in Recorders : u # t \/ thread[t][1].op = "collect" => reading'[u] = reading[u]
    PROVE  Sound'
<1> USE DEF Sound
<1>1. Resetting' = Resetting
  BY DoneIs
<1>2. CounterTypes'
  BY DoneIs DEF CounterTypes
<1>3. UntouchedInv'
  BY DEF UntouchedInv
<1>4. SweepInv'
  <2> SUFFICES ASSUME Resetting # {}
               PROVE  /\ \A u \in Busy' : thread'[u][1].op \in {"read", "store"}
                      /\ \A name \in Changed :
                           counter[name] = Initially(name)
                             \/ \E u \in Recorders : Store(name, Initially(name)) \in Range(thread'[u])
    BY <1>1 DEF SweepInv
  <2>1. \A u \in Busy' : thread'[u][1].op \in {"read", "store"}
    <3>1. \A u \in Busy' : u \in Busy /\ (thread[u][1].op \in {"read", "store"} => thread'[u][1].op = thread[u][1].op)
      BY DoneIs
    <3> QED BY <3>1 DEF SweepInv
  <2>2. \A name, v : Store(name, v) # thread[t][1]
    BY DEF Store
  <2>3. \A name, v : \A u \in Recorders : Store(name, v) \in Range(thread[u]) => Store(name, v) \in Range(thread'[u])
    <3>1. \A u \in Recorders : \A s \in Range(thread[u]) : s # thread[t][1] => s \in Range(thread'[u])
      BY DoneIs
    <3> QED BY <2>2, <3>1
  <2> QED BY <2>1, <2>3 DEF SweepInv
<1>5. CountsInv'
  <2> SUFFICES ASSUME Resetting = {}, NEW name \in Changed \ (Lows \cup Highs)
               PROVE  counter[name] + Owed(thread', name) = Due(told, name)
    BY <1>1 DEF CountsInv, Owed
  <2>1. Owed(thread', name) = Owed(thread, name)
    BY OwedOnceDone
  <2> QED BY <2>1 DEF CountsInv
<1>6. BoundsInv'
  <2> SUFFICES ASSUME Resetting = {}, NEW tracker \in Trackers PROVE Bounded(tracker)'
    BY <1>1 DEF BoundsInv
  <2> QED BY BoundsStay DEF BoundsInv
<1>7. LoadedInv'
  <2> SUFFICES ASSUME NEW u \in Busy' PROVE Loaded(u)'
    BY DEF LoadedInv
  <2>1. u \in Busy /\ u \in Recorders /\ Loaded(u)
    BY DoneIs DEF Busy, LoadedInv
  <2>2. CASE u = t /\ thread[t][1].op = "read"
    <3>1. thread'[u][1].op = "read"
      BY <2>1, <2>2, DoneIs
    <3> QED BY <3>1 DEF Loaded
  <2>3. CASE u = t /\ thread[t][1].op = "collect"
    BY <2>1, <2>3 DEF Loaded
  <2>4. CASE u # t
    <3>1. thread'[u] = thread[u] /\ reading'[u] = reading[u]
      BY <2>1, <2>4, DoneIs
    <3>2. \A name \in Lows \cup Highs : counter[name] \in Int
      BY NamesAre DEF CounterTypes
    <3>3. counter' \in [Counters -> Int]
      BY DEF CounterTypes
    <3> QED BY <2>1, <3>1, <3>2, <3>3, LoadedStays
  <2> QED BY <2>2, <2>3, <2>4
<1> QED BY <1>2, <1>3, <1>4, <1>5, <1>6, <1>7

\* A turn of the loop either looks at the counter or ends with the better of the two.
LEMMA TurnIs ==
    ASSUME Sound, NEW t \in Recorders, CompareExchange(t)
    PROVE  \/ /\ thread' = thread /\ counter' = counter
              /\ reading' = [reading EXCEPT ![t] = {<<thread[t][1].name, counter[thread[t][1].name]>>}]
           \/ /\ Done(t) /\ reading' = [reading EXCEPT ![t] = Nothing]
              /\ counter' = [counter EXCEPT ![thread[t][1].name] =
                               IF Beats(thread[t][1], counter[thread[t][1].name])
                                 THEN thread[t][1].amount ELSE counter[thread[t][1].name]]
<1> DEFINE head == thread[t][1]
           n == head.name
           here == counter[n]
           current == (CHOOSE c \in reading[t] : TRUE)[2]
           looks == /\ reading' = [reading EXCEPT ![t] = {<<n, here>>}]
                    /\ counter' = counter /\ thread' = thread
           ends(v) == /\ counter' = [counter EXCEPT ![n] = v]
                      /\ Done(t) /\ reading' = [reading EXCEPT ![t] = Nothing]
           kept == counter' = counter /\ Done(t) /\ reading' = [reading EXCEPT ![t] = Nothing]
<1> USE DEF Sound
<1>1. thread[t] # << >> /\ head.op \in {"lower", "raise"} /\ t \in Busy
  BY DEF CompareExchange, Busy
<1>2. /\ reading[t] = Nothing => looks
      /\ reading[t] # Nothing /\ ~ Beats(head, current) => kept
      /\ reading[t] # Nothing /\ Beats(head, current) /\ here = current => ends(head.amount)
      /\ reading[t] # Nothing /\ Beats(head, current) /\ here # current => looks
  BY DEF CompareExchange
<1>3. head.amount \in Nat /\ n \in Counters /\ counter \in [Counters -> Int] /\ here \in Int
  <2>1. thread[t][1] \in RecordSteps
    BY <1>1, HeadIs
  <2>2. head.amount \in 0..Huge /\ n \in Lows \cup Highs
    BY <1>1, <2>1, RecordStepIs
  <2>3. n \in Counters
    BY <2>2, NamesAre
  <2> QED BY <2>2, <2>3, RecordersAreFinite DEF CounterTypes
<1>4. ASSUME reading[t] # Nothing
      PROVE  /\ current \in Int
             /\ head.op = "lower" => here <= current
             /\ head.op = "raise" => current <= here
  <2>1. PICK c \in Int : /\ reading[t] = {<<n, c>>}
                         /\ head.op = "lower" => here <= c
                         /\ head.op = "raise" => c <= here
    BY <1>1, <1>4 DEF LoadedInv, Loaded
  <2>2. current = c
    <3>1. PICK r : r = reading[t]
      OBVIOUS
    <3>2. r = {<<n, c>>}
      BY <2>1, <3>1
    <3>3. (CHOOSE s \in r : TRUE) = <<n, c>>
      <4> HIDE DEF n
      <4> QED BY <3>2
    <3>4. (CHOOSE s \in reading[t] : TRUE) = <<n, c>>
      BY <3>1, <3>3
    <3>5. \A s : s = <<n, c>> => s[2] = c
      OBVIOUS
    <3>6. (CHOOSE s \in reading[t] : TRUE)[2] = c
      <4>1. PICK s : s = CHOOSE u \in reading[t] : TRUE
        OBVIOUS
      <4>2. s = <<n, c>>
        BY <3>4, <4>1
      <4>3. s[2] = c
        BY <3>5, <4>2
      <4> QED BY <4>1, <4>3, Zenon
    <3> QED BY <3>6
  <2> QED BY <2>1, <2>2
<1> HIDE DEF head, n, here, current
<1>5. CASE reading[t] # Nothing /\ ~ Beats(head, current)
  <2>1. ~ Beats(head, here)
    BY <1>1, <1>3, <1>4, <1>5 DEF Beats
  <2>2. counter = [counter EXCEPT ![n] = here]
    BY <1>3 DEF here
  <2> QED BY <1>2, <1>5, <2>1, <2>2 DEF head, n, here
<1>6. CASE reading[t] # Nothing /\ Beats(head, current) /\ here = current
  BY <1>2, <1>6 DEF head, n, here
<1> QED BY <1>2, <1>5, <1>6 DEF head, n, here

\* compare_exchange_weak.
LEMMA CompareIsSound ==
    ASSUME Sound, NEW t \in Recorders, CompareExchange(t)
    PROVE  Sound'
<1> DEFINE head == thread[t][1]
           n == head.name
           best == IF Beats(head, counter[n]) THEN head.amount ELSE counter[n]
<1> USE DEF Sound
<1>1. /\ thread[t] # << >> /\ head.op \in {"lower", "raise"} /\ told' = told
      /\ t \in Busy
  BY DEF CompareExchange, Same, Busy
<1>2. /\ head \in RecordSteps /\ head \in Range(thread[t]) /\ head.amount \in 0..Huge /\ head.amount \in Int
      /\ head.op = "lower" => n \in Lows \cap Changed /\ head = Lower(n, head.amount)
      /\ head.op = "raise" => n \in Highs \cap Changed /\ head = Raise(n, head.amount)
  <2>1. head \in RecordSteps /\ head \in Range(thread[t])
    BY <1>1, HeadIs
  <2> HIDE DEF head
  <2> QED BY <1>1, <2>1, RecordStepIs
<1>3. n \in Counters /\ n \in Touched /\ counter \in [Counters -> Int] /\ DOMAIN reading = Recorders
  BY <1>1, <1>2, ChangedIs DEF CounterTypes, Touched
<1>4. Resetting = {}
  BY <1>1, NobodyResets
<1>5. CASE /\ thread' = thread /\ counter' = counter
           /\ reading' = [reading EXCEPT ![t] = {<<n, counter[n]>>}]
  <2>1. Busy' = Busy /\ Resetting' = Resetting
    BY <1>5 DEF Busy, Resetting
  <2>2. CounterTypes' /\ UntouchedInv' /\ SweepInv'
    BY <1>1, <1>4, <1>5, <2>1 DEF CounterTypes, UntouchedInv, SweepInv
  <2>3. CountsInv'
    BY <1>1, <1>5, <2>1 DEF CountsInv, Owed
  <2>4. BoundsInv'
    BY <1>1, <1>5, <2>1 DEF BoundsInv, Bounded, Durations
  <2>5. LoadedInv'
    <3> SUFFICES ASSUME NEW u \in Busy PROVE Loaded(u)'
      BY <2>1 DEF LoadedInv
    <3>1. CASE u = t
      <4>1. counter[n] \in Int /\ counter[n] <= counter[n] /\ reading'[t] = {<<n, counter[n]>>}
        BY <1>3, <1>5
      <4> QED BY <1>1, <1>5, <3>1, <4>1 DEF Loaded
    <3>2. CASE u # t
      <4>1. reading'[u] = reading[u] /\ u \in Recorders
        BY <1>3, <1>5, <3>2 DEF Busy
      <4> QED BY <1>5, <3>2, <4>1 DEF Loaded, LoadedInv
    <3> QED BY <3>1, <3>2
  <2> QED BY <2>2, <2>3, <2>4, <2>5
<1>6. CASE /\ Done(t) /\ reading' = [reading EXCEPT ![t] = Nothing]
           /\ counter' = [counter EXCEPT ![n] = best]
  <2> HIDE DEF n, head
  <2>1. /\ counter[n] \in Int /\ best \in Int
        /\ head.op = "lower" => best <= counter[n] /\ best <= head.amount
        /\ head.op = "raise" => counter[n] <= best /\ head.amount <= best
        /\ best = counter[n] \/ best = head.amount
    BY <1>1, <1>2, <1>3 DEF Beats
  <2> HIDE DEF best
  <2>2. /\ counter' \in [Counters -> Int] /\ counter'[n] = best
        /\ \A name \in Counters : name # n => counter'[name] = counter[name]
    BY <1>3, <1>6, <2>1
  <2>3. Resetting' = {}
    BY <1>1, <1>4, <1>6, DoneIs DEF head
  <2>4. CounterTypes'
    BY <1>1, <1>3, <1>6, <2>2, DoneIs DEF CounterTypes
  <2>5. UntouchedInv' /\ SweepInv'
    BY <1>3, <2>2, <2>3 DEF UntouchedInv, SweepInv
  <2>6. CountsInv'
    <3> SUFFICES ASSUME NEW name \in Changed \ (Lows \cup Highs)
                 PROVE  counter'[name] + Owed(thread', name) = Due(told, name)
      BY <1>1 DEF CountsInv, Owed
    <3>1. Owed(thread', name) = Owed(thread, name)
      BY <1>1, <1>6, OwedOnceDone DEF head
    <3>2. counter'[name] = counter[name]
      BY <1>1, <1>2, <2>2, ChangedIs
    <3> QED BY <1>4, <3>1, <3>2 DEF CountsInv
  <2>7. \A name \in Lows : counter'[name] <= counter[name] /\ counter'[name] \in Int
    <3>1. \A name \in Lows : name \in Counters /\ name \notin Highs
      BY NamesAre
    <3> QED BY <1>1, <1>2, <1>3, <2>1, <2>2, <3>1
  <2>8. \A name \in Highs : counter[name] <= counter'[name] /\ counter'[name] \in Int
    <3>1. \A name \in Highs : name \in Counters /\ name \notin Lows
      BY NamesAre
    <3> QED BY <1>1, <1>2, <1>3, <2>1, <2>2, <3>1
  <2>9. BoundsInv'
    <3> SUFFICES ASSUME NEW tracker \in Trackers PROVE Bounded(tracker)'
      BY DEF BoundsInv
    <3> DEFINE low == Timer[tracker].min
               high == Timer[tracker].max
    <3>1. low \in Lows /\ low \in Counters /\ low \notin Highs /\ high \in Highs /\ high \in Counters /\ high \notin Lows
      BY NamesAre DEF Trackers
    <3>2. Durations(tracker)' = Durations(tracker)
      BY <1>1 DEF Durations
    <3>3. Bounded(tracker)
      BY <1>4 DEF BoundsInv
    <3>4. /\ counter[low] \in Durations(tracker) \cup {Huge}
          /\ counter[high] \in Durations(tracker) \cup {0}
          /\ \A d \in Durations(tracker) :
               /\ \/ counter[low] <= d
                  \/ \E u \in Recorders : Lower(low, d) \in Range(thread[u])
               /\ \/ d <= counter[high]
                  \/ \E u \in Recorders : Raise(high, d) \in Range(thread[u])
          /\ \A u \in Recorders : \A d \in 0..Huge :
               /\ Lower(low, d) \in Range(thread[u]) => d \in Durations(tracker)
               /\ Raise(high, d) \in Range(thread[u]) => d \in Durations(tracker)
      BY <3>3 DEF Bounded
    <3> HIDE DEF low, high
    <3>5. Durations(tracker) \subseteq Int
      <4> SUFFICES ASSUME NEW i \in DOMAIN told, told[i].kind \in KindsOf(tracker)
                   PROVE  told[i].duration \in Int
        BY DEF Durations
      <4>1. told[i] \in Events
        BY DEF CounterTypes
      <4> QED BY <4>1, EventsAreKnown, RecordersAreFinite DEF KindsOf
    <3>6. /\ \A u \in Recorders : Range(thread'[u]) \subseteq Range(thread[u])
          /\ \A u \in Recorders : \A s \in Range(thread[u]) : s # head => s \in Range(thread'[u])
      BY <1>1, <1>6, DoneIs DEF head
    <3>7. counter'[low] \in Durations(tracker) \cup {Huge}
      <4>1. CASE low = n
        <5>1. head.op = "lower"
          BY <1>1, <1>2, <3>1, <4>1
        <5>2. head.amount \in Durations(tracker)
          BY <1>2, <3>4, <4>1, <5>1 DEF head
        <5> QED BY <2>1, <2>2, <3>4, <4>1, <5>2
      <4>2. CASE low # n
        BY <2>2, <3>1, <3>4, <4>2
      <4> QED BY <4>1, <4>2
    <3>8. counter'[high] \in Durations(tracker) \cup {0}
      <4>1. CASE high = n
        <5>1. head.op = "raise"
          BY <1>1, <1>2, <3>1, <4>1
        <5>2. head.amount \in Durations(tracker)
          BY <1>2, <3>4, <4>1, <5>1 DEF head
        <5> QED BY <2>1, <2>2, <3>4, <4>1, <5>2
      <4>2. CASE high # n
        BY <2>2, <3>1, <3>4, <4>2
      <4> QED BY <4>1, <4>2
    <3>9. ASSUME NEW d \in Durations(tracker)
          PROVE  counter'[low] <= d \/ \E u \in Recorders : Lower(low, d) \in Range(thread'[u])
      <4>1. CASE counter[low] <= d
        BY <1>3, <2>7, <3>1, <3>5, <4>1
      <4>2. CASE Lower(low, d) = head
        <5>1. head.op = "lower" /\ low = n /\ head.amount = d
          BY <4>2 DEF Lower, n
        <5> QED BY <2>1, <2>2, <5>1
      <4>3. CASE Lower(low, d) # head /\ \E u \in Recorders : Lower(low, d) \in Range(thread[u])
        BY <3>6, <4>3
      <4> QED BY <3>4, <4>1, <4>2, <4>3
    <3>10. ASSUME NEW d \in Durations(tracker)
           PROVE  d <= counter'[high] \/ \E u \in Recorders : Raise(high, d) \in Range(thread'[u])
      <4>1. CASE d <= counter[high]
        BY <1>3, <2>8, <3>1, <3>5, <4>1
      <4>2. CASE Raise(high, d) = head
        <5>1. head.op = "raise" /\ high = n /\ head.amount = d
          BY <4>2 DEF Raise, n
        <5> QED BY <2>1, <2>2, <5>1
      <4>3. CASE Raise(high, d) # head /\ \E u \in Recorders : Raise(high, d) \in Range(thread[u])
        BY <3>6, <4>3
      <4> QED BY <3>4, <4>1, <4>2, <4>3
    <3>11. \A u \in Recorders : \A d \in 0..Huge :
             /\ Lower(low, d) \in Range(thread'[u]) => d \in Durations(tracker)
             /\ Raise(high, d) \in Range(thread'[u]) => d \in Durations(tracker)
      BY <3>4, <3>6
    <3> QED BY <3>2, <3>7, <3>8, <3>9, <3>10, <3>11 DEF Bounded, low, high
  <2>10. LoadedInv'
    <3> SUFFICES ASSUME NEW u \in Busy' PROVE Loaded(u)'
      BY DEF LoadedInv
    <3>1. u \in Busy /\ u \in Recorders /\ Loaded(u)
      BY <1>1, <1>6, DoneIs DEF Busy, LoadedInv
    <3>2. CASE u = t
      BY <1>3, <1>6, <3>2 DEF Loaded
    <3>3. CASE u # t
      <4>1. thread'[u] = thread[u] /\ reading'[u] = reading[u]
        BY <1>1, <1>3, <1>6, <3>1, <3>3, DoneIs
      <4> QED BY <2>2, <2>7, <2>8, <3>1, <4>1, LoadedStays
    <3> QED BY <3>2, <3>3
  <2> QED BY <2>4, <2>5, <2>6, <2>9, <2>10
<1> QED BY <1>5, <1>6, TurnIs

\* A thread without work takes up a program.
LEMMA BegunIs ==
    ASSUME CounterTypes, NEW t \in Recorders, NEW program \in Programs, Begin(t, program)
    PROVE  /\ thread[t] = << >> /\ program # << >> /\ counter' = counter
           /\ thread' \in [Recorders -> Programs] /\ DOMAIN reading' = Recorders
           /\ thread'[t] = program /\ reading'[t] = Nothing
           /\ \A u \in Recorders : u # t => thread'[u] = thread[u] /\ reading'[u] = reading[u]
           /\ Range(thread[t]) = {} /\ Busy' = Busy \cup {t} /\ t \notin Busy
           /\ \A name : /\ Owed(thread, name) \in Int
                        /\ Owed(thread', name) = Owed(thread, name) + Owes(Range(program), name)
                        /\ Owes(Range(program), name) \in Nat
<1>1. /\ thread[t] = << >> /\ program # << >> /\ counter' = counter
      /\ thread' = [thread EXCEPT ![t] = program] /\ reading' = [reading EXCEPT ![t] = Nothing]
  BY DEF Begin
<1>2. /\ thread' \in [Recorders -> Programs] /\ DOMAIN reading' = Recorders
      /\ thread'[t] = program /\ reading'[t] = Nothing
      /\ \A u \in Recorders : u # t => thread'[u] = thread[u] /\ reading'[u] = reading[u]
  BY <1>1 DEF CounterTypes
<1>3. Range(thread[t]) = {}
  BY <1>1, ListedIs
<1>4. Busy' = Busy \cup {t} /\ t \notin Busy
  BY <1>1, <1>2 DEF Busy
<1>5. ASSUME NEW name
      PROVE  /\ Owed(thread, name) \in Int
             /\ Owed(thread', name) = Owed(thread, name) + Owes(Range(program), name)
             /\ Owes(Range(program), name) \in Nat
  <2>1. thread \in [Recorders -> Programs]
    BY DEF CounterTypes
  <2>2. /\ Owed(thread, name) \in Int
        /\ Owed([thread EXCEPT ![t] = program], name)
             = Owed(thread, name) + (Owes(Range(program), name) - Owes(Range(thread[t]), name))
    BY <2>1, OwedMoves
  <2>3. Owed(thread', name)
          = Owed(thread, name) + (Owes(Range(program), name) - Owes(Range(thread[t]), name))
    BY <1>1, <2>2
  <2>4. Owes(Range(thread[t]), name) = 0
    BY <1>3, OwesNone
  <2>5. Owes(Range(program), name) \in Nat
    BY OwesNat
  <2> QED BY <2>2, <2>3, <2>4, <2>5
<1> QED BY <1>1, <1>2, <1>3, <1>4, <1>5

\* The others stay as they were.
LEMMA OthersStayLoaded ==
    ASSUME Sound, NEW t \in Recorders, NEW program \in Programs, Begin(t, program), Loaded(t)'
    PROVE  LoadedInv'
<1> USE DEF Sound
<1> SUFFICES ASSUME NEW u \in Busy' PROVE Loaded(u)'
  BY DEF LoadedInv
<1>1. CASE u = t
  BY <1>1
<1>2. CASE u # t
  <2>1. u \in Busy /\ u \in Recorders
    BY <1>2, BegunIs DEF Busy
  <2>2. thread'[u] = thread[u] /\ reading'[u] = reading[u] /\ counter' = counter
    BY <1>2, <2>1, BegunIs
  <2> QED BY <2>1, <2>2 DEF LoadedInv, Loaded
<1> QED BY <1>1, <1>2

\* A snapshot begins.
LEMMA SnapshotIsSound ==
    ASSUME Sound, NEW t \in Recorders, StartSnapshot(t)
    PROVE  Sound'
<1> USE DEF Sound
<1>1. /\ Begin(t, Snapshot) /\ told' = told /\ Snapshot \in Programs /\ Snapshot \in Seq(ReadSteps)
  BY SnapshotIs DEF StartSnapshot, Sweep, Programs
<1>2. /\ counter' = counter /\ Snapshot # << >> /\ thread'[t] = Snapshot
      /\ \A u \in Recorders : u # t => thread'[u] = thread[u] /\ reading'[u] = reading[u]
      /\ Range(thread[t]) = {} /\ Busy' = Busy \cup {t} /\ t \notin Busy
  BY <1>1, BegunIs
<1>3. thread'[t][1].op = "read" /\ \A s \in Range(thread'[t]) : s.op = "read"
  <2>1. PICK p \in Seq(ReadSteps) : p = thread'[t] /\ p # << >>
    BY <1>1, <1>2
  <2>2. \A s \in Range(p) : s \in ReadSteps
    BY <2>1 DEF Range
  <2>3. p[1] \in Range(p)
    BY <2>1, TailIs
  <2> QED BY <2>1, <2>2, <2>3, ReadStepIs
<1>4. Resetting' = Resetting
  BY <1>2, <1>3 DEF Resetting, Busy
<1>5. CounterTypes' /\ UntouchedInv'
  BY <1>1, <1>2, BegunIs DEF CounterTypes, UntouchedInv
<1>6. \A u \in Recorders : Range(thread[u]) \subseteq Range(thread'[u])
  BY <1>2
<1>7. SweepInv'
  <2>1. \A u \in Busy' : u \in Recorders
    BY DEF Busy
  <2>2. \A u \in Busy' : u = t \/ (u \in Busy /\ thread'[u] = thread[u])
    BY <1>2, <2>1
  <2> QED BY <1>1, <1>2, <1>3, <1>4, <1>6, <2>2 DEF SweepInv
<1>8. CountsInv'
  <2> SUFFICES ASSUME Resetting = {}, NEW name \in Changed \ (Lows \cup Highs)
               PROVE  counter[name] + Owed(thread', name) = Due(told, name)
    BY <1>1, <1>2, <1>4 DEF CountsInv, Owed
  <2>1. Owes(Range(Snapshot), name) = 0
    BY <1>2, <1>3, OwesNone
  <2>2. Owed(thread', name) = Owed(thread, name)
    BY <1>1, <2>1, BegunIs
  <2> QED BY <2>2 DEF CountsInv
<1>9. BoundsInv'
  <2> SUFFICES ASSUME Resetting = {}, NEW tracker \in Trackers PROVE Bounded(tracker)'
    BY <1>4 DEF BoundsInv
  <2>1. Durations(tracker)' = Durations(tracker)
    BY <1>1 DEF Durations
  <2>2. \A name, d : Lower(name, d).op # "read" /\ Raise(name, d).op # "read"
    BY DEF Lower, Raise
  <2>3. \A u \in Recorders : \A name, d :
          /\ Lower(name, d) \in Range(thread'[u]) <=> Lower(name, d) \in Range(thread[u])
          /\ Raise(name, d) \in Range(thread'[u]) <=> Raise(name, d) \in Range(thread[u])
    BY <1>2, <1>3, <2>2
  <2> QED BY <1>2, <2>1, <2>3 DEF BoundsInv, Bounded
<1>10. LoadedInv'
  <2>1. Loaded(t)'
    BY <1>3 DEF Loaded
  <2> QED BY <1>1, <2>1, OthersStayLoaded
<1> QED BY <1>5, <1>7, <1>8, <1>9, <1>10

\* A reset begins while nobody records: all of the counters are still to be written.
LEMMA ResetIsSound ==
    ASSUME Sound, NEW t \in Recorders, StartReset(t), ~ torn'
    PROVE  Sound'
<1> USE DEF Sound
<1>1. /\ Begin(t, Reset) /\ told' = << >> /\ Reset \in Programs /\ Reset \in Seq(StoreSteps)
      /\ \A u \in Busy : thread[u][1].op = "read"
  BY ResetIs DEF StartReset, Sweep, Programs
<1>2. /\ counter' = counter /\ Reset # << >> /\ thread'[t] = Reset
      /\ \A u \in Recorders : u # t => thread'[u] = thread[u] /\ reading'[u] = reading[u]
      /\ Busy' = Busy \cup {t}
  BY <1>1, BegunIs
<1>3. thread'[t][1].op = "store"
  <2>1. PICK p \in Seq(StoreSteps) : p = thread'[t] /\ p # << >>
    BY <1>1, <1>2
  <2>2. p[1] \in StoreSteps
    BY <2>1, TailIs
  <2> QED BY <2>1, <2>2, StoreStepIs
<1>4. Resetting' # {}
  BY <1>2, <1>3 DEF Resetting
<1>5. CounterTypes' /\ UntouchedInv'
  <2>1. told' \in Seq(Events)
    BY <1>1
  <2> QED BY <1>1, <1>2, <2>1, BegunIs DEF CounterTypes, UntouchedInv
<1>6. \A u \in Busy' : thread'[u][1].op \in {"read", "store"}
  <2>1. \A u \in Busy' : u \in Recorders
    BY DEF Busy
  <2>2. \A u \in Busy' : u = t \/ (u \in Busy /\ thread'[u] = thread[u])
    BY <1>2, <2>1
  <2> QED BY <1>1, <1>3, <2>2
<1>7. SweepInv'
  <2>1. \A name \in Changed : Store(name, Initially(name)) \in Range(thread'[t])
    BY <1>2, ResetIs
  <2> QED BY <1>1, <1>6, <2>1 DEF SweepInv
<1>8. CountsInv' /\ BoundsInv'
  BY <1>4 DEF CountsInv, BoundsInv
<1>9. LoadedInv'
  BY <1>6 DEF LoadedInv, Loaded
<1> QED BY <1>5, <1>7, <1>8, <1>9

-----------------------------------------------------------------------------
(* What the recording of an event amounts to                               *)

\* The bounds are compared with the duration of what is timed, and with nothing else.
LEMMA ComparesOf ==
    ASSUME NEW e \in Events, NEW tracker \in Trackers
    PROVE  /\ e.kind \in KindsOf(tracker) =>
                /\ e.duration \in 0..Huge
                /\ Lower(Timer[tracker].min, e.duration) \in StepsOf(e)
                /\ Raise(Timer[tracker].max, e.duration) \in StepsOf(e)
           /\ \A d :
                /\ Lower(Timer[tracker].min, d) \in StepsOf(e) => e.kind \in KindsOf(tracker) /\ d = e.duration
                /\ Raise(Timer[tracker].max, d) \in StepsOf(e) => e.kind \in KindsOf(tracker) /\ d = e.duration
<1>1. /\ \A name, a, m, d : Add(name, a) # Lower(m, d) /\ Add(name, a) # Raise(m, d)
      /\ \A n, a, m, d : Lower(n, a) # Raise(m, d)
      /\ \A n, a, m, d : Lower(n, a) = Lower(m, d) => n = m /\ a = d
      /\ \A n, a, m, d : Raise(n, a) = Raise(m, d) => n = m /\ a = d
  <2>1. \A name, a, m, d : Add(name, a) # Lower(m, d) /\ Add(name, a) # Raise(m, d)
    BY DEF Add, Lower, Raise
  <2>2. \A n, a, m, d : Lower(n, a) # Raise(m, d)
    BY DEF Lower, Raise
  <2>3. ASSUME NEW n, NEW a, NEW m, NEW d, Lower(n, a) = Lower(m, d) PROVE n = m /\ a = d
    <3>1. Lower(n, a).name = n /\ Lower(n, a).amount = a /\ Lower(m, d).name = m /\ Lower(m, d).amount = d
      BY DEF Lower
    <3> QED BY <2>3, <3>1
  <2>4. ASSUME NEW n, NEW a, NEW m, NEW d, Raise(n, a) = Raise(m, d) PROVE n = m /\ a = d
    <3>1. Raise(n, a).name = n /\ Raise(n, a).amount = a /\ Raise(m, d).name = m /\ Raise(m, d).amount = d
      BY DEF Raise
    <3> QED BY <2>4, <3>1
  <2> QED BY <2>1, <2>2, <2>3, <2>4
<1>2. ASSUME NEW timer, NEW d, NEW name, NEW a
      PROVE  /\ Lower(timer.min, d) \in DurationSteps(timer, d) /\ Raise(timer.max, d) \in DurationSteps(timer, d)
             /\ Lower(name, a) \in DurationSteps(timer, d) => name = timer.min /\ a = d
             /\ Raise(name, a) \in DurationSteps(timer, d) => name = timer.max /\ a = d
  BY <1>1 DEF DurationSteps
<1>3. /\ Timer.task.min # Timer.tool.min /\ Timer.task.max # Timer.tool.max
      /\ tracker = "task" => Timer[tracker] = Timer.task /\ KindsOf(tracker) = {"TaskCompleted", "TaskFailed"}
      /\ tracker = "tool" => Timer[tracker] = Timer.tool /\ KindsOf(tracker) = {"ToolCallCompleted"}
      /\ tracker \in {"task", "tool"}
  BY NamesAre DEF Trackers, KindsOf
<1>4. CASE e.kind = "ToolCallCompleted"
  <2>1. e.duration \in 0..Huge
    BY <1>4, EventsAreKnown
  <2>2. StepsOf(e) = {Add("tools", 1), Add(IF e.success THEN "toolsOk" ELSE "toolsFailed", 1), Add("uses", 1)}
                       \cup DurationSteps(Timer.tool, e.duration)
    BY <1>4 DEF StepsOf
  <2>3. /\ \A name, a : Lower(name, a) \in StepsOf(e) <=> Lower(name, a) \in DurationSteps(Timer.tool, e.duration)
        /\ \A name, a : Raise(name, a) \in StepsOf(e) <=> Raise(name, a) \in DurationSteps(Timer.tool, e.duration)
    BY <1>1, <2>2
  <2> QED BY <1>2, <1>3, <1>4, <2>1, <2>3
<1>5. CASE e.kind \in {"TaskCompleted", "TaskFailed"}
  <2>1. e.duration \in 0..Huge
    BY <1>5, EventsAreKnown
  <2>2. StepsOf(e) = {Add(IF e.kind = "TaskCompleted" THEN "completed" ELSE "failed", 1)}
                       \cup DurationSteps(Timer.task, e.duration)
    BY <1>5 DEF StepsOf
  <2>3. /\ \A name, a : Lower(name, a) \in StepsOf(e) <=> Lower(name, a) \in DurationSteps(Timer.task, e.duration)
        /\ \A name, a : Raise(name, a) \in StepsOf(e) <=> Raise(name, a) \in DurationSteps(Timer.task, e.duration)
    BY <1>1, <2>2
  <2> QED BY <1>2, <1>3, <1>5, <2>1, <2>3
<1>6. CASE e.kind \notin {"ToolCallCompleted", "TaskCompleted", "TaskFailed"}
  <2>1. \A name, a : Lower(name, a) \notin StepsOf(e) /\ Raise(name, a) \notin StepsOf(e)
    <3>1. CASE e.kind = "TaskSubmitted"
      BY <1>1, <3>1 DEF StepsOf
    <3>2. CASE e.kind = "TaskRouted"
      BY <1>1, <3>2 DEF StepsOf
    <3>3. CASE e.kind = "ReflectionEvaluated"
      BY <1>1, <3>3 DEF StepsOf
    <3>4. CASE e.kind = "RoutingDecision"
      <4>1. StepsOf(e) = {Add("routes", 1), Add("confidence", e.millis)}
              \cup (IF e.tiered THEN {Add("preemptiveRoutes", 1)} ELSE {})
              \cup (IF e.fallbacks THEN {Add("fallbackRoutes", 1)} ELSE {})
        BY <3>4 DEF StepsOf
      <4> QED BY <1>1, <4>1
    <3>5. CASE e.kind = "Memory"
      BY <1>1, <3>5 DEF StepsOf
    <3> QED BY <1>6, <3>1, <3>2, <3>3, <3>4, <3>5, EventsAreKnown
  <2> QED BY <1>3, <1>6, <2>1
<1> QED BY <1>4, <1>5, <1>6

\* An event is told: what it adds is due from now on, and owed by its thread.
LEMMA RecordIsSound ==
    ASSUME Sound, NEW t \in Recorders, NEW e \in Events, Record(t, e), ~ torn'
    PROVE  Sound'
<1> USE DEF Sound
<1>1. /\ Begin(t, Sent(e)) /\ told' = Append(told, e) /\ Resetting = {}
      /\ Sent(e) \in Recordings /\ Sent(e) \in Programs
  BY SentIs DEF Record, Sent, Programs
<1>2. /\ counter' = counter /\ Sent(e) # << >> /\ thread'[t] = Sent(e) /\ reading'[t] = Nothing
      /\ \A u \in Recorders : u # t => thread'[u] = thread[u] /\ reading'[u] = reading[u]
      /\ Range(thread[t]) = {} /\ Busy' = Busy \cup {t} /\ t \notin Busy
  BY <1>1, BegunIs
<1>3. /\ told \in Seq(Events) /\ told' \in Seq(Events)
      /\ DOMAIN told' = DOMAIN told \cup {Len(told) + 1} /\ told'[Len(told) + 1] = e
      /\ \A i \in DOMAIN told : told'[i] = told[i]
  BY <1>1 DEF CounterTypes
<1>4. thread'[t][1].op # "store"
  <2>1. PICK p \in Seq(RecordSteps) : p = thread'[t] /\ p # << >>
    BY <1>1, <1>2 DEF Recordings
  <2>2. p[1] \in RecordSteps
    BY <2>1, TailIs
  <2> QED BY <2>1, <2>2, RecordStepIs
<1>5. Resetting' = {}
  BY <1>1, <1>2, <1>4 DEF Resetting, Busy
<1>6. CounterTypes' /\ UntouchedInv' /\ SweepInv'
  BY <1>1, <1>2, <1>3, <1>5, BegunIs DEF CounterTypes, UntouchedInv, SweepInv
<1>7. CountsInv'
  <2> SUFFICES ASSUME NEW name \in Changed \ (Lows \cup Highs)
               PROVE  counter[name] + Owed(thread', name) = Due(told', name)
    BY <1>2, <1>5 DEF CountsInv, Owed, Due
  <2>1. counter[name] + Owed(thread, name) = Due(told, name) /\ counter[name] \in Int
    BY <1>1, ChangedIs DEF CountsInv, CounterTypes
  <2>2. /\ Owed(thread, name) \in Int
        /\ Owed(thread', name) = Owed(thread, name) + Owes(Range(Sent(e)), name)
        /\ Owes(Range(Sent(e)), name) \in Nat
    BY <1>1, BegunIs
  <2>3. Due(told', name) = Due(told, name) + Owes(Range(Recording(e)), name)
    BY <1>1, <1>3, DueGrows
  <2>4. Owes(Range(Sent(e)), name) = Owes(Range(Recording(e)), name)
    BY SentIs
  <2> QED BY <2>1, <2>2, <2>3, <2>4
<1>8. BoundsInv'
  <2> SUFFICES ASSUME NEW tracker \in Trackers PROVE Bounded(tracker)'
    BY DEF BoundsInv
  <2> DEFINE low == Timer[tracker].min
             high == Timer[tracker].max
  <2>1. /\ counter[low] \in Durations(tracker) \cup {Huge}
        /\ counter[high] \in Durations(tracker) \cup {0}
        /\ \A d \in Durations(tracker) :
             /\ \/ counter[low] <= d
                \/ \E u \in Recorders : Lower(low, d) \in Range(thread[u])
             /\ \/ d <= counter[high]
                \/ \E u \in Recorders : Raise(high, d) \in Range(thread[u])
        /\ \A u \in Recorders : \A d \in 0..Huge :
             /\ Lower(low, d) \in Range(thread[u]) => d \in Durations(tracker)
             /\ Raise(high, d) \in Range(thread[u]) => d \in Durations(tracker)
    BY <1>1 DEF BoundsInv, Bounded
  <2>2. /\ Durations(tracker) \subseteq Durations(tracker)'
        /\ e.kind \in KindsOf(tracker) => e.duration \in Durations(tracker)'
        /\ \A d \in Durations(tracker)' : d \in Durations(tracker) \/ (e.kind \in KindsOf(tracker) /\ d = e.duration)
    BY <1>3 DEF Durations
  <2>3. /\ e.kind \in KindsOf(tracker) =>
             /\ Lower(low, e.duration) \in StepsOf(e)
             /\ Raise(high, e.duration) \in StepsOf(e)
        /\ \A d :
             /\ Lower(low, d) \in StepsOf(e) => e.kind \in KindsOf(tracker) /\ d = e.duration
             /\ Raise(high, d) \in StepsOf(e) => e.kind \in KindsOf(tracker) /\ d = e.duration
    BY ComparesOf
  <2> HIDE DEF low, high
  <2>4. /\ StepsOf(e) \subseteq Range(thread'[t])
        /\ \A name, d : /\ Lower(name, d) \in Range(thread'[t]) => Lower(name, d) \in StepsOf(e)
                        /\ Raise(name, d) \in Range(thread'[t]) => Raise(name, d) \in StepsOf(e)
    <3>1. \A name, d, x, y : /\ Lower(name, d) # Collecting(e) /\ Lower(name, d) # Add(x, y)
                             /\ Raise(name, d) # Collecting(e) /\ Raise(name, d) # Add(x, y)
      BY DEF Lower, Raise, Collecting, Add
    <3>2. \A s \in Range(thread'[t]) : s \in StepsOf(e) \/ s = Collecting(e) \/ s = Add("dispatched", 1)
      BY <1>2, SentIs
    <3>3. StepsOf(e) \subseteq Range(thread'[t])
      BY <1>2, SentIs
    <3> QED BY <3>1, <3>2, <3>3
  <2>5. \A u \in Recorders : Range(thread[u]) \subseteq Range(thread'[u])
    BY <1>2
  <2>6. ASSUME NEW d \in Durations(tracker)'
        PROVE  /\ \/ counter[low] <= d
                  \/ \E u \in Recorders : Lower(low, d) \in Range(thread'[u])
               /\ \/ d <= counter[high]
                  \/ \E u \in Recorders : Raise(high, d) \in Range(thread'[u])
    <3>1. CASE d \in Durations(tracker)
      BY <2>1, <2>5, <3>1
    <3>2. CASE e.kind \in KindsOf(tracker) /\ d = e.duration
      BY <2>3, <2>4, <3>2
    <3> QED BY <2>2, <3>1, <3>2
  <2>7. ASSUME NEW u \in Recorders, NEW d \in 0..Huge
        PROVE  /\ Lower(low, d) \in Range(thread'[u]) => d \in Durations(tracker)'
               /\ Raise(high, d) \in Range(thread'[u]) => d \in Durations(tracker)'
    <3>1. CASE u = t
      BY <2>2, <2>3, <2>4, <3>1
    <3>2. CASE u # t
      BY <1>2, <2>1, <2>2, <3>2
    <3> QED BY <3>1, <3>2
  <2> QED BY <1>2, <2>1, <2>2, <2>6, <2>7 DEF Bounded, low, high
<1>9. LoadedInv'
  <2>1. Loaded(t)'
    BY <1>2 DEF Loaded
  <2> QED BY <1>1, <2>1, OthersStayLoaded
<1> QED BY <1>6, <1>7, <1>8, <1>9

\* Everything the counters promise while no reset has run beside a call holds in every state.
THEOREM CountersAddUp == TelemetrySpec => []CountersInv
<1>1. TelemetryInit => CountersInv
  <2> SUFFICES ASSUME TelemetryInit PROVE Sound
    BY DEF CountersInv, Sound
  <2>1. << >> \in Programs
    BY DEF Programs
  <2>2. /\ counter = [name \in Counters |-> Initially(name)] /\ told = << >>
        /\ thread = [t \in Recorders |-> << >>] /\ DOMAIN reading = Recorders
    BY DEF TelemetryInit
  <2>3. \A name \in Counters : Initially(name) \in Int
    BY RecordersAreFinite DEF Initially
  <2>4. told \in Seq(Events)
    BY <2>2
  <2>5. Busy = {} /\ Resetting = {}
    BY <2>2 DEF Busy, Resetting
  <2>6. CounterTypes
    BY <2>1, <2>2, <2>3, <2>4 DEF CounterTypes
  <2>7. UntouchedInv /\ SweepInv
    BY <2>2, <2>5 DEF UntouchedInv, SweepInv
  <2>8. Fresh
    BY <2>2, <2>5, <2>6, <2>7, ChangedIs DEF Fresh
  <2> QED BY <2>6, <2>7, <2>8, FreshIsSound DEF Sound
<1>2. CountersInv /\ [TelemetryNext]_telemetryVars => CountersInv'
  <2> SUFFICES ASSUME CountersInv, [TelemetryNext]_telemetryVars, ~ torn' PROVE Sound'
    BY DEF CountersInv, Sound
  <2>1. CASE UNCHANGED telemetryVars
    <3>1. Sound
      BY <2>1 DEF CountersInv, Sound, telemetryVars
    <3>2. /\ counter' = counter /\ thread' = thread /\ reading' = reading /\ told' = told
          /\ Busy' = Busy /\ Resetting' = Resetting
      BY <2>1 DEF telemetryVars, Busy, Resetting
    <3>3. CounterTypes' /\ UntouchedInv' /\ SweepInv'
      BY <3>1, <3>2 DEF Sound, CounterTypes, UntouchedInv, SweepInv
    <3>4. CountsInv'
      BY <3>1, <3>2 DEF Sound, CountsInv, Owed
    <3>5. BoundsInv'
      BY <3>1, <3>2 DEF Sound, BoundsInv, Bounded, Durations
    <3>6. LoadedInv'
      BY <3>1, <3>2 DEF Sound, LoadedInv, Loaded
    <3> QED BY <3>3, <3>4, <3>5, <3>6 DEF Sound
  <2>2. ASSUME NEW t \in Recorders, NEW e \in Events, Record(t, e) PROVE Sound'
    <3>1. Sound
      BY <2>2 DEF Record, CountersInv, Sound
    <3> QED BY <2>2, <3>1, RecordIsSound
  <2>3. ASSUME NEW t \in Recorders, StartSnapshot(t) PROVE Sound'
    <3>1. Sound
      BY <2>3 DEF StartSnapshot, CountersInv, Sound
    <3> QED BY <2>3, <3>1, SnapshotIsSound
  <2>4. ASSUME NEW t \in Recorders, StartReset(t) PROVE Sound'
    <3>1. Sound
      BY <2>4 DEF StartReset, CountersInv, Sound
    <3> QED BY <2>4, <3>1, ResetIsSound
  <2>5. ASSUME NEW t \in Recorders, Change(t) PROVE Sound'
    <3>1. Sound
      BY <2>5 DEF Change, Same, CountersInv, Sound
    <3>2. thread[t][1].op \in {"add", "store"}
      BY <2>5 DEF Change
    <3> QED BY <2>5, <3>1, <3>2, AddIsSound, StoreIsSound
  <2>6. ASSUME NEW t \in Recorders, Load(t) PROVE Sound'
    <3>1. Sound
      BY <2>6 DEF Load, Same, CountersInv, Sound
    <3>2. /\ thread[t] # << >> /\ Done(t) /\ counter' = counter /\ told' = told
          /\ thread[t][1].op = "read" /\ DOMAIN reading' = Recorders
          /\ \A u \in Recorders : u # t => reading'[u] = reading[u]
      BY <2>6, <3>1 DEF Load, Same, Sound, CounterTypes
    <3> QED BY <3>1, <3>2, QuietIsSound
  <2>7. ASSUME NEW t \in Recorders, CompareExchange(t) PROVE Sound'
    <3>1. Sound
      BY <2>7 DEF CompareExchange, Same, CountersInv, Sound
    <3> QED BY <2>7, <3>1, CompareIsSound
  <2>8. ASSUME NEW t \in Recorders, Collect(t) PROVE Sound'
    <3>1. Sound
      BY <2>8 DEF Collect, Same, CountersInv, Sound
    <3>2. /\ thread[t] # << >> /\ Done(t) /\ counter' = counter /\ told' = told
          /\ thread[t][1].op = "collect" /\ reading' = reading /\ DOMAIN reading' = Recorders
      BY <2>8, <3>1 DEF Collect, Same, Sound, CounterTypes
    <3> QED BY <3>1, <3>2, QuietIsSound
  <2> QED BY <2>1, <2>2, <2>3, <2>4, <2>5, <2>6, <2>7, <2>8 DEF TelemetryNext
<1> QED BY <1>1, <1>2, PTL DEF TelemetrySpec

-----------------------------------------------------------------------------
(* What the counters are once no thread is at work                         *)

\* What the recording of an event adds to a counter is read off its steps.
LEMMA OwesStep ==
    ASSUME NEW e \in Events, NEW name
    PROVE  /\ Owes(Range(Recording(e)), name) \in Nat
           /\ \A a : Add(name, a) \in StepsOf(e) => Owes(Range(Recording(e)), name) = a
           /\ (\A a : Add(name, a) \notin StepsOf(e)) => Owes(Range(Recording(e)), name) = 0
<1>1. PICK p : p = Recording(e) /\ p \in Seq(RecordSteps) /\ Apart(p) /\ Range(p) = StepsOf(e) /\ p \in Programs
  BY RecordingIs DEF Recordings, Programs
<1>2. \A s \in Range(p) : s.op = "add" => s = Add(s.name, s.amount)
  <2> SUFFICES ASSUME NEW s \in Range(p), s.op = "add" PROVE s = Add(s.name, s.amount)
    OBVIOUS
  <2>1. s \in RawSteps
    BY <1>1, LaidRecording DEF Laid, Range
  <2> QED BY <2>1 DEF RawSteps, Add, Lower, Raise
<1>3. ASSUME NEW a, Add(name, a) \in StepsOf(e) PROVE Owes(Range(p), name) = a
  <2>1. PICK s \in Range(p) : s = Add(name, a) /\ s.op = "add" /\ s.name = name /\ s.amount = a
    BY <1>1, <1>3 DEF Add
  <2>2. ASSUME NEW u \in Range(p), u.op = "add", u.name = s.name PROVE u = s
    <3>1. PICK i \in 1..Len(p), j \in 1..Len(p) : s = p[i] /\ u = p[j]
      BY <1>1, <2>1, <2>2 DEF Range
    <3> QED BY <1>1, <2>1, <2>2, <3>1 DEF Apart, Clash
  <2>3. Owes(Range(p), s.name) = s.amount
    BY <2>1, <2>2, OwesOne
  <2> QED BY <2>1, <2>3
<1>4. ASSUME \A a : Add(name, a) \notin StepsOf(e) PROVE Owes(Range(p), name) = 0
  <2>1. \A s \in Range(p) : s.op = "add" => s.name # name
    BY <1>1, <1>2, <1>4
  <2> QED BY <2>1, OwesNone
<1>5. Owes(Range(p), name) \in Nat
  BY <1>1, OwesNat
<1> QED BY <1>1, <1>3, <1>4, <1>5

\* Counters that events add to are what the events told add up to.
LEMMA AtRestIs ==
    ASSUME CountersInv, Busy = {}, ~ torn, NEW name \in Counters \ (Lows \cup Highs \cup {"dispatched"})
    PROVE  counter[name] = Due(told, name)
<1>1. /\ CounterTypes /\ UntouchedInv /\ CountsInv /\ Resetting = {}
      /\ thread \in [Recorders -> Programs] /\ told \in Seq(Events)
  BY DEF CountersInv, CounterTypes, Resetting
<1>2. Owed(thread, name) = 0
  BY <1>1, OwedNothing DEF Busy
<1>3. CASE name \in Changed
  <2>1. counter[name] + Owed(thread, name) = Due(told, name) /\ counter[name] \in Int
    BY <1>1, <1>3 DEF CountsInv, CounterTypes
  <2> QED BY <1>2, <2>1
<1>4. CASE name \notin Changed
  <2>1. counter[name] = 0
    BY <1>1, <1>4 DEF UntouchedInv, Touched, Initially, Lows
  <2>2. \A e \in Events : Owes(Range(Recording(e)), name) = 0
    <3> SUFFICES ASSUME NEW e \in Events PROVE Owes(Range(Recording(e)), name) = 0
      OBVIOUS
    <3>1. \A s \in Range(Recording(e)) : s.name # name
      BY <1>4, ChangedIs
    <3> QED BY <3>1, OwesNone
  <2>3. \A i \in DOMAIN told : told[i] \in Events
    BY <1>1
  <2>4. [i \in DOMAIN told |-> Owes(Range(Recording(told[i])), name)] = [i \in DOMAIN told |-> 0]
    BY <2>2, <2>3
  <2>5. IsFiniteSet(DOMAIN told)
    <3>1. DOMAIN told = 1..Len(told) /\ Len(told) \in Nat
      BY <1>1
    <3> QED BY <3>1, CountTo
  <2>6. Due(told, name) = 0
    BY <2>4, <2>5, SumOfNothing DEF Due
  <2> QED BY <2>1, <2>6
<1> QED BY <1>3, <1>4

\* The events of some of those told, each with its amount, and no others.
LEMMA DueOfSome ==
    ASSUME NEW es \in Seq(Events), NEW K \in SUBSET DOMAIN es, NEW name, NEW amount \in [K -> Int],
           \A i \in K : Add(name, amount[i]) \in StepsOf(es[i]),
           \A i \in DOMAIN es \ K : \A a : Add(name, a) \notin StepsOf(es[i])
    PROVE  Due(es, name) = SumFunction(amount) /\ IsFiniteSet(K)
<1> DEFINE f == [i \in DOMAIN es |-> Owes(Range(Recording(es[i])), name)]
<1>1. DOMAIN es = 1..Len(es) /\ Len(es) \in Nat /\ \A i \in DOMAIN es : es[i] \in Events
  OBVIOUS
<1>2. IsFiniteSet(DOMAIN es)
  BY <1>1, CountTo
<1>3. IsFiniteSet(K)
  BY <1>2, FS_Subset
<1>4. f \in [DOMAIN es -> Int] /\ Due(es, name) = SumFunction(f)
  BY <1>1, OwesStep DEF Due
<1>5. /\ \A i \in K : f[i] = amount[i]
      /\ \A i \in DOMAIN es \ K : f[i] = 0
  BY <1>1, OwesStep
<1>6. [i \in K |-> f[i]] = amount
  BY <1>5
<1> HIDE DEF f
<1>7. SumFunction(f) = SumFunction([i \in K |-> f[i]])
  BY <1>2, <1>4, <1>5, SumOfPart
<1> QED BY <1>3, <1>4, <1>6, <1>7

\* Events that each count for one are as many as there are.
LEMMA DueOfOnes ==
    ASSUME NEW es \in Seq(Events), NEW K \in SUBSET DOMAIN es, NEW name,
           \A i \in K : Add(name, 1) \in StepsOf(es[i]),
           \A i \in DOMAIN es \ K : \A a : Add(name, a) \notin StepsOf(es[i])
    PROVE  Due(es, name) = Cardinality(K) /\ IsFiniteSet(K)
<1> DEFINE amount == [i \in K |-> 1]
<1>1. amount \in [K -> Int] /\ \A i \in K : amount[i] = 1
  OBVIOUS
<1>2. \A i \in K : Add(name, amount[i]) \in StepsOf(es[i])
  BY <1>1
<1> HIDE DEF amount
<1>3. Due(es, name) = SumFunction(amount) /\ IsFiniteSet(K)
  BY <1>1, <1>2, DueOfSome
<1> QED BY <1>3, SumOfOnes DEF amount

VerdictNames == {"Approved", "NeedsRevision", "Rejected", "Escalated"}

\* Which events add to which counters.
LEMMA AddsOf ==
    ASSUME NEW e \in Events
    PROVE  /\ e.kind = "ToolCallCompleted" =>
                /\ \A name \in {"tools", "uses", "toolCount"} : Add(name, 1) \in StepsOf(e)
                /\ e.success => Add("toolsOk", 1) \in StepsOf(e)
                /\ ~ e.success => Add("toolsFailed", 1) \in StepsOf(e)
                /\ Add("toolTotal", e.duration) \in StepsOf(e) /\ e.duration \in Int
           /\ e.kind \in {"TaskCompleted", "TaskFailed"} =>
                /\ e.kind = "TaskCompleted" => Add("completed", 1) \in StepsOf(e)
                /\ e.kind = "TaskFailed" => Add("failed", 1) \in StepsOf(e)
                /\ Add("taskCount", 1) \in StepsOf(e)
                /\ Add("taskTotal", e.duration) \in StepsOf(e) /\ e.duration \in Int
           /\ e.kind = "ReflectionEvaluated" =>
                Add("passes", 1) \in StepsOf(e) /\ Add(e.verdict, 1) \in StepsOf(e) /\ e.verdict \in VerdictNames
           /\ \A name, a : Add(name, a) \in StepsOf(e) =>
                /\ name \in {"tools", "uses", "toolCount", "toolTotal", "toolsOk", "toolsFailed"}
                     => e.kind = "ToolCallCompleted"
                /\ name = "toolsOk" => e.success
                /\ name = "toolsFailed" => ~ e.success
                /\ name \in {"taskCount", "taskTotal"} => e.kind \in {"TaskCompleted", "TaskFailed"}
                /\ name = "completed" => e.kind = "TaskCompleted"
                /\ name = "failed" => e.kind = "TaskFailed"
                /\ name \in VerdictNames \cup {"passes"} => e.kind = "ReflectionEvaluated"
                /\ name \in VerdictNames => name = e.verdict
<1>1. /\ \A name, a, m, b : Add(name, a) = Add(m, b) => name = m /\ a = b
      /\ \A name, a, m, b : Add(name, a) # Lower(m, b) /\ Add(name, a) # Raise(m, b)
  <2>1. ASSUME NEW n, NEW a, NEW m, NEW b, Add(n, a) = Add(m, b) PROVE n = m /\ a = b
    <3>1. Add(n, a).name = n /\ Add(n, a).amount = a /\ Add(m, b).name = m /\ Add(m, b).amount = b
      BY DEF Add
    <3> QED BY <2>1, <3>1
  <2>2. \A name, a, m, b : Add(name, a) # Lower(m, b) /\ Add(name, a) # Raise(m, b)
    BY DEF Add, Lower, Raise
  <2> QED BY <2>1, <2>2
<1>2. ASSUME NEW d
      PROVE  /\ DurationSteps(Timer.task, d)
                  = {Add("taskCount", 1), Add("taskTotal", d), Lower("taskMin", d), Raise("taskMax", d)}
             /\ DurationSteps(Timer.tool, d)
                  = {Add("toolCount", 1), Add("toolTotal", d), Lower("toolMin", d), Raise("toolMax", d)}
  BY NamesAre DEF DurationSteps
<1>3. 0..Huge \subseteq Int
  BY RecordersAreFinite
<1>4. CASE e.kind = "ToolCallCompleted"
  <2>1. e.duration \in Int /\ e.success \in BOOLEAN
    BY <1>3, <1>4, EventsAreKnown
  <2>2. PICK ok : ok = IF e.success THEN "toolsOk" ELSE "toolsFailed"
    OBVIOUS
  <2>3. StepsOf(e) = {Add("tools", 1), Add(ok, 1), Add("uses", 1)}
          \cup {Add("toolCount", 1), Add("toolTotal", e.duration), Lower("toolMin", e.duration), Raise("toolMax", e.duration)}
    BY <1>2, <1>4, <2>2 DEF StepsOf
  <2>4. \A name, a : Add(name, a) \in StepsOf(e) =>
          name \in {"tools", ok, "uses", "toolCount", "toolTotal"}
    BY <1>1, <2>3
  <2>5. \A name \in {"tools", ok, "uses", "toolCount", "toolTotal"} :
          /\ name \notin VerdictNames \cup {"passes", "taskCount", "taskTotal", "completed", "failed"}
          /\ name = "toolsOk" => e.success
          /\ name = "toolsFailed" => ~ e.success
    BY <2>1, <2>2 DEF VerdictNames
  <2> QED BY <1>4, <2>1, <2>2, <2>3, <2>4, <2>5
<1>5. CASE e.kind \in {"TaskCompleted", "TaskFailed"}
  <2>1. e.duration \in Int
    BY <1>3, <1>5, EventsAreKnown
  <2>2. PICK end : end = IF e.kind = "TaskCompleted" THEN "completed" ELSE "failed"
    OBVIOUS
  <2>3. StepsOf(e) = {Add(end, 1)}
          \cup {Add("taskCount", 1), Add("taskTotal", e.duration), Lower("taskMin", e.duration), Raise("taskMax", e.duration)}
    BY <1>2, <1>5, <2>2 DEF StepsOf
  <2>4. \A name, a : Add(name, a) \in StepsOf(e) => name \in {end, "taskCount", "taskTotal"}
    BY <1>1, <2>3
  <2>5. \A name \in {end, "taskCount", "taskTotal"} :
          /\ name \notin VerdictNames \cup {"passes", "tools", "uses", "toolCount", "toolTotal", "toolsOk", "toolsFailed"}
          /\ name = "completed" => e.kind = "TaskCompleted"
          /\ name = "failed" => e.kind = "TaskFailed"
    BY <1>5, <2>2 DEF VerdictNames
  <2> QED BY <1>5, <2>1, <2>2, <2>3, <2>4, <2>5
<1>6. CASE e.kind = "ReflectionEvaluated"
  <2>1. e.verdict \in VerdictNames
    BY <1>6, EventsAreKnown DEF VerdictNames
  <2>2. StepsOf(e) = {Add("passes", 1), Add("iterations", e.iteration), Add(e.verdict, 1)}
    BY <1>6 DEF StepsOf
  <2>3. \A name, a : Add(name, a) \in StepsOf(e) => name \in {"passes", "iterations", e.verdict}
    BY <1>1, <2>2
  <2>4. \A name \in {"passes", "iterations", e.verdict} :
          /\ name \notin {"tools", "uses", "toolCount", "toolTotal", "toolsOk", "toolsFailed",
                          "taskCount", "taskTotal", "completed", "failed"}
          /\ name \in VerdictNames => name = e.verdict
    BY <2>1 DEF VerdictNames
  <2> QED BY <1>6, <2>1, <2>2, <2>3, <2>4
<1>7. CASE e.kind \notin {"ToolCallCompleted", "TaskCompleted", "TaskFailed", "ReflectionEvaluated"}
  <2> DEFINE Other == {"submitted", "preempted", "routes", "confidence", "preemptiveRoutes", "fallbackRoutes",
                       "blackboardReads", "blackboardWrites", "episodes", "recalls"}
  <2>1. \A name, a : Add(name, a) \in StepsOf(e) => name \in Other
    <3>1. CASE e.kind = "TaskSubmitted"
      <4>1. StepsOf(e) = {Add("submitted", 1)}
        BY <3>1 DEF StepsOf
      <4> QED BY <1>1, <4>1
    <3>2. CASE e.kind = "TaskRouted"
      <4>1. StepsOf(e) \subseteq {Add("preempted", 1)}
        BY <3>2 DEF StepsOf
      <4> QED BY <1>1, <4>1
    <3>3. CASE e.kind = "RoutingDecision"
      <4>1. StepsOf(e) = {Add("routes", 1), Add("confidence", e.millis)}
              \cup (IF e.tiered THEN {Add("preemptiveRoutes", 1)} ELSE {})
              \cup (IF e.fallbacks THEN {Add("fallbackRoutes", 1)} ELSE {})
        BY <3>3 DEF StepsOf
      <4> QED BY <1>1, <4>1
    <3>4. CASE e.kind = "Memory"
      <4>1. StepsOf(e) = {Add(e.use, 1)} /\ e.use \in {"blackboardReads", "blackboardWrites", "episodes", "recalls"}
        BY <3>4, EventsAreKnown DEF StepsOf
      <4> QED BY <1>1, <4>1
    <3> QED BY <1>7, <3>1, <3>2, <3>3, <3>4, EventsAreKnown
  <2>2. \A name \in Other :
          name \notin VerdictNames \cup {"passes", "tools", "uses", "toolCount", "toolTotal", "toolsOk", "toolsFailed",
                                     "taskCount", "taskTotal", "completed", "failed"}
    BY DEF VerdictNames
  <2> HIDE DEF Other
  <2> QED BY <1>7, <2>1, <2>2
<1> QED BY <1>4, <1>5, <1>6, <1>7

\* Two kinds of events together are as many as each of them.
LEMMA CountBoth ==
    ASSUME NEW A, NEW B, IsFiniteSet(A), IsFiniteSet(B), A \cap B = {}
    PROVE  /\ Cardinality(A \cup B) = Cardinality(A) + Cardinality(B)
           /\ IsFiniteSet(A \cup B) /\ Cardinality(A) \in Nat /\ Cardinality(B) \in Nat
<1>1. /\ IsFiniteSet(A \cup B)
      /\ Cardinality(A \cup B) = Cardinality(A) + Cardinality(B) - Cardinality(A \cap B)
  BY FS_Union
<1>2. Cardinality(A \cap B) = 0
  BY FS_EmptySet
<1>3. Cardinality(A) \in Nat /\ Cardinality(B) \in Nat
  BY FS_CardinalityType
<1> QED BY <1>1, <1>2, <1>3

\* The bounds at rest are the least and the greatest duration told.
LEMMA BoundsAtRest ==
    ASSUME CountersInv, Busy = {}, ~ torn, NEW tracker \in Trackers
    PROVE  /\ IsLeast(counter[Timer[tracker].min], DurationsOf(tracker))
           /\ IsGreatest(counter[Timer[tracker].max], DurationsOf(tracker))
<1> DEFINE low == counter[Timer[tracker].min]
           high == counter[Timer[tracker].max]
<1>1. CounterTypes /\ Resetting = {} /\ Bounded(tracker)
  BY DEF CountersInv, BoundsInv, Resetting
<1>2. DurationsOf(tracker) = Durations(tracker)
  BY DEF DurationsOf, Durations, Timed, KindsOf
<1>3. Durations(tracker) \subseteq 0..Huge
  <2> SUFFICES ASSUME NEW i \in DOMAIN told, told[i].kind \in KindsOf(tracker)
               PROVE  told[i].duration \in 0..Huge
    BY DEF Durations
  <2>1. told[i] \in Events
    BY <1>1 DEF CounterTypes
  <2> QED BY <2>1, EventsAreKnown DEF KindsOf
<1>4. \A t \in Recorders : Range(thread[t]) = {}
  BY ListedIs DEF Busy
<1>5. /\ low \in Durations(tracker) \cup {Huge} /\ high \in Durations(tracker) \cup {0}
      /\ \A d \in Durations(tracker) : low <= d /\ d <= high
  BY <1>1, <1>4 DEF Bounded
<1> HIDE DEF low, high
<1>6. Huge \in Nat
  BY RecordersAreFinite
<1>7. IsLeast(low, Durations(tracker))
  <2>1. CASE Durations(tracker) # {} /\ low = Huge
    <3>1. PICK d \in Durations(tracker) : TRUE
      BY <2>1
    <3>2. d = Huge
      BY <1>3, <1>5, <1>6, <2>1, <3>1
    <3> QED BY <1>5, <2>1, <3>1, <3>2 DEF IsLeast
  <2> QED BY <1>5, <2>1 DEF IsLeast
<1>8. IsGreatest(high, Durations(tracker))
  <2>1. CASE Durations(tracker) # {} /\ high = 0
    <3>1. PICK d \in Durations(tracker) : TRUE
      BY <2>1
    <3>2. d = 0
      BY <1>3, <1>5, <1>6, <2>1, <3>1
    <3> QED BY <1>5, <2>1, <3>1, <3>2 DEF IsGreatest
  <2> QED BY <1>5, <2>1 DEF IsGreatest
<1> QED BY <1>2, <1>7, <1>8 DEF low, high

\* No update is lost: once no thread is at work, and unless a reset ran beside a call, every
\* counter is what the events told since the last reset add up to.
THEOREM NoUpdateIsLost == TelemetrySpec => []TelemetryExact
<1>1. CountersInv => TelemetryExact
  <2> SUFFICES ASSUME CountersInv, Busy = {}, ~ torn PROVE TelemetryExact
    BY DEF TelemetryExact
  <2> DEFINE K(kinds) == {i \in DOMAIN told : told[i].kind \in kinds}
             tools == K({"ToolCallCompleted"})
             ok == {i \in tools : told[i].success}
             failing == {i \in tools : ~ told[i].success}
             jobs == K({"TaskCompleted", "TaskFailed"})
             completed == K({"TaskCompleted"})
             failed == K({"TaskFailed"})
             passes == K({"ReflectionEvaluated"})
             with(verdict) == {i \in passes : told[i].verdict = verdict}
  <2>1. told \in Seq(Events) /\ \A i \in DOMAIN told : told[i] \in Events
    BY DEF CountersInv, CounterTypes
  <2>2. /\ \A name \in {"tools", "uses", "toolCount", "toolTotal", "toolsOk", "toolsFailed", "taskCount",
                        "taskTotal", "completed", "failed", "passes"} \cup VerdictNames :
             counter[name] = Due(told, name)
    <3>1. {"tools", "uses", "toolCount", "toolTotal", "toolsOk", "toolsFailed", "taskCount",
           "taskTotal", "completed", "failed", "passes"} \cup VerdictNames
             \subseteq Counters \ (Lows \cup Highs \cup {"dispatched"})
      BY NamesAre DEF VerdictNames, Plain
    <3> QED BY <3>1, AtRestIs
  <2>3. \A name \in {"tools", "uses", "toolCount"} : counter[name] = Cardinality(tools) /\ IsFiniteSet(tools)
    <3> SUFFICES ASSUME NEW name \in {"tools", "uses", "toolCount"}
                 PROVE  Due(told, name) = Cardinality(tools) /\ IsFiniteSet(tools)
      BY <2>2
    <3>1. \A i \in tools : Add(name, 1) \in StepsOf(told[i])
      BY <2>1, AddsOf
    <3>2. \A i \in DOMAIN told \ tools : \A a : Add(name, a) \notin StepsOf(told[i])
      BY <2>1, AddsOf
    <3>3. tools \in SUBSET DOMAIN told
      OBVIOUS
    <3> HIDE DEF tools
    <3> QED BY <2>1, <3>1, <3>2, <3>3, DueOfOnes
  <2>4. counter["toolsOk"] = Cardinality(ok) /\ IsFiniteSet(ok)
    <3>1. \A i \in ok : Add("toolsOk", 1) \in StepsOf(told[i])
      BY <2>1, AddsOf
    <3>2. \A i \in DOMAIN told \ ok : \A a : Add("toolsOk", a) \notin StepsOf(told[i])
      BY <2>1, AddsOf
    <3>3. ok \in SUBSET DOMAIN told
      OBVIOUS
    <3> HIDE DEF ok
    <3> QED BY <2>1, <2>2, <3>1, <3>2, <3>3, DueOfOnes
  <2>5. counter["toolsFailed"] = Cardinality(failing) /\ IsFiniteSet(failing)
    <3>1. \A i \in failing : Add("toolsFailed", 1) \in StepsOf(told[i])
      BY <2>1, AddsOf
    <3>2. \A i \in DOMAIN told \ failing : \A a : Add("toolsFailed", a) \notin StepsOf(told[i])
      BY <2>1, AddsOf
    <3>3. failing \in SUBSET DOMAIN told
      OBVIOUS
    <3> HIDE DEF failing
    <3> QED BY <2>1, <2>2, <3>1, <3>2, <3>3, DueOfOnes
  <2>6. counter["taskCount"] = Cardinality(jobs) /\ IsFiniteSet(jobs)
    <3>1. \A i \in jobs : Add("taskCount", 1) \in StepsOf(told[i])
      BY <2>1, AddsOf
    <3>2. \A i \in DOMAIN told \ jobs : \A a : Add("taskCount", a) \notin StepsOf(told[i])
      BY <2>1, AddsOf
    <3>3. jobs \in SUBSET DOMAIN told
      OBVIOUS
    <3> HIDE DEF jobs
    <3> QED BY <2>1, <2>2, <3>1, <3>2, <3>3, DueOfOnes
  <2>7. counter["completed"] = Cardinality(completed) /\ IsFiniteSet(completed)
    <3>1. \A i \in completed : Add("completed", 1) \in StepsOf(told[i])
      BY <2>1, AddsOf
    <3>2. \A i \in DOMAIN told \ completed : \A a : Add("completed", a) \notin StepsOf(told[i])
      BY <2>1, AddsOf
    <3>3. completed \in SUBSET DOMAIN told
      OBVIOUS
    <3> HIDE DEF completed
    <3> QED BY <2>1, <2>2, <3>1, <3>2, <3>3, DueOfOnes
  <2>8. counter["failed"] = Cardinality(failed) /\ IsFiniteSet(failed)
    <3>1. \A i \in failed : Add("failed", 1) \in StepsOf(told[i])
      BY <2>1, AddsOf
    <3>2. \A i \in DOMAIN told \ failed : \A a : Add("failed", a) \notin StepsOf(told[i])
      BY <2>1, AddsOf
    <3>3. failed \in SUBSET DOMAIN told
      OBVIOUS
    <3> HIDE DEF failed
    <3> QED BY <2>1, <2>2, <3>1, <3>2, <3>3, DueOfOnes
  <2>9. counter["passes"] = Cardinality(passes) /\ IsFiniteSet(passes)
    <3>1. \A i \in passes : Add("passes", 1) \in StepsOf(told[i])
      BY <2>1, AddsOf
    <3>2. \A i \in DOMAIN told \ passes : \A a : Add("passes", a) \notin StepsOf(told[i])
      BY <2>1, AddsOf
    <3>3. passes \in SUBSET DOMAIN told
      OBVIOUS
    <3> HIDE DEF passes
    <3> QED BY <2>1, <2>2, <3>1, <3>2, <3>3, DueOfOnes
  <2>10. ASSUME NEW verdict \in VerdictNames
         PROVE  counter[verdict] = Cardinality(with(verdict)) /\ IsFiniteSet(with(verdict))
    <3>1. \A i \in with(verdict) : Add(verdict, 1) \in StepsOf(told[i])
      BY <2>1, AddsOf
    <3>2. \A i \in DOMAIN told \ with(verdict) : \A a : Add(verdict, a) \notin StepsOf(told[i])
      BY <2>1, AddsOf
    <3>3. PICK those \in SUBSET DOMAIN told : those = with(verdict)
      OBVIOUS
    <3> HIDE DEF with
    <3>4. Due(told, verdict) = Cardinality(those) /\ IsFiniteSet(those)
      BY <2>1, <3>1, <3>2, <3>3, DueOfOnes
    <3>5. counter[verdict] = Due(told, verdict)
      BY <2>2
    <3> QED BY <3>3, <3>4, <3>5
  <2>11. counter["toolTotal"] = SumFunction([i \in tools |-> told[i].duration])
    <3> DEFINE amount == [i \in tools |-> told[i].duration]
    <3>1. \A i \in tools : told[i].duration \in Int /\ Add("toolTotal", told[i].duration) \in StepsOf(told[i])
      BY <2>1, AddsOf
    <3>2. \A i \in DOMAIN told \ tools : \A a : Add("toolTotal", a) \notin StepsOf(told[i])
      BY <2>1, AddsOf
    <3>3. tools \in SUBSET DOMAIN told
      OBVIOUS
    <3> HIDE DEF tools
    <3>4. amount \in [tools -> Int] /\ \A i \in tools : Add("toolTotal", amount[i]) \in StepsOf(told[i])
      BY <3>1
    <3> HIDE DEF amount
    <3>5. Due(told, "toolTotal") = SumFunction(amount)
      BY <2>1, <3>2, <3>3, <3>4, DueOfSome
    <3> QED BY <2>2, <3>5 DEF amount
  <2>12. counter["taskTotal"] = SumFunction([i \in jobs |-> told[i].duration])
    <3> DEFINE amount == [i \in jobs |-> told[i].duration]
    <3>1. \A i \in jobs : told[i].duration \in Int /\ Add("taskTotal", told[i].duration) \in StepsOf(told[i])
      BY <2>1, AddsOf
    <3>2. \A i \in DOMAIN told \ jobs : \A a : Add("taskTotal", a) \notin StepsOf(told[i])
      BY <2>1, AddsOf
    <3>3. jobs \in SUBSET DOMAIN told
      OBVIOUS
    <3> HIDE DEF jobs
    <3>4. amount \in [jobs -> Int] /\ \A i \in jobs : Add("taskTotal", amount[i]) \in StepsOf(told[i])
      BY <3>1
    <3> HIDE DEF amount
    <3>5. Due(told, "taskTotal") = SumFunction(amount)
      BY <2>1, <3>2, <3>3, <3>4, DueOfSome
    <3> QED BY <2>2, <3>5 DEF amount
  <2>13. Cardinality(completed) + Cardinality(failed) = Cardinality(jobs)
    <3>1. jobs = completed \cup failed /\ completed \cap failed = {}
      OBVIOUS
    <3> HIDE DEF jobs, completed, failed
    <3> QED BY <2>7, <2>8, <3>1, CountBoth
  <2>14. Cardinality(ok) + Cardinality(failing) = Cardinality(tools)
    <3>1. tools = ok \cup failing /\ ok \cap failing = {}
      OBVIOUS
    <3> HIDE DEF tools, ok, failing
    <3> QED BY <2>4, <2>5, <3>1, CountBoth
  <2>15. Cardinality(passes) = Cardinality(with("Approved")) + Cardinality(with("NeedsRevision"))
                                 + Cardinality(with("Rejected")) + Cardinality(with("Escalated"))
    <3>1. \A i \in passes : told[i].verdict \in VerdictNames
      BY <2>1, AddsOf
    <3>2. passes = ((with("Approved") \cup with("NeedsRevision")) \cup with("Rejected")) \cup with("Escalated")
      BY <3>1 DEF VerdictNames
    <3>3. \A v, w \in VerdictNames : v # w => with(v) \cap with(w) = {}
      OBVIOUS
    <3>4. \A v \in VerdictNames : IsFiniteSet(with(v))
      BY <2>10
    <3>5. /\ "Approved" \in VerdictNames /\ "NeedsRevision" \in VerdictNames
          /\ "Rejected" \in VerdictNames /\ "Escalated" \in VerdictNames
      BY DEF VerdictNames
    <3> HIDE DEF passes, with
    <3>6. PICK A, B, C, D : /\ A = with("Approved") /\ B = with("NeedsRevision")
                            /\ C = with("Rejected") /\ D = with("Escalated")
      OBVIOUS
    <3>7. /\ IsFiniteSet(A) /\ IsFiniteSet(B) /\ IsFiniteSet(C) /\ IsFiniteSet(D)
          /\ A \cap B = {} /\ A \cap C = {} /\ B \cap C = {} /\ A \cap D = {} /\ B \cap D = {} /\ C \cap D = {}
      BY <3>3, <3>4, <3>5, <3>6
    <3>8. /\ Cardinality(A \cup B) = Cardinality(A) + Cardinality(B) /\ IsFiniteSet(A \cup B)
          /\ (A \cup B) \cap C = {}
      BY <3>7, CountBoth
    <3>9. /\ Cardinality((A \cup B) \cup C) = Cardinality(A \cup B) + Cardinality(C)
          /\ IsFiniteSet((A \cup B) \cup C) /\ ((A \cup B) \cup C) \cap D = {}
      BY <3>7, <3>8, CountBoth
    <3>10. Cardinality(((A \cup B) \cup C) \cup D) = Cardinality((A \cup B) \cup C) + Cardinality(D)
      BY <3>7, <3>9, CountBoth
    <3> QED BY <3>2, <3>6, <3>8, <3>9, <3>10
  <2>16. /\ Timed("tool") = tools /\ Timed("task") = jobs
         /\ Told({"ToolCallCompleted"}) = Cardinality(tools)
         /\ Told({"ReflectionEvaluated"}) = Cardinality(passes)
    BY DEF Timed, Told
  <2> HIDE DEF tools, ok, failing, jobs, completed, failed, passes, with
  <2>17. ASSUME NEW tracker \in {"task", "tool"}
         PROVE  /\ counter[Timer[tracker].count] = Cardinality(Timed(tracker))
                /\ counter[Timer[tracker].total] = SumFunction([i \in Timed(tracker) |-> told[i].duration])
                /\ IsLeast(counter[Timer[tracker].min], DurationsOf(tracker))
                /\ IsGreatest(counter[Timer[tracker].max], DurationsOf(tracker))
    <3>1. counter[Timer[tracker].count] = Cardinality(Timed(tracker))
      BY <2>3, <2>6, <2>16, NamesAre
    <3>2. counter[Timer[tracker].total] = SumFunction([i \in Timed(tracker) |-> told[i].duration])
      BY <2>11, <2>12, <2>16, NamesAre
    <3> QED BY <3>1, <3>2, BoundsAtRest DEF Trackers
  <2>18. counter["completed"] + counter["failed"] = counter[Timer.task.count]
    BY <2>6, <2>7, <2>8, <2>13, NamesAre
  <2>19. /\ counter["toolsOk"] + counter["toolsFailed"] = counter["tools"]
         /\ counter["tools"] = Told({"ToolCallCompleted"}) /\ counter["uses"] = counter["tools"]
    BY <2>3, <2>4, <2>5, <2>14, <2>16
  <2>20. /\ counter["passes"] = counter["Approved"] + counter["NeedsRevision"]
                                  + counter["Rejected"] + counter["Escalated"]
         /\ counter["passes"] = Told({"ReflectionEvaluated"})
    <3>1. /\ counter["Approved"] = Cardinality(with("Approved"))
          /\ counter["NeedsRevision"] = Cardinality(with("NeedsRevision"))
          /\ counter["Rejected"] = Cardinality(with("Rejected"))
          /\ counter["Escalated"] = Cardinality(with("Escalated"))
      BY <2>10 DEF VerdictNames
    <3> QED BY <2>9, <2>15, <2>16, <3>1
  <2> QED BY <2>17, <2>18, <2>19, <2>20 DEF TelemetryExact
<1> QED BY <1>1, CountersAddUp, PTL

-----------------------------------------------------------------------------
(* The memory that agents share                                            *)

Episodes == [words : EpisodeWords, importance : Importances, at : 0..MaxTime]

\* Episodes that have happened.
IsPast(es) == es \in Seq(Episodes) /\ \A i \in DOMAIN es : es[i].at <= clock

\* What was loaded or is to be loaded consists of episodes that have happened, and the
\* newest are remembered.
MemoryInv ==
    /\ capacity \in Nat /\ clock \in 0..MaxTime
    /\ IsPast(remembered) /\ IsPast(history)
    /\ \A m \in storedMemory : IsPast(m)
    /\ NewestRemembered

\* The last n of a sequence, one by one.
LEMMA LastOfIs ==
    ASSUME NEW S, NEW s \in Seq(S), NEW n \in 0..Len(s)
    PROVE  /\ LastOf(s, n) \in Seq(S) /\ Len(LastOf(s, n)) = n
           /\ \A i \in 1..n : LastOf(s, n)[i] = s[Len(s) - n + i]
<1>1. Len(s) \in Nat
  OBVIOUS
<1>2. CASE n = Len(s)
  <2>1. LastOf(s, n) = s
    BY <1>1, <1>2 DEF LastOf
  <2>2. \A i \in 1..n : Len(s) - n + i = i
    BY <1>1, <1>2
  <2> QED BY <1>2, <2>1, <2>2
<1>3. CASE n # Len(s)
  <2>1. LastOf(s, n) = SubSeq(s, Len(s) - n + 1, Len(s))
    BY <1>1, <1>3 DEF LastOf
  <2>2. \/ Len(s) - n + 1 \in 1..Len(s) /\ Len(s) - (Len(s) - n + 1) + 1 = n
        \/ n = 0 /\ Len(s) - n + 1 = Len(s) + 1
    BY <1>1, <1>3
  <2> QED BY <1>1, <2>1, <2>2
<1> QED BY <1>2, <1>3

LEMMA LastOfAll ==
    ASSUME NEW S, NEW s \in Seq(S), NEW n \in Nat, Len(s) <= n
    PROVE  LastOf(s, n) = s
BY DEF LastOf

\* Two sequences are the same if they are as long and agree everywhere.
LEMMA SameSequence ==
    ASSUME NEW S, NEW s \in Seq(S), NEW t \in Seq(S), Len(s) = Len(t),
           \A i \in 1..Len(s) : s[i] = t[i]
    PROVE  s = t
OBVIOUS

\* Recording one more, the overflow drained.
LEMMA RecordKeepsNewest ==
    ASSUME NEW S, NEW r \in Seq(S), NEW h \in Seq(S), NEW e \in S, NEW c \in Nat,
           r = LastOf(h, Len(r)),
           Len(r) <= c \/ r = h,
           Len(r) >= (IF Len(h) < c THEN Len(h) ELSE c)
    PROVE  LET q == LastOf(Append(r, e), c)
               k == Append(h, e)
           IN  /\ q \in Seq(S) /\ q = LastOf(k, Len(q)) /\ Len(q) <= c
               /\ Len(q) >= (IF Len(k) < c THEN Len(k) ELSE c)
<1> DEFINE a == Len(r)
           b == Len(h)
           p == Append(r, e)
           k == Append(h, e)
<1>1. a \in Nat /\ b \in Nat /\ a <= b
  <2>1. a \in Nat /\ b \in Nat
    OBVIOUS
  <2>2. CASE b <= a
    <3>1. LastOf(h, a) = h
      BY <2>1, <2>2, LastOfAll
    <3> QED BY <2>1, <3>1
  <2> QED BY <2>1, <2>2
<1>2. \A i \in 1..a : r[i] = h[b - a + i]
  <2>1. r = LastOf(h, a) /\ a \in 0..Len(h)
    BY <1>1
  <2> HIDE DEF a
  <2> QED BY <2>1, LastOfIs
<1>3. /\ p \in Seq(S) /\ Len(p) = a + 1 /\ p[a + 1] = e /\ \A i \in 1..a : p[i] = r[i]
      /\ k \in Seq(S) /\ Len(k) = b + 1 /\ k[b + 1] = e /\ \A i \in 1..b : k[i] = h[i]
  OBVIOUS
<1>4. (a <= c \/ r = h) /\ a >= (IF b < c THEN b ELSE c)
  OBVIOUS
<1> HIDE DEF a, b, p, k
<1>5. ASSUME NEW i \in 1..(a + 1) PROVE p[i] = k[b - a + i]
  <2>1. CASE i = a + 1
    <3>1. b - a + i = b + 1
      BY <1>1, <2>1
    <3> QED BY <1>3, <2>1, <3>1
  <2>2. CASE i # a + 1
    <3>1. i \in 1..a /\ b - a + i \in 1..b
      BY <1>1, <2>2
    <3> QED BY <1>2, <1>3, <3>1
  <2> QED BY <2>1, <2>2
<1>6. CASE a + 1 <= c
  <2>1. LastOf(p, c) = p
    BY <1>3, <1>6, LastOfAll
  <2>2. a = b
    BY <1>1, <1>4, <1>6
  <2>3. p = k
    <3>1. \A i \in 1..(a + 1) : b - a + i = i
      BY <1>1, <2>2
    <3>2. \A i \in 1..Len(p) : p[i] = k[i]
      BY <1>3, <1>5, <3>1
    <3> QED BY <1>3, <2>2, <3>2, SameSequence
  <2>4. LastOf(k, Len(k)) = k
    BY <1>1, <1>3, LastOfAll
  <2> QED BY <1>1, <1>3, <1>6, <2>1, <2>3, <2>4 DEF p, k
<1>7. CASE ~ (a + 1 <= c)
  <2> DEFINE q == LastOf(p, c)
             t == LastOf(k, c)
  <2>1. c \in 0..Len(p) /\ c \in 0..Len(k)
    BY <1>1, <1>3, <1>7
  <2>2. q \in Seq(S) /\ Len(q) = c /\ \A i \in 1..c : q[i] = p[Len(p) - c + i]
    BY <1>3, <2>1, LastOfIs
  <2>3. t \in Seq(S) /\ Len(t) = c /\ \A i \in 1..c : t[i] = k[Len(k) - c + i]
    BY <1>3, <2>1, LastOfIs
  <2> HIDE DEF q, t
  <2>4. ASSUME NEW i \in 1..c PROVE q[i] = t[i]
    <3>1. (a + 1) - c + i \in 1..(a + 1) /\ b - a + ((a + 1) - c + i) = (b + 1) - c + i
      BY <1>1, <1>7
    <3>2. p[(a + 1) - c + i] = k[b - a + ((a + 1) - c + i)]
      BY <1>5, <3>1
    <3> QED BY <1>3, <2>2, <2>3, <3>1, <3>2
  <2>5. q = t
    BY <2>2, <2>3, <2>4, SameSequence
  <2> QED BY <1>1, <1>3, <2>2, <2>5 DEF q, t, p, k
<1> QED BY <1>6, <1>7

-----------------------------------------------------------------------------

LEMMA EpisodeIs ==
    \A e \in Episodes : /\ e.words \in EpisodeWords
                        /\ e.importance \in Nat
                        /\ e.at \in 0..MaxTime /\ e.at \in Int
<1>1. MaxTime \in Nat /\ \A i \in Importances : i \in Nat
  BY DecayFalls, EpisodesAreFinite
<1>2. \A t \in 0..MaxTime : t \in Int
  BY <1>1
<1> QED BY <1>1, <1>2 DEF Episodes

LEMMA CapacitiesAreNumbers == \A c \in Capacities : AtLeast(c, FewestEpisodes) \in Nat
BY EpisodesAreFinite DEF AtLeast

LEMMA InitMemoryInv == MemoryInit => MemoryInv
<1> SUFFICES ASSUME MemoryInit PROVE MemoryInv
  OBVIOUS
<1>1. capacity \in Nat
  BY CapacitiesAreNumbers DEF MemoryInit
<1>2. remembered = << >> /\ history = << >> /\ storedMemory = {} /\ clock = 0
  BY DEF MemoryInit
<1>3. LastOf(<< >>, 0) = << >>
  BY DEF LastOf
<1>4. NewestRemembered
  BY <1>1, <1>2, <1>3 DEF NewestRemembered
<1> QED BY <1>1, <1>2, <1>4, DecayFalls DEF MemoryInv, IsPast

LEMMA NextMemoryInv == MemoryInv /\ [MemoryNext]_memoryVars => MemoryInv'
<1> SUFFICES ASSUME MemoryInv, [MemoryNext]_memoryVars PROVE MemoryInv'
  OBVIOUS
<1>1. CASE UNCHANGED <<capacity, remembered, clock, storedMemory, history>>
  BY <1>1 DEF MemoryInv, IsPast, NewestRemembered
<1>2. ASSUME NEW words \in EpisodeWords, NEW importance \in Importances,
             RecordEpisode(words, importance)
      PROVE  MemoryInv'
  <2> DEFINE entry == [words |-> words, importance |-> importance, at |-> clock]
             P == {e \in Episodes : e.at <= clock}
  <2>1. /\ remembered' = LastOf(Append(remembered, entry), capacity)
        /\ history' = Append(history, entry)
        /\ UNCHANGED <<capacity, clock, storedMemory>>
    BY <1>2 DEF RecordEpisode
  <2>2. entry \in P
    BY DEF MemoryInv, Episodes
  <2>3. \A es : IsPast(es) <=> es \in Seq(P)
    BY DEF IsPast
  <2>4. remembered \in Seq(P) /\ history \in Seq(P) /\ capacity \in Nat
    BY <2>3 DEF MemoryInv
  <2> HIDE DEF P, entry
  <2>5. /\ remembered' \in Seq(P) /\ remembered' = LastOf(history', Len(remembered'))
        /\ Len(remembered') <= capacity
        /\ Len(remembered') >= (IF Len(history') < capacity THEN Len(history') ELSE capacity)
    BY <2>1, <2>2, <2>4, RecordKeepsNewest DEF MemoryInv, NewestRemembered
  <2>6. history' \in Seq(P)
    BY <2>1, <2>2, <2>4
  <2>7. IsPast(remembered)' /\ IsPast(history)' /\ (\A m \in storedMemory : IsPast(m))'
    BY <2>1, <2>3, <2>5, <2>6 DEF MemoryInv, IsPast
  <2> QED BY <2>1, <2>5, <2>7 DEF MemoryInv, NewestRemembered
<1>3. CASE PersistEpisodes
  BY <1>3 DEF PersistEpisodes, MemoryInv, IsPast, NewestRemembered
<1>4. CASE RestartMemory
  <2>1. capacity' \in Nat /\ UNCHANGED <<clock, storedMemory>> /\ history' = remembered'
    BY <1>4, CapacitiesAreNumbers DEF RestartMemory
  <2>2. IsPast(remembered')
    BY <1>4 DEF RestartMemory, MemoryInv, IsPast
  <2>3. remembered' \in Seq(Episodes)
    BY <2>2 DEF IsPast
  <2>4. LastOf(remembered', Len(remembered')) = remembered'
    BY <2>3, LastOfAll
  <2>5. NewestRemembered'
    BY <2>1, <2>3, <2>4 DEF NewestRemembered
  <2> QED BY <2>1, <2>2, <2>5 DEF MemoryInv, IsPast
<1>5. CASE MemoryTick
  <2>1. clock' = clock + 1 /\ clock' \in 0..MaxTime /\ clock \in Int
    BY <1>5, DecayFalls DEF MemoryTick, MemoryInv
  <2>2. UNCHANGED <<capacity, remembered, storedMemory, history>>
    BY <1>5 DEF MemoryTick
  <2>3. ASSUME NEW es, IsPast(es) PROVE es \in Seq(Episodes) /\ \A i \in DOMAIN es : es[i].at <= clock'
    <3>1. \A i \in DOMAIN es : es[i] \in Episodes /\ es[i].at <= clock
      BY <2>3 DEF IsPast
    <3>2. \A e \in Episodes : e.at \in Int
      BY DEF Episodes
    <3> QED BY <2>1, <2>3, <3>1, <3>2 DEF IsPast
  <2>4. IsPast(remembered)' /\ IsPast(history)' /\ (\A m \in storedMemory : IsPast(m))'
    BY <2>2, <2>3 DEF MemoryInv, IsPast
  <2> QED BY <2>1, <2>2, <2>4 DEF MemoryInv, NewestRemembered
<1>6. CASE \E k \in BoardKeys : SetBlackboard(k) \/ RemoveBlackboard(k)
  BY <1>1, <1>6 DEF SetBlackboard, RemoveBlackboard, Board
<1>7. CASE ClearBlackboard \/ StartPersist \/ PersistBlackboard \/ PersistFails
  BY <1>1, <1>7 DEF ClearBlackboard, Board, StartPersist, PersistBlackboard, PersistFails
<1>8. CASE UNCHANGED memoryVars
  BY <1>1, <1>8 DEF memoryVars
<1> QED BY <1>2, <1>3, <1>4, <1>5, <1>6, <1>7, <1>8 DEF MemoryNext

LEMMA OverlapIsNumber ==
    ASSUME NEW query \in Queries, NEW words \in EpisodeWords
    PROVE  Overlap(query, words) \in Nat
<1>1. CASE query = {} \/ words = {}
  BY <1>1 DEF Overlap
<1>2. CASE ~ (query = {} \/ words = {})
  <2> DEFINE n == Cardinality(query \cup words)
             k == Cardinality(query \cap words)
  <2>1. IsFiniteSet(query) /\ IsFiniteSet(words)
    BY EpisodesAreFinite
  <2>2. IsFiniteSet(query \cup words) /\ IsFiniteSet(query \cap words)
    <3>1. IsFiniteSet(query \cup words)
      BY <2>1, FS_Union
    <3>2. IsFiniteSet(query \cap words)
      BY <2>1, FS_Subset
    <3> QED BY <3>1, <3>2
  <2>3. n \in Nat /\ n # 0 /\ k \in Nat
    BY <1>2, <2>2, FS_CardinalityType, FS_EmptySet
  <2> HIDE DEF n, k
  <2>4. (12 * k) \div n \in Nat
    BY <2>3
  <2> QED BY <1>2, <2>4 DEF Overlap, n, k
<1> QED BY <1>1, <1>2

\* The older, the less is left.
LEMMA DecayFallsOn ==
    \A a, b \in 0..MaxTime : a < b => Decay[b] < Decay[a]
<1> SUFFICES ASSUME NEW a \in 0..MaxTime PROVE \A b \in 0..MaxTime : a < b => Decay[b] < Decay[a]
  OBVIOUS
<1> DEFINE Good == {b \in 0..MaxTime : a < b => Decay[b] < Decay[a]}
<1>1. MaxTime \in Nat /\ \A i \in 0..MaxTime : Decay[i] \in Nat
  BY DecayFalls
<1>2. 0 \in Good
  BY <1>1
<1>3. ASSUME NEW m \in 0..MaxTime, m < MaxTime, m \in Good PROVE m + 1 \in Good
  <2>1. m + 1 \in 1..MaxTime /\ m + 1 \in 0..MaxTime /\ (m + 1) - 1 = m
    BY <1>1, <1>3
  <2>2. Decay[m + 1] < Decay[m]
    BY <2>1, DecayFalls
  <2>3. CASE a < m
    <3>1. Decay[m] < Decay[a]
      BY <1>3, <2>3
    <3>2. Decay[m + 1] < Decay[a]
      BY <1>1, <2>1, <2>2, <3>1
    <3> QED BY <2>1, <3>2
  <2>4. CASE a = m
    BY <2>1, <2>2, <2>4
  <2>5. CASE m < a
    <3>1. ~ (a < m + 1)
      BY <1>1, <2>5
    <3> QED BY <2>1, <3>1
  <2>6. a < m \/ a = m \/ m < a
    BY <1>1
  <2> QED BY <2>3, <2>4, <2>5, <2>6
<1> HIDE DEF Good
<1>4. \A b \in 0..MaxTime : b \in Good
  BY <1>1, <1>2, <1>3, Climbing
<1> QED BY <1>4 DEF Good

\* What is as good as another episode has at least its score, and a higher one if it is better.
LEMMA BetterScoresMore ==
    ASSUME clock \in 0..MaxTime, NEW query \in Queries,
           NEW x \in Episodes, x.at <= clock, NEW y \in Episodes, y.at <= clock,
           Overlap(query, x.words) >= Overlap(query, y.words),
           x.at >= y.at, x.importance >= y.importance,
           \/ Overlap(query, x.words) > Overlap(query, y.words)
           \/ x.at > y.at \/ x.importance > y.importance
    PROVE  MemoryScore(query, x) > MemoryScore(query, y)
<1> DEFINE ox == Overlap(query, x.words)
           oy == Overlap(query, y.words)
           p == 50 * ox + 24 * x.importance
           q == 50 * oy + 24 * y.importance
           d == Decay[0]
<1>1. ox \in Nat /\ oy \in Nat
  BY OverlapIsNumber DEF Episodes
<1>2. x.importance \in Nat /\ y.importance \in Nat /\ x.at \in 0..MaxTime /\ y.at \in 0..MaxTime
  BY EpisodesAreFinite DEF Episodes
<1>3. d \in Nat /\ d > 0 /\ MaxTime \in Nat
  BY DecayFalls
<1>4. clock - x.at \in 0..MaxTime /\ clock - y.at \in 0..MaxTime /\ clock - x.at <= clock - y.at
      /\ (x.at > y.at => clock - x.at < clock - y.at)
  BY <1>2, <1>3
<1>5. Recency(x) \in Nat /\ Recency(y) \in Nat
  BY <1>4, DecayFalls DEF Recency
<1>6. Recency(x) >= Recency(y) /\ (x.at > y.at => Recency(x) > Recency(y))
  <2>1. ASSUME x.at > y.at PROVE Recency(x) > Recency(y)
    <3>1. PICK a \in 0..MaxTime, b \in 0..MaxTime : a = clock - x.at /\ b = clock - y.at /\ a < b
      BY <1>4, <2>1
    <3>2. Decay[b] < Decay[a]
      BY <3>1, DecayFallsOn
    <3>3. Recency(x) = Decay[a] /\ Recency(y) = Decay[b]
      BY <3>1 DEF Recency
    <3> QED BY <1>5, <3>2, <3>3
  <2>2. ASSUME x.at = y.at PROVE Recency(x) = Recency(y)
    <3>1. PICK a : a = x.at /\ a = y.at
      BY <2>2
    <3> QED BY <3>1 DEF Recency
  <2>3. x.at > y.at \/ x.at = y.at
    BY <1>2
  <2> QED BY <1>5, <2>1, <2>2, <2>3
<1> HIDE DEF ox, oy, d
<1>7. /\ p \in Int /\ q \in Int /\ q <= p
      /\ ox > oy \/ x.importance > y.importance => q < p
  <2>1. ox >= oy
    BY DEF ox, oy
  <2> QED BY <1>1, <1>2, <2>1
<1>8. ox > oy \/ x.at > y.at \/ x.importance > y.importance
  BY DEF ox, oy
<1> HIDE DEF p, q
<1>9. (q <= p => d * q <= d * p) /\ (q < p => d * q < d * p) /\ d * q \in Int /\ d * p \in Int
  BY <1>3, <1>7, Scaled
<1>10. d * p + 360 * Recency(x) > d * q + 360 * Recency(y)
  <2> DEFINE u == d * p
             v == d * q
  <2>1. u \in Int /\ v \in Int /\ v <= u
    BY <1>7, <1>9
  <2>2. v < u \/ Recency(x) > Recency(y)
    BY <1>6, <1>7, <1>8, <1>9
  <2> HIDE DEF u, v
  <2>3. u + 360 * Recency(x) > v + 360 * Recency(y)
    BY <1>5, <1>6, <2>1, <2>2
  <2> QED BY <2>3 DEF u, v
<1> QED BY <1>10 DEF MemoryScore, p, q, d, ox, oy

LEMMA ScoreIsNumber ==
    ASSUME clock \in 0..MaxTime, NEW query \in Queries, NEW x \in Episodes, x.at <= clock
    PROVE  MemoryScore(query, x) \in Int
<1>1. Overlap(query, x.words) \in Nat
  BY OverlapIsNumber DEF Episodes
<1>2. x.importance \in Nat /\ x.at \in 0..MaxTime /\ MaxTime \in Nat
  BY EpisodesAreFinite, DecayFalls DEF Episodes
<1>3. clock - x.at \in 0..MaxTime /\ 0 \in 0..MaxTime
  BY <1>2
<1>4. Recency(x) \in Nat /\ Decay[0] \in Nat
  BY <1>3, DecayFalls DEF Recency
<1>5. 50 * Overlap(query, x.words) + 24 * x.importance \in Nat
  BY <1>1, <1>2
<1> QED BY <1>4, <1>5 DEF MemoryScore

\* Recall lists the episodes that come first, each at its place.
LEMMA RecallIs ==
    ASSUME MemoryInv, NEW query \in Queries, NEW topK \in Nat
    PROVE  LET found == Recall(query, topK)
               All == DOMAIN remembered
           IN  /\ DOMAIN found = 1..(IF Len(remembered) < topK THEN Len(remembered) ELSE topK)
               /\ \A n \in DOMAIN found : found[n] \in All
               /\ \A n \in DOMAIN found, i \in All :
                    Before(query, i, found[n]) => \E m \in 1..(n - 1) : found[m] = i
<1> DEFINE All == DOMAIN remembered
           size == Len(remembered)
           R == {p \in All \X All : Before(query, p[1], p[2])}
           Place(i) == Cardinality({j \in All : Before(query, j, i)})
           sorted == [n \in All |-> CHOOSE i \in All : Place(i) = n - 1]
           top == IF size < topK THEN size ELSE topK
           score(i) == MemoryScore(query, remembered[i])
<1>1. size \in Nat /\ All = 1..size /\ remembered \in Seq(Episodes)
  BY DEF MemoryInv, IsPast
<1>2. \A i \in All : score(i) \in Int /\ i \in Int
  BY <1>1, ScoreIsNumber DEF MemoryInv, IsPast
<1>3. \A i, j \in All : Before(query, i, j) <=> score(i) > score(j) \/ (score(i) = score(j) /\ i < j)
  BY DEF Before
<1>4. \A i, j \in All : <<i, j>> \in R <=> Before(query, i, j)
  OBVIOUS
<1>5. \A i \in All : Place(i) = RankBy(R, All, i)
  <2>1. \A i \in All : {j \in All : Before(query, j, i)} = Under(R, All, i)
    BY DEF Under
  <2> QED BY <2>1 DEF RankBy
<1>6. IsFiniteSet(All) /\ Cardinality(All) = size
  BY <1>1, CountTo
<1> HIDE DEF All, size, score, R
<1>7. Orders(R, All)
  <2>1. \A i \in All : ~ Before(query, i, i)
    BY <1>2, <1>3
  <2>2. \A i, j, k \in All : Before(query, i, j) /\ Before(query, j, k) => Before(query, i, k)
    BY <1>2, <1>3
  <2>3. \A i, j \in All : i # j => Before(query, i, j) \/ Before(query, j, i)
    BY <1>2, <1>3
  <2> QED BY <1>4, <2>1, <2>2, <2>3 DEF Orders
<1> HIDE DEF Place
<1>8. \A n \in 1..size : \E i \in All : Place(i) = n - 1
  BY <1>5, <1>6, <1>7, RanksCover
<1>9. \A i, j \in All : Place(i) = Place(j) => i = j
  BY <1>5, <1>6, <1>7, RanksCover
<1>10. \A i \in All : Place(i) \in 0..(size - 1)
  BY <1>5, <1>6, <1>7, RanksClimb
<1>11. \A i, j \in All : Before(query, i, j) => Place(i) < Place(j)
  BY <1>4, <1>5, <1>6, <1>7, RanksClimb
<1>12. \A n \in All : sorted[n] \in All /\ Place(sorted[n]) = n - 1
  BY <1>1, <1>8
<1>13. Recall(query, topK) = SubSeq(sorted, 1, top)
  BY DEF Recall, All, Place, size
<1>14. sorted \in Seq(All) /\ Len(sorted) = size
  <2>1. sorted \in [1..size -> All]
    BY <1>1, <1>12
  <2> QED BY <1>1, <2>1
<1>15. top \in 0..size
  BY <1>1
<1> HIDE DEF sorted, top
<1> DEFINE found == SubSeq(sorted, 1, top)
<1>16. DOMAIN found = 1..top /\ \A n \in 1..top : found[n] = sorted[n]
  BY <1>1, <1>14, <1>15
<1> HIDE DEF found
<1>17. \A n \in 1..top : n \in All /\ n \in 1..size
  BY <1>1, <1>15
<1>18. ASSUME NEW n \in DOMAIN found, NEW i \in All, Before(query, i, found[n])
       PROVE  \E m \in 1..(n - 1) : found[m] = i
  <2>1. n \in 1..top /\ found[n] \in All /\ Place(found[n]) = n - 1
    BY <1>12, <1>16, <1>17
  <2>2. Place(i) < n - 1 /\ Place(i) \in Nat
    BY <1>10, <1>11, <1>18, <2>1
  <2>3. PICK m : m = Place(i) + 1
    OBVIOUS
  <2>4. m \in 1..(n - 1) /\ m \in 1..top /\ m - 1 = Place(i)
    BY <1>15, <2>1, <2>2, <2>3
  <2>5. found[m] \in All /\ Place(found[m]) = Place(i)
    BY <1>12, <1>16, <1>17, <2>4
  <2> QED BY <1>9, <2>4, <2>5
<1>19. \A n \in DOMAIN found : found[n] \in All
  BY <1>12, <1>16, <1>17
<1>20. Recall(query, topK) = found
  BY <1>13 DEF found
<1>21. DOMAIN remembered = All /\ (IF Len(remembered) < topK THEN Len(remembered) ELSE topK) = top
  BY DEF top, All, size
<1> QED BY <1>16, <1>18, <1>19, <1>20, <1>21

\* What is better comes first.
LEMMA InvIsSound == MemoryInv => MemorySound
<1> SUFFICES ASSUME MemoryInv PROVE BetterRecalledFirst
  BY DEF MemoryInv, MemorySound
<1> SUFFICES ASSUME NEW query \in Queries, NEW topK \in 0..2
             PROVE  LET found == Recall(query, topK)
                        AsGood(i, j) ==
                            /\ Overlap(query, remembered[i].words) >= Overlap(query, remembered[j].words)
                            /\ remembered[i].at >= remembered[j].at
                            /\ remembered[i].importance >= remembered[j].importance
                    IN  \A n \in DOMAIN found : \A i \in DOMAIN remembered :
                          AsGood(i, found[n]) /\ ~ AsGood(found[n], i) => \E m \in 1..(n - 1) : found[m] = i
  BY DEF BetterRecalledFirst
<1> DEFINE found == Recall(query, topK)
           over(i) == Overlap(query, remembered[i].words)
           AsGood(i, j) ==
               /\ over(i) >= over(j)
               /\ remembered[i].at >= remembered[j].at
               /\ remembered[i].importance >= remembered[j].importance
<1>1. topK \in Nat
  OBVIOUS
<1>2. /\ \A n \in DOMAIN found : found[n] \in DOMAIN remembered
      /\ \A n \in DOMAIN found, i \in DOMAIN remembered :
           Before(query, i, found[n]) => \E m \in 1..(n - 1) : found[m] = i
  BY <1>1, RecallIs
<1>3. clock \in 0..MaxTime /\ MaxTime \in Nat
      /\ \A i \in DOMAIN remembered : remembered[i] \in Episodes /\ remembered[i].at <= clock
  BY DecayFalls DEF MemoryInv, IsPast
<1> HIDE DEF found
<1>4. ASSUME NEW i \in DOMAIN remembered, NEW j \in DOMAIN remembered, AsGood(i, j), ~ AsGood(j, i)
      PROVE  Before(query, i, j)
  <2>1. over(i) \in Int /\ over(j) \in Int
    BY <1>3, OverlapIsNumber DEF Episodes
  <2>2. /\ remembered[i].at \in Int /\ remembered[j].at \in Int
        /\ remembered[i].importance \in Int /\ remembered[j].importance \in Int
    <3>1. \A e \in Episodes : e.at \in Int /\ e.importance \in Int
      BY EpisodeIs
    <3> QED BY <1>3, <3>1
  <2>3. over(i) > over(j) \/ remembered[i].at > remembered[j].at
        \/ remembered[i].importance > remembered[j].importance
    BY <1>4, <2>1, <2>2
  <2>4. MemoryScore(query, remembered[i]) > MemoryScore(query, remembered[j])
    BY <1>3, <1>4, <2>3, BetterScoresMore
  <2> QED BY <2>4 DEF Before
<1> QED BY <1>2, <1>4 DEF found

\* The newest episodes are remembered, also after restarts in the middle of a persist, and a
\* better one is recalled before a worse one.
THEOREM MemoryIsSound == MemorySpec => []MemorySound
<1>1. MemoryInv /\ [MemoryNext]_memoryVars => MemoryInv'
  BY NextMemoryInv
<1> QED BY <1>1, InitMemoryInv, InvIsSound, PTL DEF MemorySpec

-----------------------------------------------------------------------------
(* Tools                                                                   *)

Stores == UNION {[ks -> ToolValues] : ks \in SUBSET ToolKeys}

\* What a store has for a key: one value, or none.
At(s, k) == IF k \in DOMAIN s THEN {s[k]} ELSE {}

StorageTools == {"kv_get", "kv_put", "kv_delete"}
Writes(ask) == Typed(ask) /\ ask.tool \in {"kv_put", "kv_delete"}
Written(ask) == IF ask.tool = "kv_put" THEN {ask.args.value.value} ELSE {}

\* A call is one of a tool, or of none, and what it says is of the right kind if its type is.
IsCall(ask) ==
    LET args == ask.args IN
    /\ ask.tool \in Registered \cup {"unknown"}
    /\ ask.tool \in StorageTools /\ HasType(args, "key", "string") => args.key.value \in ToolKeys
    /\ ask.tool = "kv_put" /\ "value" \in DOMAIN args =>
         args.value.type = "string" /\ args.value.value \in ToolValues
    /\ ask.tool = "kv_scan" /\ "start_key" \in DOMAIN args =>
         args.start_key.type = "string" /\ args.start_key.value \in ToolKeys
    /\ ask.tool = "kv_scan" => ScanLimit(args) \in Nat

LEMMA ToolsAre ==
    /\ Registered = {"kv_get", "kv_put", "kv_delete", "kv_scan", "calculator", "echo"}
    /\ "unknown" \notin Registered
    /\ ToolParams["kv_put"] = {"key", "value"} /\ ToolParams["kv_scan"] = {"start_key", "limit"}
    /\ RequiredParams["kv_get"] = {"key"} /\ RequiredParams["kv_put"] = {"key", "value"}
    /\ RequiredParams["kv_delete"] = {"key"} /\ RequiredParams["kv_scan"] = {"start_key"}
    /\ RequiredParams["calculator"] = {"operation", "a", "b"}
    /\ RequiredParams["echo"] = {"message"}
BY DEF Registered, ToolParams, RequiredParams

LEMMA CallsAre == \A ask \in Calls : IsCall(ask)
<1> SUFFICES ASSUME NEW ask \in Calls PROVE IsCall(ask)
  OBVIOUS
<1>1. CASE ask = [tool |-> "unknown", args |-> [p \in {} |-> 0]]
  <2>1. ask.tool = "unknown"
    BY <1>1
  <2> QED BY <2>1 DEF IsCall, StorageTools
<1>2. CASE \E tool \in Registered : \E args \in ArgumentsFor(tool) : ask = [tool |-> tool, args |-> args]
  <2>a. PICK tool \in Registered : \E args \in ArgumentsFor(tool) : ask = [tool |-> tool, args |-> args]
    BY <1>2
  <2>1. PICK args \in ArgumentsFor(tool) : ask = [tool |-> tool, args |-> args]
    BY <2>a
  <2>2. PICK given \in SUBSET ToolParams[tool], full \in FullArguments[tool] :
          args = [p \in given |-> full[p]]
    BY DEF ArgumentsFor
  <2>3. ask.tool = tool /\ ask.args = args
    BY <2>1
  <2>4. DOMAIN args = given /\ \A p \in given : args[p] = full[p]
    BY <2>2
  <2>5. ASSUME tool \in StorageTools, HasType(args, "key", "string")
        PROVE  args.key.value \in ToolKeys
    <3>1. full.key \in SaidKeys
      <4>1. /\ FullArguments["kv_get"] = [key : SaidKeys]
            /\ FullArguments["kv_delete"] = [key : SaidKeys]
            /\ FullArguments["kv_put"] = [key : SaidKeys, value : {Text(v) : v \in ToolValues}]
        BY DEF FullArguments
      <4>2. tool \in {"kv_get", "kv_put", "kv_delete"}
        BY <2>5 DEF StorageTools
      <4>3. CASE tool = "kv_put"
        <5>1. full \in [key : SaidKeys, value : {Text(v) : v \in ToolValues}]
          BY <4>1, <4>3
        <5> QED BY <5>1
      <4>4. CASE tool # "kv_put"
        <5>1. full \in [key : SaidKeys]
          BY <4>1, <4>2, <4>4
        <5> QED BY <5>1
      <4> QED BY <4>3, <4>4
    <3>2. full.key.type = "string"
      BY <2>4, <2>5 DEF HasType
    <3>3. full.key \in {Text(k) : k \in ToolKeys}
      BY <3>1, <3>2 DEF SaidKeys, Number
    <3>4. full.key.value \in ToolKeys
      BY <3>3 DEF Text
    <3> QED BY <2>4, <2>5, <3>4 DEF HasType
  <2>6. ASSUME tool = "kv_put", "value" \in given
        PROVE  args.value.type = "string" /\ args.value.value \in ToolValues
    <3>1. full.value \in {Text(v) : v \in ToolValues}
      BY <2>6 DEF FullArguments
    <3>2. full.value.type = "string" /\ full.value.value \in ToolValues
      BY <3>1 DEF Text
    <3> QED BY <2>4, <2>6, <3>2
  <2>7. ASSUME tool = "kv_scan", "start_key" \in given
        PROVE  args.start_key.type = "string" /\ args.start_key.value \in ToolKeys
    <3>1. full.start_key \in {Text(k) : k \in ToolKeys}
      BY <2>7 DEF FullArguments
    <3>2. full.start_key.type = "string" /\ full.start_key.value \in ToolKeys
      BY <3>1 DEF Text
    <3> QED BY <2>4, <2>7, <3>2
  <2>8. ASSUME tool = "kv_scan" PROVE ScanLimit(args) \in Nat
    <3>1. CASE ~ HasType(args, "limit", "number")
      BY <3>1 DEF ScanLimit
    <3>2. CASE HasType(args, "limit", "number")
      <4>1. full.limit \in {Number(n) : n \in ScanLimits} \cup {Text("many")}
        BY <2>8 DEF FullArguments
      <4>2. full.limit.type = "number" /\ args.limit = full.limit
        BY <2>4, <3>2 DEF HasType
      <4>3. full.limit \in {Number(n) : n \in ScanLimits}
        BY <4>1, <4>2 DEF Text
      <4>4. PICK n \in ScanLimits : full.limit = Number(n)
        BY <4>3
      <4>5. full.limit.value = n
        BY <4>4 DEF Number
      <4>6. full.limit.value \in Nat
        BY <4>5, ToolNumbers
      <4> QED BY <3>2, <4>2, <4>6 DEF ScanLimit
    <3> QED BY <3>1, <3>2
  <2> QED BY <2>3, <2>4, <2>5, <2>6, <2>7, <2>8 DEF IsCall
<1>3. CASE ask \in UNION {{[tool |-> tool, args |-> args] : args \in ArgumentsFor(tool)} : tool \in Registered}
  <2>1. PICK tool \in Registered : ask \in {[tool |-> tool, args |-> args] : args \in ArgumentsFor(tool)}
    BY <1>3
  <2>2. \E args \in ArgumentsFor(tool) : ask = [tool |-> tool, args |-> args]
    BY <2>1
  <2> QED BY <1>2, <2>2
<1>4. ask \in (UNION {{[tool |-> tool, args |-> args] : args \in ArgumentsFor(tool)} : tool \in Registered})
      \/ ask = [tool |-> "unknown", args |-> [p \in {} |-> 0]]
  BY Zenon DEF Calls
<1> QED BY <1>1, <1>3, <1>4

\* Which calls can be done, tool by tool.
LEMMA TypedIs ==
    ASSUME NEW ask
    PROVE  LET args == ask.args IN
           /\ ask.tool \in {"kv_get", "kv_delete"} => (Typed(ask) <=> HasType(args, "key", "string"))
           /\ ask.tool = "kv_put" =>
                (Typed(ask) <=> HasType(args, "key", "string") /\ HasType(args, "value", "string"))
           /\ ask.tool = "kv_scan" => (Typed(ask) <=> HasType(args, "start_key", "string"))
           /\ ask.tool = "echo" => (Typed(ask) <=> "message" \in DOMAIN args)
           /\ ask.tool = "calculator" =>
                (Typed(ask) <=> /\ HasType(args, "operation", "string")
                                 /\ HasType(args, "a", "number") /\ HasType(args, "b", "number"))
           /\ ask.tool = "unknown" => ~ Typed(ask)
<1> DEFINE args == ask.args
           text == {"key", "value", "start_key", "operation"}
           Right(p) == p \in DOMAIN args /\ (p # "message" => args[p].type = IF p \in text THEN "string" ELSE "number")
<1>1. Typed(ask) <=> ask.tool \in Registered /\ \A p \in RequiredParams[ask.tool] : Right(p)
  BY DEF Typed
<1>2. /\ Right("key") <=> HasType(args, "key", "string")
      /\ Right("value") <=> HasType(args, "value", "string")
      /\ Right("start_key") <=> HasType(args, "start_key", "string")
      /\ Right("operation") <=> HasType(args, "operation", "string")
      /\ Right("a") <=> HasType(args, "a", "number")
      /\ Right("b") <=> HasType(args, "b", "number")
      /\ Right("message") <=> "message" \in DOMAIN args
  BY DEF HasType
<1> HIDE DEF Right
<1>3. ask.tool \in {"kv_get", "kv_delete"} => (Typed(ask) <=> Right("key"))
  BY <1>1, ToolsAre
<1>4. ask.tool = "kv_put" => (Typed(ask) <=> Right("key") /\ Right("value"))
  BY <1>1, ToolsAre
<1>5. ask.tool = "kv_scan" => (Typed(ask) <=> Right("start_key"))
  BY <1>1, ToolsAre
<1>6. ask.tool = "echo" => (Typed(ask) <=> Right("message"))
  BY <1>1, ToolsAre
<1>7. ask.tool = "calculator" => (Typed(ask) <=> Right("operation") /\ Right("a") /\ Right("b"))
  BY <1>1, ToolsAre
<1>8. ask.tool = "unknown" => ~ Typed(ask)
  BY <1>1, ToolsAre
<1> QED BY <1>2, <1>3, <1>4, <1>5, <1>6, <1>7, <1>8

\* What the registry checks is weaker: types are not looked at.
LEMMA TypedIsValid ==
    ASSUME NEW ask, Typed(ask)
    PROVE  ask.tool \in Registered /\ Validates(ask.tool, ask.args)
BY DEF Typed, Validates

-----------------------------------------------------------------------------
(* Stores                                                                  *)

LEMMA StoreIs ==
    ASSUME NEW s \in Stores
    PROVE  /\ DOMAIN s \in SUBSET ToolKeys /\ \A k \in DOMAIN s : s[k] \in ToolValues
           /\ IsFiniteSet(DOMAIN s)
<1>1. PICK ks \in SUBSET ToolKeys : s \in [ks -> ToolValues]
  BY DEF Stores
<1>2. DOMAIN s = ks /\ \A k \in ks : s[k] \in ToolValues
  BY <1>1
<1>3. IsFiniteSet(ks)
  BY ToolNumbers, FS_Subset
<1> QED BY <1>2, <1>3

LEMMA StoreWith ==
    ASSUME NEW s \in Stores, NEW k \in ToolKeys, NEW v \in ToolValues
    PROVE  LET new == [j \in DOMAIN s \cup {k} |-> IF j = k THEN v ELSE s[j]]
           IN  new \in Stores /\ \A j : At(new, j) = IF j = k THEN {v} ELSE At(s, j)
<1> DEFINE ks == DOMAIN s \cup {k}
           new == [j \in ks |-> IF j = k THEN v ELSE s[j]]
<1>1. ks \in SUBSET ToolKeys
  BY StoreIs
<1>2. \A j \in ks : (IF j = k THEN v ELSE s[j]) \in ToolValues
  BY StoreIs
<1>3. new \in [ks -> ToolValues]
  BY <1>2
<1>4. new \in Stores
  <2> HIDE DEF ks, new
  <2> QED BY <1>1, <1>3 DEF Stores
<1>5. \A j : At(new, j) = IF j = k THEN {v} ELSE At(s, j)
  BY DEF At
<1> QED BY <1>4, <1>5

LEMMA StoreWithout ==
    ASSUME NEW s \in Stores, NEW k
    PROVE  LET new == [j \in DOMAIN s \ {k} |-> s[j]]
           IN  new \in Stores /\ \A j : At(new, j) = IF j = k THEN {} ELSE At(s, j)
<1> DEFINE ks == DOMAIN s \ {k}
           new == [j \in ks |-> s[j]]
<1>1. ks \in SUBSET ToolKeys /\ \A j \in ks : s[j] \in ToolValues
  BY StoreIs
<1>2. new \in [ks -> ToolValues]
  BY <1>1
<1>3. new \in Stores
  <2> HIDE DEF ks, new
  <2> QED BY <1>1, <1>2 DEF Stores
<1>4. \A j : At(new, j) = IF j = k THEN {} ELSE At(s, j)
  BY DEF At
<1> QED BY <1>3, <1>4

-----------------------------------------------------------------------------
(* What a ask does                                                        *)

\* What a scan from a start finds.
Found(s, start, most, found) ==
    LET from == {k \in DOMAIN s : k >= start}
    IN  /\ Range(found) \subseteq from
        /\ \A j, m \in DOMAIN found : j < m => found[j] < found[m]
        /\ \A k \in from \ Range(found) :
             Len(found) = most /\ \A seen \in Range(found) : seen < k

\* The promise of one call, on a store.
Does(ask, s) ==
    LET done == Execute(ask, s)
    IN  /\ done.kv \in Stores
        /\ done.ok => Typed(ask)
        /\ Typed(ask) /\ ask.tool # "calculator" => done.ok
        /\ done.ok /\ ask.tool = "kv_get" => done.result = At(s, ask.args.key.value)
        /\ done.ok /\ ask.tool = "kv_scan" =>
             Found(s, ask.args.start_key.value, ScanLimit(ask.args), done.result)
        /\ \A k \in ToolKeys :
             At(done.kv, k) = IF Writes(ask) /\ ask.args.key.value = k THEN Written(ask) ELSE At(s, k)

LEMMA FailsIs ==
    \A s : Fails(s).ok = FALSE /\ Fails(s).kv = s
BY DEF Fails

LEMMA ReturnsIs ==
    \A r, s : Returns(r, s).ok = TRUE /\ Returns(r, s).result = r /\ Returns(r, s).kv = s
BY DEF Returns

LEMMA RefusedDoes ==
    ASSUME NEW ask, NEW s \in Stores, ~ Typed(ask), Execute(ask, s) = Fails(s)
    PROVE  Does(ask, s)
BY FailsIs DEF Does, Writes

LEMMA WritingDoes ==
    ASSUME NEW ask, NEW s \in Stores, Typed(ask), ask.tool \notin {"kv_get", "kv_scan"},
           NEW r, NEW new \in Stores, Execute(ask, s) = Returns(r, new),
           \A k \in ToolKeys :
             At(new, k) = IF Writes(ask) /\ ask.args.key.value = k THEN Written(ask) ELSE At(s, k)
    PROVE  Does(ask, s)
<1>1. /\ Execute(ask, s).ok = TRUE /\ Execute(ask, s).result = r
      /\ Execute(ask, s).kv = new
  BY ReturnsIs
<1> QED BY <1>1 DEF Does

LEMMA GetDoes ==
    ASSUME NEW ask \in Calls, NEW s \in Stores, Typed(ask), ask.tool = "kv_get"
    PROVE  Does(ask, s)
<1>1. Execute(ask, s) = KvGet(ask.args, s)
  BY TypedIsValid DEF Execute, RunTool
<1>2. KvGet(ask.args, s) = Returns(At(s, ask.args.key.value), s)
  BY TypedIs DEF KvGet, At
<1>3. ~ Writes(ask)
  BY DEF Writes
<1> QED BY <1>1, <1>2, <1>3, ReturnsIs DEF Does

LEMMA PutDoes ==
    ASSUME NEW ask \in Calls, NEW s \in Stores, Typed(ask), ask.tool = "kv_put"
    PROVE  Does(ask, s)
<1> DEFINE k == ask.args.key.value
           v == ask.args.value.value
           new == [j \in DOMAIN s \cup {k} |-> IF j = k THEN v ELSE s[j]]
<1>1. HasType(ask.args, "key", "string") /\ HasType(ask.args, "value", "string")
  BY TypedIs
<1>2. k \in ToolKeys /\ v \in ToolValues
  <2>1. IsCall(ask)
    BY CallsAre
  <2>2. "value" \in DOMAIN ask.args
    BY <1>1 DEF HasType
  <2> QED BY <1>1, <2>1, <2>2 DEF IsCall, StorageTools
<1>3. Execute(ask, s) = KvPut(ask.args, s)
  BY TypedIsValid DEF Execute, RunTool
<1>4. KvPut(ask.args, s) = Returns("written", new)
  BY <1>1 DEF KvPut
<1>5. new \in Stores /\ \A j : At(new, j) = IF j = k THEN {v} ELSE At(s, j)
  <2> HIDE DEF k, v
  <2> QED BY <1>2, StoreWith
<1>6. Writes(ask) /\ Written(ask) = {v}
  BY DEF Writes, Written
<1> HIDE DEF new
<1>7. Execute(ask, s) = Returns("written", new) /\ ask.tool \notin {"kv_get", "kv_scan"}
  BY <1>3, <1>4
<1>8. \A j \in ToolKeys :
        At(new, j) = IF Writes(ask) /\ ask.args.key.value = j THEN Written(ask) ELSE At(s, j)
  BY <1>5, <1>6
<1> QED BY <1>5, <1>7, <1>8, WritingDoes

LEMMA DeleteDoes ==
    ASSUME NEW ask \in Calls, NEW s \in Stores, Typed(ask), ask.tool = "kv_delete"
    PROVE  Does(ask, s)
<1> DEFINE k == ask.args.key.value
           new == [j \in DOMAIN s \ {k} |-> s[j]]
<1>1. HasType(ask.args, "key", "string")
  BY TypedIs
<1>2. Execute(ask, s) = KvDelete(ask.args, s)
  BY TypedIsValid DEF Execute, RunTool
<1>3. KvDelete(ask.args, s) = Returns("deleted", new)
  BY <1>1 DEF KvDelete
<1>4. new \in Stores /\ \A j : At(new, j) = IF j = k THEN {} ELSE At(s, j)
  <2> HIDE DEF k
  <2> QED BY StoreWithout
<1>5. Writes(ask) /\ Written(ask) = {}
  BY DEF Writes, Written
<1> HIDE DEF new
<1>6. Execute(ask, s) = Returns("deleted", new) /\ ask.tool \notin {"kv_get", "kv_scan"}
  BY <1>2, <1>3
<1>7. \A j \in ToolKeys :
        At(new, j) = IF Writes(ask) /\ ask.args.key.value = j THEN Written(ask) ELSE At(s, j)
  BY <1>4, <1>5
<1> QED BY <1>4, <1>6, <1>7, WritingDoes

LEMMA CalculatorDoes ==
    ASSUME NEW ask \in Calls, NEW s \in Stores, Typed(ask), ask.tool = "calculator"
    PROVE  Does(ask, s)
<1>1. Execute(ask, s) = Calculator(ask.args, s)
  BY TypedIsValid DEF Execute, RunTool
<1>2. Calculator(ask.args, s).kv = s
  BY FailsIs, ReturnsIs DEF Calculator
<1>3. ~ Writes(ask)
  BY DEF Writes
<1> QED BY <1>1, <1>2, <1>3 DEF Does

LEMMA EchoDoes ==
    ASSUME NEW ask \in Calls, NEW s \in Stores, Typed(ask), ask.tool = "echo"
    PROVE  Does(ask, s)
<1>1. Execute(ask, s) = Echo(ask.args, s)
  BY TypedIsValid DEF Execute, RunTool
<1>2. Echo(ask.args, s).kv = s /\ Echo(ask.args, s).ok = TRUE
  BY ReturnsIs DEF Echo
<1>3. ~ Writes(ask)
  BY DEF Writes
<1> QED BY <1>1, <1>2, <1>3 DEF Does

\* Numbers in their order, each at its rank.
InOrder(keys) ==
    [n \in 1..Cardinality(keys) |-> CHOOSE k \in keys : Cardinality({j \in keys : j < k}) = n - 1]

LEMMA InOrderIs ==
    ASSUME NEW keys \in SUBSET Int, IsFiniteSet(keys)
    PROVE  /\ Cardinality(keys) \in Nat
           /\ InOrder(keys) \in [1..Cardinality(keys) -> keys]
           /\ \A n, m \in 1..Cardinality(keys) : n < m => InOrder(keys)[n] < InOrder(keys)[m]
           /\ \A k \in keys : \E n \in 1..Cardinality(keys) : InOrder(keys)[n] = k
<1> DEFINE size == Cardinality(keys)
           R == {p \in keys \X keys : p[1] < p[2]}
           Place(k) == Cardinality({j \in keys : j < k})
           found == InOrder(keys)
<1>1. \A i, j \in keys : (<<i, j>> \in R <=> i < j) /\ i \in Int /\ j \in Int
  OBVIOUS
<1>2. \A k \in keys : Place(k) = RankBy(R, keys, k)
  <2>1. \A k \in keys : {j \in keys : j < k} = Under(R, keys, k)
    BY DEF Under
  <2> QED BY <2>1 DEF RankBy
<1>3. found = [n \in 1..size |-> CHOOSE k \in keys : Place(k) = n - 1]
  BY DEF InOrder
<1> HIDE DEF R, Place, found, size
<1>4. Orders(R, keys)
  <2>1. \A i \in keys : <<i, i>> \notin R
    BY <1>1
  <2>2. \A i, j, k \in keys : <<i, j>> \in R /\ <<j, k>> \in R => <<i, k>> \in R
    BY <1>1
  <2>3. \A i, j \in keys : i # j => <<i, j>> \in R \/ <<j, i>> \in R
    BY <1>1
  <2> QED BY <2>1, <2>2, <2>3 DEF Orders
<1>5. /\ size \in Nat
      /\ \A n \in 1..size : \E k \in keys : Place(k) = n - 1
      /\ \A i, j \in keys : Place(i) = Place(j) => i = j
  <2>1. /\ size \in Nat
        /\ \A n \in 1..size : \E k \in keys : RankBy(R, keys, k) = n - 1
        /\ \A i, j \in keys : RankBy(R, keys, i) = RankBy(R, keys, j) => i = j
    BY <1>4, RanksCover, Zenon DEF size
  <2> QED BY <1>2, <2>1
<1>6. \A i \in keys : Place(i) \in 0..(size - 1)
  <2>1. \A i \in keys : RankBy(R, keys, i) \in 0..(size - 1)
    BY <1>4, RanksClimb DEF size
  <2> QED BY <1>2, <2>1
<1>7. \A i, j \in keys : i < j => Place(i) < Place(j)
  <2>1. \A i, j \in keys : <<i, j>> \in R => RankBy(R, keys, i) < RankBy(R, keys, j)
    BY <1>4, RanksClimb
  <2> QED BY <1>1, <1>2, <2>1
<1>8. \A n \in 1..size : found[n] \in keys /\ Place(found[n]) = n - 1
  BY <1>3, <1>5
<1>9. found \in [1..size -> keys]
  BY <1>3, <1>8
<1>10. ASSUME NEW n \in 1..size, NEW m \in 1..size, n < m PROVE found[n] < found[m]
  <2>1. PICK i \in keys, j \in keys : i = found[n] /\ j = found[m]
    BY <1>8
  <2>2. Place(i) = n - 1 /\ Place(j) = m - 1
    BY <1>8, <2>1
  <2>3. ~ (Place(j) <= Place(i)) /\ Place(i) # Place(j)
    BY <1>5, <1>10, <2>2
  <2>4. i # j /\ ~ (j < i)
    BY <1>6, <1>7, <2>3
  <2> QED BY <1>1, <2>1, <2>4
<1>11. ASSUME NEW k \in keys PROVE \E n \in 1..size : found[n] = k
  <2>1. PICK n : n = Place(k) + 1
    OBVIOUS
  <2>2. n \in 1..size /\ n - 1 = Place(k)
    BY <1>5, <1>6, <2>1
  <2>3. Place(found[n]) = Place(k) /\ found[n] \in keys
    BY <1>8, <2>2
  <2> QED BY <1>5, <2>2, <2>3
<1> QED BY <1>5, <1>9, <1>10, <1>11 DEF size, found

LEMMA ScanDoes ==
    ASSUME NEW ask \in Calls, NEW s \in Stores, Typed(ask), ask.tool = "kv_scan"
    PROVE  Does(ask, s)
<1> DEFINE start == ask.args.start_key.value
           most == ScanLimit(ask.args)
           keys == {k \in DOMAIN s : k >= start}
           size == Cardinality(keys)
           all == InOrder(keys)
           top == IF most < size THEN most ELSE size
           found == SubSeq(all, 1, top)
<1>1. HasType(ask.args, "start_key", "string") /\ most \in Nat
  BY TypedIs, CallsAre DEF IsCall
<1>2. Execute(ask, s) = KvScan(ask.args, s)
  BY TypedIsValid DEF Execute, RunTool
<1>3. KvScan(ask.args, s) = Returns(found, s)
  BY <1>1 DEF KvScan, InOrder
<1>4. keys \in SUBSET Int /\ IsFiniteSet(keys)
  <2>1. DOMAIN s \in SUBSET ToolKeys /\ IsFiniteSet(DOMAIN s)
    BY StoreIs
  <2>2. keys \in SUBSET DOMAIN s
    OBVIOUS
  <2> HIDE DEF keys
  <2> QED BY <2>1, <2>2, ToolNumbers, FS_Subset
<1> HIDE DEF keys
<1>5. /\ size \in Nat /\ all \in [1..size -> keys]
      /\ \A n, m \in 1..size : n < m => all[n] < all[m]
      /\ \A k \in keys : \E n \in 1..size : all[n] = k
  BY <1>4, InOrderIs
<1> HIDE DEF most, all, size
<1>6. top \in 0..size /\ (top = size \/ top = most)
  BY <1>1, <1>5
<1> HIDE DEF top
<1>7. all \in Seq(keys) /\ Len(all) = size
  BY <1>5
<1>8. DOMAIN found = 1..top /\ Len(found) = top /\ \A n \in 1..top : found[n] = all[n]
  BY <1>5, <1>6, <1>7
<1>9. \A n \in 1..top : n \in 1..size
  BY <1>5, <1>6
<1> HIDE DEF found
<1>10. Range(found) \subseteq keys
  BY <1>5, <1>8, <1>9 DEF Range
<1>11. \A j, m \in DOMAIN found : j < m => found[j] < found[m]
  BY <1>5, <1>8, <1>9
<1>12. ASSUME NEW k \in keys \ Range(found)
       PROVE  Len(found) = most /\ \A seen \in Range(found) : seen < k
  <2>1. PICK n \in 1..size : all[n] = k
    BY <1>5
  <2>2. n \notin 1..top
    BY <1>8, <2>1 DEF Range
  <2>3. top < n /\ top # size
    BY <1>5, <1>6, <2>2
  <2>4. ASSUME NEW seen \in Range(found) PROVE seen < k
    <3>1. PICK m \in 1..top : seen = all[m]
      BY <1>8 DEF Range
    <3>2. m \in 1..size /\ m < n
      BY <1>5, <1>6, <2>3, <1>9
    <3> QED BY <1>5, <2>1, <3>1, <3>2
  <2> QED BY <1>6, <1>8, <2>3, <2>4
<1>13. Found(s, start, most, found)
  BY <1>10, <1>11, <1>12 DEF Found, keys
<1>14. ~ Writes(ask)
  BY DEF Writes
<1>15. Execute(ask, s) = Returns(found, s)
  BY <1>2, <1>3
<1>16. Execute(ask, s).ok = TRUE /\ Execute(ask, s).result = found /\ Execute(ask, s).kv = s
  BY <1>15, ReturnsIs
<1> QED BY <1>13, <1>14, <1>16 DEF Does, most

\* An error leaves the store alone.
LEMMA UntypedDoes ==
    ASSUME NEW ask \in Calls, NEW s \in Stores, ~ Typed(ask)
    PROVE  Does(ask, s)
<1>1. CASE ~ (ask.tool \in Registered /\ Validates(ask.tool, ask.args))
  <2>1. Execute(ask, s) = Fails(s)
    BY <1>1 DEF Execute
  <2> QED BY <2>1, RefusedDoes
<1>2. CASE ask.tool \in Registered /\ Validates(ask.tool, ask.args)
  <2>1. Execute(ask, s) = RunTool(ask.tool, ask.args, s)
    BY <1>2 DEF Execute
  <2>2. CASE ask.tool = "kv_get"
    <3>1. RunTool(ask.tool, ask.args, s) = Fails(s)
      BY <2>2, TypedIs DEF RunTool, KvGet
    <3> QED BY <2>1, <3>1, RefusedDoes
  <2>3. CASE ask.tool = "kv_put"
    <3>1. RunTool(ask.tool, ask.args, s) = Fails(s)
      BY <2>3, TypedIs DEF RunTool, KvPut
    <3> QED BY <2>1, <3>1, RefusedDoes
  <2>4. CASE ask.tool = "kv_delete"
    <3>1. RunTool(ask.tool, ask.args, s) = Fails(s)
      BY <2>4, TypedIs DEF RunTool, KvDelete
    <3> QED BY <2>1, <3>1, RefusedDoes
  <2>5. CASE ask.tool = "kv_scan"
    <3>1. RunTool(ask.tool, ask.args, s) = Fails(s)
      BY <2>5, TypedIs DEF RunTool, KvScan
    <3> QED BY <2>1, <3>1, RefusedDoes
  <2>6. CASE ask.tool = "calculator"
    <3>1. RunTool(ask.tool, ask.args, s) = Fails(s)
      BY <2>6, TypedIs DEF RunTool, Calculator
    <3> QED BY <2>1, <3>1, RefusedDoes
  <2>7. CASE ask.tool = "echo"
    BY <1>2, <2>7, TypedIs, ToolsAre DEF Validates
  <2> QED BY <1>2, <2>2, <2>3, <2>4, <2>5, <2>6, <2>7, ToolsAre
<1> QED BY <1>1, <1>2

LEMMA CallsDo == \A ask \in Calls, s \in Stores : Does(ask, s)
<1> SUFFICES ASSUME NEW ask \in Calls, NEW s \in Stores, Typed(ask) PROVE Does(ask, s)
  BY UntypedDoes
<1>1. ask.tool \in {"kv_get", "kv_put", "kv_delete", "kv_scan", "calculator", "echo"}
  BY TypedIsValid, ToolsAre
<1> QED BY <1>1, GetDoes, PutDoes, DeleteDoes, ScanDoes, CalculatorDoes, EchoDoes

-----------------------------------------------------------------------------
(* Batches                                                                 *)

LEMMA StoresAfterAre ==
    ASSUME NEW calls \in Seq(Calls), NEW s \in Stores
    PROVE  LET stores == StoresAfter(calls, s)
           IN  /\ stores \in [0..Len(calls) -> Stores] /\ stores[0] = s
               /\ \A n \in 1..Len(calls) : stores[n] = Execute(calls[n], stores[n - 1]).kv
<1> DEFINE L == Len(calls)
           G == [n \in 1..L |-> [t \in Stores |-> Execute(calls[n], t).kv]]
           Body(f, n) == IF n = 0 THEN s ELSE Execute(calls[n], f[n - 1]).kv
           Loop(f) == f = [n \in 0..L |-> Body(f, n)]
           After == CHOOSE f : Loop(f)
<1>1. L \in Nat /\ \A n \in 1..L : calls[n] \in Calls
  OBVIOUS
<1>2. StoresAfter(calls, s) = After
  BY DEF StoresAfter
<1>3. \A f : Body(f, 0) = s
  OBVIOUS
<1>4. \A f : \A n \in 1..L : Body(f, n) = Execute(calls[n], f[n - 1]).kv
  BY <1>1
<1> HIDE DEF L, Body
<1>5. \A n \in 1..L : \A t \in Stores : G[n][t] = Execute(calls[n], t).kv
  OBVIOUS
<1>6. G \in StepMaps(L, Stores)
  <2>1. \A n \in 1..L : \A t \in Stores : Execute(calls[n], t).kv \in Stores
    BY <1>1, CallsDo DEF Does
  <2> QED BY <2>1 DEF StepMaps
<1> HIDE DEF G
<1>7. PICK f : StepRun(f, L, Stores, s, G)
  BY <1>1, <1>6, StepsExist
<1>8. f \in [0..L -> Stores] /\ f[0] = s /\ \A n \in 1..L : f[n] = G[n][f[n - 1]]
  BY <1>7 DEF StepRun
<1>9. \A n \in 0..L : f[n] = Body(f, n)
  <2> SUFFICES ASSUME NEW n \in 0..L PROVE f[n] = Body(f, n)
    OBVIOUS
  <2>1. CASE n = 0
    BY <1>3, <1>8, <2>1
  <2>2. CASE n # 0
    <3>1. n \in 1..L /\ n - 1 \in 0..L
      BY <1>1, <2>2
    <3>2. PICK t \in Stores : t = f[n - 1]
      BY <1>8, <3>1
    <3>3. f[n] = G[n][t]
      BY <1>8, <3>1, <3>2
    <3>4. Body(f, n) = Execute(calls[n], t).kv
      BY <1>4, <3>1, <3>2
    <3> QED BY <1>5, <3>1, <3>3, <3>4
  <2> QED BY <2>1, <2>2
<1>10. Loop(f)
  BY <1>8, <1>9
<1>11. Loop(After)
  BY <1>10
<1> HIDE DEF After
<1>12. \A n \in 0..L : After[n] = Body(After, n)
  BY <1>11
<1> DEFINE Good == {n \in 0..L : After[n] \in Stores}
<1>13. 0 \in Good
  BY <1>1, <1>3, <1>12
<1>14. \A n \in 1..L : After[n] = Execute(calls[n], After[n - 1]).kv
  <2>1. \A n \in 1..L : n \in 0..L
    BY <1>1
  <2> QED BY <1>4, <1>12, <2>1
<1>15. ASSUME NEW m \in 0..L, m < L, m \in Good PROVE m + 1 \in Good
  <2>1. m + 1 \in 1..L /\ m + 1 \in 0..L /\ (m + 1) - 1 = m
    BY <1>1, <1>15
  <2>2. After[m + 1] = Execute(calls[m + 1], After[m]).kv /\ After[m] \in Stores
    BY <1>14, <1>15, <2>1
  <2>3. After[m + 1] \in Stores
    BY <1>1, <2>1, <2>2, CallsDo DEF Does
  <2> QED BY <2>1, <2>3
<1>16. \A n \in 0..L : n \in Good
  <2> HIDE DEF Good
  <2> QED BY <1>1, <1>13, <1>15, Climbing
<1>17. DOMAIN After = 0..L /\ After = [n \in 0..L |-> After[n]]
  BY <1>11
<1>18. After \in [0..L -> Stores] /\ After[0] = s
  <2>1. After[0] = s
    BY <1>1, <1>3, <1>12
  <2> QED BY <1>16, <1>17, <2>1
<1> QED BY <1>2, <1>14, <1>18 DEF L

\* A batch as it is remembered.
IsBatch(b, stores) ==
    /\ b.before \in Stores /\ b.calls \in Seq(Calls)
    /\ stores = StoresAfter(b.calls, b.before)

\* The writes of the calls so far, replayed, are what the store has.
LEMMA HoldsIs ==
    ASSUME NEW b, NEW stores, IsBatch(b, stores), NEW k \in ToolKeys
    PROVE  \A n \in 0..Len(b.calls) : Holds(b, n + 1, k) = At(stores[n], k)
<1> DEFINE L == Len(b.calls)
           calls == b.calls
           W(i) == Writes(calls[i]) /\ calls[i].args.key.value = k
           Good == {n \in 0..L : Holds(b, n + 1, k) = At(stores[n], k)}
<1>1. L \in Nat /\ \A i \in 1..L : calls[i] \in Calls
  BY DEF IsBatch
<1>2. /\ stores \in [0..L -> Stores] /\ stores[0] = b.before
      /\ \A n \in 1..L : stores[n] = Execute(calls[n], stores[n - 1]).kv
  BY StoresAfterAre DEF IsBatch
<1>3. \A n : Wrote(b, n, k) = {i \in 1..(n - 1) : W(i)}
  BY DEF Wrote, Writes
<1>4. 0 \in Good
  <2>1. Wrote(b, 0 + 1, k) = {}
    BY <1>3
  <2>2. Holds(b, 0 + 1, k) = At(stores[0], k)
    BY <1>2, <2>1 DEF Holds, At
  <2> QED BY <1>1, <2>2
<1>5. ASSUME NEW m \in 0..L, m < L, m \in Good PROVE m + 1 \in Good
  <2>1. m + 1 \in 1..L /\ m + 1 \in 0..L /\ (m + 1) - 1 = m /\ m \in Nat
    BY <1>1, <1>5
  <2> DEFINE ask == calls[m + 1]
             now == Wrote(b, (m + 1) + 1, k)
             then == Wrote(b, m + 1, k)
  <2>2. ask \in Calls /\ stores[m] \in Stores /\ stores[m + 1] = Execute(ask, stores[m]).kv
    BY <1>1, <1>2, <2>1
  <2>3. At(stores[m + 1], k) = IF W(m + 1) THEN Written(ask) ELSE At(stores[m], k)
    BY <2>2, CallsDo DEF Does
  <2>4. now = {i \in 1..(m + 1) : W(i)} /\ then = {i \in 1..m : W(i)}
    <3>1. ((m + 1) + 1) - 1 = m + 1 /\ (m + 1) - 1 = m
      BY <2>1
    <3> QED BY <1>3, <3>1
  <2>5. CASE W(m + 1)
    <3>1. m + 1 \in now /\ \A j \in now : j <= m + 1 /\ j \in Int
      BY <2>1, <2>4, <2>5
    <3>2. (CHOOSE i \in now : \A j \in now : j <= i) = m + 1
      <4> HIDE DEF now
      <4>1. \A i \in now : (\A j \in now : j <= i) => i = m + 1
        BY <2>1, <3>1
      <4> QED BY <3>1, <4>1
    <3>3. Holds(b, (m + 1) + 1, k) = Written(ask)
      BY <3>1, <3>2, <2>5 DEF Holds, Written, Writes
    <3> QED BY <2>1, <2>3, <2>5, <3>3
  <2>6. CASE ~ W(m + 1)
    <3>1. now = then
      <4> HIDE DEF W
      <4>1. \A i \in 1..(m + 1) : i = m + 1 \/ i \in 1..m
        BY <2>1
      <4>2. \A i \in 1..m : i \in 1..(m + 1)
        BY <2>1
      <4> QED BY <2>4, <2>6, <4>1, <4>2
    <3>2. Holds(b, (m + 1) + 1, k) = Holds(b, m + 1, k)
      BY <3>1 DEF Holds
    <3> QED BY <1>5, <2>1, <2>3, <2>6, <3>2
  <2> QED BY <2>5, <2>6
<1>6. \A n \in 0..L : n \in Good
  <2> HIDE DEF Good
  <2> QED BY <1>1, <1>4, <1>5, Climbing
<1> QED BY <1>6

ToolsInv == kv \in Stores /\ BatchesInOrder

LEMMA DispatchInOrder ==
    ASSUME kv \in Stores, NEW calls \in Seq(Calls), Dispatch(calls)
    PROVE  ToolsInv'
<1> DEFINE stores == StoresAfter(calls, kv)
           done == DispatchBatch(calls, kv)
           b == [before |-> kv, calls |-> calls, outputs |-> done.outputs]
           L == Len(calls)
           Output(n) == LET x == Execute(calls[n], stores[n - 1])
                        IN  [ok |-> x.ok, result |-> x.result]
<1>1. kv' = done.kv /\ batch' = {b}
  BY DEF Dispatch
<1>2. done.outputs = [n \in 1..L |-> Output(n)] /\ done.kv = stores[L]
  BY DEF DispatchBatch
<1>3. IsBatch(b, stores)
  BY DEF IsBatch
<1>4. b.before = kv /\ b.calls = calls /\ b.outputs = done.outputs
  OBVIOUS
<1>5. L \in Nat /\ DOMAIN calls = 1..L /\ \A i \in 1..L : calls[i] \in Calls
  OBVIOUS
<1>6. /\ stores \in [0..L -> Stores]
      /\ \A n \in 1..L : stores[n] = Execute(calls[n], stores[n - 1]).kv
  BY StoresAfterAre
<1>7. \A k \in ToolKeys : \A n \in 0..L : Holds(b, n + 1, k) = At(stores[n], k)
  BY <1>3, <1>4, HoldsIs
<1> HIDE DEF done, b, stores, L
<1>8. kv' \in Stores
  BY <1>1, <1>2, <1>5, <1>6
<1>9. Len(b.outputs) = Len(b.calls)
  <2>1. Len(done.outputs) = L
    BY <1>2, <1>5
  <2> QED BY <1>4, <2>1 DEF L
<1>10. ASSUME NEW i \in 1..L PROVE OutputInOrder(b, i)
  <2> DEFINE ask == calls[i]
             s == stores[i - 1]
             x == Execute(ask, s)
             out == b.outputs[i]
             start == ask.args.start_key.value
             from == {k \in ToolKeys : k >= start /\ Holds(b, i, k) # {}}
  <2>1. i - 1 \in 0..L /\ (i - 1) + 1 = i
    BY <1>5
  <2>2. ask \in Calls /\ s \in Stores
    BY <1>5, <1>6, <2>1
  <2>3. out.ok = x.ok /\ out.result = x.result
    <3>1. out = Output(i)
      BY <1>2, <1>4
    <3> QED BY <3>1
  <2>4. \A k \in ToolKeys : Holds(b, i, k) = At(s, k)
    BY <1>7, <2>1
  <2>5. Does(ask, s)
    BY <2>2, CallsDo
  <2>6. ask.tool \in StorageTools /\ HasType(ask.args, "key", "string") => ask.args.key.value \in ToolKeys
    BY <2>2, CallsAre DEF IsCall
  <2> HIDE DEF ask, s, out
  <2>7. from = {k \in DOMAIN s : k >= start}
    <3>1. DOMAIN s \in SUBSET ToolKeys
      BY <2>2, StoreIs
    <3>2. \A k : At(s, k) # {} <=> k \in DOMAIN s
      BY DEF At
    <3> QED BY <2>4, <3>1, <3>2
  <2>8. out.ok /\ ask.tool = "kv_get" => out.result = Holds(b, i, ask.args.key.value)
    <3> SUFFICES ASSUME out.ok, ask.tool = "kv_get" PROVE out.result = Holds(b, i, ask.args.key.value)
      OBVIOUS
    <3>1. Typed(ask) /\ out.result = At(s, ask.args.key.value)
      BY <2>3, <2>5 DEF Does
    <3>2. ask.args.key.value \in ToolKeys
      BY <2>6, <3>1, TypedIs DEF StorageTools
    <3> QED BY <2>4, <3>1, <3>2
  <2> HIDE DEF from, start
  <2>9. out.ok /\ ask.tool = "kv_scan" => Found(s, start, ScanLimit(ask.args), out.result)
    BY <2>3, <2>5 DEF Does, start
  <2>10. out.ok /\ ask.tool = "kv_scan" =>
           /\ Range(out.result) \subseteq from
           /\ \A j, m \in DOMAIN out.result : j < m => out.result[j] < out.result[m]
           /\ \A k \in from \ Range(out.result) :
                /\ Len(out.result) = ScanLimit(ask.args)
                /\ \A seen \in Range(out.result) : seen < k
    BY <2>7, <2>9 DEF Found
  <2>11. (out.ok => Typed(ask)) /\ (Typed(ask) /\ ask.tool # "calculator" => out.ok)
    BY <2>3, <2>5 DEF Does
  <2>12. b.calls[i] = ask
    BY <1>4 DEF ask
  <2> QED BY <2>8, <2>10, <2>11, <2>12 DEF OutputInOrder, from, start, out
<1>11. ASSUME NEW k \in ToolKeys
       PROVE  Holds(b, Len(b.calls) + 1, k) = IF k \in DOMAIN kv' THEN {kv'[k]} ELSE {}
  <2>1. Holds(b, L + 1, k) = At(stores[L], k)
    BY <1>5, <1>7
  <2> QED BY <1>1, <1>2, <1>4, <2>1 DEF At, L
<1>12. Len(b.calls) = L
  BY <1>4 DEF L
<1>13. BatchesInOrder'
  BY <1>1, <1>9, <1>10, <1>11, <1>12 DEF BatchesInOrder
<1> QED BY <1>8, <1>13 DEF ToolsInv

LEMMA InitToolsInv == ToolsInit => ToolsInv
BY DEF ToolsInit, ToolsInv, BatchesInOrder, Stores

LEMMA NextToolsInv == ToolsInv /\ [ToolsNext]_toolVars => ToolsInv'
<1> SUFFICES ASSUME ToolsInv, [ToolsNext]_toolVars PROVE ToolsInv'
  OBVIOUS
<1>1. ASSUME NEW calls \in Seq(Calls), Dispatch(calls) PROVE ToolsInv'
  BY <1>1, DispatchInOrder DEF ToolsInv
<1>2. ASSUME NEW n \in 0..MaxBatch,
             NEW calls \in [1..n -> {c \in Calls : c.tool \in {"kv_get", "kv_put", "kv_delete"}}]
      PROVE  calls \in Seq(Calls)
  <2>1. n \in Nat
    BY ToolNumbers
  <2>2. calls \in [1..n -> Calls]
    OBVIOUS
  <2> QED BY <2>1, <2>2
<1>3. \A ask \in Calls : <<ask>> \in Seq(Calls)
  OBVIOUS
<1>4. CASE UNCHANGED toolVars
  BY <1>4 DEF toolVars, ToolsInv, BatchesInOrder
<1> QED BY <1>1, <1>2, <1>3, <1>4 DEF ToolsNext

\* The calls of a batch take effect one after the other, those that cannot be done have none.
THEOREM BatchesTakeEffectInOrder == ToolsSpec => []BatchesInOrder
<1>1. ToolsInv => BatchesInOrder
  BY DEF ToolsInv
<1>2. ToolsInv /\ [ToolsNext]_toolVars => ToolsInv'
  BY NextToolsInv
<1> QED BY <1>1, <1>2, InitToolsInv, PTL DEF ToolsSpec

-----------------------------------------------------------------------------
(* The lines of the shell                                                  *)

\* A state of the scanner, by its parts.
Scanner(t, c, o) == [tokens |-> t, current |-> c, open |-> o]

Flags == {"single", "double", "backslash"}
Scanners == [tokens : Seq(Seq(Chars)), current : Seq(Chars), open : SUBSET Flags]

LEMMA ScannerIs ==
    ASSUME NEW s \in Scanners
    PROVE  s = Scanner(s.tokens, s.current, s.open)
BY DEF Scanners, Scanner

LEMMA ScannersHave ==
    ASSUME NEW t \in Seq(Seq(Chars)), NEW c \in Seq(Chars), NEW o \in SUBSET Flags
    PROVE  Scanner(t, c, o) \in Scanners
BY DEF Scanners, Scanner

LEMMA ScannerHas ==
    \A t, c, o : /\ Scanner(t, c, o).tokens = t /\ Scanner(t, c, o).current = c
                 /\ Scanner(t, c, o).open = o
BY DEF Scanner

\* What can happen to a state.
LEMMA TakenIs ==
    \A t, c, o, ch : Taken(Scanner(t, c, o), ch) = Scanner(t, Append(c, ch), o \ {"backslash"})
BY DEF Taken, Scanner

LEMMA TurnedIs ==
    \A t, c, o, ch : /\ ch \in o => Turned(Scanner(t, c, o), ch) = Scanner(t, c, o \ {ch})
                     /\ ch \notin o => Turned(Scanner(t, c, o), ch) = Scanner(t, c, o \cup {ch})
BY DEF Turned, Scanner

LEMMA FlushedIs ==
    \A t, c, o : /\ c = << >> => Flushed(Scanner(t, c, o)) = Scanner(t, << >>, o)
                 /\ c # << >> => Flushed(Scanner(t, c, o)) = Scanner(Append(t, c), << >>, o)
BY DEF Flushed, Scanner

\* When it happens.
LEMMA ScanIs ==
    ASSUME NEW s, NEW ch
    PROVE  /\ "backslash" \in s.open => Scan(s, ch) = Taken(s, ch)
           /\ "backslash" \notin s.open => Scan(s, "backslash") = Turned(s, "backslash")
           /\ \A quote \in {"single", "double"} :
                /\ s.open \in {{}, {quote}} => Scan(s, quote) = Turned(s, quote)
                /\ s.open = {quote} /\ ch \notin {"backslash", quote} => Scan(s, ch) = Taken(s, ch)
           /\ s.open = {} => Scan(s, Blank) = Flushed(s)
           /\ Scan(s, ch) \in {Taken(s, ch), Flushed(s)} \/ (Scan(s, ch) = Turned(s, ch) /\ ch \in Flags)
BY DEF Scan, Blank, Flags

\* A backslash makes the next character one to be taken.
LEMMA ScanEscaped ==
    ASSUME NEW t, NEW c, NEW o, "backslash" \notin o, NEW ch
    PROVE  Scan(Scan(Scanner(t, c, o), "backslash"), ch) = Scanner(t, Append(c, ch), o)
<1> DEFINE s == Scanner(t, c, o)
           e == Scanner(t, c, o \cup {"backslash"})
<1>1. Scan(s, "backslash") = e
  <2>1. s.open = o
    BY ScannerHas
  <2>2. Scan(s, "backslash") = Turned(s, "backslash")
    BY <2>1, ScanIs
  <2> QED BY <2>2, TurnedIs
<1>2. Scan(e, ch) = Scanner(t, Append(c, ch), (o \cup {"backslash"}) \ {"backslash"})
  <2>1. e.open = o \cup {"backslash"}
    BY ScannerHas
  <2>2. Scan(e, ch) = Taken(e, ch)
    BY <2>1, ScanIs
  <2> QED BY <2>2, TakenIs
<1>3. (o \cup {"backslash"}) \ {"backslash"} = o
  OBVIOUS
<1> QED BY <1>1, <1>2, <1>3

\* A quote opens and closes.
LEMMA ScanQuotes ==
    ASSUME NEW t, NEW c, NEW quote \in {"single", "double"}
    PROVE  /\ Scan(Scanner(t, c, {}), quote) = Scanner(t, c, {quote})
           /\ Scan(Scanner(t, c, {quote}), quote) = Scanner(t, c, {})
<1>1. Scan(Scanner(t, c, {}), quote) = Scanner(t, c, {quote})
  <2>1. Scan(Scanner(t, c, {}), quote) = Turned(Scanner(t, c, {}), quote)
    BY ScannerHas, ScanIs
  <2>2. quote \notin {} /\ {} \cup {quote} = {quote}
    OBVIOUS
  <2> QED BY <2>1, <2>2, TurnedIs
<1>2. Scan(Scanner(t, c, {quote}), quote) = Scanner(t, c, {})
  <2>1. Scan(Scanner(t, c, {quote}), quote) = Turned(Scanner(t, c, {quote}), quote)
    BY ScannerHas, ScanIs
  <2>2. quote \in {quote} /\ {quote} \ {quote} = {}
    OBVIOUS
  <2> QED BY <2>1, <2>2, TurnedIs
<1> QED BY <1>1, <1>2

\* A blank ends a word.
LEMMA ScanBlank ==
    ASSUME NEW t, NEW c
    PROVE  /\ c = << >> => Scan(Scanner(t, c, {}), Blank) = Scanner(t, << >>, {})
           /\ c # << >> => Scan(Scanner(t, c, {}), Blank) = Scanner(Append(t, c), << >>, {})
<1>1. Scan(Scanner(t, c, {}), Blank) = Flushed(Scanner(t, c, {}))
  BY ScannerHas, ScanIs
<1> QED BY <1>1, FlushedIs

\* Between quotes all else is taken.
LEMMA ScanOther ==
    ASSUME NEW quote \in {"single", "double"}, NEW t
    PROVE  \A c, ch : ch # "backslash" /\ ch # quote =>
             Scan(Scanner(t, c, {quote}), ch) = Scanner(t, Append(c, ch), {quote})
<1> SUFFICES ASSUME NEW c, NEW ch, ch # "backslash", ch # quote
             PROVE  Scan(Scanner(t, c, {quote}), ch) = Scanner(t, Append(c, ch), {quote})
  OBVIOUS
<1>1. Scan(Scanner(t, c, {quote}), ch) = Taken(Scanner(t, c, {quote}), ch)
  BY ScannerHas, ScanIs
<1>2. {quote} \ {"backslash"} = {quote}
  OBVIOUS
<1> QED BY <1>1, <1>2, TakenIs

LEMMA ScanKeeps ==
    ASSUME NEW s \in Scanners, NEW ch \in Chars
    PROVE  Scan(s, ch) \in Scanners
<1>1. PICK t, c, o : t = s.tokens /\ c = s.current /\ o = s.open
  OBVIOUS
<1>2. t \in Seq(Seq(Chars)) /\ c \in Seq(Chars) /\ o \in SUBSET Flags
  BY <1>1 DEF Scanners
<1>3. s = Scanner(t, c, o)
  BY <1>1, ScannerIs
<1>4. Append(c, ch) \in Seq(Chars) /\ Append(t, c) \in Seq(Seq(Chars)) /\ << >> \in Seq(Chars)
  BY <1>2
<1>5. Taken(s, ch) \in Scanners
  <2>1. o \ {"backslash"} \in SUBSET Flags
    BY <1>2
  <2>2. Scanner(t, Append(c, ch), o \ {"backslash"}) \in Scanners
    BY <1>2, <1>4, <2>1, ScannersHave
  <2> QED BY <1>3, <2>2, TakenIs
<1>6. ch \in Flags => Turned(s, ch) \in Scanners
  <2> SUFFICES ASSUME ch \in Flags PROVE Turned(s, ch) \in Scanners
    OBVIOUS
  <2>1. Scanner(t, c, o \ {ch}) \in Scanners
    <3>1. o \ {ch} \in SUBSET Flags
      BY <1>2
    <3> QED BY <1>2, <3>1, ScannersHave
  <2>2. Scanner(t, c, o \cup {ch}) \in Scanners
    <3>1. o \cup {ch} \in SUBSET Flags
      BY <1>2
    <3> QED BY <1>2, <3>1, ScannersHave
  <2> QED BY <1>3, <2>1, <2>2, TurnedIs
<1>7. Flushed(s) \in Scanners
  <2>1. Scanner(t, << >>, o) \in Scanners /\ Scanner(Append(t, c), << >>, o) \in Scanners
    BY <1>2, <1>4, ScannersHave
  <2> QED BY <1>3, <2>1, FlushedIs
<1> QED BY <1>5, <1>6, <1>7, ScanIs

\* A line, scanned step by step.
Follows(f, line, s) ==
    /\ f \in [0..Len(line) -> Scanners] /\ f[0] = s
    /\ \A n \in 1..Len(line) : f[n] = Scan(f[n - 1], line[n])

LEMMA FollowsOnce ==
    ASSUME NEW line \in Seq(Chars), NEW s, NEW f, NEW g, Follows(f, line, s),
           DOMAIN g = 0..Len(line), g[0] = s, \A n \in 1..Len(line) : g[n] = Scan(g[n - 1], line[n])
    PROVE  g[Len(line)] = f[Len(line)]
<1> DEFINE L == Len(line)
           Good == {n \in 0..L : g[n] = f[n]}
<1>1. L \in Nat
  OBVIOUS
<1>2. f[0] = s /\ \A n \in 1..L : f[n] = Scan(f[n - 1], line[n])
  BY DEF Follows
<1>3. 0 \in Good
  BY <1>1, <1>2
<1>4. ASSUME NEW m \in 0..L, m < L, m \in Good PROVE m + 1 \in Good
  <2>1. m + 1 \in 1..L /\ m + 1 \in 0..L /\ (m + 1) - 1 = m
    BY <1>1, <1>4
  <2> QED BY <1>2, <1>4, <2>1
<1>5. \A n \in 0..L : n \in Good
  <2> HIDE DEF Good
  <2> QED BY <1>1, <1>3, <1>4, Climbing
<1> QED BY <1>1, <1>5

LEMMA ScannedIs ==
    ASSUME NEW line \in Seq(Chars), NEW s \in Scanners
    PROVE  \E f : Follows(f, line, s) /\ Scanned(line, s) = f[Len(line)]
<1> DEFINE L == Len(line)
           G == [n \in 1..L |-> [t \in Scanners |-> Scan(t, line[n])]]
           Body(f, n) == IF n = 0 THEN s ELSE Scan(f[n - 1], line[n])
           Loop(f) == f = [n \in 0..L |-> Body(f, n)]
           After == CHOOSE f : Loop(f)
<1>1. L \in Nat /\ \A n \in 1..L : line[n] \in Chars
  OBVIOUS
<1>2. Scanned(line, s) = After[L]
  BY DEF Scanned
<1>3. \A f : Body(f, 0) = s
  OBVIOUS
<1>4. \A f : \A n \in 1..L : Body(f, n) = Scan(f[n - 1], line[n])
  BY <1>1
<1> HIDE DEF L, Body
<1>5. \A n \in 1..L : \A t \in Scanners : G[n][t] = Scan(t, line[n])
  OBVIOUS
<1>6. G \in StepMaps(L, Scanners)
  <2>1. \A n \in 1..L : \A t \in Scanners : Scan(t, line[n]) \in Scanners
    BY <1>1, ScanKeeps
  <2> QED BY <2>1 DEF StepMaps
<1> HIDE DEF G
<1>7. PICK f : StepRun(f, L, Scanners, s, G)
  BY <1>1, <1>6, StepsExist
<1>8. f \in [0..L -> Scanners] /\ f[0] = s /\ \A n \in 1..L : f[n] = G[n][f[n - 1]]
  BY <1>7 DEF StepRun
<1>9. \A n \in 1..L : f[n] = Scan(f[n - 1], line[n])
  <2> SUFFICES ASSUME NEW n \in 1..L PROVE f[n] = Scan(f[n - 1], line[n])
    OBVIOUS
  <2>1. n - 1 \in 0..L
    BY <1>1
  <2>2. PICK t \in Scanners : t = f[n - 1]
    BY <1>8, <2>1
  <2> QED BY <1>5, <1>8, <2>2
<1>10. Follows(f, line, s)
  BY <1>8, <1>9 DEF Follows, L
<1>11. \A n \in 0..L : f[n] = Body(f, n)
  <2> SUFFICES ASSUME NEW n \in 0..L PROVE f[n] = Body(f, n)
    OBVIOUS
  <2>1. n = 0 \/ n \in 1..L
    BY <1>1
  <2> QED BY <1>3, <1>4, <1>8, <1>9, <2>1
<1>12. Loop(f)
  BY <1>8, <1>11
<1>13. Loop(After)
  BY <1>12
<1> HIDE DEF After
<1>14. DOMAIN After = 0..L /\ \A n \in 0..L : After[n] = Body(After, n)
  BY <1>13
<1>15. After[0] = s /\ \A n \in 1..L : After[n] = Scan(After[n - 1], line[n])
  <2>1. 0 \in 0..L /\ \A n \in 1..L : n \in 0..L
    BY <1>1
  <2> QED BY <1>3, <1>4, <1>14, <2>1
<1>16. After[L] = f[L]
  BY <1>10, <1>14, <1>15, FollowsOnce DEF L
<1> QED BY <1>2, <1>10, <1>16 DEF L

\* However it is told, the last state is what the line makes of the first.
LEMMA ScannedBy ==
    ASSUME NEW line \in Seq(Chars), NEW s \in Scanners, NEW f, Follows(f, line, s)
    PROVE  Scanned(line, s) = f[Len(line)] /\ Scanned(line, s) \in Scanners
<1>1. PICK g : Follows(g, line, s) /\ Scanned(line, s) = g[Len(line)]
  BY ScannedIs
<1>2. DOMAIN g = 0..Len(line) /\ g[0] = s /\ \A n \in 1..Len(line) : g[n] = Scan(g[n - 1], line[n])
  BY <1>1 DEF Follows
<1>3. g[Len(line)] = f[Len(line)]
  BY <1>2, FollowsOnce
<1>4. f[Len(line)] \in Scanners
  BY DEF Follows
<1> QED BY <1>1, <1>3, <1>4

LEMMA ScannedNone ==
    ASSUME NEW s \in Scanners
    PROVE  Scanned(<< >>, s) = s
<1>1. Follows([n \in 0..0 |-> s], << >>, s)
  BY DEF Follows
<1>2. << >> \in Seq(Chars) /\ Len(<< >>) = 0
  OBVIOUS
<1> QED BY <1>1, <1>2, ScannedBy

LEMMA ScannedOne ==
    ASSUME NEW s \in Scanners, NEW ch \in Chars
    PROVE  Scanned(<<ch>>, s) = Scan(s, ch) /\ <<ch>> \in Seq(Chars)
<1> DEFINE f == [n \in 0..1 |-> IF n = 0 THEN s ELSE Scan(s, ch)]
<1>1. f \in [0..1 -> Scanners] /\ f[0] = s /\ f[1] = Scan(s, ch)
  BY ScanKeeps
<1>2. <<ch>> \in Seq(Chars) /\ Len(<<ch>>) = 1 /\ <<ch>>[1] = ch
  OBVIOUS
<1> HIDE DEF f
<1>3. Follows(f, <<ch>>, s)
  <2>1. \A n \in 1..1 : f[n] = Scan(f[n - 1], <<ch>>[n])
    BY <1>1, <1>2
  <2> QED BY <1>1, <1>2, <2>1 DEF Follows
<1> QED BY <1>1, <1>2, <1>3, ScannedBy

\* A line may be scanned in two parts.
LEMMA ScannedJoined ==
    ASSUME NEW k \in Seq(Chars), NEW l \in Seq(Chars), NEW s \in Scanners
    PROVE  /\ k \o l \in Seq(Chars) /\ Scanned(k, s) \in Scanners
           /\ Scanned(k \o l, s) = Scanned(l, Scanned(k, s))
<1> DEFINE K == Len(k)
           L == Len(l)
           line == k \o l
<1>1. K \in Nat /\ L \in Nat
  OBVIOUS
<1>2. /\ line \in Seq(Chars) /\ Len(line) = K + L
      /\ \A n \in 1..K : line[n] = k[n]
      /\ \A n \in 1..L : line[K + n] = l[n]
  OBVIOUS
<1> HIDE DEF K, L, line
<1>3. PICK f : Follows(f, k, s) /\ Scanned(k, s) = f[K]
  BY ScannedIs DEF K
<1>4. f \in [0..K -> Scanners] /\ f[0] = s /\ \A n \in 1..K : f[n] = Scan(f[n - 1], k[n])
  BY <1>3 DEF Follows, K
<1>5. f[K] \in Scanners
  BY <1>1, <1>4
<1>6. PICK g : Follows(g, l, f[K]) /\ Scanned(l, f[K]) = g[L]
  BY <1>5, ScannedIs DEF L
<1>7. g \in [0..L -> Scanners] /\ g[0] = f[K] /\ \A n \in 1..L : g[n] = Scan(g[n - 1], l[n])
  BY <1>6 DEF Follows, L
<1> DEFINE h == [n \in 0..(K + L) |-> IF n <= K THEN f[n] ELSE g[n - K]]
<1>8. h \in [0..(K + L) -> Scanners]
  <2>1. \A n \in 0..(K + L) : IF n <= K THEN n \in 0..K ELSE n - K \in 0..L
    BY <1>1
  <2>2. \A n \in 0..(K + L) : (IF n <= K THEN f[n] ELSE g[n - K]) \in Scanners
    BY <1>4, <1>7, <2>1
  <2> QED BY <2>2
<1>9. (\A n \in 0..K : h[n] = f[n]) /\ (\A n \in 0..L : h[K + n] = g[n])
  <2>1. \A n \in 0..K : n \in 0..(K + L) /\ n <= K
    BY <1>1
  <2>2. \A n \in 0..L : K + n \in 0..(K + L) /\ (K + n <= K => n = 0) /\ (K + n) - K = n
    BY <1>1
  <2>3. \A n \in 0..K : h[n] = f[n]
    BY <2>1
  <2>4. ASSUME NEW n \in 0..L PROVE h[K + n] = g[n]
    <3>1. CASE n = 0
      BY <1>1, <1>7, <2>3, <3>1
    <3>2. CASE n # 0
      <4>1. ~ (K + n <= K) /\ K + n \in 0..(K + L) /\ (K + n) - K = n
        BY <2>2, <3>2
      <4> QED BY <4>1
    <3> QED BY <3>1, <3>2
  <2> QED BY <2>3, <2>4
<1> HIDE DEF h
<1>10. h[0] = s
  BY <1>1, <1>4, <1>9
<1>11. ASSUME NEW n \in 1..(K + L) PROVE h[n] = Scan(h[n - 1], line[n])
  <2>1. CASE n <= K
    <3>1. n \in 1..K /\ n \in 0..K /\ n - 1 \in 0..K
      BY <1>1, <2>1
    <3> QED BY <1>2, <1>4, <1>9, <3>1
  <2>2. CASE ~ (n <= K)
    <3>1. PICK m : m = n - K
      OBVIOUS
    <3>2. m \in 1..L /\ m \in 0..L /\ m - 1 \in 0..L /\ K + m = n /\ K + (m - 1) = n - 1
      BY <1>1, <2>2, <3>1
    <3>3. h[n] = g[m] /\ h[n - 1] = g[m - 1] /\ line[n] = l[m]
      BY <1>2, <1>9, <3>2
    <3> QED BY <1>7, <3>2, <3>3
  <2> QED BY <2>1, <2>2
<1>12. Follows(h, line, s)
  BY <1>2, <1>8, <1>10, <1>11 DEF Follows
<1>13. Scanned(line, s) = h[K + L]
  BY <1>2, <1>12, ScannedBy
<1>14. h[K + L] = g[L]
  BY <1>1, <1>9
<1> QED BY <1>2, <1>3, <1>5, <1>6, <1>13, <1>14 DEF line

\* Lines one after the other, up to each of them.
Concats(f, lines) ==
    /\ f \in [0..Len(lines) -> Seq(Chars)] /\ f[0] = << >>
    /\ \A n \in 1..Len(lines) : f[n] = f[n - 1] \o lines[n]

LEMMA ConcatIs ==
    ASSUME NEW lines \in Seq(Seq(Chars))
    PROVE  \E f : Concats(f, lines) /\ Concat(lines) = f[Len(lines)]
<1> DEFINE L == Len(lines)
           G == [n \in 1..L |-> [k \in Seq(Chars) |-> k \o lines[n]]]
           Body(f, n) == IF n = 0 THEN << >> ELSE f[n - 1] \o lines[n]
           Loop(f) == f = [n \in 0..L |-> Body(f, n)]
           After == CHOOSE f : Loop(f)
<1>1. L \in Nat /\ (\A n \in 1..L : lines[n] \in Seq(Chars)) /\ << >> \in Seq(Chars)
  OBVIOUS
<1>2. Concat(lines) = After[L]
  BY DEF Concat
<1>3. \A f : Body(f, 0) = << >>
  OBVIOUS
<1>4. \A f : \A n \in 1..L : Body(f, n) = f[n - 1] \o lines[n]
  <2> SUFFICES ASSUME NEW f, NEW n \in 1..L PROVE Body(f, n) = f[n - 1] \o lines[n]
    OBVIOUS
  <2>1. n # 0
    BY <1>1
  <2> QED BY <2>1, Zenon
<1> HIDE DEF L, Body
<1>5. \A n \in 1..L : \A k \in Seq(Chars) : G[n][k] = k \o lines[n]
  OBVIOUS
<1>6. G \in StepMaps(L, Seq(Chars))
  <2>1. \A n \in 1..L : \A k \in Seq(Chars) : k \o lines[n] \in Seq(Chars)
    BY <1>1
  <2> QED BY <2>1 DEF StepMaps
<1> HIDE DEF G
<1>7. PICK f : StepRun(f, L, Seq(Chars), << >>, G)
  BY <1>1, <1>6, StepsExist
<1>8. f \in [0..L -> Seq(Chars)] /\ f[0] = << >> /\ \A n \in 1..L : f[n] = G[n][f[n - 1]]
  BY <1>7 DEF StepRun
<1>9. \A n \in 1..L : f[n] = f[n - 1] \o lines[n]
  <2> SUFFICES ASSUME NEW n \in 1..L PROVE f[n] = f[n - 1] \o lines[n]
    OBVIOUS
  <2>1. n - 1 \in 0..L
    BY <1>1
  <2>2. PICK k \in Seq(Chars) : k = f[n - 1]
    BY <1>8, <2>1
  <2> QED BY <1>5, <1>8, <2>2
<1>10. Concats(f, lines)
  BY <1>8, <1>9 DEF Concats, L
<1>11. \A n \in 0..L : f[n] = Body(f, n)
  <2> SUFFICES ASSUME NEW n \in 0..L PROVE f[n] = Body(f, n)
    OBVIOUS
  <2>1. n = 0 \/ n \in 1..L
    BY <1>1
  <2> QED BY <1>3, <1>4, <1>8, <1>9, <2>1
<1>12. Loop(f)
  BY <1>8, <1>11
<1>13. Loop(After)
  BY <1>12
<1> HIDE DEF After
<1>14. DOMAIN After = 0..L /\ \A n \in 0..L : After[n] = Body(After, n)
  BY <1>13
<1>15. After[0] = << >> /\ \A n \in 1..L : After[n] = After[n - 1] \o lines[n]
  <2>1. 0 \in 0..L /\ \A n \in 1..L : n \in 0..L
    BY <1>1
  <2> QED BY <1>3, <1>4, <1>14, <2>1
<1> DEFINE Good == {n \in 0..L : After[n] = f[n]}
<1>16. 0 \in Good
  BY <1>1, <1>8, <1>15
<1>17. ASSUME NEW m \in 0..L, m < L, m \in Good PROVE m + 1 \in Good
  <2>1. m + 1 \in 1..L /\ m + 1 \in 0..L /\ (m + 1) - 1 = m
    BY <1>1, <1>17
  <2>2. After[m + 1] = After[m] \o lines[m + 1] /\ f[m + 1] = f[m] \o lines[m + 1]
    BY <1>9, <1>15, <2>1
  <2> QED BY <1>17, <2>1, <2>2
<1>18. \A n \in 0..L : n \in Good
  <2> HIDE DEF Good
  <2> QED BY <1>1, <1>16, <1>17, Climbing
<1>19. After[L] = f[L]
  BY <1>1, <1>18
<1> QED BY <1>2, <1>10, <1>19 DEF L

LEMMA ConcatIn ==
    ASSUME NEW lines \in Seq(Seq(Chars))
    PROVE  Concat(lines) \in Seq(Chars)
<1>1. PICK f : Concats(f, lines) /\ Concat(lines) = f[Len(lines)]
  BY ConcatIs
<1>2. Len(lines) \in 0..Len(lines)
  OBVIOUS
<1> QED BY <1>1, <1>2 DEF Concats

\* Scanned one after the other, each line from where the one before it ended.
LEMMA ScannedConcat ==
    ASSUME NEW lines \in Seq(Seq(Chars)), NEW g, NEW L, L = Len(lines), g[0] \in Scanners,
           \A n \in 1..L : Scanned(lines[n], g[n - 1]) = g[n]
    PROVE  Scanned(Concat(lines), g[0]) = g[L] /\ g[L] \in Scanners
<1>1. L \in Nat /\ \A n \in 1..L : lines[n] \in Seq(Chars)
  OBVIOUS
<1>2. PICK f : Concats(f, lines) /\ Concat(lines) = f[L]
  BY ConcatIs
<1>3. f \in [0..L -> Seq(Chars)] /\ f[0] = << >> /\ \A n \in 1..L : f[n] = f[n - 1] \o lines[n]
  BY <1>2 DEF Concats
<1> DEFINE Good == {n \in 0..L : Scanned(f[n], g[0]) = g[n] /\ g[n] \in Scanners}
<1>4. 0 \in Good
  BY <1>1, <1>3, ScannedNone
<1>5. ASSUME NEW m \in 0..L, m < L, m \in Good PROVE m + 1 \in Good
  <2>1. m + 1 \in 1..L /\ m + 1 \in 0..L /\ (m + 1) - 1 = m
    BY <1>1, <1>5
  <2>2. /\ f[m + 1] = f[m] \o lines[m + 1] /\ f[m] \in Seq(Chars) /\ lines[m + 1] \in Seq(Chars)
        /\ Scanned(lines[m + 1], g[m]) = g[m + 1]
    BY <1>1, <1>3, <2>1
  <2>3. Scanned(f[m], g[0]) = g[m] /\ g[m] \in Scanners
    BY <1>5
  <2>4. Scanned(f[m] \o lines[m + 1], g[0]) = Scanned(lines[m + 1], Scanned(f[m], g[0]))
    BY <2>2, ScannedJoined
  <2>5. Scanned(lines[m + 1], g[m]) \in Scanners
    <3>1. lines[m + 1] \in Seq(Chars) /\ g[m] \in Scanners
      BY <2>2, <2>3
    <3> QED BY <3>1, ScannedIs, ScannedBy
  <2> QED BY <2>1, <2>2, <2>3, <2>4, <2>5
<1>6. \A n \in 0..L : n \in Good
  <2> HIDE DEF Good
  <2> QED BY <1>1, <1>4, <1>5, Climbing
<1> QED BY <1>1, <1>2, <1>6

-----------------------------------------------------------------------------
(* Words on a line                                                         *)

\* In a mode in which all that is not escaped is taken, an escaped word is taken as it is.
LEMMA EscapeIs ==
    ASSUME NEW word \in Seq(Chars), NEW special, NEW t \in Seq(Seq(Chars)), NEW o \in SUBSET Flags,
           "backslash" \notin o,
           \A c \in Seq(Chars) : \A ch \in Chars \ special :
             Scan(Scanner(t, c, o), ch) = Scanner(t, Append(c, ch), o)
    PROVE  /\ Escape(word, special) \in Seq(Chars)
           /\ Scanned(Escape(word, special), Scanner(t, << >>, o)) = Scanner(t, word, o)
<1> DEFINE L == Len(word)
           lines == [n \in 1..L |-> Escaped(word[n], special)]
           g == [n \in 0..L |-> Scanner(t, SubSeq(word, 1, n), o)]
<1>1. L \in Nat /\ \A n \in 1..L : word[n] \in Chars
  OBVIOUS
<1>2. "backslash" \in Chars
  BY DEF Chars
<1>3. \A ch \in Chars : Escaped(ch, special) \in Seq(Chars)
  BY <1>2 DEF Escaped
<1>4. lines \in Seq(Seq(Chars)) /\ Len(lines) = L
  BY <1>1, <1>3
<1>5. Escape(word, special) = Concat(lines)
  BY DEF Escape
<1>6. ASSUME NEW c \in Seq(Chars), NEW ch \in Chars
      PROVE  Scanned(Escaped(ch, special), Scanner(t, c, o)) = Scanner(t, Append(c, ch), o)
  <2>1. Scanner(t, c, o) \in Scanners
    BY ScannersHave
  <2>2. CASE ch \notin special
    <3>1. Escaped(ch, special) = <<ch>>
      BY <2>2 DEF Escaped
    <3>2. Scanned(<<ch>>, Scanner(t, c, o)) = Scan(Scanner(t, c, o), ch)
      BY <2>1, ScannedOne
    <3> QED BY <2>2, <3>1, <3>2
  <2>3. CASE ch \in special
    <3>1. Escaped(ch, special) = <<"backslash", ch>>
      BY <2>3 DEF Escaped
    <3>2. <<"backslash", ch>> = <<"backslash">> \o <<ch>>
      OBVIOUS
    <3> DEFINE s == Scanner(t, c, o)
    <3>3. Scanned(<<"backslash">>, s) = Scan(s, "backslash") /\ <<"backslash">> \in Seq(Chars)
      BY <1>2, <2>1, ScannedOne
    <3>4. Scan(s, "backslash") \in Scanners
      BY <1>2, <2>1, ScanKeeps
    <3>5. Scanned(<<ch>>, Scan(s, "backslash")) = Scan(Scan(s, "backslash"), ch) /\ <<ch>> \in Seq(Chars)
      BY <3>4, ScannedOne
    <3>6. Scan(Scan(s, "backslash"), ch) = Scanner(t, Append(c, ch), o)
      BY ScanEscaped
    <3>7. Scanned(<<"backslash">> \o <<ch>>, s) = Scanned(<<ch>>, Scanned(<<"backslash">>, s))
      <4> HIDE DEF s
      <4> QED BY <2>1, <3>3, <3>5, ScannedJoined DEF s
    <3> QED BY <3>1, <3>2, <3>3, <3>5, <3>6, <3>7
  <2> QED BY <2>2, <2>3
<1>7. g[0] = Scanner(t, << >>, o) /\ g[L] = Scanner(t, word, o)
  <2>1. SubSeq(word, 1, 0) = << >> /\ SubSeq(word, 1, L) = word /\ 0 \in 0..L /\ L \in 0..L
    BY <1>1
  <2> QED BY <2>1
<1>8. g[0] \in Scanners
  <2>1. << >> \in Seq(Chars)
    OBVIOUS
  <2> HIDE DEF g
  <2> QED BY <1>7, <2>1, ScannersHave
<1>9. ASSUME NEW n \in 1..L PROVE Scanned(lines[n], g[n - 1]) = g[n]
  <2>1. n - 1 \in 0..L /\ n \in 0..L
    BY <1>1
  <2>2. SubSeq(word, 1, n - 1) \in Seq(Chars) /\ SubSeq(word, 1, n) = Append(SubSeq(word, 1, n - 1), word[n])
    BY <1>1
  <2>3. lines[n] = Escaped(word[n], special)
    OBVIOUS
  <2>4. g[n - 1] = Scanner(t, SubSeq(word, 1, n - 1), o) /\ g[n] = Scanner(t, SubSeq(word, 1, n), o)
    BY <2>1
  <2> HIDE DEF g, lines
  <2> QED BY <1>1, <1>6, <2>2, <2>3, <2>4
<1> HIDE DEF g, lines, L
<1>10. Scanned(Concat(lines), g[0]) = g[L]
  BY <1>4, <1>8, <1>9, ScannedConcat
<1> QED BY <1>4, <1>5, <1>7, <1>10, ConcatIn

\* A word in quotes is taken as it is.
LEMMA QuoteIs ==
    ASSUME NEW word \in Seq(Chars), NEW quote \in {"single", "double"}, NEW t \in Seq(Seq(Chars))
    PROVE  /\ Quote(word, quote) \in Seq(Chars) /\ Len(Quote(word, quote)) >= 2
           /\ Quote(word, quote)[1] = quote /\ Quote(word, quote)[Len(Quote(word, quote))] = quote
           /\ Scanned(Quote(word, quote), Scanner(t, << >>, {})) = Scanner(t, word, {})
<1> DEFINE inner == Escape(word, {"backslash", quote})
           s == Scanner(t, << >>, {})
<1>1. quote \in Chars /\ quote \in Flags /\ quote # "backslash" /\ << >> \in Seq(Chars)
  BY DEF Chars, Flags
<1>2. inner \in Seq(Chars) /\ Scanned(inner, Scanner(t, << >>, {quote})) = Scanner(t, word, {quote})
  <2>1. \A c \in Seq(Chars) : \A ch \in Chars \ {"backslash", quote} :
          Scan(Scanner(t, c, {quote}), ch) = Scanner(t, Append(c, ch), {quote})
    <3>1. \A c, ch : ch # "backslash" /\ ch # quote =>
            Scan(Scanner(t, c, {quote}), ch) = Scanner(t, Append(c, ch), {quote})
      BY ScanOther
    <3> QED BY <3>1
  <2>2. {quote} \in SUBSET Flags /\ "backslash" \notin {quote}
    BY <1>1
  <2> QED BY <2>1, <2>2, EscapeIs
<1>3. Quote(word, quote) = (<<quote>> \o inner) \o <<quote>>
  BY DEF Quote
<1> HIDE DEF inner
<1>4. /\ s \in Scanners /\ Scanner(t, << >>, {quote}) \in Scanners
      /\ Scanner(t, word, {quote}) \in Scanners
  <2>1. {} \in SUBSET Flags /\ {quote} \in SUBSET Flags
    BY <1>1
  <2> QED BY <1>1, <2>1, ScannersHave
<1>5. Scanned(<<quote>>, s) = Scanner(t, << >>, {quote}) /\ <<quote>> \in Seq(Chars)
  <2>1. Scan(s, quote) = Scanner(t, << >>, {quote})
    BY ScanQuotes
  <2> HIDE DEF s
  <2> QED BY <1>1, <1>4, <2>1, ScannedOne
<1>6. Scanned(<<quote>>, Scanner(t, word, {quote})) = Scanner(t, word, {})
  <2>1. Scan(Scanner(t, word, {quote}), quote) = Scanner(t, word, {})
    BY ScanQuotes
  <2> QED BY <1>1, <1>4, <2>1, ScannedOne
<1>7. <<quote>> \o inner \in Seq(Chars) /\ Scanned(<<quote>> \o inner, s) = Scanner(t, word, {quote})
  <2>1. Scanned(<<quote>> \o inner, s) = Scanned(inner, Scanned(<<quote>>, s))
    BY <1>2, <1>4, <1>5, ScannedJoined
  <2> QED BY <1>2, <1>5, <2>1
<1>8. Scanned((<<quote>> \o inner) \o <<quote>>, s) = Scanner(t, word, {})
  <2>1. Scanned((<<quote>> \o inner) \o <<quote>>, s) = Scanned(<<quote>>, Scanned(<<quote>> \o inner, s))
    BY <1>4, <1>5, <1>7, ScannedJoined
  <2> QED BY <1>6, <1>7, <2>1
<1>9. LET line == (<<quote>> \o inner) \o <<quote>> IN
      /\ line \in Seq(Chars) /\ Len(line) >= 2 /\ line[1] = quote /\ line[Len(line)] = quote
  BY <1>1, <1>2
<1> QED BY <1>3, <1>8, <1>9

\* Words that are told one by one come out of their line.
LEMMA JoinedIs ==
    ASSUME NEW words \in Seq(Seq(Chars)), \A n \in 1..Len(words) : words[n] # << >>,
           NEW spelled \in Seq(Seq(Chars)), Len(spelled) = Len(words),
           \A n \in 1..Len(words) : \A t \in Seq(Seq(Chars)) :
             Scanned(spelled[n], Scanner(t, << >>, {})) = Scanner(t, words[n], {})
    PROVE  Joined(spelled) \in Seq(Chars) /\ TokenizeLine(Joined(spelled)) = {words}
<1> DEFINE L == Len(words)
           lines == [n \in 1..L |-> <<Blank>> \o spelled[n]]
           g == [n \in 0..L |-> IF n = 0 THEN StartOfLine ELSE Scanner(SubSeq(words, 1, n - 1), words[n], {})]
<1>1. /\ L \in Nat /\ (\A n \in 1..L : words[n] \in Seq(Chars) /\ spelled[n] \in Seq(Chars))
      /\ << >> \in Seq(Chars) /\ << >> \in Seq(Seq(Chars)) /\ {} \in SUBSET Flags
  OBVIOUS
<1>2. Blank \in Chars
  BY DEF Blank, Chars
<1>3. lines \in Seq(Seq(Chars)) /\ Len(lines) = L
  BY <1>1, <1>2
<1>4. Joined(spelled) = Concat(lines)
  BY DEF Joined
<1>5. StartOfLine = Scanner(<< >>, << >>, {}) /\ StartOfLine \in Scanners
  <2>1. StartOfLine = Scanner(<< >>, << >>, {})
    BY DEF StartOfLine, Scanner
  <2> QED BY <1>1, <2>1, ScannersHave
\* A blank before a word, then the word.
<1>6. ASSUME NEW c \in Seq(Chars), NEW u \in Seq(Seq(Chars)), NEW v \in Seq(Seq(Chars)), NEW n \in 1..L,
             c = << >> => v = u, c # << >> => v = Append(u, c)
      PROVE  Scanned(<<Blank>> \o spelled[n], Scanner(u, c, {})) = Scanner(v, words[n], {})
  <2> DEFINE s == Scanner(u, c, {})
  <2>1. s \in Scanners
    BY <1>1, ScannersHave
  <2>2. Scan(s, Blank) = Scanner(v, << >>, {})
    BY <1>6, ScanBlank
  <2> HIDE DEF s
  <2>3. Scanned(<<Blank>>, s) = Scan(s, Blank) /\ <<Blank>> \in Seq(Chars)
    BY <1>2, <2>1, ScannedOne
  <2>4. Scanned(<<Blank>> \o spelled[n], s) = Scanned(spelled[n], Scanned(<<Blank>>, s))
    BY <1>1, <2>1, <2>3, ScannedJoined
  <2>5. Scanned(spelled[n], Scanner(v, << >>, {})) = Scanner(v, words[n], {})
    OBVIOUS
  <2> QED BY <2>2, <2>3, <2>4, <2>5 DEF s
<1>7. g[0] = StartOfLine /\ \A n \in 1..L : g[n] = Scanner(SubSeq(words, 1, n - 1), words[n], {})
  <2>1. 0 \in 0..L /\ \A n \in 1..L : n \in 0..L /\ n # 0
    BY <1>1
  <2> QED BY <2>1
<1>8. ASSUME NEW n \in 1..L PROVE Scanned(lines[n], g[n - 1]) = g[n]
  <2> DEFINE v == SubSeq(words, 1, n - 1)
  <2>1. v \in Seq(Seq(Chars))
    BY <1>1
  <2>2. lines[n] = <<Blank>> \o spelled[n]
    OBVIOUS
  <2>3. g[n] = Scanner(v, words[n], {})
    BY <1>7
  <2>4. CASE n = 1
    <3>1. v = << >> /\ g[n - 1] = Scanner(<< >>, << >>, {})
      BY <1>5, <1>7, <2>4
    <3> HIDE DEF g, lines, v
    <3>2. PICK c, u : c = << >> /\ u = << >>
      OBVIOUS
    <3>3. c \in Seq(Chars) /\ u \in Seq(Seq(Chars)) /\ v = u /\ g[n - 1] = Scanner(u, c, {})
      BY <1>1, <3>1, <3>2
    <3>4. Scanned(<<Blank>> \o spelled[n], Scanner(u, c, {})) = Scanner(v, words[n], {})
      BY <1>6, <2>1, <3>2, <3>3
    <3> QED BY <2>2, <2>3, <3>3, <3>4
  <2>5. CASE n # 1
    <3> DEFINE u == SubSeq(words, 1, (n - 1) - 1)
    <3>1. n - 1 \in 1..L
      BY <1>1, <2>5
    <3>2. u \in Seq(Seq(Chars)) /\ v = Append(u, words[n - 1])
      BY <1>1, <3>1
    <3>3. g[n - 1] = Scanner(u, words[n - 1], {})
      BY <1>7, <3>1
    <3>4. words[n - 1] \in Seq(Chars) /\ words[n - 1] # << >>
      BY <1>1, <3>1
    <3> HIDE DEF g, lines, v, u
    <3>5. Scanned(<<Blank>> \o spelled[n], Scanner(u, words[n - 1], {})) = Scanner(v, words[n], {})
      BY <1>6, <2>1, <3>2, <3>4
    <3> QED BY <2>2, <2>3, <3>3, <3>5
  <2> QED BY <2>4, <2>5
<1> HIDE DEF g, lines
<1>9. Scanned(Concat(lines), g[0]) = g[L]
  <2>1. g[0] \in Scanners
    BY <1>5, <1>7
  <2> HIDE DEF L
  <2> QED BY <1>3, <1>8, <2>1, ScannedConcat
<1>10. TokenizeLine(Concat(lines)) = {words}
  <2>1. CASE L = 0
    <3>1. words = << >>
      BY <2>1
    <3>2. Flushed(Scanner(<< >>, << >>, {})) = Scanner(<< >>, << >>, {})
      BY FlushedIs
    <3>3. Scanned(Concat(lines), StartOfLine) = Scanner(<< >>, << >>, {})
      BY <1>5, <1>7, <1>9, <2>1
    <3> QED BY <3>1, <3>2, <3>3, ScannerHas DEF TokenizeLine
  <2>2. CASE L # 0
    <3>1. L \in 1..L
      BY <1>1, <2>2
    <3> DEFINE u == SubSeq(words, 1, L - 1)
               last == Scanner(u, words[L], {})
    <3>2. words = Append(u, words[L])
      <4>1. SubSeq(words, 1, L) = words
        OBVIOUS
      <4>2. SubSeq(words, 1, L) = Append(SubSeq(words, 1, L - 1), words[L])
        BY <1>1, <3>1
      <4> QED BY <4>1, <4>2
    <3>3. Scanned(Concat(lines), StartOfLine) = last
      BY <1>7, <1>9, <3>1
    <3>4. Flushed(last) = Scanner(Append(u, words[L]), << >>, {}) /\ last.open = {}
      <4>1. words[L] # << >>
        BY <3>1
      <4> QED BY <4>1, FlushedIs, ScannerHas
    <3>5. Flushed(last).tokens = words
      <4> HIDE DEF last, u
      <4>1. Flushed(last) = Scanner(words, << >>, {})
        BY <3>2, <3>4
      <4>2. Scanner(words, << >>, {}).tokens = words
        BY ScannerHas
      <4> QED BY <4>1, <4>2
    <3> HIDE DEF last
    <3> QED BY <3>3, <3>4, <3>5 DEF TokenizeLine
  <2> QED BY <2>1, <2>2
<1> QED BY <1>3, <1>4, <1>10, ConcatIn

\* A line that is a blank and then something from one quote to another is trimmed by the blank.
LEMMA TrimmedIs ==
    ASSUME NEW line \in Seq(Chars), Len(line) >= 3, line[1] = Blank, line[2] # Blank, line[Len(line)] # Blank
    PROVE  line = <<Blank>> \o Trimmed(line) /\ Trimmed(line) \in Seq(Chars)
<1> DEFINE L == Len(line)
           solid == {i \in DOMAIN line : line[i] # Blank}
<1>1. L \in Nat /\ DOMAIN line = 1..L /\ 2 \in 1..L /\ L \in 1..L
  OBVIOUS
<1>2. 2 \in solid /\ L \in solid /\ \A i \in solid : i \in 1..L /\ 2 <= i /\ i <= L
  BY <1>1
<1> HIDE DEF solid, L
<1>3. (CHOOSE i \in solid : \A j \in solid : i <= j) = 2
  <2>1. \A i \in solid : (\A j \in solid : i <= j) => i = 2
    BY <1>1, <1>2
  <2> QED BY <1>2, <2>1
<1>4. (CHOOSE i \in solid : \A j \in solid : j <= i) = L
  <2>1. \A i \in solid : (\A j \in solid : j <= i) => i = L
    BY <1>1, <1>2
  <2> QED BY <1>2, <2>1
<1>5. Trimmed(line) = SubSeq(line, 2, L)
  <2>1. solid # {}
    BY <1>2
  <2> QED BY <1>3, <1>4, <2>1 DEF Trimmed, solid
<1>6. line = <<Blank>> \o SubSeq(line, 2, L) /\ SubSeq(line, 2, L) \in Seq(Chars)
  BY <1>1 DEF L
<1> QED BY <1>5, <1>6

\* A line of quoted words begins with a blank and a quote, and ends with a quote.
LEMMA JoinedQuotes ==
    ASSUME NEW spelled \in Seq(Seq(Chars)), spelled # << >>, NEW quote \in {"single", "double"},
           \A n \in 1..Len(spelled) : Len(spelled[n]) >= 2 /\ spelled[n][1] = quote /\ spelled[n][Len(spelled[n])] = quote
    PROVE  LET line == Joined(spelled)
           IN  Len(line) >= 3 /\ line[1] = Blank /\ line[2] = quote /\ line[Len(line)] = quote
<1> DEFINE L == Len(spelled)
           lines == [n \in 1..L |-> <<Blank>> \o spelled[n]]
           Framed(line) == /\ Len(line) >= 3 /\ line[1] = Blank /\ line[2] = quote
                           /\ line[Len(line)] = quote
<1>1. L \in Nat /\ L >= 1 /\ (\A n \in 1..L : spelled[n] \in Seq(Chars)) /\ Blank \in Chars
  BY DEF Blank, Chars
<1>2. /\ lines \in Seq(Seq(Chars)) /\ Len(lines) = L
      /\ \A n \in 1..L : lines[n] = <<Blank>> \o spelled[n] /\ lines[n] \in Seq(Chars)
  BY <1>1
<1>3. Joined(spelled) = Concat(lines)
  BY DEF Joined
<1> HIDE DEF lines
<1>4. PICK f : Concats(f, lines) /\ Concat(lines) = f[L]
  BY <1>2, ConcatIs
<1>5. f \in [0..L -> Seq(Chars)] /\ f[0] = << >> /\ \A n \in 1..L : f[n] = f[n - 1] \o lines[n]
  BY <1>2, <1>4 DEF Concats
<1>6. \A n \in 1..L : Framed(lines[n])
  <2> SUFFICES ASSUME NEW n \in 1..L PROVE Framed(lines[n])
    OBVIOUS
  <2>1. spelled[n] \in Seq(Chars) /\ Len(spelled[n]) >= 2 /\ spelled[n][1] = quote /\ spelled[n][Len(spelled[n])] = quote
    BY <1>1
  <2>2. LET line == <<Blank>> \o spelled[n]
        IN  /\ Len(line) = Len(spelled[n]) + 1 /\ line[1] = Blank
            /\ \A i \in 1..Len(spelled[n]) : line[i + 1] = spelled[n][i]
    BY <1>1, <2>1
  <2>3. 1 \in 1..Len(spelled[n]) /\ Len(spelled[n]) \in 1..Len(spelled[n]) /\ 1 + 1 = 2 /\ Len(spelled[n]) + 1 >= 3
    BY <2>1
  <2> QED BY <1>2, <2>1, <2>2, <2>3
<1> DEFINE Good == {n \in 0..L : n = 0 \/ Framed(f[n])}
<1>7. 0 \in Good
  BY <1>1
<1>8. ASSUME NEW m \in 0..L, m < L, m \in Good PROVE m + 1 \in Good
  <2>1. m + 1 \in 1..L /\ m + 1 \in 0..L /\ (m + 1) - 1 = m
    BY <1>1, <1>8
  <2>2. f[m + 1] = f[m] \o lines[m + 1] /\ f[m] \in Seq(Chars) /\ lines[m + 1] \in Seq(Chars)
    BY <1>2, <1>5, <2>1
  <2>3. Framed(lines[m + 1])
    BY <1>6, <2>1
  <2>4. CASE m = 0
    <3>1. f[m + 1] = lines[m + 1]
      <4>1. f[m] = << >>
        BY <1>5, <2>4
      <4>2. \A k \in Seq(Chars) : << >> \o k = k
        OBVIOUS
      <4> QED BY <2>2, <4>1, <4>2
    <3> HIDE DEF Framed
    <3> QED BY <2>1, <2>3, <3>1
  <2>5. CASE m # 0
    <3>1. Framed(f[m])
      BY <1>8, <2>5
    <3>2. Framed(f[m] \o lines[m + 1])
      <4> DEFINE k == f[m]
                 l == lines[m + 1]
                 line == k \o l
      <4>1. k \in Seq(Chars) /\ l \in Seq(Chars) /\ Framed(k) /\ Framed(l)
        BY <2>2, <2>3, <3>1
      <4> HIDE DEF k, l
      <4>2. /\ Len(line) = Len(k) + Len(l) /\ Len(k) \in Nat /\ Len(l) \in Nat
            /\ \A i \in 1..Len(k) : line[i] = k[i]
            /\ \A i \in 1..Len(l) : line[Len(k) + i] = l[i]
        BY <4>1
      <4> HIDE DEF line
      <4>3. 1 \in 1..Len(k) /\ 2 \in 1..Len(k) /\ Len(l) \in 1..Len(l) /\ Len(line) >= 3
        BY <4>1, <4>2
      <4>4. Framed(line)
        BY <4>1, <4>2, <4>3
      <4> QED BY <4>4 DEF line, k, l
    <3> HIDE DEF Framed
    <3> QED BY <2>1, <2>2, <3>2
  <2> QED BY <2>4, <2>5
<1>9. \A n \in 0..L : n \in Good
  <2> HIDE DEF Good
  <2> QED BY <1>1, <1>7, <1>8, Climbing
<1>10. Framed(f[L])
  <2>1. L \in 0..L /\ L # 0
    BY <1>1
  <2> QED BY <1>9, <2>1
<1> QED BY <1>3, <1>4, <1>10

-----------------------------------------------------------------------------
(* The words that are typed                                                *)

\* Every word but the last one is there.
ShellInv ==
    /\ typed \in Seq(Seq(Chars)) /\ typed # << >>
    /\ \A n \in 1..(Len(typed) - 1) : typed[n] # << >>

LEMMA InitShellInv == ShellInit => ShellInv
BY DEF ShellInit, ShellInv

LEMMA NextShellInv == ShellInv /\ [ShellNext]_typed => ShellInv'
<1> SUFFICES ASSUME ShellInv, [ShellNext]_typed PROVE ShellInv'
  OBVIOUS
<1> DEFINE L == Len(typed)
<1>1. /\ typed \in Seq(Seq(Chars)) /\ L \in Nat /\ L >= 1
      /\ \A n \in 1..(L - 1) : typed[n] # << >>
  BY DEF ShellInv
<1>2. ASSUME NEW ch \in Chars, TypeChar(ch) PROVE ShellInv'
  <2>1. typed' = [typed EXCEPT ![L] = Append(@, ch)]
    BY <1>2 DEF TypeChar
  <2>2. Append(typed[L], ch) \in Seq(Chars)
    BY <1>1
  <2>3. typed' \in Seq(Seq(Chars)) /\ Len(typed') = L /\ \A n \in 1..(L - 1) : typed'[n] = typed[n]
    BY <1>1, <2>1, <2>2
  <2>4. typed' # << >>
    BY <1>1, <2>3
  <2> QED BY <1>1, <2>3, <2>4 DEF ShellInv
<1>3. ASSUME NextWord PROVE ShellInv'
  <2>1. typed' = Append(typed, << >>) /\ typed[L] # << >>
    BY <1>3 DEF NextWord
  <2>2. /\ typed' \in Seq(Seq(Chars)) /\ Len(typed') = L + 1 /\ typed' # << >>
        /\ \A n \in 1..L : typed'[n] = typed[n]
    BY <1>1, <2>1
  <2>3. \A n \in 1..L : n = L \/ n \in 1..(L - 1)
    BY <1>1
  <2>4. (L + 1) - 1 = L
    BY <1>1
  <2> QED BY <1>1, <2>1, <2>2, <2>3, <2>4 DEF ShellInv
<1>4. CASE UNCHANGED typed
  BY <1>4 DEF ShellInv
<1> QED BY <1>2, <1>3, <1>4 DEF ShellNext

LEMMA InvSplitsBack == ShellInv => LinesSplitBack
<1> SUFFICES ASSUME ShellInv, typed[Len(typed)] # << >>
             PROVE  /\ \A quote \in {"single", "double"} :
                         TokenizeLine(Trimmed(Joined([n \in 1..Len(typed) |-> Quote(typed[n], quote)]))) = {typed}
                    /\ TokenizeLine(Joined([n \in 1..Len(typed) |-> Escape(typed[n], Chars)])) = {typed}
  BY DEF LinesSplitBack
<1> DEFINE L == Len(typed)
<1>1. /\ typed \in Seq(Seq(Chars)) /\ L \in Nat /\ L >= 1
      /\ \A n \in 1..L : typed[n] \in Seq(Chars) /\ typed[n] # << >>
  <2>1. typed \in Seq(Seq(Chars)) /\ L \in Nat /\ L >= 1
    BY DEF ShellInv
  <2>2. \A n \in 1..L : n = L \/ n \in 1..(L - 1)
    BY <2>1
  <2> QED BY <2>1, <2>2 DEF ShellInv
<1>2. ASSUME NEW quote \in {"single", "double"}
      PROVE  TokenizeLine(Trimmed(Joined([n \in 1..L |-> Quote(typed[n], quote)]))) = {typed}
  <2> DEFINE spelled == [n \in 1..L |-> Quote(typed[n], quote)]
             line == Joined(spelled)
  <2>1. \A n \in 1..L : spelled[n] = Quote(typed[n], quote)
    OBVIOUS
  <2>2. ASSUME NEW n \in 1..L
        PROVE  /\ spelled[n] \in Seq(Chars) /\ Len(spelled[n]) >= 2 /\ spelled[n][1] = quote
               /\ spelled[n][Len(spelled[n])] = quote
               /\ \A t \in Seq(Seq(Chars)) :
                    Scanned(spelled[n], Scanner(t, << >>, {})) = Scanner(t, typed[n], {})
    <3>1. typed[n] \in Seq(Chars) /\ spelled[n] = Quote(typed[n], quote)
      BY <1>1, <2>1
    <3> HIDE DEF spelled
    <3>2. \A t \in Seq(Seq(Chars)) : Scanned(spelled[n], Scanner(t, << >>, {})) = Scanner(t, typed[n], {})
      BY <3>1, QuoteIs
    <3>3. << >> \in Seq(Seq(Chars))
      OBVIOUS
    <3>4. /\ spelled[n] \in Seq(Chars) /\ Len(spelled[n]) >= 2 /\ spelled[n][1] = quote
          /\ spelled[n][Len(spelled[n])] = quote
      <4> DEFINE q == Quote(typed[n], quote)
      <4>1. q \in Seq(Chars) /\ Len(q) >= 2 /\ q[1] = quote /\ q[Len(q)] = quote
        BY <3>1, <3>3, QuoteIs
      <4> HIDE DEF q
      <4> QED BY <3>1, <4>1 DEF q
    <3> QED BY <3>2, <3>4
  <2>3. spelled \in Seq(Seq(Chars)) /\ Len(spelled) = L
    <3>1. \A n \in 1..L : Quote(typed[n], quote) \in Seq(Chars)
      BY <2>1, <2>2
    <3> QED BY <1>1, <3>1
  <2>4. spelled # << >>
    BY <1>1, <2>3
  <2> HIDE DEF spelled
  <2>5. line \in Seq(Chars) /\ TokenizeLine(line) = {typed}
    BY <1>1, <2>2, <2>3, JoinedIs
  <2>6. Len(line) >= 3 /\ line[1] = Blank /\ line[2] = quote /\ line[Len(line)] = quote
    BY <2>2, <2>3, <2>4, JoinedQuotes
  <2>7. quote # Blank /\ Blank \in Chars
    BY DEF Blank, Chars
  <2> HIDE DEF line
  <2>8. line = <<Blank>> \o Trimmed(line) /\ Trimmed(line) \in Seq(Chars)
    BY <2>5, <2>6, <2>7, TrimmedIs
  <2>9. StartOfLine \in Scanners /\ StartOfLine = Scanner(<< >>, << >>, {})
    <3>1. StartOfLine = Scanner(<< >>, << >>, {})
      BY DEF StartOfLine, Scanner
    <3>2. << >> \in Seq(Chars) /\ << >> \in Seq(Seq(Chars)) /\ {} \in SUBSET Flags
      OBVIOUS
    <3> QED BY <3>1, <3>2, ScannersHave
  <2>10. Scanned(<<Blank>>, StartOfLine) = StartOfLine /\ <<Blank>> \in Seq(Chars)
    BY <2>7, <2>9, ScannedOne, ScanBlank
  <2>11. Scanned(<<Blank>> \o Trimmed(line), StartOfLine) = Scanned(Trimmed(line), StartOfLine)
    <3>1. Scanned(<<Blank>> \o Trimmed(line), StartOfLine) = Scanned(Trimmed(line), Scanned(<<Blank>>, StartOfLine))
      BY <2>8, <2>9, <2>10, ScannedJoined
    <3> QED BY <2>10, <3>1
  <2>12. TokenizeLine(Trimmed(line)) = TokenizeLine(line)
    BY <2>8, <2>11 DEF TokenizeLine
  <2> QED BY <2>5, <2>12 DEF line, spelled
<1>3. TokenizeLine(Joined([n \in 1..L |-> Escape(typed[n], Chars)])) = {typed}
  <2> DEFINE spelled == [n \in 1..L |-> Escape(typed[n], Chars)]
  <2>1. \A n \in 1..L : spelled[n] = Escape(typed[n], Chars)
    OBVIOUS
  <2>2. ASSUME NEW n \in 1..L, NEW t \in Seq(Seq(Chars))
        PROVE  /\ spelled[n] \in Seq(Chars)
               /\ Scanned(spelled[n], Scanner(t, << >>, {})) = Scanner(t, typed[n], {})
    <3>1. typed[n] \in Seq(Chars) /\ spelled[n] = Escape(typed[n], Chars)
      BY <1>1, <2>1
    <3>2. \A c \in Seq(Chars) : \A ch \in Chars \ Chars :
            Scan(Scanner(t, c, {}), ch) = Scanner(t, Append(c, ch), {})
      OBVIOUS
    <3>3. {} \in SUBSET Flags /\ "backslash" \notin {}
      OBVIOUS
    <3> HIDE DEF spelled
    <3> QED BY <3>1, <3>2, <3>3, EscapeIs
  <2>3. spelled \in Seq(Seq(Chars)) /\ Len(spelled) = L
    <3>1. << >> \in Seq(Seq(Chars))
      OBVIOUS
    <3>2. \A n \in 1..L : Escape(typed[n], Chars) \in Seq(Chars)
      BY <2>1, <2>2, <3>1
    <3> QED BY <1>1, <3>2
  <2> HIDE DEF spelled
  <2>4. TokenizeLine(Joined(spelled)) = {typed}
    BY <1>1, <2>2, <2>3, JoinedIs
  <2> QED BY <2>4 DEF spelled
<1> QED BY <1>2, <1>3

\* A line that is typed for words gives back these words, whatever they consist of
\* (repl.rs:24-72, 1022).
THEOREM WordsSplitBack == ShellSpec => []LinesSplitBack
<1>1. ShellSpec => []ShellInv
  BY InitShellInv, NextShellInv, PTL DEF ShellSpec
<1> QED BY <1>1, InvSplitsBack, PTL

-----------------------------------------------------------------------------
(* The parts together                                                      *)

\* Whatever part of the agent subsystem runs: what is remembered, the batches of tool calls,
\* what commands leave to later ones and the words of a line are what they should be, for any
\* memories, tools, commands and words (agent/memory.rs:230-330, agent/tools.rs:49-51,
\* cli/agent.rs:355-364, cli/repl.rs:24-72).
THEOREM AgentPartsAreSound == AgentsSpec => []MemoryToolsAndCommands
<1> DEFINE PartsInv ==
             /\ agentPart = "memory" => MemoryInv
             /\ agentPart = "tools" => ToolsInv
             /\ agentPart = "sessions" => SessionInv
             /\ agentPart = "shell" => ShellInv
<1>1. AgentsInit => PartsInv
  <2> SUFFICES ASSUME AgentsInit PROVE PartsInv
    OBVIOUS
  <2>1. /\ agentPart = "memory" => MemoryInit
        /\ agentPart = "tools" => ToolsInit
        /\ SessionInit /\ ShellInit
    BY DEF AgentsInit
  <2> QED BY <2>1, InitMemoryInv, InitToolsInv, SessionInitInv, InitShellInv
<1>2. PartsInv /\ [AgentsNext]_agentVars => PartsInv'
  <2> SUFFICES ASSUME PartsInv, [AgentsNext]_agentVars PROVE PartsInv'
    OBVIOUS
  <2>1. agentPart' = agentPart
    BY DEF AgentsNext, agentVars
  <2>2. agentPart = "memory" => [MemoryNext]_memoryVars
    BY DEF AgentsNext, agentVars
  <2>3. agentPart = "tools" => [ToolsNext]_toolVars
    BY DEF AgentsNext, agentVars
  <2>4. agentPart = "sessions" => [SessionNext]_sessionVars
    BY DEF AgentsNext, agentVars
  <2>5. agentPart = "shell" => [ShellNext]_typed
    BY DEF AgentsNext, agentVars
  <2> QED BY <2>1, <2>2, <2>3, <2>4, <2>5, NextMemoryInv, NextToolsInv, NextSessionInv, NextShellInv
<1>3. PartsInv => MemoryToolsAndCommands
  BY InvIsSound, InvSplitsBack DEF ToolsInv, SessionInv, MemoryToolsAndCommands
<1> QED BY <1>1, <1>2, <1>3, PTL DEF AgentsSpec
=============================================================================
