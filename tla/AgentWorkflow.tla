--------------------------- MODULE AgentWorkflow ---------------------------
(***************************************************************************)
(* A pipeline of agents: the task graph with its tiers, submission, the    *)
(* run of a workflow, the checkpoint after it, and the restart from that   *)
(* checkpoint (src/src/agent/engine.rs, pipeline.rs, store.rs, memory.rs). *)
(*                                                                         *)
(* One thread owns the pipeline (&mut self), so a call is one step, except *)
(* where the process may die between two writes to the store or with       *)
(* effects in memory.  A put is atomic; a batch cut short leaves a prefix; *)
(* a submission whose put fails changes nothing.  Routing, tools and the   *)
(* reflector either do their work or return an error.  Agents, messages,   *)
(* outputs and the blackboard are left out: nothing is decided by them.    *)
(***************************************************************************)
EXTENDS Integers, FiniteSets, Sequences, Functions

CONSTANTS
    TaskIds,    \* numbers, in the order in which a tier is sorted
    MaxDeps,    \* dependencies of one submission
    MaxSubmits, \* submissions
    MaxCrashes  \* deaths of the process

ASSUME TaskIdsAreNumbers == TaskIds \subseteq Nat /\ IsFiniteSet(TaskIds) /\ TaskIds # {}
ASSUME WorkflowBoundsAreCounts == MaxDeps \in Nat /\ MaxSubmits \in Nat /\ MaxCrashes \in Nat

VARIABLES
    graph,    \* TaskGraph: the registered tasks and what each depends on
    tasks,    \* state.tasks: their status, "none" where there is no task
    status,   \* state.status
    episodes, \* tasks with an episode in memory
    call,     \* what the pipeline is at: "idle", "running", "checkpoint", "memory", "down"
    queue,    \* the tasks that the run has yet to execute
    stored,   \* agent:task:<id>
    snapshot, \* tasks in agent:wf:<workflow>, or NoSnapshot
    storedEpisodes, \* agent:mem:<namespace>:episodes
    \* What was promised, for the properties, and the bounds.
    asked,    \* dependencies of the accepted submissions to this pipeline
    acked,    \* [tasks, episodes] of the last acknowledged checkpoint, less what
              \* was submitted again or failed since
    submits, crashes

store == <<stored, snapshot, storedEpisodes>>
promised == <<asked, acked>>
wvars == <<graph, tasks, status, episodes, call, queue, store, promised, submits, crashes>>

TaskStatus == {"none", "Pending", "Completed", "Failed"}
NoTasks == [t \in TaskIds |-> "none"]
NoSnapshot == [t \in {} |-> "none"]
NoGraph == << >>

CompletedIn(ts) == {t \in TaskIds : ts[t] = "Completed"}

-----------------------------------------------------------------------------
(* TaskGraph                                                               *)

AddTask(g, t) == [u \in DOMAIN g \cup {t} |-> IF u \in DOMAIN g THEN g[u] ELSE {}]

\* Faulty: a task enters a tier as soon as one of its dependencies has.
TiersOfAny(g) ==
    LET upTo[n \in 0..Cardinality(DOMAIN g)] ==
            IF n = 0 THEN {}
            ELSE {t \in DOMAIN g : g[t] = {} \/ g[t] \cap upTo[n - 1] # {}}
    IN  [n \in 1..Cardinality(DOMAIN g) |-> upTo[n] \ upTo[n - 1]]

\* topological_tiers: the tasks of the first n tiers are those whose dependencies are in the
\* first n - 1, and a tier has the ones that are new; tasks on a cycle and those that wait for
\* them are in none.
UpTo(g) ==
    LET upTo[n \in 0..Cardinality(DOMAIN g)] ==
            IF n = 0 THEN {} ELSE {t \in DOMAIN g : g[t] \subseteq upTo[n - 1]}
    IN  upTo
Tiers(g) ==
    LET upTo == UpTo(g)
    IN  [n \in 1..Cardinality(DOMAIN g) |-> upTo[n] \ upTo[n - 1]]

HasCycle(g) == (UNION Range(Tiers(g))) # DOMAIN g

\* The tiers one after the other, each sorted: the i-th task has i - 1 before it.
Precedes(tiers, t, u) ==
    \E n, m \in DOMAIN tiers : t \in tiers[n] /\ u \in tiers[m] /\ (n < m \/ (n = m /\ t < u))
RunOrder(g) ==
    LET tiers == Tiers(g)
    IN  [i \in 1..Cardinality(DOMAIN g) |->
           CHOOSE t \in DOMAIN g : Cardinality({u \in DOMAIN g : Precedes(tiers, u, t)}) = i - 1]

\* add_dependency on an accumulator [graph, ok]: a dependency on itself is refused before
\* the graph is touched, one that closes a cycle after it was inserted.
AddDependency(acc, t, d) ==
    IF ~ acc.ok \/ t = d THEN [acc EXCEPT !.ok = FALSE]
    ELSE LET g == [AddTask(AddTask(acc.graph, t), d) EXCEPT ![t] = @ \cup {d}]
         IN  [graph |-> g, ok |-> ~ HasCycle(g)]

\* What engine.submit_task makes of the graph, and whether it succeeds.
Submitted(t, depends) ==
    LET after[n \in 0..Len(depends)] ==
            IF n = 0 THEN [graph |-> AddTask(graph, t), ok |-> TRUE]
            ELSE AddDependency(after[n - 1], t, depends[n])
    IN  after[Len(depends)]

\* Faulty: nobody looks at the dependencies.
ExecutableAnyway(g, ts, t) == ts[t] # "none"

\* The checks at the start of execute_task.
Executable(g, ts, t) ==
    /\ ts[t] # "none"
    /\ t \in DOMAIN g => \A d \in g[t] : ts[d] = "Completed"

\* What is promised when t is submitted again or fails.
Forget(t) == [tasks |-> acked.tasks \ {t}, episodes |-> acked.episodes]

-----------------------------------------------------------------------------
Init ==
    /\ graph = NoGraph /\ tasks = NoTasks /\ status = "Initialized"
    /\ episodes = {} /\ call = "idle" /\ queue = << >>
    /\ stored = NoTasks /\ snapshot = NoSnapshot /\ storedEpisodes = {}
    /\ asked = [t \in TaskIds |-> {}]
    /\ acked = [tasks |-> {}, episodes |-> {}]
    /\ submits = 0 /\ crashes = 0

\* Naming a dependency twice changes nothing.
Dependencies == {ds \in UNION {[1..n -> TaskIds] : n \in 0..MaxDeps} : IsInjective(ds)}

\* AgentPipeline::submit_task: the task is stored whether or not the engine takes it, and
\* the graph keeps what was inserted before the refusal.
SubmitTask(t, depends) ==
    /\ call = "idle" /\ submits < MaxSubmits
    /\ submits' = submits + 1
    /\ stored' = [stored EXCEPT ![t] = "Pending"]
    /\ LET result == Submitted(t, depends)
       IN  /\ graph' = result.graph
           /\ IF result.ok
                THEN /\ tasks' = [tasks EXCEPT ![t] = "Pending"]
                     /\ asked' = [asked EXCEPT ![t] = @ \cup Range(depends)]
                     /\ acked' = Forget(t)
                ELSE UNCHANGED <<tasks, asked, acked>>
    /\ UNCHANGED <<status, episodes, call, queue, snapshot, storedEpisodes, crashes>>

\* run_single_task: submitted without dependencies and executed; those it had before
\* still count.  An error leaves the task as it was submitted.
RunSingleTask(t) ==
    /\ call = "idle" /\ submits < MaxSubmits
    /\ submits' = submits + 1
    /\ stored' = [stored EXCEPT ![t] = "Pending"]
    /\ graph' = AddTask(graph, t)
    /\ acked' = Forget(t)
    /\ \/ /\ Executable(graph', [tasks EXCEPT ![t] = "Pending"], t)
          /\ tasks' = [tasks EXCEPT ![t] = "Completed"]
          /\ episodes' = episodes \cup {t}
       \/ /\ tasks' = [tasks EXCEPT ![t] = "Pending"]
          /\ UNCHANGED episodes
    /\ UNCHANGED <<status, call, queue, snapshot, storedEpisodes, asked, crashes>>

\* run_workflow up to its loop: on a cycle it returns an error and leaves the status.
RunWorkflow ==
    /\ call = "idle" /\ status' = "Running"
    /\ IF HasCycle(graph) THEN UNCHANGED <<call, queue>>
       ELSE call' = "running" /\ queue' = RunOrder(graph)
    /\ UNCHANGED <<graph, tasks, episodes, store, promised, submits, crashes>>

\* execute_task succeeds for the next task, which may have been completed before.
ExecuteTask ==
    /\ call = "running" /\ queue # << >>
    /\ Executable(graph, tasks, Head(queue))
    /\ tasks' = [tasks EXCEPT ![Head(queue)] = "Completed"]
    /\ queue' = Tail(queue)
    /\ UNCHANGED <<graph, status, episodes, call, store, promised, submits, crashes>>

\* Faulty: the run goes on, and counts as failed only the reports it has.
TaskFailsGoesOn ==
    /\ call = "running" /\ queue # << >>
    /\ LET t == Head(queue)
       IN  /\ tasks' = IF tasks[t] = "none" THEN tasks ELSE [tasks EXCEPT ![t] = "Failed"]
           /\ acked' = Forget(t)
    /\ queue' = Tail(queue)
    /\ UNCHANGED <<graph, status, episodes, call, store, asked, submits, crashes>>

\* execute_task returns an error, for one of its checks or from routing, a tool or the
\* reflector: the run ends there.
TaskFails ==
    /\ call = "running" /\ queue # << >>
    /\ LET t == Head(queue)
       IN  /\ tasks' = IF tasks[t] = "none" THEN tasks ELSE [tasks EXCEPT ![t] = "Failed"]
           /\ acked' = Forget(t)
    /\ status' = "Failed" /\ call' = "idle" /\ queue' = << >>
    /\ UNCHANGED <<graph, episodes, store, asked, submits, crashes>>

\* The end of run_workflow and the episodes of its reports.
FinishRun ==
    /\ call = "running" /\ queue = << >>
    /\ status' = "Succeeded" /\ call' = "checkpoint"
    /\ episodes' = episodes \cup DOMAIN graph
    /\ UNCHANGED <<graph, tasks, queue, store, promised, submits, crashes>>

\* The method checkpoint.
Checkpoint ==
    /\ call = "idle" /\ call' = "checkpoint"
    /\ UNCHANGED <<graph, tasks, status, episodes, queue, store, promised, submits, crashes>>

\* checkpoint_full_workflow: the state and every task in one batch.
CheckpointFullWorkflow ==
    /\ call = "checkpoint" /\ call' = "memory"
    /\ snapshot' = tasks
    /\ stored' = [t \in TaskIds |-> IF tasks[t] = "none" THEN stored[t] ELSE tasks[t]]
    /\ UNCHANGED <<graph, tasks, status, episodes, queue, storedEpisodes, promised, submits, crashes>>

\* Memory's persist_to_store, after which the call returns.
PersistMemory ==
    /\ call = "memory" /\ call' = "idle"
    /\ storedEpisodes' = episodes
    /\ acked' = [tasks |-> CompletedIn(tasks), episodes |-> episodes]
    /\ UNCHANGED <<graph, tasks, status, episodes, queue, stored, snapshot, asked, submits, crashes>>

\* The store returns an error to either.
StoreFails ==
    /\ call \in {"checkpoint", "memory"} /\ call' = "idle"
    /\ UNCHANGED <<graph, tasks, status, episodes, queue, store, promised, submits, crashes>>

\* The process dies; in the middle of the batch, which starts with the snapshot, some
\* tasks have been written.
Crash ==
    /\ call # "down" /\ crashes < MaxCrashes
    /\ call' = "down" /\ crashes' = crashes + 1
    /\ \/ UNCHANGED <<stored, snapshot>>
       \/ /\ call = "checkpoint" /\ snapshot' = tasks
          /\ \E ts \in SUBSET {t \in TaskIds : tasks[t] # "none"} :
                 stored' = [t \in TaskIds |-> IF t \in ts THEN tasks[t] ELSE stored[t]]
    /\ graph' = NoGraph /\ tasks' = NoTasks /\ status' = "Initialized"
    /\ episodes' = {} /\ queue' = << >>
    /\ UNCHANGED <<storedEpisodes, promised, submits>>

\* Faulty: the tasks are taken from their own records.
RestoreFromRecords ==
    /\ call = "down" /\ call' = "idle"
    /\ asked' = [t \in TaskIds |-> {}]
    /\ tasks' = stored
    /\ graph' = [t \in {u \in TaskIds : stored[u] # "none"} |-> {}]
    /\ episodes' = storedEpisodes
    /\ UNCHANGED <<status, queue, store, acked, submits, crashes>>

\* restore_from_store: every task of the snapshot is submitted without dependencies;
\* without a snapshot it returns an error and the application makes a new pipeline.
Restore ==
    /\ call = "down" /\ call' = "idle"
    /\ asked' = [t \in TaskIds |-> {}]
    /\ IF snapshot = NoSnapshot THEN UNCHANGED <<graph, tasks, episodes>>
       ELSE /\ tasks' = snapshot
            /\ graph' = [t \in {u \in TaskIds : snapshot[u] # "none"} |-> {}]
            /\ episodes' = storedEpisodes
    /\ UNCHANGED <<status, queue, store, acked, submits, crashes>>

Next ==
    \/ \E t \in TaskIds, depends \in Dependencies : SubmitTask(t, depends)
    \/ \E t \in TaskIds : RunSingleTask(t)
    \/ RunWorkflow
    \/ ExecuteTask
    \/ TaskFails
    \/ FinishRun
    \/ Checkpoint
    \/ CheckpointFullWorkflow
    \/ PersistMemory
    \/ StoreFails
    \/ Crash
    \/ Restore

Spec == Init /\ [][Next]_wvars

-----------------------------------------------------------------------------
(* Properties                                                              *)

\* Every set of tasks has one that depends on none of the others: no cycle.
Acyclic(g) == \A ts \in (SUBSET DOMAIN g) \ {{}} : \E t \in ts : g[t] \cap ts = {}

\* What a task in the queue depends on is completed or stands before it.
RunNeverBlocked ==
    call = "running" =>
        \A i \in DOMAIN queue : \A d \in graph[queue[i]] :
            \/ tasks[d] = "Completed"
            \/ \E j \in 1..(i - 1) : queue[j] = d

\* Kahn's algorithm leaves out a task exactly if there is a cycle, puts every other one behind
\* all it depends on, once, and a run that takes the tiers in turn never stops because it came
\* to a task before its dependencies (agent/engine.rs:100-148, 435-470).
TiersSound ==
    LET tiers == Tiers(graph)
    IN  /\ (UNION Range(tiers)) = DOMAIN graph <=> Acyclic(graph)
        /\ \A m, n \in DOMAIN tiers : m < n => tiers[m] \cap tiers[n] = {}
        /\ \A n \in DOMAIN tiers : \A t \in tiers[n] :
               \A d \in graph[t] : \E m \in 1..(n - 1) : d \in tiers[m]
        /\ RunNeverBlocked

\* A task is only completed, by a run or alone, when all that any accepted submission of it
\* to this pipeline asked for is.
DependenciesFirst ==
    [][call # "down" =>
        \A t \in TaskIds :
            tasks[t] # "Completed" /\ tasks'[t] = "Completed" =>
                \A d \in asked[t] : tasks[d] = "Completed"]_wvars

\* A workflow is only called succeeded with everything in its graph completed, dependencies
\* that were named and never submitted included.
SucceededIsComplete ==
    [][status # "Succeeded" /\ status' = "Succeeded" =>
        \A t \in DOMAIN graph : tasks[t] = "Completed"]_wvars

\* What an acknowledged checkpoint held, tasks completed and episodes, is in the store,
\* whatever checkpoint broke off since, and in the pipeline again after a restart.
AckedWorkSurvives ==
    /\ acked.tasks # {} => snapshot # NoSnapshot /\ acked.tasks \subseteq CompletedIn(snapshot)
    /\ acked.episodes \subseteq storedEpisodes
    /\ call # "down" => acked.tasks \subseteq CompletedIn(tasks) /\ acked.episodes \subseteq episodes

-----------------------------------------------------------------------------
(* Statements of the repository that do not hold                           *)

\* "The entire swarm state can be reconstituted" (docs/AGENT_WORKFLOW.md:314): a task that
\* comes back depends on what it was submitted with.
DependenciesSurvive ==
    [][call = "down" =>
        \A t \in TaskIds : t \in DOMAIN graph' => asked[t] \subseteq graph'[t]]_wvars

\* "Directed Acyclic Graph" (engine.rs:31), "Validate cycle freedom immediately"
\* (engine.rs:63).
GraphAcyclic == Acyclic(graph)

\* A workflow that is Running is being run.
RunningIsRun == status = "Running" => call = "running"

\* A task that is stored was taken by the engine.
StoredAreSubmitted ==
    crashes = 0 => \A t \in TaskIds : stored[t] # "none" => tasks[t] # "none"
=============================================================================
