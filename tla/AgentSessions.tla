----------------------------- MODULE AgentSessions -----------------------------
(***************************************************************************)
(* The agent commands of the command line and of the interactive shell     *)
(* (src/src/cli/agent.rs, repl.rs).  Every command restores the pipeline   *)
(* of its workflow from the store, or starts an empty one if that returns  *)
(* an error, does its work on it, and writes a checkpoint, whose error     *)
(* most commands ignore.  Any step may be the last of its process, and any *)
(* access to the store may fail.                                           *)
(*                                                                         *)
(* Commands are one at a time, of several workflows.  What becomes of a    *)
(* single pipeline is in module AgentWorkflow; here tasks, agents and      *)
(* episodes are there or not.  Numbers of commands stand for episodes that *)
(* are recorded by hand.                                                   *)
(***************************************************************************)
EXTENDS Integers, Sequences

CONSTANTS
    Workflows,
    SessionTasks,
    StandardAgents, CustomAgents,
    MaxCommands,    \* bound
    MaxFaults       \* bound: accesses to the store that fail

VARIABLES
    step,       \* "prompt", "opened", or the next write of a checkpoint: "state", "memory"
    workflow,   \* of the command, and of the last one at the prompt
    pipe,       \* the pipeline: [tasks, agents, messages, episodes], each a set; at the prompt
                \* what the last command left of it
    misread,    \* the pipeline is empty because the stored one could not be read
    rounds,     \* checkpoints to come: "run" by the pipeline, "own" by the command, whose error
                \* is ignored, or "asked" for by the user
    said,       \* "OK", "error" or nothing yet
    savedState, \* agent:wf:<workflow>: {} or {[tasks, agents, messages]}
    savedMemory,    \* agent:mem:<workflow>:episodes: {} or {what was put}
    reported,   \* observer: what commands of each workflow have said that they did, and saved
    overwritten,    \* observer: workflows saved by a pipeline that was misread
    commands, faults    \* counts

sessionVars == <<step, workflow, pipe, misread, rounds, said, savedState,
                 savedMemory, reported, overwritten, commands, faults>>

EmptyPipe == [tasks |-> {}, agents |-> {}, messages |-> {}, episodes |-> {}]

\* seed_standard_agents: only if there are no agents at all.
Seeded(p) == IF p.agents = {} THEN [p EXCEPT !.agents = StandardAgents] ELSE p

\* Faulty: all workflows share the default namespace.
DefaultNamespace(w) == CHOOSE v \in Workflows : TRUE

\* AgentPipeline::new has the workflow for a namespace.
Namespace(w) == w

\* restore_from_store: neither messages nor, without a snapshot, episodes are loaded.
Restored(w) ==
    IF savedState[w] = {} THEN EmptyPipe
    ELSE LET s == CHOOSE s \in savedState[w] : TRUE
         IN  [tasks |-> s.tasks, agents |-> s.agents, messages |-> {},
              episodes |-> UNION savedMemory[Namespace(w)]]

-----------------------------------------------------------------------------
SessionInit ==
    /\ step = "prompt" /\ workflow \in Workflows /\ pipe = EmptyPipe
    /\ misread = FALSE /\ rounds = << >> /\ said = ""
    /\ savedState = [w \in Workflows |-> {}] /\ savedMemory = savedState
    /\ reported = [w \in Workflows |-> EmptyPipe] /\ overwritten = {}
    /\ commands = 0 /\ faults = 0

Fault == faults < MaxFaults /\ faults' = faults + 1

\* open_agent_pipeline: any error of the restore is taken for a workflow that is new.
OpenAgentPipeline(w) ==
    /\ step = "prompt" /\ commands < MaxCommands
    /\ commands' = commands + 1 /\ workflow' = w /\ step' = "opened" /\ said' = ""
    /\ \/ pipe' = Seeded(Restored(w)) /\ misread' = FALSE /\ faults' = faults
       \/ pipe' = Seeded(EmptyPipe) /\ misread' = TRUE /\ Fault
    /\ UNCHANGED <<rounds, savedState, savedMemory, reported, overwritten>>

\* The work of a command, and the checkpoints it goes on to write.
Work(new, checkpoints) ==
    /\ step = "opened" /\ step' = "state"
    /\ pipe' = new /\ rounds' = checkpoints
    /\ UNCHANGED <<workflow, misread, said, savedState, savedMemory, reported, overwritten,
                   commands, faults>>

\* run_single_task: a task that fails has no episode.
Run(t) ==
    \E done \in SUBSET {t} :
        Work([pipe EXCEPT !.tasks = @ \cup {t}, !.messages = @ \cup {t},
                          !.episodes = @ \cup done], <<"own">>)

\* submit_task for the tasks of a file and run, which executes all there are, again if need be.
Workflow(ts) ==
    LET all == pipe.tasks \cup ts
    IN  \E done \in SUBSET all :
            Work([pipe EXCEPT !.tasks = all, !.messages = @ \cup all,
                              !.episodes = @ \cup done], <<"run", "own">>)

Register(a) == Work([pipe EXCEPT !.agents = @ \cup {a}], <<"own">>)
RecordMemory == Work([pipe EXCEPT !.episodes = @ \cup {commands}], <<"own">>)
CheckpointNow == Work(pipe, <<"asked">>)

End(answer) ==
    /\ step' = "prompt" /\ rounds' = << >> /\ said' = answer

\* The command only looks, or its work returns an error before anything is saved; or the
\* process dies, at any step.
Leave ==
    /\ step # "prompt" /\ End("error") /\ misread' = FALSE
    /\ pipe' = EmptyPipe
    /\ UNCHANGED <<workflow, savedState, savedMemory, reported, overwritten, commands, faults>>

\* checkpoint_full_workflow, one batch.
SaveState ==
    /\ step = "state" /\ step' = "memory"
    /\ savedState' = [savedState EXCEPT ![workflow] =
         {[tasks |-> pipe.tasks, agents |-> pipe.agents, messages |-> pipe.messages]}]
    /\ overwritten' = overwritten \cup {w \in {workflow} : misread}
    /\ UNCHANGED <<workflow, pipe, misread, rounds, said, savedMemory, reported, commands, faults>>

\* persist_to_store; after its last checkpoint the command says what it did.
SaveMemory ==
    /\ step = "memory"
    /\ savedMemory' = [savedMemory EXCEPT ![Namespace(workflow)] = {pipe.episodes}]
    /\ IF Len(rounds) > 1
         THEN /\ step' = "state" /\ rounds' = Tail(rounds)
              /\ UNCHANGED <<said, reported>>
         ELSE /\ End("OK")
              /\ reported' = [reported EXCEPT ![workflow] =
                   [part \in DOMAIN @ |-> @[part] \cup pipe[part]]]
    /\ UNCHANGED <<workflow, pipe, misread, savedState, overwritten, commands, faults>>

\* A write of a checkpoint fails: the error is that of the command, or nobody's.
SaveFails ==
    /\ step \in {"state", "memory"} /\ Fault
    /\ End(IF Head(rounds) = "own" THEN "OK" ELSE "error")
    /\ UNCHANGED <<workflow, pipe, misread, savedState, savedMemory, reported, overwritten,
                   commands>>

SessionNext ==
    \/ \E w \in Workflows : OpenAgentPipeline(w)
    \/ \E t \in SessionTasks : Run(t)
    \/ \E ts \in SUBSET SessionTasks : Workflow(ts)
    \/ \E a \in CustomAgents : Register(a)
    \/ RecordMemory \/ CheckpointNow
    \/ Leave
    \/ SaveState \/ SaveMemory \/ SaveFails

SessionSpec == SessionInit /\ [][SessionNext]_sessionVars

-----------------------------------------------------------------------------
(* Properties                                                              *)

AllIn(p, part, q) == p[part] \subseteq q[part]

\* What commands have done and saved is found by every later command of the workflow: no
\* command of another one, no write that fails and no death between the two records of a
\* checkpoint takes it away, unless the workflow was saved by a command that could not read
\* it (cli/agent.rs:355-364, agent/pipeline.rs:279-324).
SessionsContinue ==
    \A w \in Workflows \ overwritten : \A part \in {"tasks", "agents", "episodes"} :
        AllIn(reported[w], part, Restored(w))

-----------------------------------------------------------------------------
(* Statements of the repository that do not hold                           *)

\* "The entire swarm state can be reconstituted" (docs/AGENT_WORKFLOW.md:314): what was saved
\* stays, whatever fails to be read.
ReportedStays ==
    \A w \in Workflows : \A part \in {"tasks", "agents", "episodes"} :
        AllIn(reported[w], part, Restored(w))

\* The same, of the messages in the snapshot.
MessagesStay ==
    \A w \in Workflows : reported[w].messages \subseteq UNION {s.messages : s \in savedState[w]}

\* "OK: Registered agent", "OK: Recorded episodic memory" (cli/agent.rs:497, 618): it is saved.
OkIsSaved ==
    step = "prompt" /\ said = "OK" =>
        \A part \in {"tasks", "agents", "episodes"} : AllIn(pipe, part, Restored(workflow))
===============================================================================
