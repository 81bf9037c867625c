------------------------------ MODULE AgentParts ------------------------------
(***************************************************************************)
(* The parts of the agent subsystem that share no state with each other:   *)
(* the pipeline, the reflection loop of one task, the routers, telemetry,  *)
(* the memory that agents share, their tools, and the commands of the      *)
(* command line with the lines of its shell.  A behaviour is one of one of *)
(* them.                                                                   *)
(***************************************************************************)
EXTENDS AgentWorkflow, Reflection, Routing, Telemetry, AgentMemory, AgentTools,
        AgentSessions, Shell

VARIABLE agentPart  \* the one that runs

agentVars == <<wvars, rvars, routingVars, telemetryVars, memoryVars, toolVars,
               sessionVars, typed, agentPart>>

\* A fixed state for each part that does not run.
LoopIdle ==
    /\ limit = 0 /\ iteration = 0 /\ steps = << >>
    /\ converged = FALSE /\ final = "none" /\ loop = "idle"
RoutingIdle ==
    /\ router = "Default"
    /\ loads = [a \in Staff |-> 0] /\ running = loads
    /\ desk = [d \in Dispatchers |-> Free]
    /\ routed = 0 /\ resets = 0 /\ ended = 0
TelemetryIdle ==
    /\ counter = [name \in {} |-> 0] /\ events = << >>
    /\ thread = [t \in Recorders |-> << >>] /\ reading = << >>
    /\ told = << >> /\ torn = TRUE /\ records = 0 /\ sweeps = 0
MemoryIdle == capacity = FewestEpisodes /\ MemoryInit
ToolsIdle == kv = [k \in {} |-> 0] /\ batch = {}
SessionsIdle == workflow = CHOOSE w \in Workflows : TRUE

\* Commands and lines begin with nothing: each is a part of its own all the same.
AgentsInit ==
    /\ Init /\ SessionInit /\ ShellInit
    /\ \/ agentPart = "workflow" /\ LoopIdle /\ RoutingIdle /\ TelemetryIdle /\ MemoryIdle /\ ToolsIdle
       \/ agentPart = "reflection" /\ LoopInit /\ RoutingIdle /\ TelemetryIdle /\ MemoryIdle /\ ToolsIdle
       \/ agentPart = "routing" /\ LoopIdle /\ RoutingInit /\ TelemetryIdle /\ MemoryIdle /\ ToolsIdle
       \/ agentPart = "telemetry" /\ LoopIdle /\ RoutingIdle /\ TelemetryInit /\ MemoryIdle /\ ToolsIdle
       \/ agentPart = "memory" /\ LoopIdle /\ RoutingIdle /\ TelemetryIdle /\ MemoryInit /\ ToolsIdle
       \/ agentPart = "tools" /\ LoopIdle /\ RoutingIdle /\ TelemetryIdle /\ MemoryIdle /\ ToolsInit
       \/ /\ agentPart \in {"sessions", "shell"}
          /\ LoopIdle /\ RoutingIdle /\ TelemetryIdle /\ MemoryIdle /\ ToolsIdle
    /\ agentPart # "sessions" => SessionsIdle

AgentsNext ==
    \/ /\ agentPart = "workflow" /\ Next
       /\ UNCHANGED <<rvars, routingVars, telemetryVars, memoryVars, toolVars, sessionVars, typed, agentPart>>
    \/ /\ agentPart = "reflection" /\ LoopNext
       /\ UNCHANGED <<wvars, routingVars, telemetryVars, memoryVars, toolVars, sessionVars, typed, agentPart>>
    \/ /\ agentPart = "routing" /\ RoutingNext
       /\ UNCHANGED <<wvars, rvars, telemetryVars, memoryVars, toolVars, sessionVars, typed, agentPart>>
    \/ /\ agentPart = "telemetry" /\ TelemetryNext
       /\ UNCHANGED <<wvars, rvars, routingVars, memoryVars, toolVars, sessionVars, typed, agentPart>>
    \/ /\ agentPart = "memory" /\ MemoryNext
       /\ UNCHANGED <<wvars, rvars, routingVars, telemetryVars, toolVars, sessionVars, typed, agentPart>>
    \/ /\ agentPart = "tools" /\ ToolsNext
       /\ UNCHANGED <<wvars, rvars, routingVars, telemetryVars, memoryVars, sessionVars, typed, agentPart>>
    \/ /\ agentPart = "sessions" /\ SessionNext
       /\ UNCHANGED <<wvars, rvars, routingVars, telemetryVars, memoryVars, toolVars, typed, agentPart>>
    \/ /\ agentPart = "shell" /\ ShellNext
       /\ UNCHANGED <<wvars, rvars, routingVars, telemetryVars, memoryVars, toolVars, sessionVars, agentPart>>

AgentsSpec == AgentsInit /\ [][AgentsNext]_agentVars

-----------------------------------------------------------------------------
(* The instances                                                           *)

\* Two agents alike, and one that can do more and has another role.
Agents ==
    <<[role |-> "Coder", capabilities |-> {"CodeExecution", "TextGeneration"}],
      [role |-> "Planner", capabilities |-> {"CodeExecution", "TextGeneration", "StorageOps"}],
      [role |-> "Coder", capabilities |-> {"CodeExecution", "TextGeneration"}]>>

\* One that all can do, a critical one for the second in the words of the first, a critical
\* one that nobody can do, and one without requirements.
Assignments ==
    {[needs |-> {"CodeExecution"}, priority |-> "Medium", words |-> {}],
     [needs |-> {"CodeExecution", "StorageOps", "TextGeneration"}, priority |-> "Critical", words |-> {"Coder"}],
     [needs |-> {"Reflection"}, priority |-> "Critical", words |-> {}],
     [needs |-> {}, priority |-> "High", words |-> {"Planner"}]}

AgentEvents ==
    {[kind |-> "ToolCallCompleted", success |-> TRUE, duration |-> 1],
     [kind |-> "ReflectionEvaluated", iteration |-> 2, verdict |-> "Approved"],
     [kind |-> "TaskCompleted", duration |-> 2],
     [kind |-> "TaskFailed", duration |-> 3]}

EpisodeTexts == {{1}, {2, 3}}
RecallQueries == {{1}, {1, 2}}

\* A half-life of one tick.
HalfEachTick == [age \in 0..MaxTime |-> 2 ^ (MaxTime - age)]

-----------------------------------------------------------------------------
(* The properties of a part, for the behaviours in which it runs           *)

\* Recall and eviction (MemorySound of AgentMemory), batches of tool calls (BatchesInOrder of
\* AgentTools), what commands leave to later ones (SessionsContinue of AgentSessions) and the
\* words of a line (LinesSplitBack of Shell) are what they should be.
MemoryToolsAndCommands ==
    /\ agentPart = "memory" => MemorySound
    /\ agentPart = "tools" => BatchesInOrder
    /\ agentPart = "sessions" => SessionsContinue
    /\ agentPart = "shell" => LinesSplitBack
=============================================================================
