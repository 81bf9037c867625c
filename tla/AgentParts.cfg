SPECIFICATION AgentsSpec
CONSTANTS
  TaskIds = {1, 2, 3}
  MaxDeps = 2
  MaxSubmits = 3
  MaxCrashes = 1
  Scores = {0, 69, 70, 79, 80, 81, 84, 85, 100}
  IterationLimits = {0, 1, 3, 4}
  Roster <- Agents
  Requests <- Assignments
  Dispatchers = {d1, d2}
  MaxConcurrency = 2
  MaxRouted = 4
  MaxResets = 1
  Recorders = {r1, r2}
  Events <- AgentEvents
  Huge = 9
  EventLimit = 1
  FewestKept = 2
  MaxRecords = 3
  MaxSweeps = 1
  BoardKeys = {k1}
  EpisodeWords <- EpisodeTexts
  Importances = {2, 8}
  Queries <- RecallQueries
  FewestEpisodes = 1
  Capacities = {0, 2}
  MaxEpisodes = 3
  MaxBoardWrites = 2
  MaxPersists = 2
  MaxTime = 1
  Decay <- HalfEachTick
  ToolKeys = {1, 2}
  ToolValues = {"u", "v"}
  Operands = {0, 2}
  ScanLimits = {0, 1}
  MaxBatch = 2
  Workflows = {w1, w2}
  SessionTasks = {t1}
  StandardAgents = {"standard"}
  CustomAgents = {"custom"}
  MaxCommands = 3
  MaxFaults = 1
  MaxTyped = 4
  MaxWords = 2
INVARIANTS
  TiersSound
  AckedWorkSurvives
  LoopIsBounded
  ApprovedIsSound
  PassedIsBest
  RoutingSound
  TelemetryExact
  MemoryToolsAndCommands
PROPERTIES
  DependenciesFirst
  SucceededIsComplete
CHECK_DEADLOCK FALSE
