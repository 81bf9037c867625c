------------------------------ MODULE Telemetry ------------------------------
(***************************************************************************)
(* Events of the agents on their way to the handlers (EventBroadcaster,    *)
(* CollectingEventHandler and MetricsEventHandler of                       *)
(* src/src/agent/events.rs), and the counters they end in                  *)
(* (AgentMetricsTracker and DurationTracker of agent/metrics.rs, the same  *)
(* as StageLatencyTracker of rag/metrics.rs), kept by threads beside each  *)
(* other without a lock.                                                   *)
(*                                                                         *)
(* A call is a program: the atomic accesses it makes, in their order.      *)
(* Accesses are relaxed, but each property looks at counters that no       *)
(* thread is changing, or at the order in which one thread reads them.     *)
(***************************************************************************)
EXTENDS Integers, Sequences, FiniteSets, Functions

CONSTANTS
    Recorders,  \* threads
    Events,     \* what can be recorded
    Huge,       \* u64::MAX, above every duration
    EventLimit, \* what CollectingEventHandler::new is given
    FewestKept, \* and the limit it has at least, 10 in the code
    MaxRecords, \* calls, a bound
    MaxSweeps   \* of which snapshots and resets, a bound

ASSUME EventsAreKnown ==
    \A e \in Events :
        \/ e.kind = "TaskSubmitted"
        \/ e.kind = "TaskRouted" /\ e.preempted \in BOOLEAN
        \/ e.kind = "ToolCallCompleted" /\ e.success \in BOOLEAN /\ e.duration \in 0..Huge
        \/ e.kind = "ReflectionEvaluated" /\ e.iteration \in Nat
              /\ e.verdict \in {"Approved", "NeedsRevision", "Rejected", "Escalated"}
        \/ e.kind \in {"TaskCompleted", "TaskFailed"} /\ e.duration \in 0..Huge
        \/ /\ e.kind = "RoutingDecision"
           /\ e.tiered \in BOOLEAN /\ e.fallbacks \in BOOLEAN /\ e.millis \in Nat
        \/ e.kind = "Memory" /\ e.use \in {"blackboardReads", "blackboardWrites", "episodes", "recalls"}
ASSUME RecordersAreFinite == IsFiniteSet(Recorders) /\ Huge \in Nat

VARIABLES
    counter,    \* every AtomicU64, and the uses of a tool, by name
    events,     \* of the collecting handler
    thread,     \* what each thread has left to do
    reading,    \* what its snapshot has read, or its loop loaded
    told, torn, \* observers: events recorded since the last reset, and whether a reset
                \* ran beside another call
    records, sweeps

telemetryVars == <<counter, events, thread, reading, told, torn, records, sweeps>>

\* The counters of the two DurationTrackers.
Timer == [
    task |-> [count |-> "taskCount", total |-> "taskTotal", min |-> "taskMin", max |-> "taskMax"],
    tool |-> [count |-> "toolCount", total |-> "toolTotal", min |-> "toolMin", max |-> "toolMax"]]
TimerFields(timer) == <<timer.count, timer.total, timer.min, timer.max>>

Plain == {"submitted", "completed", "failed", "preempted", "routes", "preemptiveRoutes",
          "fallbackRoutes", "confidence", "tools", "toolsOk", "toolsFailed", "uses",
          "passes", "iterations", "Approved", "NeedsRevision", "Rejected", "Escalated",
          "blackboardReads", "blackboardWrites", "episodes", "recalls", "dispatched"}
Counters == Plain \cup Range(TimerFields(Timer.task)) \cup Range(TimerFields(Timer.tool))

Nothing == {}   \* loaded nothing yet
Limit == IF EventLimit > FewestKept THEN EventLimit ELSE FewestKept

-----------------------------------------------------------------------------
(* Programs                                                                *)

Add(name, amount) == [op |-> "add", name |-> name, amount |-> amount]
Store(name, amount) == [op |-> "store", name |-> name, amount |-> amount]
Read(name) == [op |-> "read", name |-> name]
If(condition, program) == IF condition THEN program ELSE << >>

\* DurationTracker::record.
RecordDuration(timer, micros) ==
    <<Add(timer.count, 1), Add(timer.total, micros),
      [op |-> "lower", name |-> timer.min, amount |-> micros],
      [op |-> "raise", name |-> timer.max, amount |-> micros]>>

\* The recorders of AgentMetricsTracker: the first six are called by the handler.
Recording(e) ==
    CASE e.kind = "TaskSubmitted" -> <<Add("submitted", 1)>>
      [] e.kind = "TaskRouted" -> If(e.preempted, <<Add("preempted", 1)>>)
      [] e.kind = "ToolCallCompleted" ->
            <<Add("tools", 1), Add(IF e.success THEN "toolsOk" ELSE "toolsFailed", 1)>>
              \o RecordDuration(Timer.tool, e.duration) \o <<Add("uses", 1)>>
      [] e.kind = "ReflectionEvaluated" ->
            <<Add("passes", 1), Add("iterations", e.iteration), Add(e.verdict, 1)>>
      [] e.kind = "TaskCompleted" -> <<Add("completed", 1)>> \o RecordDuration(Timer.task, e.duration)
      [] e.kind = "TaskFailed" -> <<Add("failed", 1)>> \o RecordDuration(Timer.task, e.duration)
      [] e.kind = "RoutingDecision" ->
            <<Add("routes", 1)>> \o If(e.tiered, <<Add("preemptiveRoutes", 1)>>)
              \o If(e.fallbacks, <<Add("fallbackRoutes", 1)>>) \o <<Add("confidence", e.millis)>>
      [] e.kind = "Memory" -> <<Add(e.use, 1)>>

\* The tracker is called directly for these.
Broadcasts(e) == e.kind \notin {"RoutingDecision", "Memory"}

\* broadcast: every handler in turn.
Broadcast(e) ==
    <<[op |-> "collect", event |-> e]>> \o Recording(e) \o <<Add("dispatched", 1)>>

\* The order in which snapshot reads and reset writes.
TaskCounters == <<"submitted", "completed", "failed", "preempted">>
RouteCounters == <<"routes", "preemptiveRoutes", "fallbackRoutes", "confidence">>
ToolCounters == <<"tools", "toolsOk", "toolsFailed">>
ReflectionCounters == <<"passes", "Approved", "NeedsRevision", "Rejected", "Escalated", "iterations">>
MemoryCounters == <<"blackboardReads", "blackboardWrites", "episodes", "recalls">>

\* The counters that the events change: of the others nothing but the first value is ever
\* read or written, and a sweep leaves them out.
Changed == UNION {{Recording(e)[i].name : i \in DOMAIN Recording(e)} : e \in Events}
Swept(order) ==
    LET kept == {p \in DOMAIN order : order[p] \in Changed}
    IN  [i \in 1..Cardinality(kept) |->
            order[CHOOSE p \in kept : Cardinality({q \in kept : q < p}) = i - 1]]

\* What a tracker's snapshot reads after a count of 0 is not used.
Snapshot ==
    LET all == TaskCounters \o RouteCounters \o ToolCounters \o ReflectionCounters
                   \o TimerFields(Timer.task) \o TimerFields(Timer.tool) \o <<"uses">> \o MemoryCounters
        order == Swept(all)
    IN  [i \in DOMAIN order |-> Read(order[i])]

Initially(name) == IF name \in {Timer.task.min, Timer.tool.min} THEN Huge ELSE 0

\* Faulty: the least duration is reset to 0.
ResetToZero ==
    LET all == TaskCounters \o TimerFields(Timer.task) \o RouteCounters \o ToolCounters
                   \o TimerFields(Timer.tool) \o <<"uses">> \o ReflectionCounters \o MemoryCounters
        order == Swept(all)
    IN  [i \in DOMAIN order |-> Store(order[i], 0)]

Reset ==
    LET all == TaskCounters \o TimerFields(Timer.task) \o RouteCounters \o ToolCounters
                   \o TimerFields(Timer.tool) \o <<"uses">> \o ReflectionCounters \o MemoryCounters
        order == Swept(all)
    IN  [i \in DOMAIN order |-> Store(order[i], Initially(order[i]))]

-----------------------------------------------------------------------------
TelemetryInit ==
    /\ counter = [name \in Counters |-> Initially(name)]
    /\ events = << >>
    /\ thread = [t \in Recorders |-> << >>]
    /\ reading = [t \in Recorders |-> Nothing]
    /\ told = << >> /\ torn = FALSE /\ records = 0 /\ sweeps = 0

Busy == {t \in Recorders : thread[t] # << >>}
Resetting == {t \in Busy : thread[t][1].op = "store"}

Begin(t, program) ==
    /\ thread[t] = << >> /\ program # << >> /\ records < MaxRecords
    /\ records' = records + 1
    /\ thread' = [thread EXCEPT ![t] = program]
    /\ reading' = [reading EXCEPT ![t] = Nothing]
    /\ UNCHANGED <<counter, events>>

Record(t, e) ==
    /\ Begin(t, IF Broadcasts(e) THEN Broadcast(e) ELSE Recording(e))
    /\ told' = Append(told, e)
    /\ torn' = (torn \/ Resetting # {})
    /\ UNCHANGED sweeps

Sweep(t, program) ==
    sweeps < MaxSweeps /\ sweeps' = sweeps + 1 /\ Begin(t, program)

StartSnapshot(t) == Sweep(t, Snapshot) /\ UNCHANGED <<told, torn>>

StartReset(t) ==
    /\ Sweep(t, Reset)
    /\ told' = << >>
    /\ torn' = (torn \/ \E u \in Busy : thread[u][1].op # "read")

Done(t) == thread' = [thread EXCEPT ![t] = Tail(@)]
Same == UNCHANGED <<told, torn, records, sweeps>>

\* fetch_add and store.
Change(t) ==
    /\ thread[t] # << >> /\ thread[t][1].op \in {"add", "store"}
    /\ LET step == thread[t][1]
       IN  counter' = [counter EXCEPT ![step.name] =
                         IF step.op = "add" THEN @ + step.amount ELSE step.amount]
    /\ Done(t) /\ UNCHANGED <<events, reading>> /\ Same

\* A load of a snapshot.
Load(t) ==
    /\ thread[t] # << >> /\ thread[t][1].op = "read"
    /\ reading' = [reading EXCEPT ![t] = @ \cup {<<thread[t][1].name, counter[thread[t][1].name]>>}]
    /\ Done(t) /\ UNCHANGED <<counter, events>> /\ Same

Beats(step, current) ==
    IF step.op = "lower" THEN step.amount < current ELSE step.amount > current

\* Faulty: compares with what was loaded and stores.
CompareExchangeBlind(t) ==
    /\ thread[t] # << >> /\ thread[t][1].op \in {"lower", "raise"}
    /\ LET step == thread[t][1]
           here == counter[step.name]
       IN  IF reading[t] = Nothing
             THEN reading' = [reading EXCEPT ![t] = {<<step.name, here>>}] /\ UNCHANGED <<counter, thread>>
           ELSE LET current == (CHOOSE c \in reading[t] : TRUE)[2]
                IN  /\ counter' = IF Beats(step, current) THEN [counter EXCEPT ![step.name] = step.amount] ELSE counter
                    /\ Done(t) /\ reading' = [reading EXCEPT ![t] = Nothing]
    /\ UNCHANGED events /\ Same

\* One turn of the loops of record: load; then give up if the bound is no better, or
\* exchange it if nobody has changed it since, or look at what it is now.  A failure
\* without reason changes nothing.
CompareExchange(t) ==
    /\ thread[t] # << >> /\ thread[t][1].op \in {"lower", "raise"}
    /\ LET step == thread[t][1]
           here == counter[step.name]
       IN  IF reading[t] = Nothing
             THEN reading' = [reading EXCEPT ![t] = {<<step.name, here>>}] /\ UNCHANGED <<counter, thread>>
           ELSE LET current == (CHOOSE c \in reading[t] : TRUE)[2]
                IN  IF ~ Beats(step, current)
                      THEN Done(t) /\ reading' = [reading EXCEPT ![t] = Nothing] /\ UNCHANGED counter
                    ELSE IF here = current
                      THEN /\ counter' = [counter EXCEPT ![step.name] = step.amount]
                           /\ Done(t) /\ reading' = [reading EXCEPT ![t] = Nothing]
                    ELSE reading' = [reading EXCEPT ![t] = {<<step.name, here>>}] /\ UNCHANGED <<counter, thread>>
    /\ UNCHANGED events /\ Same

\* CollectingEventHandler::handle, under the lock of its events.
Collect(t) ==
    /\ thread[t] # << >> /\ thread[t][1].op = "collect"
    /\ events' = Append(IF Len(events) >= Limit THEN Tail(events) ELSE events, thread[t][1].event)
    /\ Done(t) /\ UNCHANGED <<counter, reading>> /\ Same

TelemetryNext ==
    \E t \in Recorders :
        \/ \E e \in Events : Record(t, e)
        \/ StartSnapshot(t)
        \/ StartReset(t)
        \/ Change(t)
        \/ Load(t)
        \/ CompareExchange(t)
        \/ Collect(t)

TelemetrySpec == TelemetryInit /\ [][TelemetryNext]_telemetryVars

-----------------------------------------------------------------------------
(* Properties                                                              *)

Timed(tracker) ==
    LET kinds == IF tracker = "tool" THEN {"ToolCallCompleted"} ELSE {"TaskCompleted", "TaskFailed"}
    IN  {i \in DOMAIN told : told[i].kind \in kinds}
DurationsOf(tracker) == {told[i].duration : i \in Timed(tracker)}
Told(kinds) == Cardinality({i \in DOMAIN told : told[i].kind \in kinds})

IsLeast(x, S) == IF S = {} THEN x = Huge ELSE x \in S /\ \A y \in S : x <= y
IsGreatest(x, S) == IF S = {} THEN x = 0 ELSE x \in S /\ \A y \in S : y <= x

\* Once no thread is at work and unless a reset ran beside a call, no update was lost: the
\* least and the greatest duration are those of the events since the last reset, count and
\* total are theirs, tasks and tools that succeeded and failed add up to what was timed and
\* the verdicts to the passes (agent/metrics.rs:57-90, 248-342).
TelemetryExact ==
    Busy = {} /\ ~ torn =>
        /\ \A tracker \in {"task", "tool"} :
             /\ counter[Timer[tracker].count] = Cardinality(Timed(tracker))
             /\ counter[Timer[tracker].total] = SumFunction([i \in Timed(tracker) |-> told[i].duration])
             /\ IsLeast(counter[Timer[tracker].min], DurationsOf(tracker))
             /\ IsGreatest(counter[Timer[tracker].max], DurationsOf(tracker))
        /\ counter["completed"] + counter["failed"] = counter[Timer.task.count]
        /\ counter["toolsOk"] + counter["toolsFailed"] = counter["tools"]
        /\ counter["tools"] = Told({"ToolCallCompleted"}) /\ counter["uses"] = counter["tools"]
        /\ counter["passes"] = counter["Approved"] + counter["NeedsRevision"]
                                 + counter["Rejected"] + counter["Escalated"]
        /\ counter["passes"] = Told({"ReflectionEvaluated"})

-----------------------------------------------------------------------------
(* Statements of the repository that do not hold                           *)

\* "tool_success_rate" (agent/metrics.rs:139) of a snapshot is a rate: not beside a call,
\* whose total was read before it was counted and whose success after.
SuccessRateIsRate ==
    \A t \in DOMAIN reading : \A m, n \in 0..9 :
        <<"tools", m>> \in reading[t] /\ <<"toolsOk", n>> \in reading[t] => n <= m
=============================================================================
