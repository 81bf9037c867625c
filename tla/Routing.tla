------------------------------- MODULE Routing -------------------------------
(***************************************************************************)
(* The task routers (src/src/agent/router.rs and DefaultTaskRouter of      *)
(* types.rs) used by dispatchers of which each routes a task, notes its    *)
(* start in the loads and later its end, as the tests of the repository    *)
(* do.  One router serves all dispatchers of a behaviour.                  *)
(*                                                                         *)
(* Scores are hundredths in exact arithmetic; of the words of a task only  *)
(* the roles whose keywords they contain count.  Confidence and rationale  *)
(* decide nothing and are left out.                                        *)
(***************************************************************************)
EXTENDS Integers, Sequences, FiniteSets, Functions

CONSTANTS
    Roster,         \* the available agents, in order: [role, capabilities]
    Requests,       \* tasks: [needs, priority, words]
    Dispatchers,
    MaxConcurrency, \* what LoadBalancingRouter::new is given
    MaxRouted,      \* tasks routed, a bound
    MaxResets       \* calls of reset_loads, a bound

\* The error of every router that is given no agents is left out.
ASSUME RosterHasAgents == DOMAIN Roster = 1..Len(Roster) /\ Len(Roster) \in Nat \ {0}
ASSUME RequestsAreTasks ==
    \A task \in Requests :
        IsFiniteSet(task.needs) /\ task.priority \in {"Critical", "High", "Medium", "Low"}
ASSUME RoutingBounds ==
    IsFiniteSet(Dispatchers) /\ MaxConcurrency \in Nat /\ MaxRouted \in Nat /\ MaxResets \in Nat

VARIABLES
    router,     \* which router serves
    loads,      \* active_loads, 0 where there is no entry
    desk,       \* what each dispatcher is doing
    running,    \* observer: tasks started on each agent and not ended
    routed, resets, ended   \* counts, for the bounds and the properties

routingVars == <<router, loads, desk, running, routed, resets, ended>>

Routers == {"LeastLoaded", "PriorityTiered", "Adaptive", "Default"}
Staff == DOMAIN Roster
Free == [at |-> "free"]

\* new: 0 stands for the default.
Cap == IF MaxConcurrency = 0 THEN 4 ELSE MaxConcurrency

-----------------------------------------------------------------------------
(* Scores                                                                  *)

CapabilityMatch(task, a) ==
    IF task.needs = {} THEN 100
    ELSE (100 * Cardinality(task.needs \cap Roster[a].capabilities)) \div Cardinality(task.needs)

RoleBonus(task, a, need, role, bonus) ==
    IF need \in task.needs /\ Roster[a].role = role THEN bonus ELSE 0

RoleAffinity(task, a) ==
    LET wordy == IF Roster[a].role \in task.words THEN 20 ELSE 0
        sum == 50 + RoleBonus(task, a, "CodeExecution", "Coder", 25)
                  + RoleBonus(task, a, "Reflection", "Critic", 25)
                  + RoleBonus(task, a, "ToolCalling", "ToolExecutor", 20)
                  + RoleBonus(task, a, "StorageOps", "MemoryAgent", 25)
                  + RoleBonus(task, a, "MemoryRetrieval", "MemoryAgent", 25)
                  + RoleBonus(task, a, "TextGeneration", "Planner", 15) + wordy
    IN  IF sum > 100 THEN 100 ELSE sum

\* score_workload times Cap.
Workload(load) == IF load >= Cap THEN 0 ELSE 100 * (Cap - load)

PriorityTier(priority, match) ==
    CASE priority = "Critical" -> IF match >= 99 THEN 100 ELSE 20
      [] priority = "High" -> IF match >= 75 THEN 90 ELSE 40
      [] priority = "Medium" -> 60
      [] priority = "Low" -> 50

\* evaluate_agent with the default weights, times 100 * Cap.
Fitness(task, a, load) ==
    45 * Cap * CapabilityMatch(task, a) + 25 * Cap * RoleAffinity(task, a)
      + 20 * Workload(load) + 10 * Cap * PriorityTier(task.priority, CapabilityMatch(task, a))

RoleAndCapability(task, a) == 6 * CapabilityMatch(task, a) + 4 * RoleAffinity(task, a)

-----------------------------------------------------------------------------
(* Decisions: [target, fallbacks], or Refused                              *)

Refused == [target |-> 0, fallbacks |-> << >>]

\* The agents by falling score, equal ones in their order: what sort_by leaves.
Ahead(score, a, b) == score[a] > score[b] \/ (score[a] = score[b] /\ a < b)
Ranked(score) ==
    [i \in Staff |-> CHOOSE a \in Staff : Cardinality({b \in Staff : Ahead(score, b, a)}) = i - 1]

\* The first, and up to two fallbacks behind it.
Decision(order) ==
    [target |-> order[1], fallbacks |-> SubSeq(order, 2, IF Len(order) < 3 THEN Len(order) ELSE 3)]

\* Faulty: load before capability.
RouteLeastLoadedFirst(task, seen) ==
    Decision(Ranked([a \in Staff |-> CapabilityMatch(task, a) - 1000 * seen[a]]))

\* By capability, equal ones by load: the first is the least loaded of the most capable.
\* No load reaches MaxRouted + 1.
RouteLeastLoaded(task, seen) ==
    Decision(Ranked([a \in Staff |-> (MaxRouted + 1) * CapabilityMatch(task, a) - seen[a]]))

\* A critical task with requirements is refused if the first does not meet enough of them.
RoutePriorityTiered(task) ==
    LET order == Ranked([a \in Staff |-> RoleAndCapability(task, a)])
    IN  IF task.priority = "Critical" /\ CapabilityMatch(task, order[1]) < 80 /\ task.needs # {}
          THEN Refused ELSE Decision(order)

RouteAdaptive(task, seen) == Decision(Ranked([a \in Staff |-> Fitness(task, a, seen[a])]))

\* By capability if there are requirements and someone meets one, else the first agent.
RouteDefault(task) ==
    LET order == Ranked([a \in Staff |-> CapabilityMatch(task, a)])
    IN  IF task.needs # {} /\ CapabilityMatch(task, order[1]) > 0
          THEN Decision(order)
          ELSE [target |-> 1, fallbacks |-> << >>]

Route(task, seen) ==
    CASE router = "LeastLoaded" -> RouteLeastLoaded(task, seen)
      [] router = "PriorityTiered" -> RoutePriorityTiered(task)
      [] router = "Adaptive" -> RouteAdaptive(task, seen)
      [] router = "Default" -> RouteDefault(task)

-----------------------------------------------------------------------------
RoutingInit ==
    /\ router \in Routers
    /\ loads = [a \in Staff |-> 0] /\ running = loads
    /\ desk = [d \in Dispatchers |-> Free]
    /\ routed = 0 /\ resets = 0 /\ ended = 0

\* A task comes in.  No load is seen yet.
StartRouting(d, task) ==
    /\ desk[d] = Free /\ routed < MaxRouted
    /\ routed' = routed + 1
    /\ desk' = [desk EXCEPT ![d] = [at |-> "looking", task |-> task, seen |-> << >>]]
    /\ UNCHANGED <<router, loads, running, resets, ended>>

\* evaluate_agent asks for one load at a time; the other routers ask for none or for all
\* under one lock.
Look(d) ==
    /\ desk[d].at = "looking" /\ Len(desk[d].seen) < Len(Roster)
    /\ LET all == [i \in Staff |-> loads[i]]
           next == Append(desk[d].seen, loads[Len(desk[d].seen) + 1])
       IN  desk' = [desk EXCEPT ![d].seen = IF router = "Adaptive" THEN next ELSE all]
    /\ UNCHANGED <<router, loads, running, routed, resets, ended>>

\* route returns.
Decide(d) ==
    /\ desk[d].at = "looking" /\ Len(desk[d].seen) = Len(Roster)
    /\ LET decision == Route(desk[d].task, desk[d].seen)
       IN  desk' = [desk EXCEPT ![d] =
             [at |-> "decided", task |-> desk[d].task, seen |-> desk[d].seen, decision |-> decision]]
    /\ UNCHANGED <<router, loads, running, routed, resets, ended>>

\* track_task_started for the target; a task that was refused has none.
TrackTaskStarted(d) ==
    /\ desk[d].at = "decided"
    /\ LET a == desk[d].decision.target
       IN  IF a = 0 THEN UNCHANGED <<loads, running>>
           ELSE /\ loads' = [loads EXCEPT ![a] = @ + 1]
                /\ running' = [running EXCEPT ![a] = @ + 1]
    /\ desk' = [desk EXCEPT ![d] = Free]
    /\ UNCHANGED <<router, routed, resets, ended>>

\* Faulty: the count goes below nothing.
TrackTaskCompletedWraps(a) ==
    /\ running[a] > 0
    /\ running' = [running EXCEPT ![a] = @ - 1]
    /\ loads' = [loads EXCEPT ![a] = @ - 1]
    /\ ended' = ended + 1
    /\ UNCHANGED <<router, desk, routed, resets>>

\* A task that was started on a ends: track_task_completed, which stops at 0.
TrackTaskCompleted(a) ==
    /\ running[a] > 0
    /\ running' = [running EXCEPT ![a] = @ - 1]
    /\ loads' = [loads EXCEPT ![a] = IF @ > 0 THEN @ - 1 ELSE @]
    /\ ended' = ended + 1
    /\ UNCHANGED <<router, desk, routed, resets>>

\* reset_loads, while tasks may be running.
ResetLoads ==
    /\ resets < MaxResets
    /\ resets' = resets + 1
    /\ loads' = [a \in Staff |-> 0]
    /\ UNCHANGED <<router, desk, running, routed, ended>>

RoutingNext ==
    \/ \E d \in Dispatchers, task \in Requests : StartRouting(d, task)
    \/ \E d \in Dispatchers : Look(d) \/ Decide(d) \/ TrackTaskStarted(d)
    \/ \E a \in Staff : TrackTaskCompleted(a)
    \/ ResetLoads

RoutingSpec == RoutingInit /\ [][RoutingNext]_routingVars

-----------------------------------------------------------------------------
(* Properties                                                              *)

\* Whatever ends and is reset in whatever order, a load is never negative and never larger
\* than the tasks running, and without resets it is their number (router.rs:152-183).
LoadsAccount ==
    /\ \A a \in Staff : loads[a] >= 0 /\ loads[a] <= running[a]
    /\ resets = 0 => loads = running

\* Agents that meet as much of everything that is ever asked for.
Alike(a, b) == \A task \in Requests : CapabilityMatch(task, a) = CapabilityMatch(task, b)

\* Dispatchers that choose from the same loads choose the same agent, yet until tasks end
\* one of two alike agents is never ahead of the other by more than the number of
\* dispatchers (router.rs:218-223).
LoadsBalanced ==
    router = "LeastLoaded" /\ ended = 0 /\ resets = 0 =>
        \A a, b \in Staff : Alike(a, b) => loads[a] - loads[b] <= Cardinality(Dispatchers)

\* No agent with more of the capabilities, at least the affinity and at most the load that
\* was seen is passed over; by capability alone for the two routers that go by it.
DecisionsSound ==
    \A d \in Dispatchers : desk[d].at = "decided" /\ desk[d].decision # Refused =>
        LET task == desk[d].task
            chosen == desk[d].decision.target
            fallbacks == desk[d].decision.fallbacks
            better == {a \in Staff : CapabilityMatch(task, a) > CapabilityMatch(task, chosen)}
        IN  /\ router \in {"LeastLoaded", "Default"} => better = {}
            /\ \A a \in better :
                 \/ RoleAffinity(task, a) < RoleAffinity(task, chosen)
                 \/ router = "Adaptive" /\ desk[d].seen[a] > desk[d].seen[chosen]
            /\ chosen \notin Range(fallbacks) /\ IsInjective(fallbacks)

\* The three together.
RoutingSound == LoadsAccount /\ LoadsBalanced /\ DecisionsSound

-----------------------------------------------------------------------------
(* Statements of the repository that do not hold                           *)

\* "Strictly favor top capability" (router.rs:103) for critical tasks.
CriticalGetTheBest ==
    \A d \in Dispatchers :
        desk[d].at = "decided" /\ desk[d].decision # Refused /\ desk[d].task.priority = "Critical" =>
            \A a \in Staff :
                CapabilityMatch(desk[d].task, a) <= CapabilityMatch(desk[d].task, desk[d].decision.target)

\* "max_concurrency_per_agent" (router.rs:134) bounds the tasks of an agent.
ConcurrencyIsCapped == \A a \in Staff : running[a] <= Cap
=============================================================================
