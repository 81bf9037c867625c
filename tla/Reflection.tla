----------------------------- MODULE Reflection -----------------------------
(***************************************************************************)
(* The reflection loop that execute_task runs over an agent's output       *)
(* (src/src/agent/reflection.rs, ReflectionState of types.rs): a reflector *)
(* scores the candidate, the evaluator decides from the score, from the    *)
(* critical dimensions and from the steps before whether to approve it, to *)
(* have it revised or to give up, and the state records the step and draws *)
(* a conclusion of its own.  The text of the task becomes the best         *)
(* candidate.                                                              *)
(*                                                                         *)
(* A candidate is the number of its step.  Of its critiques only the mean  *)
(* score, in hundredths, matters and whether a critical dimension (safety, *)
(* security, correctness) is below CriticalThreshold, a veto.  Reflectors  *)
(* give any such pair: a mean above the threshold with a veto takes six    *)
(* critiques, which CompositeReflector gathers.                            *)
(***************************************************************************)
EXTENDS Integers, Sequences

CONSTANTS
    Scores,         \* mean scores a candidate can have
    IterationLimits \* agent.max_iterations, of which at most 5 count

ASSUME ScoresAreHundredths == Scores \subseteq 0..100
ASSUME LimitsAreCounts == IterationLimits \subseteq Nat

VARIABLES
    limit,      \* max_iterations of this loop
    iteration,  \* current_iteration
    steps,      \* steps: score, veto and verdict
    converged,
    final,      \* final_verdict
    loop        \* "running", "done", or "failed" when the reflector returns an error

rvars == <<limit, iteration, steps, converged, final, loop>>

\* ConvergenceConfig::default(), in hundredths.
PassingThreshold == 85
StagnationEpsilon == 2
RegressionTolerance == 15

Verdicts == {"Approved", "NeedsRevision", "Rejected", "Escalated"}
Step == [score : Scores, veto : BOOLEAN, verdict : Verdicts]

Distance(a, b) == IF a < b THEN b - a ELSE a - b
LatestStep(s) == s[Len(s)]

\* The last two steps and the new score are level.
Stagnates(score) ==
    /\ Len(steps) >= 2
    /\ Distance(score, LatestStep(steps).score) < StagnationEpsilon
    /\ Distance(LatestStep(steps).score, steps[Len(steps) - 1].score) < StagnationEpsilon

Regresses(score) == steps # << >> /\ score < LatestStep(steps).score - RegressionTolerance

\* Faulty: a passing score outweighs a veto.
EvaluateScoreFirst(n, score, veto) ==
    IF score >= PassingThreshold THEN "Approved"
    ELSE IF veto THEN IF n >= limit THEN "Rejected" ELSE "NeedsRevision"
    ELSE IF n >= limit THEN IF score >= 70 THEN "Escalated" ELSE "Rejected"
    ELSE IF Regresses(score) \/ ~ Stagnates(score) THEN "NeedsRevision"
    ELSE IF score >= PassingThreshold - 5 THEN "Approved" ELSE "Escalated"

\* Faulty: a vetoed candidate is always sent back.
EvaluateVetoRevises(n, score, veto) ==
    IF veto THEN "NeedsRevision"
    ELSE IF score >= PassingThreshold THEN "Approved"
    ELSE IF n >= limit THEN IF score >= 70 THEN "Escalated" ELSE "Rejected"
    ELSE IF Regresses(score) \/ ~ Stagnates(score) THEN "NeedsRevision"
    ELSE IF score >= PassingThreshold - 5 THEN "Approved" ELSE "Escalated"

\* ConvergenceEvaluator::evaluate, for the n-th candidate.
Evaluate(n, score, veto) ==
    IF veto THEN IF n >= limit THEN "Rejected" ELSE "NeedsRevision"
    ELSE IF score >= PassingThreshold THEN "Approved"
    ELSE IF n >= limit THEN IF score >= 70 THEN "Escalated" ELSE "Rejected"
    ELSE IF Regresses(score) \/ ~ Stagnates(score) THEN "NeedsRevision"
    ELSE IF score >= PassingThreshold - 5 THEN "Approved" ELSE "Escalated"

\* Faulty: the first candidate.
BestCandidateFirst(s) == 1

\* max_by the score, which returns the last of equal ones.
BestCandidate(s) ==
    CHOOSE i \in 1..Len(s) :
        \A j \in 1..Len(s) : s[j].score <= s[i].score /\ (s[j].score = s[i].score => j <= i)

-----------------------------------------------------------------------------
LoopInit ==
    /\ limit \in {IF m < 5 THEN m ELSE 5 : m \in IterationLimits}
    /\ iteration = 0 /\ steps = << >>
    /\ converged = FALSE /\ final = "none"
    /\ loop = "running"

\* record_step: the state's own conclusion, which looks at the score again and does
\* not take back that it has converged before the last iteration.
RecordStep(n, score, verdict) ==
    IF verdict = "Approved" \/ score >= PassingThreshold
      THEN converged' = TRUE /\ final' = "Approved"
    ELSE IF n >= limit
      THEN /\ converged' = FALSE
           /\ final' = IF verdict = "NeedsRevision" THEN "Escalated" ELSE verdict
    ELSE final' = verdict /\ UNCHANGED converged

\* One pass of execute_loop: the candidate is scored, judged and recorded; if it needs
\* a revision the next candidate is generated and the loop goes on.
Iterate(score, veto) ==
    /\ loop = "running"
    /\ LET n == iteration + 1
           verdict == Evaluate(n, score, veto)
       IN  /\ iteration' = n
           /\ steps' = Append(steps, [score |-> score, veto |-> veto, verdict |-> verdict])
           /\ RecordStep(n, score, verdict)
           /\ loop' = IF verdict = "NeedsRevision" THEN "running" ELSE "done"
    /\ UNCHANGED limit

\* The reflector returns an error, and so does execute_loop.
ReflectorFails ==
    /\ loop = "running"
    /\ loop' = "failed"
    /\ UNCHANGED <<limit, iteration, steps, converged, final>>

LoopNext ==
    \/ \E score \in Scores, veto \in BOOLEAN : Iterate(score, veto)
    \/ ReflectorFails

LoopSpec == LoopInit /\ [][LoopNext]_rvars

-----------------------------------------------------------------------------
(* Properties                                                              *)

\* Every variable holds a value of its kind, and every step is recorded.
ReflectionTypeOK ==
    /\ limit \in 0..5
    /\ iteration \in Nat
    /\ steps \in Seq(Step)
    /\ Len(steps) = iteration
    /\ converged \in BOOLEAN
    /\ final \in Verdicts \cup {"none"}
    /\ loop \in {"running", "done", "failed"}

\* Whatever the reflector says, vetoes and scores that go up and down included, the loop
\* makes no more passes than max_iterations (one, if that is 0) and leaves no candidate
\* waiting for a revision.
LoopIsBounded ==
    /\ iteration <= IF limit = 0 THEN 1 ELSE limit
    /\ loop = "running" => iteration < IF limit = 0 THEN 1 ELSE limit

\* The loop ends with an approval only of a candidate without a veto that reached the
\* threshold, or came within 0.05 of it and stagnated there.
ApprovedIsSound ==
    loop = "done" /\ LatestStep(steps).verdict = "Approved" =>
        /\ ~ LatestStep(steps).veto
        /\ LatestStep(steps).score >= PassingThreshold - 5
        /\ LatestStep(steps).score < PassingThreshold =>
             Len(steps) >= 3 /\ LatestStep(steps).score - steps[Len(steps) - 2].score <= 2

\* If nothing was vetoed on the way, the text that the task gets is the candidate that
\* passed, and not one that was sent back before it.
PassedIsBest ==
    /\ loop = "done"
    /\ LatestStep(steps).score >= PassingThreshold
    /\ \A i \in 1..Len(steps) : ~ steps[i].veto
    => BestCandidate(steps) = Len(steps)

\* What the state calls converged has no failed critical dimension.
ConvergedIsSafe == converged /\ steps # << >> => ~ LatestStep(steps).veto

\* The text that an approved task gets was never vetoed.
ApprovedTextIsSafe ==
    loop = "done" /\ LatestStep(steps).verdict = "Approved" => ~ steps[BestCandidate(steps)].veto
=============================================================================
