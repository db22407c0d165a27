-------------------------- MODULE TaskRunnerProofs --------------------------
(***************************************************************************)
(* What holds of TaskRunner for every number of rounds, subtasks and steps *)
(* and for every configuration, proved from ActorConfig and RunnerConfig.  *)
(* Each property is proved from an invariant of its own, relative to the   *)
(* type invariant; each has one step per action, or per group of actions   *)
(* that leave alone what it speaks of.                                     *)
(***************************************************************************)
EXTENDS TaskRunner, WellFoundedInduction, TLAPS

-----------------------------------------------------------------------------
(***************************************************************************)
(* The type invariant.                                                     *)
(***************************************************************************)

\* A capture is an observation, made after the number of actions it says.
LEMMA CapturedTyped ==
  ASSUME NEW n \in Nat, NEW o \in Captured(n)
  PROVE  o \in Observation /\ o.at = n /\ o.kind \in Kinds
  BY DEF Captured, Observation

\* One step of the actor: it belongs to a running run, moves the device by at
\* most one action, and only a captured step lets the run go on.
LEMMA ActorStepEffect ==
  ASSUME RunnerTypeOK, ActorStep
  PROVE  /\ run.status = "running"
         /\ executed' \in {executed, executed + 1}
         /\ executed' - executed <= run'.steps - run.steps
         /\ run'.status = "parse_error" => executed' = executed /\ run'.steps = run.steps + 1
         /\ run'.status # "step_limit" => run'.steps = run.steps + 1
         /\ run'.status = "step_limit" => run'.steps = MaxSteps
         /\ run'.steps \in run.steps .. run.steps + 1
         /\ seen' \in Nat
         /\ run' \in [status : Ended \cup {"running"}, steps : 0..MaxSteps,
                      obs : Observation]
         /\ run.obs.at = seen => run'.obs.at = seen'
<1> USE ActorConfig DEF RunnerTypeOK, MayStep, Running, Stepped, Ended
<1>1. ASSUME NEW status_ \in {"running", "stopped"}, Act(status_)
      PROVE  executed' = executed + 1 /\ seen' = executed + 1
             /\ \E o \in Observation :
                  o.at = executed + 1 /\ run' = Stepped(status_, o)
  BY <1>1, CapturedTyped DEF Act
<1>2. CASE \E status_ \in {"running", "stopped"} : Act(status_)
  <2>1. PICK status_ \in {"running", "stopped"} : Act(status_)  BY <1>2
  <2>2. PICK o \in Observation :
          o.at = executed + 1 /\ run' = Stepped(status_, o)
    BY <2>1, <1>1
  <2>3. executed' = executed + 1 /\ seen' = executed + 1  BY <2>1, <1>1
  <2>4. QED  BY <2>1, <2>2, <2>3 DEF Act
<1>3. CASE ExecutionError
  BY <1>3 DEF ExecutionError
<1>4. CASE \E status_ \in {"parse_error", "completed", "infeasible"} :
             EndWithoutAction(status_)
  BY <1>4 DEF EndWithoutAction
<1>5. CASE StepLimit
  BY <1>5 DEF StepLimit
<1>6. QED  BY <1>2, <1>3, <1>4, <1>5 DEF ActorStep

\* What keeps the number of remaining subtasks a natural number.
SubtaskAtHand ==
  pc \in {"acting", "judging", "recording", "learning", "deciding"} => left > 0

Typed == RunnerTypeOK /\ SubtaskAtHand

\* The values the runner starts a task with have their types.
LEMMA InitialTypes ==
  /\ NoRun(NoObservation) \in [status : Ended \cup {"none", "running"},
                                steps : 0..MaxSteps, obs : Observation]
  /\ NoObservation \in Observation
  /\ NotJudged \in [accepted : BOOLEAN, success : BOOLEAN, eligible : BOOLEAN]
  /\ NotAsked \in [accepted : BOOLEAN, at : Nat]
  /\ 0 \in 0..MaxRounds
  /\ 0 \in 0..MaxSubtasks
  BY ActorConfig, RunnerConfig
     DEF NoRun, NoObservation, NotJudged, NotAsked, Observation, Kinds

\* A runner that has not been called yet has its types.
LEMMA InitTyped == Init => Typed
<1> SUFFICES ASSUME Init PROVE Typed
  OBVIOUS
<1>1. /\ run = NoRun(NoObservation) /\ obs = NoObservation
      /\ judged = NotJudged /\ verdict = NotAsked
  BY DEF Init
<1>2. /\ run \in [status : Ended \cup {"none", "running"}, steps : 0..MaxSteps,
                 obs : Observation]
      /\ obs \in Observation
      /\ judged \in [accepted : BOOLEAN, success : BOOLEAN, eligible : BOOLEAN]
      /\ verdict \in [accepted : BOOLEAN, at : Nat]
  BY <1>1, InitialTypes
<1>3. QED  BY <1>2, InitialTypes DEF Init, Typed, RunnerTypeOK, SubtaskAtHand

\* Every step of the runner, of the actor and every exception keeps the types, and a
\* subtask is at hand wherever the code is inside the subtask loop.
LEMMA NextTyped == Typed /\ [Next]_vars => Typed'
<1> SUFFICES ASSUME Typed, [Next]_vars PROVE Typed'
  OBVIOUS
<1> USE ActorConfig, RunnerConfig
    DEF Typed, RunnerTypeOK, SubtaskAtHand, actorVars
<1>1. CASE Begin
  BY <1>1, InitialTypes DEF Begin
<1>2. CASE FirstCapture
  BY <1>2, CapturedTyped DEF FirstCapture, Captures
<1>3. CASE NextRound \/ RoundLimit \/ PlannerError \/ PlanRejected
  BY <1>3 DEF NextRound, RoundLimit, PlannerError, PlanRejected, Return
<1>4. CASE \E accepted \in BOOLEAN : GoalDeclared(accepted)
  BY <1>4 DEF GoalDeclared, Evaluated, Return
<1>5. CASE \E n \in 1..MaxSubtasks : PlanAccepted(n)
  BY <1>5 DEF PlanAccepted
<1>6. CASE OverBudget \/ StartSubtask
  BY <1>6 DEF OverBudget, StartSubtask, StartRun, Return
<1>7. CASE ActorRuns
  BY <1>7, ActorStepEffect DEF ActorRuns, runnerVars
<1>8. CASE Rerun \/ Retry
  <2>1. PICK o \in Captured(executed) : StartRun(o) /\ Captures(o)
    BY <1>8 DEF Rerun, Retry
  <2>2. o \in Observation  BY <2>1, CapturedTyped
  <2>3. QED  BY <1>8, <2>1, <2>2 DEF Rerun, Retry, StartRun, Captures
<1>9. CASE Settle \/ SettleRetry
  <2>1. persisted' \in BOOLEAN  BY <1>9, Zenon DEF Settle, SettleRetry
  <2>2. /\ pc = "acting" /\ pc' = "judging"
        /\ UNCHANGED <<actorVars, round, left, attempt, total, obs, judged,
                       status, verdict, called>>
    BY <1>9 DEF Settle, SettleRetry, Recovering, RunEnded
  <2>3. QED  BY <2>1, <2>2
<1>10. CASE Refresh
  <2>1. PICK o \in Captured(executed) : Captures(o) /\ run' = [run EXCEPT !.obs = o]
    BY <1>10 DEF Refresh
  <2>2. o \in Observation  BY <2>1, CapturedTyped
  <2>3. run' \in [status : Ended \cup {"none", "running"}, steps : 0..MaxSteps,
                 obs : Observation]
    BY <2>1, <2>2
  <2>4. seen' = executed  BY <2>1 DEF Captures
  <2>5. /\ pc = "acting" /\ pc' = "judging" /\ persisted' = FALSE
        /\ UNCHANGED <<executed, round, left, attempt, total, obs, judged,
                       status, verdict, called>>
    BY <1>10 DEF Refresh, Recovering, RunEnded
  <2>6. QED  BY <2>3, <2>4, <2>5
<1>11. CASE \E j \in Judgements : Judge(j)
  <2>1. PICK j \in Judgements : Judge(j)  BY <1>11
  <2>2. j \in [accepted : BOOLEAN, success : BOOLEAN, eligible : BOOLEAN]
    BY DEF Judgements, Clean
  <2>3. total + run.steps \in Nat /\ j.accepted \in BOOLEAN  BY <2>2
  <2>4. QED  BY <2>1, <2>2, <2>3 DEF Judge, Evaluated
<1>12. CASE RecordEvent \/ RecordTrajectory \/ Accepted \/ Finish \/ Abort
  BY <1>12 DEF RecordEvent, RecordTrajectory, Accepted, Finish, Abort, Return
<1>13. CASE \E accepted \in BOOLEAN : EndRound(accepted)
  BY <1>13 DEF EndRound, Evaluated, Return
<1>14. CASE DoNotAsk \/ \E accepted \in BOOLEAN : AskAgain(accepted)
  BY <1>14 DEF DoNotAsk, AskAgain, Evaluated, Return, GoOn
<1>15. CASE UNCHANGED vars
  BY <1>15 DEF vars, runnerVars
<1>16. QED
  BY <1>1, <1>2, <1>3, <1>4, <1>5, <1>6, <1>7, <1>8, <1>9, <1>10, <1>11,
     <1>12, <1>13, <1>14, <1>15 DEF Next, RunnerStep

\* Every variable of the runner and of the actor's run keeps its type: no run has
\* more than max_steps steps, no task more than max_planner_rounds rounds.
THEOREM RunnerTypeCorrect == Spec => []RunnerTypeOK
  <1>1. Typed => RunnerTypeOK  BY DEF Typed
<1>2. QED  BY <1>1, InitTyped, NextTyped, PTL DEF Spec
-----------------------------------------------------------------------------
(***************************************************************************)
(* The budget of steps.                                                    *)
(***************************************************************************)

\* The budget was not used up when the subtask at hand started.
BudgetKept ==
  /\ StepBudget
  /\ pc \in {"acting", "judging"} => total < MaxTotal

\* A subtask starts below the budget and adds at most one run to it.
LEMMA BudgetStep == Typed /\ BudgetKept /\ [Next]_vars => BudgetKept'
<1> SUFFICES ASSUME Typed, BudgetKept, [Next]_vars PROVE BudgetKept'
  OBVIOUS
<1> USE ActorConfig, RunnerConfig DEF BudgetKept, StepBudget
<1>1. CASE Begin
  BY <1>1 DEF Begin
<1>2. CASE StartSubtask
  BY <1>2 DEF StartSubtask, Typed, RunnerTypeOK
<1>3. CASE \E j \in Judgements : Judge(j)
  <2>1. run.steps \in 0..MaxSteps /\ total \in Nat  BY DEF Typed, RunnerTypeOK
  <2>2. pc = "judging" /\ pc' = "recording" /\ total' = total + run.steps
    BY <1>3 DEF Judge
  <2>3. QED  BY <2>1, <2>2
<1>4. CASE FirstCapture \/ NextRound \/ RoundLimit \/ PlannerError \/ PlanRejected
           \/ \E n \in 1..MaxSubtasks : PlanAccepted(n)
  BY <1>4 DEF FirstCapture, NextRound, RoundLimit, PlannerError, PlanRejected,
              PlanAccepted, Return
<1>5. CASE \/ \E accepted \in BOOLEAN : GoalDeclared(accepted)
           \/ \E accepted \in BOOLEAN : EndRound(accepted)
           \/ OverBudget
  BY <1>5 DEF GoalDeclared, EndRound, OverBudget, Return
<1>6. CASE ActorRuns \/ Rerun \/ Settle \/ Refresh \/ Retry \/ SettleRetry
  BY <1>6 DEF ActorRuns, Rerun, Settle, Refresh, Retry, SettleRetry, RunEnded,
              Recovering, runnerVars
<1>7. CASE \/ RecordEvent \/ RecordTrajectory \/ Accepted \/ DoNotAsk
           \/ \E accepted \in BOOLEAN : AskAgain(accepted)
  BY <1>7 DEF RecordEvent, RecordTrajectory, Accepted, DoNotAsk, AskAgain,
              GoOn, Return
<1>8. CASE Finish \/ Abort \/ UNCHANGED vars
  BY <1>8 DEF Finish, Abort, vars, runnerVars
<1>9. QED
  BY <1>1, <1>2, <1>3, <1>4, <1>5, <1>6, <1>7, <1>8 DEF Next, RunnerStep

\* total_actor_steps never reaches max_total_actor_steps + max_steps, whatever the
\* configuration, although run_task tests it only between subtasks.
THEOREM StepBudgetHolds == Spec => []StepBudget
<1>1. Init => BudgetKept
  BY ActorConfig, RunnerConfig DEF Init, BudgetKept, StepBudget
<1>2. BudgetKept => StepBudget  BY DEF BudgetKept
<1>3. QED  BY <1>1, <1>2, InitTyped, NextTyped, BudgetStep, PTL DEF Spec

-----------------------------------------------------------------------------
(***************************************************************************)
(* The evaluator's word.                                                   *)
(***************************************************************************)

\* A result exists only where run_task returns, and "completed" rests on the last
\* verdict; an acceptance that has not been acted on is the judgement at hand.
VerdictRespected ==
  /\ pc \notin {"idle", "finishing"} => status = "none"
  /\ CompletedMeansAccepted
  /\ pc \in {"recording", "learning", "deciding"} =>
       /\ verdict = [accepted |-> judged.accepted, at |-> executed]
       /\ judged.accepted => judged.success
  /\ Stop /\ verdict.accepted =>
       pc \in {"recording", "learning", "deciding", "finishing", "idle"}

\* What the evaluator accepted last is known on every path to a return, and nothing
\* moves the device in between.
LEMMA VerdictStep == Typed /\ VerdictRespected /\ [Next]_vars => VerdictRespected'
<1> SUFFICES ASSUME Typed, VerdictRespected, [Next]_vars PROVE VerdictRespected'
  OBVIOUS
<1> USE DEF VerdictRespected, CompletedMeansAccepted, actorVars
<1>0. judged.accepted \in BOOLEAN /\ verdict.accepted \in BOOLEAN /\ Stop \in BOOLEAN
  BY RunnerConfig DEF Typed, RunnerTypeOK
<1>1. CASE Begin
  BY <1>1 DEF Begin, NotAsked
<1>2. CASE FirstCapture \/ NextRound \/ RoundLimit \/ PlannerError \/ PlanRejected
           \/ \E n \in 1..MaxSubtasks : PlanAccepted(n)
  BY <1>2, <1>0 DEF FirstCapture, NextRound, RoundLimit, PlannerError, PlanRejected,
              PlanAccepted, Return
<1>3. CASE \E accepted \in BOOLEAN : GoalDeclared(accepted)
  <2>1. PICK accepted \in BOOLEAN : GoalDeclared(accepted)  BY <1>3
  <2>2. verdict' = [accepted |-> accepted, at |-> executed] /\ executed' = executed
    BY <2>1 DEF GoalDeclared, Evaluated
  <2>3. CASE accepted
    <3>1. pc' = "finishing"  BY <2>1, <2>3 DEF GoalDeclared, Return
    <3>2. verdict' = [accepted |-> TRUE, at |-> executed']  BY <2>2, <2>3, Zenon
    <3>3. QED  BY <3>1, <3>2
  <2>4. CASE ~accepted
    <3>1. pc = "planning" /\ pc' = "round" /\ status' = status
      BY <2>1, <2>4 DEF GoalDeclared
    <3>2. ~verdict'.accepted  BY <2>2, <2>4
    <3>3. QED  BY <3>1, <3>2
  <2>5. QED  BY <2>3, <2>4
<1>4. CASE \E accepted \in BOOLEAN : EndRound(accepted)
  BY <1>4, <1>0 DEF EndRound, Evaluated, Return
<1>5. CASE OverBudget \/ StartSubtask
  BY <1>5, <1>0 DEF OverBudget, StartSubtask, StartRun, Return
<1>6. CASE ActorRuns
  BY <1>6, <1>0 DEF ActorRuns, runnerVars
<1>7. CASE Rerun \/ Settle \/ Refresh \/ Retry \/ SettleRetry
  BY <1>7, <1>0 DEF Rerun, Settle, Refresh, Retry, SettleRetry, RunEnded, Recovering
<1>8. CASE \E j \in Judgements : Judge(j)
  <2>1. PICK j \in Judgements : Judge(j)  BY <1>8
  <2>2. j.accepted => j.success  BY DEF Judgements
  <2>3. /\ pc = "judging" /\ pc' = "recording" /\ judged' = j /\ status' = status
        /\ verdict' = [accepted |-> j.accepted, at |-> executed]
        /\ executed' = executed
    BY <2>1 DEF Judge, Evaluated
  <2>4. QED  BY <2>2, <2>3
<1>9. CASE RecordEvent \/ RecordTrajectory
  BY <1>9, <1>0 DEF RecordEvent, RecordTrajectory
<1>10. CASE Accepted
  <2>1. /\ pc = "deciding" /\ judged.accepted /\ pc' = "finishing"
        /\ UNCHANGED <<executed, verdict>>
    BY <1>10 DEF Accepted, Return
  <2>2. verdict = [accepted |-> TRUE, at |-> executed]  BY <2>1, <1>0, Zenon
  <2>3. QED  BY <2>1, <2>2
<1>11. CASE DoNotAsk
  <2>1. /\ pc = "deciding" /\ (Stop => ~judged.accepted)
        /\ UNCHANGED <<executed, verdict, status>>
    BY <1>11 DEF DoNotAsk
  <2>2. pc' \in {"round", "subtask"}  BY <1>11 DEF DoNotAsk, GoOn
  <2>3. Stop => ~verdict.accepted  BY <2>1
  <2>4. QED  BY <2>1, <2>2, <2>3
<1>12. CASE \E accepted \in BOOLEAN : AskAgain(accepted)
  <2>1. PICK accepted \in BOOLEAN : AskAgain(accepted)  BY <1>12
  <2>2. verdict' = [accepted |-> accepted, at |-> executed] /\ executed' = executed
    BY <2>1 DEF AskAgain, Evaluated
  <2>3. CASE accepted
    <3>1. pc' = "finishing"  BY <2>1, <2>3 DEF AskAgain, Return
    <3>2. verdict' = [accepted |-> TRUE, at |-> executed']  BY <2>2, <2>3, Zenon
    <3>3. QED  BY <3>1, <3>2
  <2>4. CASE ~accepted
    <3>1. pc = "deciding" /\ pc' \in {"round", "subtask"} /\ status' = status
      BY <2>1, <2>4 DEF AskAgain, GoOn
    <3>2. ~verdict'.accepted  BY <2>2, <2>4
    <3>3. QED  BY <3>1, <3>2
  <2>5. QED  BY <2>3, <2>4
<1>13. CASE Finish \/ Abort \/ UNCHANGED vars
  BY <1>13, <1>0 DEF Finish, Abort, vars, runnerVars
<1>14. QED
  BY <1>1, <1>2, <1>3, <1>4, <1>5, <1>6, <1>7, <1>8, <1>9, <1>10, <1>11,
     <1>12, <1>13 DEF Next, RunnerStep

\* Hence, in every reachable state.
LEMMA VerdictInvariant == Spec => [](Typed /\ VerdictRespected)
<1>1. Init => VerdictRespected
  BY DEF Init, VerdictRespected, CompletedMeansAccepted, NotAsked
<1>2. QED  BY <1>1, InitTyped, NextTyped, VerdictStep, PTL DEF Spec

\* "completed" is only ever reported with the evaluator's acceptance, given after
\* the last action of the task.
THEOREM CompletedIsAccepted == Spec => []CompletedMeansAccepted
<1>1. VerdictRespected => CompletedMeansAccepted  BY DEF VerdictRespected
<1>2. QED  BY <1>1, VerdictInvariant, PTL

\* With stop_on_goal_complete, nothing is done on the device after the evaluator
\* accepted the task.
THEOREM AcceptanceEndsActing == Spec => NoActionAfterAcceptance
<1>1. ASSUME Typed, VerdictRespected, [Next]_vars, Stop, pc # "idle",
             verdict.accepted
      PROVE  executed' = executed
  <2>1. pc \notin {"idle", "acting"}  BY <1>1 DEF VerdictRespected
  <2>2. ~Begin /\ ~ActorRuns  BY <2>1 DEF Begin, ActorRuns
  <2>3. QED
    BY <1>1, <2>2
       DEF Next, RunnerStep, FirstCapture, NextRound, RoundLimit, PlannerError,
           GoalDeclared, PlanRejected, PlanAccepted, OverBudget, StartSubtask,
           Rerun, Settle, Refresh, Retry, SettleRetry, Judge, RecordEvent,
           RecordTrajectory, Accepted, AskAgain, DoNotAsk, EndRound, Finish,
           Abort, actorVars, vars
<1>2. Typed /\ VerdictRespected /\ [Next]_vars =>
        [Stop /\ pc # "idle" /\ verdict.accepted => executed' = executed]_vars
  BY <1>1
<1>3. QED  BY <1>2, VerdictInvariant, PTL DEF Spec, NoActionAfterAcceptance

-----------------------------------------------------------------------------
(***************************************************************************)
(* The observation.                                                        *)
(***************************************************************************)

\* Where the newest capture is, and what persisted says of it.
ObservationTracked ==
  /\ NewestCaptureUsed
  /\ pc \in {"recording", "learning", "deciding"} =>
       /\ obs.at = seen
       /\ ~persisted => obs.kind = "usable"
  /\ pc = "judging" /\ ~persisted => run.obs.kind = "usable"

\* Whoever takes a capture hands it on: the observation kept by each step is the
\* newest one.
LEMMA ObservationStep ==
  Typed /\ ObservationTracked /\ [Next]_vars => ObservationTracked'
<1> SUFFICES ASSUME Typed, ObservationTracked, [Next]_vars
             PROVE  ObservationTracked'
  OBVIOUS
<1> USE DEF ObservationTracked, NewestCaptureUsed, actorVars
<1>1. CASE Begin
  BY <1>1 DEF Begin, NoObservation
<1>2. CASE FirstCapture
  <2>1. PICK o \in Captured(executed) : Captures(o) /\ obs' = o
    BY <1>2 DEF FirstCapture
  <2>2. o.at = executed  BY <2>1 DEF Captured
  <2>3. QED  BY <1>2, <2>1, <2>2 DEF FirstCapture, Captures
<1>3. CASE NextRound \/ RoundLimit \/ PlannerError \/ PlanRejected
           \/ \E n \in 1..MaxSubtasks : PlanAccepted(n)
  BY <1>3 DEF NextRound, RoundLimit, PlannerError, PlanRejected, PlanAccepted, Return
<1>4. CASE \/ \E accepted \in BOOLEAN : GoalDeclared(accepted)
           \/ \E accepted \in BOOLEAN : EndRound(accepted)
           \/ OverBudget
  BY <1>4 DEF GoalDeclared, EndRound, OverBudget, Return
<1>5. CASE StartSubtask
  BY <1>5 DEF StartSubtask, StartRun
<1>6. CASE ActorRuns
  <2>1. run.obs.at = seen => run'.obs.at = seen'
    BY <1>6, ActorStepEffect DEF ActorRuns, Typed
  <2>2. QED  BY <1>6, <2>1 DEF ActorRuns, runnerVars
<1>7. CASE Rerun \/ Retry
  <2>1. PICK o \in Captured(executed) : Captures(o) /\ StartRun(o)
    BY <1>7 DEF Rerun, Retry
  <2>2. run'.obs.at = seen'  BY <2>1 DEF Captured, Captures, StartRun
  <2>3. pc' = "acting"  BY <1>7 DEF Rerun, Retry, RunEnded, Recovering
  <2>4. QED  BY <2>2, <2>3
<1>8. CASE Settle
  BY <1>8 DEF Settle, Recovering, RunEnded
<1>9. CASE SettleRetry
  <2>1. persisted' <=> run.obs.kind # "usable"  BY <1>9, Zenon DEF SettleRetry
  <2>2. pc = "acting" /\ pc' = "judging" /\ UNCHANGED <<run, seen>>
    BY <1>9 DEF SettleRetry, RunEnded
  <2>3. QED  BY <2>1, <2>2
<1>10. CASE Refresh
  <2>1. PICK o \in Captured(executed) :
          Captures(o) /\ o.kind = "usable" /\ run' = [run EXCEPT !.obs = o]
    BY <1>10 DEF Refresh
  <2>2. run'.obs = o  BY <2>1 DEF Typed, RunnerTypeOK
  <2>3. o.at = seen'  BY <2>1 DEF Captured, Captures
  <2>4. pc' = "judging"  BY <1>10 DEF Refresh
  <2>5. QED  BY <2>1, <2>2, <2>3, <2>4
<1>11. CASE \E j \in Judgements : Judge(j)
  BY <1>11 DEF Judge
<1>12. CASE RecordEvent \/ RecordTrajectory
  BY <1>12 DEF RecordEvent, RecordTrajectory
<1>13. CASE \/ Accepted \/ DoNotAsk
            \/ \E accepted \in BOOLEAN : AskAgain(accepted)
  <2>1. /\ pc = "deciding" /\ pc' \in {"finishing", "round", "subtask"}
        /\ UNCHANGED <<obs, seen>>
    BY <1>13 DEF Accepted, DoNotAsk, AskAgain, GoOn, Return
  <2>2. QED  BY <2>1
<1>14. CASE Finish \/ Abort \/ UNCHANGED vars
  BY <1>14 DEF Finish, Abort, vars, runnerVars
<1>15. QED
  BY <1>1, <1>2, <1>3, <1>4, <1>5, <1>6, <1>7, <1>8, <1>9, <1>10, <1>11,
     <1>12, <1>13, <1>14 DEF Next, RunnerStep

\* Hence, in every reachable state.
LEMMA ObservationInvariant == Spec => [](Typed /\ ObservationTracked)
<1>1. Init => ObservationTracked
  BY DEF Init, ObservationTracked, NewestCaptureUsed
<1>2. QED  BY <1>1, InitTyped, NextTyped, ObservationStep, PTL DEF Spec

\* Planner and actor are always given the newest capture, on whichever of the
\* paths through rerun, refresh and retry it was made.
THEOREM NewestCaptureGiven == Spec => []NewestCaptureUsed
<1>1. ObservationTracked => NewestCaptureUsed  BY DEF ObservationTracked
<1>2. QED  BY <1>1, ObservationInvariant, PTL

\* A round never goes on to its next subtask on an unusable screen.
THEOREM UnusableScreenEndsRound == Spec => NextSubtaskOnUsableScreen
<1>1. ASSUME ObservationTracked, [Next]_vars, pc = "deciding", pc' = "subtask"
      PROVE  obs.kind = "usable"
  <2>1. pc' # pc  BY <1>1
  <2>2. \/ DoNotAsk
        \/ \E accepted \in BOOLEAN : AskAgain(accepted)
    BY <1>1, <2>1
       DEF Next, RunnerStep, Begin, FirstCapture, NextRound, RoundLimit,
           PlannerError, GoalDeclared, PlanRejected, PlanAccepted, OverBudget,
           StartSubtask, ActorRuns, Rerun, Settle, Refresh, Retry, SettleRetry,
           Recovering, RunEnded, Judge, RecordEvent, RecordTrajectory, Accepted,
           EndRound, Finish, Abort, Return, vars, runnerVars
  <2>3. ~persisted  BY <1>1, <2>2 DEF DoNotAsk, AskAgain, GoOn, Return
  <2>4. QED  BY <1>1, <2>3 DEF ObservationTracked
<1>2. ObservationTracked /\ [Next]_vars =>
        [pc = "deciding" /\ pc' = "subtask" => obs.kind = "usable"]_vars
  BY <1>1
<1>3. QED  BY <1>2, ObservationInvariant, PTL DEF Spec, NextSubtaskOnUsableScreen

-----------------------------------------------------------------------------
(***************************************************************************)
(* The calls of the memory provider: a refinement of MemoryProtocol.       *)
(***************************************************************************)

\* What the memory was told last, by the position of the thread.
CalledAsDue ==
  /\ pc = "idle" => called \in {"none", "end"}
  /\ pc = "starting" => called = "reset"
  /\ pc \in {"round", "planning", "subtask", "finishing"} =>
       called \in {"reset", "record", "learn"}
  /\ pc \in {"acting", "judging", "recording"} => called \in {"read", "reread"}
  /\ pc = "acting" /\ attempt # "retry" => called = "read"
  /\ pc = "learning" => called = "record"
  /\ pc = "deciding" => called \in {"record", "learn"}

\* The actions that do not call the memory.
SilentStep ==
  UNCHANGED called /\
  \/ pc \in {"starting", "round", "planning", "subtask", "deciding", "finishing"}
     /\ pc' \in {"round", "planning", "subtask", "finishing"}
  \/ pc = "acting" /\ pc' = "acting" /\ (attempt' # "retry" => attempt # "retry")
  \/ pc \in {"acting", "judging"} /\ pc' \in {"judging", "recording"}
  \/ pc' = pc /\ attempt' = attempt

\* Each step makes at most one call of the provider, and only from these places.
LEMMA CallOfStep ==
  ASSUME Typed, [Next]_vars
  PROVE  \/ Begin \/ StartSubtask \/ Retry \/ RecordEvent \/ RecordTrajectory
         \/ Finish \/ Abort
         \/ SilentStep
<1>1. CASE \/ FirstCapture \/ NextRound \/ RoundLimit \/ PlannerError
           \/ PlanRejected \/ OverBudget \/ Accepted \/ DoNotAsk
  BY <1>1 DEF FirstCapture, NextRound, RoundLimit, PlannerError, PlanRejected,
              OverBudget, Accepted, DoNotAsk, GoOn, Return, SilentStep
<1>2. CASE \E accepted \in BOOLEAN :
             GoalDeclared(accepted) \/ AskAgain(accepted) \/ EndRound(accepted)
  BY <1>2 DEF GoalDeclared, AskAgain, EndRound, GoOn, Return, SilentStep
<1>3. CASE \E n \in 1..MaxSubtasks : PlanAccepted(n)
  BY <1>3 DEF PlanAccepted, SilentStep
<1>4. CASE ActorRuns \/ Rerun \/ Settle \/ Refresh \/ SettleRetry
  BY <1>4 DEF ActorRuns, Rerun, Settle, Refresh, SettleRetry, Recovering,
              RunEnded, runnerVars, SilentStep
<1>5. CASE \E j \in Judgements : Judge(j)
  BY <1>5 DEF Judge, SilentStep
<1>6. CASE UNCHANGED vars
  BY <1>6 DEF vars, runnerVars, SilentStep
<1>7. QED  BY <1>1, <1>2, <1>3, <1>4, <1>5, <1>6 DEF Next, RunnerStep

\* The last call made is always the one the place in the code is due to have made.
LEMMA CallStep == Typed /\ CalledAsDue /\ [Next]_vars => CalledAsDue'
<1> SUFFICES ASSUME Typed, CalledAsDue, [Next]_vars PROVE CalledAsDue'
  OBVIOUS
<1>1. CASE SilentStep
  BY <1>1 DEF SilentStep, CalledAsDue
<1>2. CASE Begin \/ StartSubtask \/ Finish \/ Abort
  BY <1>2 DEF Begin, StartSubtask, Finish, Abort, CalledAsDue
<1>3. CASE Retry \/ RecordEvent \/ RecordTrajectory
  BY <1>3 DEF Retry, Recovering, RunEnded, RecordEvent, RecordTrajectory, CalledAsDue
<1>4. QED  BY <1>1, <1>2, <1>3, CallOfStep

\* The runner's calls implement MemoryProtocol: every step is one of its calls, in
\* its order, or does not concern the memory.
THEOREM MemoryCallsKeepOrder == Spec => MemoryCallsInOrder
<1> USE DEF Memory!Init, Memory!Next, Memory!Reset, Memory!Read,
            Memory!ReadAgain, Memory!RecordEvent, Memory!RecordTrajectory,
            Memory!EndTask, Memory!Abandon
<1>1. Init => CalledAsDue /\ Memory!Init
  BY DEF Init, CalledAsDue, MemoryStage
<1>2. ASSUME Typed, CalledAsDue, [Next]_vars
      PROVE  [Memory!Next]_MemoryStage
  <2>1. CASE SilentStep
    BY <2>1 DEF SilentStep, MemoryStage
  <2>2. CASE Begin
    BY <1>2, <2>2 DEF Begin, CalledAsDue, MemoryStage
  <2>3. CASE StartSubtask
    BY <1>2, <2>3 DEF StartSubtask, CalledAsDue, MemoryStage
  <2>4. CASE Retry
    BY <1>2, <2>4 DEF Retry, Recovering, RunEnded, CalledAsDue, MemoryStage
  <2>5. CASE RecordEvent \/ RecordTrajectory
    BY <1>2, <2>5 DEF RecordEvent, RecordTrajectory, CalledAsDue, MemoryStage
  <2>6. CASE Finish \/ Abort
    BY <1>2, <2>6 DEF Finish, Abort, CalledAsDue, MemoryStage
  <2>7. QED  BY <1>2, <2>1, <2>2, <2>3, <2>4, <2>5, <2>6, CallOfStep
<1>3. QED
  BY <1>1, <1>2, InitTyped, NextTyped, CallStep, PTL
     DEF Spec, MemoryCallsInOrder, Memory!Spec

-----------------------------------------------------------------------------
(***************************************************************************)
(* What the device does for each step counted.                             *)
(***************************************************************************)

\* Up to 2m - 1 actions of discarded runs and s counted steps fit into 2m for each
\* step.
LEMMA TwoRunsPerStep ==
  ASSUME NEW m \in Nat \ {0}, NEW t \in Nat, NEW s \in Nat \ {0}
  PROVE  2 * m * t + 2 * m - 1 + s <= 2 * m * (t + s)
<1>1. 2 * m * (t + s) = 2 * m * t + 2 * m * s  OBVIOUS
<1>2. (2 * m - 1) * (s - 1) >= 0  OBVIOUS
<1>3. (2 * m - 1) * (s - 1) = 2 * m * s - 2 * m - s + 1  OBVIOUS
<1>4. 2 * m * s \in Int /\ 2 * m * t \in Int  OBVIOUS
<1>5. QED  BY <1>1, <1>2, <1>3, <1>4

Covered == 2 * MaxSteps * total

\* Between subtasks all actions are covered by counted steps; within one, the
\* actions since are those of its discarded runs, of which a first run that ended
\* in a parse error executed one less than its steps, and of the current run.
WorkCovered ==
  /\ pc \in {"starting", "round", "planning", "subtask", "recording", "learning",
             "deciding", "finishing"} => executed <= Covered
  /\ pc = "acting" =>
       /\ run.status \in Ended => run.steps >= 1
       /\ attempt = "first" =>
            /\ executed <= Covered + run.steps
            /\ run.status = "parse_error" => executed <= Covered + run.steps - 1
       /\ attempt = "rerun" => executed <= Covered + MaxSteps - 1 + run.steps
       /\ attempt = "retry" => executed <= Covered + 2 * MaxSteps - 1 + run.steps
  /\ pc = "judging" =>
       /\ run.steps >= 1
       /\ executed <= Covered + 2 * MaxSteps - 1 + run.steps

\* The work covered by the counted steps is a number that only counting changes.
LEMMA CoveredFacts ==
  ASSUME Typed
  PROVE  /\ Covered \in Nat
         /\ UNCHANGED total => Covered' = Covered
  BY ActorConfig DEF Typed, RunnerTypeOK, Covered

\* The runs of a subtask execute no more than what counting its last run covers.
LEMMA WorkStep == Typed /\ WorkCovered /\ [Next]_vars => WorkCovered'
<1> SUFFICES ASSUME Typed, WorkCovered, [Next]_vars PROVE WorkCovered'
  OBVIOUS
<1> USE ActorConfig DEF WorkCovered, actorVars
<1>0. /\ executed \in Nat /\ total \in Nat /\ run.steps \in 0..MaxSteps
      /\ attempt \in {"first", "rerun", "retry"}
      /\ Covered \in Nat
      /\ UNCHANGED total => Covered' = Covered
  BY CoveredFacts DEF Typed, RunnerTypeOK
<1>1. CASE Begin
  <2>1. Covered' = 0 /\ executed' = 0 /\ pc' = "starting"
    BY <1>1 DEF Begin, Covered
  <2>2. QED  BY <2>1
<1>2. CASE \/ FirstCapture \/ NextRound \/ RoundLimit \/ PlannerError
           \/ PlanRejected \/ OverBudget \/ Accepted \/ DoNotAsk
           \/ RecordEvent \/ RecordTrajectory
           \/ \E n \in 1..MaxSubtasks : PlanAccepted(n)
  <2>1. /\ pc \in {"starting", "round", "planning", "subtask", "recording",
                  "learning", "deciding"}
        /\ pc' \in {"round", "planning", "subtask", "learning", "deciding",
                   "finishing"}
        /\ UNCHANGED <<executed, total>>
    BY <1>2 DEF FirstCapture, NextRound, RoundLimit, PlannerError, PlanRejected,
                OverBudget, Accepted, DoNotAsk, RecordEvent, RecordTrajectory,
                PlanAccepted, GoOn, Return
  <2>2. QED  BY <1>0, <2>1
<1>3. CASE \E accepted \in BOOLEAN :
             GoalDeclared(accepted) \/ AskAgain(accepted) \/ EndRound(accepted)
  <2>1. /\ pc \in {"planning", "deciding", "subtask"}
        /\ pc' \in {"round", "subtask", "finishing"}
        /\ UNCHANGED <<executed, total>>
    BY <1>3 DEF GoalDeclared, AskAgain, EndRound, GoOn, Return
  <2>2. QED  BY <1>0, <2>1
<1>4. CASE StartSubtask
  BY <1>0, <1>4 DEF StartSubtask, StartRun, Ended
<1>5. CASE ActorRuns
  <2>1. /\ run.status = "running"
        /\ executed' \in {executed, executed + 1}
        /\ executed' - executed <= run'.steps - run.steps
        /\ run'.status = "parse_error" =>
             executed' = executed /\ run'.steps = run.steps + 1
        /\ run'.status # "step_limit" => run'.steps = run.steps + 1
        /\ run'.status = "step_limit" => run'.steps = MaxSteps
        /\ run'.steps \in run.steps .. run.steps + 1
    BY <1>5, ActorStepEffect DEF ActorRuns, Typed
  <2>2. pc = "acting" /\ pc' = "acting" /\ UNCHANGED <<attempt, total>>
    BY <1>5 DEF ActorRuns, runnerVars
  <2>3. QED  BY <1>0, <2>1, <2>2
<1>6. CASE Rerun
  <2>1. /\ pc = "acting" /\ pc' = "acting" /\ attempt = "first"
        /\ attempt' = "rerun" /\ run.status = "parse_error"
        /\ run'.steps = 0 /\ run'.status = "running"
        /\ UNCHANGED <<executed, total>>
    BY <1>6 DEF Rerun, RunEnded, BlindParseError, StartRun
  <2>2. QED  BY <1>0, <2>1 DEF Ended
<1>7. CASE Retry
  <2>1. /\ pc = "acting" /\ pc' = "acting" /\ attempt \in {"first", "rerun"}
        /\ attempt' = "retry" /\ run'.steps = 0 /\ run'.status = "running"
        /\ UNCHANGED <<executed, total>>
    BY <1>7 DEF Retry, Recovering, RunEnded, StartRun
  <2>2. QED  BY <1>0, <2>1 DEF Ended
<1>8. CASE Settle \/ Refresh \/ SettleRetry
  <2>1. /\ pc = "acting" /\ run.status \in Ended /\ pc' = "judging"
        /\ run'.steps = run.steps /\ UNCHANGED <<executed, total>>
    BY <1>8 DEF Settle, Refresh, SettleRetry, Recovering, RunEnded, Typed,
                RunnerTypeOK
  <2>2. QED  BY <1>0, <2>1
<1>9. CASE \E j \in Judgements : Judge(j)
  <2>1. /\ pc = "judging" /\ pc' = "recording" /\ executed' = executed
        /\ total' = total + run.steps
    BY <1>9 DEF Judge
  <2>2. run.steps \in Nat \ {0}  BY <1>0, <2>1
  <2>3. Covered + 2 * MaxSteps - 1 + run.steps <= 2 * MaxSteps * (total + run.steps)
    BY <1>0, <2>2, TwoRunsPerStep DEF Covered
  <2>4. Covered' = 2 * MaxSteps * (total + run.steps)  BY <2>1 DEF Covered
  <2>5. Covered' \in Nat  BY <1>0, <2>4
  <2>6. QED  BY <1>0, <2>1, <2>3, <2>4, <2>5
<1>10. CASE Finish \/ Abort
  BY <1>10 DEF Finish, Abort
<1>11. CASE UNCHANGED vars
  BY <1>0, <1>11 DEF vars, runnerVars
<1>12. QED
  BY <1>1, <1>2, <1>3, <1>4, <1>5, <1>6, <1>7, <1>8, <1>9, <1>10, <1>11
     DEF Next, RunnerStep

\* The actions executed on the device are at most 2 * max_steps for each step in
\* total_actor_steps, although the steps of discarded runs are not in it.
THEOREM WorkStaysBounded == Spec => []WorkIsBounded
<1>1. Init => WorkCovered
  BY DEF Init, WorkCovered
<1>2. WorkCovered => WorkIsBounded
  BY DEF WorkCovered, WorkIsBounded, Covered
<1>3. QED  BY <1>1, <1>2, InitTyped, NextTyped, WorkStep, PTL DEF Spec

\* What the runs of one subtask can add to the actions covered before it.
LEMMA ActionsOfLastSubtask ==
  ASSUME NEW m \in Nat \ {0}, NEW limit \in Nat, NEW t \in Nat, t < limit
  PROVE  2 * m * t + 2 * m - 1 + m < 2 * m * limit + m
<1>1. 2 * m * limit = 2 * m * t + 2 * m + 2 * m * (limit - t - 1)  OBVIOUS
<1>2. 2 * m * (limit - t - 1) >= 0  OBVIOUS
<1>3. 2 * m * t \in Int /\ 2 * m * limit \in Int  OBVIOUS
<1>4. QED  BY <1>1, <1>2, <1>3

\* Only the actor moves the device, during a subtask that started below the budget.
LEMMA DeviceStep ==
  Typed /\ BudgetKept /\ WorkCovered /\ DeviceIsBounded /\ [Next]_vars
    => DeviceIsBounded'
<1> SUFFICES ASSUME Typed, BudgetKept, WorkCovered, DeviceIsBounded, [Next]_vars
             PROVE  DeviceIsBounded'
  OBVIOUS
<1> USE ActorConfig, RunnerConfig DEF DeviceIsBounded
<1>1. 0 < 2 * MaxSteps * MaxTotal + MaxSteps
  <2>1. 2 * MaxSteps * MaxTotal >= 0  OBVIOUS
  <2>2. 2 * MaxSteps * MaxTotal \in Int  OBVIOUS
  <2>3. QED  BY <2>1, <2>2
<1>2. CASE Begin
  BY <1>1, <1>2 DEF Begin
<1>3. CASE ActorRuns
  <2>1. pc' = "acting" /\ UNCHANGED <<attempt, total>> /\ total < MaxTotal
    BY <1>3 DEF ActorRuns, runnerVars, BudgetKept
  <2>2. WorkCovered'  BY WorkStep
  <2>3. Typed'  BY NextTyped
  <2>4. /\ total \in Nat /\ executed' \in Nat /\ run'.steps \in 0..MaxSteps
        /\ attempt' \in {"first", "rerun", "retry"}
    BY <2>3 DEF Typed, RunnerTypeOK
  <2>5. Covered' = Covered /\ Covered \in Nat  BY <2>1, CoveredFacts
  <2>6. executed' <= Covered + 2 * MaxSteps - 1 + run'.steps
    BY <2>1, <2>2, <2>4, <2>5 DEF WorkCovered
  <2>7. Covered + 2 * MaxSteps - 1 + MaxSteps < 2 * MaxSteps * MaxTotal + MaxSteps
    BY <2>1, <2>4, ActionsOfLastSubtask DEF Covered
  <2>8. 2 * MaxSteps * MaxTotal \in Int  OBVIOUS
  <2>9. QED  BY <2>4, <2>5, <2>6, <2>7, <2>8
<1>4. CASE ~Begin /\ ~ActorRuns
  <2>1. executed' = executed
    BY <1>4
       DEF Next, RunnerStep, FirstCapture, NextRound, RoundLimit, PlannerError,
           GoalDeclared, PlanRejected, PlanAccepted, OverBudget, StartSubtask,
           Rerun, Settle, Refresh, Retry, SettleRetry, Judge, RecordEvent,
           RecordTrajectory, Accepted, AskAgain, DoNotAsk, EndRound, Finish,
           Abort, actorVars, vars
  <2>2. QED  BY <2>1
<1>5. QED  BY <1>2, <1>3, <1>4

\* One task executes fewer than 2 * max_steps * max_total_actor_steps + max_steps
\* actions on the device, at every moment and also when it ends with an exception.
THEOREM DeviceStaysBounded == Spec => []DeviceIsBounded
<1>1. Init => WorkCovered /\ BudgetKept /\ DeviceIsBounded
  <2>1. 0 < 2 * MaxSteps * MaxTotal + MaxSteps
    <3>1. 2 * MaxSteps * MaxTotal >= 0  BY ActorConfig, RunnerConfig
    <3>2. 2 * MaxSteps * MaxTotal \in Int  BY ActorConfig, RunnerConfig
    <3>3. QED  BY <3>1, <3>2, ActorConfig
  <2>2. QED
    BY <2>1, ActorConfig, RunnerConfig
       DEF Init, WorkCovered, BudgetKept, StepBudget, DeviceIsBounded
<1>2. QED
  BY <1>1, InitTyped, NextTyped, WorkStep, BudgetStep, DeviceStep, PTL DEF Spec

-----------------------------------------------------------------------------
(***************************************************************************)
(* The one way to plan on an old screen.                                   *)
(***************************************************************************)

\* An action reached the device, and the capture after it failed.
CaptureLost == ActorRuns /\ executed' # executed /\ seen' = seen

\* The runner on a device whose captures never fail after an action.
CapturingSpec == Init /\ [][Next /\ ~CaptureLost]_vars

AllSeen == seen = executed

\* PlansOnCurrentScreen fails only by lost captures: where none is lost, the
\* planner sees every action, on every path through reruns and retries.
THEOREM OnlyLostCapturesMislead == CapturingSpec => []PlansOnCurrentScreen
<1>1. Init => AllSeen  BY DEF Init, AllSeen
<1>2. ASSUME AllSeen, [Next /\ ~CaptureLost]_vars
      PROVE  AllSeen'
  <2> USE DEF AllSeen
  <2>1. CASE ActorRuns
    BY <1>2, <2>1
       DEF ActorRuns, ActorStep, Act, ExecutionError, EndWithoutAction, StepLimit,
           CaptureLost, vars, actorVars
  <2>2. CASE Begin
    BY <2>2 DEF Begin
  <2>3. CASE FirstCapture \/ Rerun \/ Refresh \/ Retry
    BY <2>3 DEF FirstCapture, Rerun, Refresh, Retry, Captures
  <2>4. CASE UNCHANGED <<executed, seen>>
    BY <1>2, <2>4
  <2>5. QED
    BY <1>2, <2>1, <2>2, <2>3, <2>4
       DEF Next, RunnerStep, NextRound, RoundLimit, PlannerError,
           GoalDeclared, PlanRejected, PlanAccepted, OverBudget, StartSubtask,
           Settle, SettleRetry, Judge, RecordEvent, RecordTrajectory, Accepted,
           AskAgain, DoNotAsk, EndRound, Finish, Abort, actorVars, vars
<1>3. ObservationTracked /\ AllSeen => PlansOnCurrentScreen
  BY DEF AllSeen, ObservationTracked, NewestCaptureUsed, PlansOnCurrentScreen
<1>4. [Next /\ ~CaptureLost]_vars => [Next]_vars  OBVIOUS
<1>5. Init => ObservationTracked
  BY DEF Init, ObservationTracked, NewestCaptureUsed
<1>6. QED
  BY <1>1, <1>2, <1>3, <1>4, <1>5, InitTyped, NextTyped, ObservationStep, PTL
     DEF CapturingSpec

-----------------------------------------------------------------------------
(***************************************************************************)
(* Why a task ends: every step of the runner descends in a well-founded    *)
(* order, so without new tasks there are only finitely many of them.       *)
(***************************************************************************)

\* What is still ahead of the runner: rounds; stages of the round; subtasks of its
\* plan; places of the subtask; runs it may still be given; steps of the run.
RoundsAhead == MaxRounds - round
StagesAhead ==
  IF pc = "starting" THEN 5 ELSE IF pc = "planning" THEN 4
  ELSE IF pc = "round" THEN 2 ELSE IF pc = "finishing" THEN 1
  ELSE IF pc = "idle" THEN 0 ELSE 3
PlacesAhead ==
  IF pc = "subtask" THEN 5 ELSE IF pc = "acting" THEN 4
  ELSE IF pc = "judging" THEN 3 ELSE IF pc = "recording" THEN 2
  ELSE IF pc = "learning" THEN 1 ELSE 0
RunsAhead == IF attempt = "first" THEN 2 ELSE IF attempt = "rerun" THEN 1 ELSE 0
StepsAhead == IF run.status = "running" THEN MaxSteps - run.steps + 1 ELSE 0

Ahead ==
  <<RoundsAhead, StagesAhead, left, PlacesAhead, RunsAhead, StepsAhead>>

Below == {p \in Nat \X Nat : p[1] < p[2]}

\* The order in which what is ahead decreases: lexicographic, on naturals.
AheadOrder == LexProductOrdering(Below, Nat, 6)

\* There is no infinite descent in that order.
LEMMA AheadWellFounded == IsWellFoundedOn(AheadOrder, [1..6 -> Nat])
<1>1. IsWellFoundedOn(Below, Nat)
  BY NatLessThanWellFounded DEF OpToRel, Below
<1>2. QED  BY <1>1, WFLexProductOrdering DEF AheadOrder

AheadNatural ==
  /\ RoundsAhead \in Nat /\ StagesAhead \in Nat /\ left \in Nat
  /\ PlacesAhead \in Nat /\ RunsAhead \in Nat /\ StepsAhead \in Nat

LEMMA AheadTyped == Typed => AheadNatural
  BY ActorConfig, RunnerConfig
     DEF Typed, RunnerTypeOK, RoundsAhead, StagesAhead, PlacesAhead, RunsAhead,
         StepsAhead, AheadNatural

\* A sequence of six naturals is less than another when it is at the first place
\* where they differ.
LEMMA LessAtFirstDifference ==
  ASSUME NEW u \in [1..6 -> Nat], NEW v \in [1..6 -> Nat], NEW k \in 1..6,
         u[k] < v[k], \A j \in 1..(k - 1) : u[j] = v[j]
  PROVE  <<u, v>> \in AheadOrder
<1>1. <<u[k], v[k]>> \in Below  BY DEF Below
<1>2. QED  BY <1>1 DEF AheadOrder, LexProductOrdering

\* The step that descends, place by place.
Descends ==
  \/ RoundsAhead' < RoundsAhead
  \/ RoundsAhead' = RoundsAhead /\ StagesAhead' < StagesAhead
  \/ /\ RoundsAhead' = RoundsAhead /\ StagesAhead' = StagesAhead
     /\ \/ left' < left
        \/ left' = left /\ PlacesAhead' < PlacesAhead
        \/ left' = left /\ PlacesAhead' = PlacesAhead /\ RunsAhead' < RunsAhead
        \/ /\ left' = left /\ PlacesAhead' = PlacesAhead
           /\ RunsAhead' = RunsAhead /\ StepsAhead' < StepsAhead

LEMMA DescentIsLess ==
  ASSUME Typed, Typed', Descends
  PROVE  <<Ahead', Ahead>> \in AheadOrder
<1>1. AheadNatural  BY AheadTyped
<1>2. AheadNatural'
  <2>1. Typed' => AheadNatural'  BY AheadTyped, PTL
  <2>2. QED  BY <2>1
<1>3. Ahead \in [1..6 -> Nat]  BY <1>1 DEF Ahead, AheadNatural
<1>4. Ahead' \in [1..6 -> Nat]  BY <1>2 DEF Ahead, AheadNatural
<1>5. \E k \in 1..6 : /\ Ahead'[k] < Ahead[k]
                      /\ \A j \in 1..(k - 1) : Ahead'[j] = Ahead[j]
  <2>1. CASE RoundsAhead' < RoundsAhead
    <3>1. /\ Ahead'[1] < Ahead[1] /\ \A j \in 1..(1 - 1) : Ahead'[j] = Ahead[j]
      BY <2>1 DEF Ahead
    <3>2. QED  BY <3>1
  <2>2. CASE RoundsAhead' = RoundsAhead /\ StagesAhead' < StagesAhead
    <3>1. /\ Ahead'[2] < Ahead[2] /\ \A j \in 1..(2 - 1) : Ahead'[j] = Ahead[j]
      BY <2>2 DEF Ahead
    <3>2. QED  BY <3>1
  <2>3. CASE RoundsAhead' = RoundsAhead /\ StagesAhead' = StagesAhead
    <3>1. CASE left' < left
      <4>1. /\ Ahead'[3] < Ahead[3] /\ \A j \in 1..(3 - 1) : Ahead'[j] = Ahead[j]
        BY <2>3, <3>1 DEF Ahead
      <4>2. QED  BY <4>1
    <3>2. CASE left' = left /\ PlacesAhead' < PlacesAhead
      <4>1. /\ Ahead'[4] < Ahead[4] /\ \A j \in 1..(4 - 1) : Ahead'[j] = Ahead[j]
        BY <2>3, <3>2 DEF Ahead
      <4>2. QED  BY <4>1
    <3>3. CASE /\ left' = left /\ PlacesAhead' = PlacesAhead
               /\ RunsAhead' < RunsAhead
      <4>1. /\ Ahead'[5] < Ahead[5] /\ \A j \in 1..(5 - 1) : Ahead'[j] = Ahead[j]
        BY <2>3, <3>3 DEF Ahead
      <4>2. QED  BY <4>1
    <3>4. CASE /\ left' = left /\ PlacesAhead' = PlacesAhead
               /\ RunsAhead' = RunsAhead /\ StepsAhead' < StepsAhead
      <4>1. /\ Ahead'[6] < Ahead[6] /\ \A j \in 1..(6 - 1) : Ahead'[j] = Ahead[j]
        BY <2>3, <3>4 DEF Ahead
      <4>2. QED  BY <4>1
    <3>5. QED  BY <1>1, <2>3, <3>1, <3>2, <3>3, <3>4 DEF Descends, AheadNatural
  <2>4. QED  BY <2>1, <2>2, <2>3 DEF Descends
<1>6. QED  BY <1>3, <1>4, <1>5, LessAtFirstDifference

\* Each action of the runner takes something off what is ahead.
LEMMA RunnerDescends == Typed /\ RunnerStep => Descends
<1> SUFFICES ASSUME Typed, RunnerStep PROVE Descends
  OBVIOUS
<1> USE DEF Descends, RoundsAhead, StagesAhead, PlacesAhead
<1>0. /\ round \in 0..MaxRounds /\ MaxRounds \in Nat /\ left \in Nat
      /\ run.steps \in 0..MaxSteps /\ MaxSteps \in Nat
  BY ActorConfig, RunnerConfig DEF Typed, RunnerTypeOK
<1>1. CASE NextRound
  BY <1>0, <1>1 DEF NextRound
<1>2. CASE FirstCapture \/ RoundLimit \/ PlannerError \/ PlanRejected
           \/ OverBudget \/ Accepted \/ Finish
           \/ \E n \in 1..MaxSubtasks : PlanAccepted(n)
  BY <1>0, <1>2 DEF FirstCapture, RoundLimit, PlannerError, PlanRejected,
     OverBudget, Accepted, Finish, PlanAccepted, Return
<1>3. CASE \E accepted \in BOOLEAN : GoalDeclared(accepted) \/ EndRound(accepted)
  BY <1>0, <1>3 DEF GoalDeclared, EndRound, Return
<1>4. CASE StartSubtask \/ Settle \/ Refresh \/ SettleRetry
           \/ RecordEvent \/ RecordTrajectory
           \/ \E j \in Judgements : Judge(j)
  BY <1>0, <1>4 DEF StartSubtask, Settle, Refresh, SettleRetry, Recovering,
     RunEnded, RecordEvent, RecordTrajectory, Judge
<1>5. CASE DoNotAsk \/ \E accepted \in BOOLEAN : AskAgain(accepted)
  BY <1>0, <1>5 DEF DoNotAsk, AskAgain, GoOn, Return
<1>6. CASE Rerun \/ Retry
  BY <1>0, <1>6 DEF Rerun, Retry, Recovering, RunEnded, RunsAhead
<1>7. CASE ActorRuns
  <2>1. /\ run.status = "running"
        /\ run'.status \in Ended \cup {"running"}
        /\ run'.status = "running" => run'.steps = run.steps + 1
        /\ run'.steps \in 0..MaxSteps
    BY <1>7, ActorStepEffect DEF ActorRuns, Typed
  <2>2. pc = "acting" /\ UNCHANGED <<pc, round, left, attempt>>
    BY <1>7 DEF ActorRuns, runnerVars
  <2>3. StepsAhead' < StepsAhead
    BY <1>0, <2>1 DEF StepsAhead, Ended
  <2>4. QED  BY <1>0, <2>2, <2>3 DEF RunsAhead
<1> HIDE DEF Descends, RoundsAhead, StagesAhead, PlacesAhead
<1>8. QED
  BY <1>1, <1>2, <1>3, <1>4, <1>5, <1>6, <1>7 DEF RunnerStep

\* The safety half of TaskEnds, for every configuration: each step of the runner
\* is a step down in a well-founded order, so a task takes only finitely many,
\* however its rounds, plans, reruns and retries go.
THEOREM EveryStepDescends ==
  /\ IsWellFoundedOn(AheadOrder, [1..6 -> Nat])
  /\ Spec => [][RunnerStep => <<Ahead', Ahead>> \in AheadOrder]_vars
<1>1. Typed /\ [Next]_vars => [RunnerStep => <<Ahead', Ahead>> \in AheadOrder]_vars
  BY NextTyped, RunnerDescends, DescentIsLess
<1>2. Spec => [][RunnerStep => <<Ahead', Ahead>> \in AheadOrder]_vars
  BY <1>1, InitTyped, NextTyped, PTL DEF Spec
<1>3. QED  BY <1>2, AheadWellFounded

=============================================================================
