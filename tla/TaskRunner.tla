----------------------------- MODULE TaskRunner -----------------------------
(***************************************************************************)
(* AndroidTaskRunner.run_task (agents/task_runner.py): planner rounds over *)
(* subtasks over runs of the actor (module AndroidActor), with the         *)
(* evaluator, the verifier and the memory provider called in between.  One *)
(* thread runs it; pc is its position, and every action is the code from   *)
(* one call of the outside world to the next.                              *)
(*                                                                         *)
(* External assumptions: planner, verifier and evaluator may answer        *)
(* anything, also differently when asked twice (the device moves on by     *)
(* itself), and any call may raise, which ends run_task (Abort).           *)
(*                                                                         *)
(* The definitions below a "wrong variant" comment are not part of the     *)
(* model: each is a bug the next definition could have had, kept to show   *)
(* that a property notices it.                                             *)
(***************************************************************************)
EXTENDS AndroidActor

CONSTANTS
  MaxRounds,     \* max_planner_rounds
  MaxTotal,      \* max_total_actor_steps
  MaxSubtasks,   \* max_subtasks_per_round (as a bound: of a plan)
  Stop,          \* stop_on_goal_complete
  HasVerifier    \* a verifier is configured

ASSUME RunnerConfig ==
  /\ MaxRounds \in Nat
  /\ MaxTotal \in Nat
  /\ MaxSubtasks \in Nat \ {0}
  /\ Stop \in BOOLEAN
  /\ HasVerifier \in BOOLEAN

VARIABLES
  pc,         \* position of the thread
  round,      \* round_id
  left,       \* subtasks of the plan not yet done
  attempt,    \* which run of the subtask: "first", "rerun" or "retry"
  total,      \* total_actor_steps
  obs,        \* observation
  judged,     \* what is known of the last run: evaluator and verifier
  persisted,  \* unstable_persisted
  status,     \* TaskRunResult.status
  (* history *)
  verdict,    \* the evaluator's last answer, and after how many actions
  called      \* the last call of the memory provider

runnerVars == <<pc, round, left, attempt, total, obs, judged, persisted,
                status, verdict, called>>
vars == <<actorVars, runnerVars>>

NotAsked == [accepted |-> FALSE, at |-> 0]
NotJudged == [accepted |-> FALSE, success |-> FALSE, eligible |-> FALSE]
NoObservation == [at |-> 0, kind |-> "usable"]

Init ==
  /\ executed = 0 /\ seen = 0 /\ run = NoRun(NoObservation)
  /\ pc = "idle"
  /\ round = 0
  /\ left = 0
  /\ attempt = "first"
  /\ total = 0
  /\ obs = NoObservation
  /\ judged = NotJudged
  /\ persisted = FALSE
  /\ status = "none"
  /\ verdict = NotAsked
  /\ called = "none"

\* The evaluator's answer; _task_success_if_available makes a failed assertion
\* of the evaluator a refusal.
Evaluated(accepted) == verdict' = [accepted |-> accepted, at |-> executed]

\* return: the result is built, and task_end emitted next.
Return(result) ==
  /\ status' = result
  /\ pc' = "finishing"

Captures(o) ==
  /\ o \in Captured(executed)
  /\ seen' = executed

(***************************************************************************)
(* The task and its planner rounds.                                        *)
(***************************************************************************)

\* reset() of the provider, then a new task on the device.
Begin ==
  /\ pc = "idle"
  /\ called' = "reset"
  /\ executed' = 0 /\ seen' = 0 /\ run' = NoRun(NoObservation)
  /\ pc' = "starting"
  /\ round' = 0 /\ left' = 0 /\ attempt' = "first" /\ total' = 0
  /\ obs' = NoObservation
  /\ judged' = NotJudged /\ persisted' = FALSE /\ status' = "none"
  /\ verdict' = NotAsked

FirstCapture ==
  /\ pc = "starting"
  /\ \E o \in Captured(executed) : Captures(o) /\ obs' = o
  /\ pc' = "round"
  /\ UNCHANGED <<executed, run, round, left, attempt, total, judged, persisted,
                 status, verdict, called>>

\* Wrong variant: one round too many.
NextRoundOffByOne ==
  /\ pc = "round"
  /\ round <= MaxRounds
  /\ round' = round + 1
  /\ pc' = "planning"
  /\ UNCHANGED <<actorVars, left, attempt, total, obs, judged, persisted,
                 status, verdict, called>>

NextRound ==
  /\ pc = "round"
  /\ round < MaxRounds
  /\ round' = round + 1
  /\ pc' = "planning"
  /\ UNCHANGED <<actorVars, left, attempt, total, obs, judged, persisted,
                 status, verdict, called>>

RoundLimit ==
  /\ pc = "round"
  /\ round >= MaxRounds
  /\ Return("round_limit")
  /\ UNCHANGED <<actorVars, round, left, attempt, total, obs, judged, persisted,
                 verdict, called>>

PlannerError ==
  /\ pc = "planning"
  /\ Return("planner_error")
  /\ UNCHANGED <<actorVars, round, left, attempt, total, obs, judged, persisted,
                 verdict, called>>

\* Wrong variant: the planner's word is taken for the evaluator's.
GoalDeclaredUnchecked(accepted) ==
  /\ pc = "planning"
  /\ Return("completed")
  /\ UNCHANGED <<actorVars, round, left, attempt, total, obs, judged, persisted,
                 verdict, called>>

\* complete_goal is a proposal: only the evaluator can accept it.
GoalDeclared(accepted) ==
  /\ pc = "planning"
  /\ Evaluated(accepted)
  /\ IF accepted THEN Return("completed") ELSE pc' = "round" /\ UNCHANGED status
  /\ UNCHANGED <<actorVars, round, left, attempt, total, obs, judged, persisted,
                 called>>

\* Wrong variant: a rejected plan does not use up its round.
PlanRejectedFree ==
  /\ pc = "planning"
  /\ pc' = "round"
  /\ round' = round - 1
  /\ UNCHANGED <<actorVars, left, attempt, total, obs, judged, persisted,
                 status, verdict, called>>

\* Contradictory subtasks, or subtasks that do not fit the screen.
PlanRejected ==
  /\ pc = "planning"
  /\ pc' = "round"
  /\ UNCHANGED <<actorVars, round, left, attempt, total, obs, judged, persisted,
                 status, verdict, called>>

PlanAccepted(n) ==
  /\ pc = "planning"
  /\ left' = n
  /\ pc' = "subtask"
  /\ UNCHANGED <<actorVars, round, attempt, total, obs, judged, persisted,
                 status, verdict, called>>

(***************************************************************************)
(* One subtask: a read of the memory and up to three runs of the actor.    *)
(***************************************************************************)
OverBudget ==
  /\ pc = "subtask"
  /\ left > 0
  /\ total >= MaxTotal
  /\ Return("actor_error")
  /\ UNCHANGED <<actorVars, round, left, attempt, total, obs, judged, persisted,
                 verdict, called>>

\* Wrong variant: the budget may be used up when a subtask starts.
StartSubtaskLate ==
  /\ pc = "subtask"
  /\ left > 0
  /\ total <= MaxTotal
  /\ called' = "read"
  /\ StartRun(obs)
  /\ attempt' = "first"
  /\ pc' = "acting"
  /\ UNCHANGED <<executed, seen, round, left, total, obs, judged, persisted,
                 status, verdict>>

StartSubtask ==
  /\ pc = "subtask"
  /\ left > 0
  /\ total < MaxTotal
  /\ called' = "read"
  /\ StartRun(obs)
  /\ attempt' = "first"
  /\ pc' = "acting"
  /\ UNCHANGED <<executed, seen, round, left, total, obs, judged, persisted,
                 status, verdict>>

ActorRuns ==
  /\ pc = "acting"
  /\ ActorStep
  /\ UNCHANGED runnerVars

RunEnded == pc = "acting" /\ run.status \in Ended

\* _classify_actor_failure = "observation_unstable_error".
BlindParseError == run.status = "parse_error" /\ run.obs.kind = "unstable"

\* The actor failed on an unstable screen: it is run again on a new capture, with
\* the memory context it already had.  Its result is not classified again.
Rerun ==
  /\ RunEnded
  /\ attempt = "first"
  /\ BlindParseError
  /\ \E o \in Captured(executed) : Captures(o) /\ StartRun(o)
  /\ attempt' = "rerun"
  /\ UNCHANGED <<executed, pc, round, left, total, obs, judged, persisted,
                 status, verdict, called>>

\* _recover_unstable_subtask_observation is called on this result.
Recovering ==
  /\ RunEnded
  /\ attempt = "rerun" \/ (attempt = "first" /\ ~BlindParseError)

Settle ==
  /\ Recovering
  /\ run.obs.kind = "usable"
  /\ persisted' = FALSE
  /\ pc' = "judging"
  /\ UNCHANGED <<actorVars, round, left, attempt, total, obs, judged, status,
                 verdict, called>>

\* A new capture is usable and becomes the result's final observation.
Refresh ==
  /\ Recovering
  /\ run.obs.kind # "usable"
  /\ \E o \in Captured(executed) :
       /\ Captures(o)
       /\ o.kind = "usable"
       /\ run' = [run EXCEPT !.obs = o]
  /\ persisted' = FALSE
  /\ pc' = "judging"
  /\ UNCHANGED <<executed, round, left, attempt, total, obs, judged, status,
                 verdict, called>>

\* It is not: the memory is read again and the actor run again, on that capture.
Retry ==
  /\ Recovering
  /\ run.obs.kind # "usable"
  /\ \E o \in Captured(executed) :
       Captures(o) /\ o.kind # "usable" /\ StartRun(o)
  /\ called' = "reread"
  /\ attempt' = "retry"
  /\ UNCHANGED <<executed, pc, round, left, total, obs, judged, persisted,
                 status, verdict>>

SettleRetry ==
  /\ RunEnded
  /\ attempt = "retry"
  /\ persisted' = (run.obs.kind # "usable")
  /\ pc' = "judging"
  /\ UNCHANGED <<actorVars, round, left, attempt, total, obs, judged, status,
                 verdict, called>>

(***************************************************************************)
(* Judging the run, and telling the memory.                                *)
(***************************************************************************)

\* What evaluator and verifier can make of a run.  The evaluator's acceptance
\* counts as success; its run is worth remembering if it took several clean steps.
Judgements ==
  [accepted : {TRUE}, success : {TRUE}, eligible : {run.steps > 1 /\ Clean}]
  \cup
  IF HasVerifier
  THEN {j \in [accepted : {FALSE}, success : BOOLEAN, eligible : BOOLEAN] :
          j.eligible => j.success}
  ELSE [accepted : {FALSE}, success : {run.status = "completed"},
        eligible : {run.status = "completed"}]

\* Wrong variant: the observation from before the subtask is kept.
JudgeOnOldObservation(j) ==
  /\ pc = "judging"
  /\ total' = total + run.steps
  /\ Evaluated(j.accepted)
  /\ judged' = j
  /\ pc' = "recording"
  /\ UNCHANGED <<actorVars, round, left, attempt, obs, persisted, status, called>>

\* Wrong variant: steps of a run that failed are not counted.
JudgeCountingClean(j) ==
  /\ pc = "judging"
  /\ total' = IF Clean THEN total + run.steps ELSE total
  /\ obs' = run.obs
  /\ Evaluated(j.accepted)
  /\ judged' = j
  /\ pc' = "recording"
  /\ UNCHANGED <<actorVars, round, left, attempt, persisted, status, called>>

Judge(j) ==
  /\ pc = "judging"
  /\ total' = total + run.steps
  /\ obs' = run.obs
  /\ Evaluated(j.accepted)
  /\ judged' = j
  /\ pc' = "recording"
  /\ UNCHANGED <<actorVars, round, left, attempt, persisted, status, called>>

WorthLearning == judged.success /\ judged.eligible /\ Clean

\* Wrong variant: an unusable screen is not reported to the memory.
RecordUnlessPersisted ==
  /\ pc = "recording"
  /\ called' = IF persisted THEN called ELSE "record"
  /\ pc' = IF WorthLearning THEN "learning" ELSE "deciding"
  /\ UNCHANGED <<actorVars, round, left, attempt, total, obs, judged, persisted,
                 status, verdict>>

RecordEvent ==
  /\ pc = "recording"
  /\ called' = "record"
  /\ pc' = IF WorthLearning THEN "learning" ELSE "deciding"
  /\ UNCHANGED <<actorVars, round, left, attempt, total, obs, judged, persisted,
                 status, verdict>>

RecordTrajectory ==
  /\ pc = "learning"
  /\ called' = "learn"
  /\ pc' = "deciding"
  /\ UNCHANGED <<actorVars, round, left, attempt, total, obs, judged, persisted,
                 status, verdict>>

\* Wrong variant: acceptance is only looked at once the round is over.
AcceptedIgnored ==
  /\ pc = "deciding"
  /\ judged.accepted
  /\ left' = left - 1
  /\ pc' = IF persisted THEN "round" ELSE "subtask"
  /\ UNCHANGED <<actorVars, round, attempt, total, obs, judged, persisted,
                 status, verdict, called>>

Accepted ==
  /\ pc = "deciding"
  /\ judged.accepted /\ Stop
  /\ Return("completed")
  /\ UNCHANGED <<actorVars, round, left, attempt, total, obs, judged, persisted,
                 verdict, called>>

\* Wrong variant: a verified subtask leads on, whatever its screen looks like.
GoOnUnlessFailed ==
  IF ~judged.success
  THEN pc' = "round" /\ UNCHANGED left
  ELSE pc' = "subtask" /\ left' = left - 1

\* The rest of the loop's body: the next round, or the next subtask.
GoOn ==
  IF persisted \/ ~judged.success
  THEN pc' = "round" /\ UNCHANGED left
  ELSE pc' = "subtask" /\ left' = left - 1

\* A verified subtask may have completed the task: the evaluator is asked again.
AskAgain(accepted) ==
  /\ pc = "deciding"
  /\ Stop /\ ~judged.accepted /\ judged.success
  /\ Evaluated(accepted)
  /\ IF accepted THEN Return("completed") /\ UNCHANGED left
                 ELSE GoOn /\ UNCHANGED status
  /\ UNCHANGED <<actorVars, round, attempt, total, obs, judged, persisted,
                 called>>

DoNotAsk ==
  /\ pc = "deciding"
  /\ ~Stop \/ ~judged.success
  /\ GoOn
  /\ UNCHANGED <<actorVars, round, attempt, total, obs, judged, persisted,
                 status, verdict, called>>

\* Every subtask of the plan was verified.
EndRound(accepted) ==
  /\ pc = "subtask"
  /\ left = 0
  /\ IF Stop
     THEN /\ Evaluated(accepted)
          /\ IF accepted THEN Return("completed")
                         ELSE pc' = "round" /\ UNCHANGED status
     ELSE pc' = "round" /\ UNCHANGED <<status, verdict>>
  /\ UNCHANGED <<actorVars, round, left, attempt, total, obs, judged, persisted,
                 called>>

\* _emit_task_end_memory_event, on every return.
Finish ==
  /\ pc = "finishing"
  /\ called' = "end"
  /\ pc' = "idle"
  /\ UNCHANGED <<actorVars, round, left, attempt, total, obs, judged, persisted,
                 status, verdict>>

\* Any call of the outside world may raise, and nothing catches it.
Abort ==
  /\ pc # "idle"
  /\ status' = "raised"
  /\ called' = "none"
  /\ pc' = "idle"
  /\ UNCHANGED <<actorVars, round, left, attempt, total, obs, judged, persisted,
                 verdict>>

RunnerStep ==
  \/ FirstCapture
  \/ NextRound
  \/ RoundLimit
  \/ PlannerError
  \/ \E accepted \in BOOLEAN : GoalDeclared(accepted)
  \/ PlanRejected
  \/ \E n \in 1..MaxSubtasks : PlanAccepted(n)
  \/ OverBudget
  \/ StartSubtask
  \/ ActorRuns
  \/ Rerun
  \/ Settle
  \/ Refresh
  \/ Retry
  \/ SettleRetry
  \/ \E j \in Judgements : Judge(j)
  \/ RecordEvent
  \/ RecordTrajectory
  \/ Accepted
  \/ \E accepted \in BOOLEAN : AskAgain(accepted)
  \/ DoNotAsk
  \/ \E accepted \in BOOLEAN : EndRound(accepted)
  \/ Finish

Next == Begin \/ RunnerStep \/ Abort

Spec == Init /\ [][Next]_vars

\* The thread keeps running: every call of the outside world returns or raises.
FairSpec == Spec /\ WF_vars(RunnerStep)

-----------------------------------------------------------------------------
(***************************************************************************)
(* Properties.                                                             *)
(***************************************************************************)

\* Type invariant of the runner and of the actor's run.
RunnerTypeOK ==
  /\ executed \in Nat
  /\ seen \in Nat
  /\ run \in [status : Ended \cup {"none", "running"}, steps : 0..MaxSteps,
              obs : Observation]
  /\ pc \in {"idle", "starting", "round", "planning", "subtask", "acting",
             "judging", "recording", "learning", "deciding", "finishing"}
  /\ round \in 0..MaxRounds
  /\ left \in 0..MaxSubtasks
  /\ attempt \in {"first", "rerun", "retry"}
  /\ total \in Nat
  /\ obs \in Observation
  /\ judged \in [accepted : BOOLEAN, success : BOOLEAN, eligible : BOOLEAN]
  /\ persisted \in BOOLEAN
  /\ status \in {"none", "completed", "planner_error", "actor_error",
                 "round_limit", "raised"}
  /\ verdict \in [accepted : BOOLEAN, at : Nat]
  /\ called \in {"none", "reset", "read", "reread", "record", "learn", "end"}

\* "completed", which is also what the memory is told, means on each of the four
\* return paths that the evaluator's last answer was yes, and that nothing was
\* done on the device since.
CompletedMeansAccepted ==
  status = "completed" => verdict = [accepted |-> TRUE, at |-> executed]

\* Once the evaluator has accepted the task, no action touches the device any more
\* (stop_on_goal_complete), whoever asked it and whatever the verifier said.
NoActionAfterAcceptance ==
  [][Stop /\ pc # "idle" /\ verdict.accepted => executed' = executed]_vars

\* max_total_actor_steps, tested only between subtasks, bounds total_actor_steps
\* all the same: the last subtask can overrun it by less than one run.
StepBudget == total < MaxTotal + MaxSteps

\* The steps of discarded runs (rerun, retry) are not counted in
\* total_actor_steps; what the device really did is bounded all the same, by twice
\* max_steps actions for each step counted.
WorkIsBounded ==
  pc \in {"round", "subtask", "finishing"} => executed <= 2 * MaxSteps * total

\* One task as a whole, at every moment of it and however it ends: the device
\* executes at most twice max_steps actions for each step of max_total_actor_steps
\* and fewer than max_steps beyond, although the budget is tested only between
\* subtasks and counts only one run of up to three.
DeviceIsBounded == executed < 2 * MaxSteps * MaxTotal + MaxSteps

\* Whatever path the observation takes (captures inside a run, before a rerun,
\* after an unstable run, through the retry), planner and actor are given the
\* newest capture there is.
NewestCaptureUsed ==
  /\ pc \in {"round", "planning", "subtask"} => obs.at = seen
  /\ pc \in {"acting", "judging"} => run.obs.at = seen

\* A round goes from one subtask to the next only on a screen fit to act on; an
\* unstable one that a retry could not cure makes the planner look again.
NextSubtaskOnUsableScreen ==
  [][pc = "deciding" /\ pc' = "subtask" => obs.kind = "usable"]_vars

\* The runner calls the memory in the order MemoryProtocol states, on every path
\* through its loops and also after tasks that raised.
MemoryStage ==
  CASE called = "none"   -> "idle"
    [] called = "reset"  -> "ready"
    [] called = "read"   -> "acting"
    [] called = "reread" -> "retrying"
    [] called = "record" -> "recorded"
    [] called = "learn"  -> "ready"
    [] called = "end"    -> "finished"

Memory == INSTANCE MemoryProtocol WITH stage <- MemoryStage

MemoryCallsInOrder == Memory!Spec

\* Every task ends: rounds, subtasks, reruns and retries run out.
TaskEnds == (pc # "idle") ~> (pc = "idle")

\* "The Runner will capture the next observation and verify progress after your
\* action" (android_actor.py, system prompt): the planner is shown a capture from
\* after the last executed action.
PlansOnCurrentScreen == pc = "planning" => obs.at = executed
=============================================================================
