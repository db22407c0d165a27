----------------------------- MODULE SubtaskRun -----------------------------
(***************************************************************************)
(* One subtask from its start to its verdict, with the rules TaskRunner    *)
(* and AndroidActor leave open: run_task (agents/task_runner.py, the body  *)
(* of its subtask loop) and run_subtask (agents/android_actor.py) over     *)
(* screens (module Screen), the parsing and the stop rule of the actor     *)
(* (ActorAction) and the verifier's vetoes (Verdict).                      *)
(*                                                                         *)
(* External assumptions: the model answers anything in Answers, the        *)
(* verifier's model anything in Opinions; the device shows any screen      *)
(* after any action, and also between two captures; execute_action and the *)
(* capture after it may raise.  The evaluator, when asked, refuses: what   *)
(* its acceptance does is TaskRunner's.                                    *)
(***************************************************************************)
EXTENDS Verdict

CONSTANTS
  Look,       \* what the device can show: screens, by a name for each
  Goals,      \* subtasks
  Answers,    \* what the actor's model can answer
  MaxSteps    \* ActorConfig.max_steps

ASSUME SubtaskConfig ==
  /\ \A n \in DOMAIN Look : Look[n] \in Screen
  /\ \A n \in DOMAIN Look : \A i \in Indices(Look[n]) :
       Look[n].ui[i].cover \in Indices(Look[n])
  /\ Goals \subseteq Goal
  /\ Answers \subseteq Answer
  /\ MaxSteps \in Nat \ {0}

Screens == DOMAIN Look

\* What adapter and runner make of each screen.
Unstable == {n \in Screens : ~Consistent(Look[n])}
Untrusted == {n \in Screens : Distrusted(Look[n])}

VARIABLES
  pc,         \* "subtask", "acting", "judging" or "judged"
  goal,       \* the subtask
  obs,        \* observation of run_task
  before,     \* before_subtask_observation
  attempt,    \* "first", "rerun" or "retry"
  run,        \* the current or last run: status, steps, current_observation
  recent,     \* recent_editable_index
  history,    \* what the verifier reads of the run's steps
  persisted,  \* unstable_persisted
  verdict,    \* verifier_result
  opinion,    \* what the verifier's model said
  (* history *)
  executed,   \* actions the device has executed
  seen,       \* value of executed at the last capture
  weighty     \* actions of the subtask other than looks and presses where a field is

device == <<executed, seen, weighty>>
vars == <<pc, goal, obs, before, attempt, run, recent, history, persisted,
          verdict, opinion, device>>

Ended == {"completed", "infeasible", "stopped", "parse_error",
          "execution_error", "step_limit"}

NoSteps == [acted |-> FALSE, failed |-> FALSE, opened |-> FALSE]
NoVerdict == [status |-> "none", eligible |-> FALSE]

\* A capture after n actions.
Captured(n) == [screen : Screens, at : {n}]

StartRun(o) ==
  /\ run' = [status |-> "running", steps |-> 0, obs |-> o]
  /\ recent' = 0
  /\ history' = NoSteps

Init ==
  /\ pc = "subtask"
  /\ goal \in Goals
  /\ obs \in Captured(0)
  /\ before = obs
  /\ attempt = "first"
  /\ run = [status |-> "none", steps |-> 0, obs |-> obs]
  /\ recent = 0
  /\ history = NoSteps
  /\ persisted = FALSE
  /\ verdict = NoVerdict
  /\ opinion = "none"
  /\ executed = 0 /\ seen = 0 /\ weighty = 0

StartSubtask ==
  /\ pc = "subtask"
  /\ before' = obs
  /\ StartRun(obs)
  /\ pc' = "acting"
  /\ UNCHANGED <<goal, obs, attempt, persisted, verdict, opinion, device>>

(***************************************************************************)
(* A step of the actor.                                                    *)
(***************************************************************************)
\* The screen the run sees.
Now == Look[run.obs.screen]

Running == pc = "acting" /\ run.status = "running"

\* The step's entry in the history: it acted, failed, opened the goal's app.
Wrote(acted, failed, opened) ==
  history' = [acted |-> history.acted \/ acted,
              failed |-> history.failed \/ failed,
              opened |-> history.opened \/ opened]

Stepped(status, o) ==
  run' = [status |-> status, steps |-> run.steps + 1, obs |-> o]

\* A press on a field, or by coordinates where a field is the first element that
\* holds the point.  That press can hit something else, an icon laid over the
\* field: the actor takes it for the field.
PressesField(action, s) ==
  action.type \in Pointing /\ Target(action, s) \in Editable(s)

\* An action that looks, waits, or presses where a field is.
Light(action, s) ==
  action.type \in {"wait", "scroll", "answer"} \/ PressesField(action, s)

\* The action is executed, or fails before or after it had its effect.
Execute(action) ==
  /\ executed' \in {executed, executed + 1}
  /\ weighty' = IF Light(action, Now) THEN weighty
                ELSE weighty + (executed' - executed)

\* execute_action and the capture after it succeed.  A stop looks once more: that
\* capture, of the same moment or a later one, becomes the observation.
ActAndLook(action, stops) ==
  /\ Execute(action)
  /\ executed' = executed + 1
  /\ \E o \in Captured(executed') :
       Stepped(IF stops THEN "stopped" ELSE "running", o)
  /\ seen' = executed'

ActAndFail(action) ==
  /\ Execute(action)
  /\ Stepped("execution_error", run.obs)
  /\ UNCHANGED seen

\* _maybe_plan_direct_open_app_action: the goal's app is not in the foreground.
OpensDirectly ==
  /\ run.steps = 0
  /\ goal.app # "none"
  /\ goal.app \notin {Now.foreground, Dominant(Now)}

DirectOpen ==
  /\ Running
  /\ OpensDirectly
  /\ \/ ActAndLook(Acts("open_app", 0, 0), TRUE) /\ Wrote(TRUE, FALSE, TRUE)
     \/ ActAndFail(Acts("open_app", 0, 0)) /\ Wrote(TRUE, TRUE, TRUE)
  /\ UNCHANGED <<pc, goal, obs, before, attempt, recent, persisted, verdict,
                 opinion>>

\* Wrong variant: the step limit is tested after the step.
MayAskOnceMore == Running /\ ~OpensDirectly /\ run.steps <= MaxSteps

\* The model is asked for the next step.
MayAsk == Running /\ ~OpensDirectly /\ run.steps < MaxSteps

ParsedHere(answer) == Parsed(answer, goal, Now, recent)

\* A refused answer ends the run.
RefuseAnswer(answer) ==
  /\ MayAsk
  /\ ParsedHere(answer) = Refused
  /\ Stepped("parse_error", run.obs)
  /\ Wrote(answer.type # "no_json", TRUE, FALSE)
  /\ UNCHANGED <<pc, goal, obs, before, attempt, recent, persisted, verdict,
                 opinion, device>>

Declare(answer) ==
  /\ MayAsk
  /\ ParsedHere(answer).type \in Statuses
  /\ Stepped(IF answer.type = "complete" THEN "completed" ELSE "infeasible", run.obs)
  /\ Wrote(TRUE, FALSE, FALSE)
  /\ UNCHANGED <<pc, goal, obs, before, attempt, recent, persisted, verdict,
                 opinion, device>>

\* A press on a field makes it the most recent one.
Focused(action, s) ==
  IF PressesField(action, s) THEN Target(action, s) ELSE recent

TakeAction(answer) ==
  LET action == ParsedHere(answer)
  IN  /\ MayAsk
      /\ action # Refused /\ action.type \notin Statuses
      /\ recent' = Focused(action, Now)
      /\ \/ /\ ActAndLook(action, StopsForVerifier(action, goal, Now))
            /\ Wrote(action.type # "wait", FALSE, FALSE)
         \/ /\ ActAndFail(action)
            /\ Wrote(action.type # "wait", TRUE, FALSE)
      /\ UNCHANGED <<pc, goal, obs, before, attempt, persisted, verdict, opinion>>

StepLimit ==
  /\ Running
  /\ run.steps >= MaxSteps
  /\ run' = [run EXCEPT !.status = "step_limit"]
  /\ UNCHANGED <<pc, goal, obs, before, attempt, recent, history, persisted,
                 verdict, opinion, device>>

(***************************************************************************)
(* After a run: rerun, refresh or retry, then the verdict.                 *)
(***************************************************************************)
RunEnded == pc = "acting" /\ run.status \in Ended

\* Wrong variant: any failed step on an unstable screen is tried again.
BlindFailure ==
  run.status \in {"parse_error", "execution_error"} /\ run.obs.screen \in Unstable

\* _classify_actor_failure = "observation_unstable_error".
BlindParseError == run.status = "parse_error" /\ run.obs.screen \in Unstable

\* Wrong variant: the screen the rerun starts from is also what it is judged against.
RerunFromHere ==
  /\ RunEnded
  /\ attempt = "first"
  /\ BlindParseError
  /\ \E o \in Captured(executed) : StartRun(o) /\ before' = o
  /\ seen' = executed
  /\ attempt' = "rerun"
  /\ UNCHANGED <<pc, goal, obs, persisted, verdict, opinion, executed, weighty>>

Rerun ==
  /\ RunEnded
  /\ attempt = "first"
  /\ BlindParseError
  /\ \E o \in Captured(executed) : StartRun(o)
  /\ seen' = executed
  /\ attempt' = "rerun"
  /\ UNCHANGED <<pc, goal, obs, before, persisted, verdict, opinion, executed,
                 weighty>>

Recovering ==
  /\ RunEnded
  /\ attempt = "rerun" \/ (attempt = "first" /\ ~BlindParseError)

Settle ==
  /\ Recovering
  /\ run.obs.screen \notin Untrusted
  /\ persisted' = FALSE
  /\ pc' = "judging"
  /\ UNCHANGED <<goal, obs, before, attempt, run, recent, history, verdict,
                 opinion, device>>

Refresh ==
  /\ Recovering
  /\ run.obs.screen \in Untrusted
  /\ \E o \in Captured(executed) :
       o.screen \notin Untrusted /\ run' = [run EXCEPT !.obs = o]
  /\ seen' = executed
  /\ persisted' = FALSE
  /\ pc' = "judging"
  /\ UNCHANGED <<goal, obs, before, attempt, recent, history, verdict, opinion,
                 executed, weighty>>

\* Wrong variant: the retry is recovered from like a first run.
RetryAgain ==
  /\ RunEnded
  /\ ~BlindParseError
  /\ run.obs.screen \in Untrusted
  /\ \E o \in Captured(executed) : o.screen \in Untrusted /\ StartRun(o)
  /\ seen' = executed
  /\ attempt' = "retry"
  /\ UNCHANGED <<pc, goal, obs, before, persisted, verdict, opinion, executed,
                 weighty>>

Retry ==
  /\ Recovering
  /\ run.obs.screen \in Untrusted
  /\ \E o \in Captured(executed) : o.screen \in Untrusted /\ StartRun(o)
  /\ seen' = executed
  /\ attempt' = "retry"
  /\ UNCHANGED <<pc, goal, obs, before, persisted, verdict, opinion, executed,
                 weighty>>

SettleRetry ==
  /\ RunEnded
  /\ attempt = "retry"
  /\ persisted' = (run.obs.screen \in Untrusted)
  /\ pc' = "judging"
  /\ UNCHANGED <<goal, obs, before, attempt, run, recent, history, verdict,
                 opinion, device>>

\* What the verifier reads: the steps, and the reasons given for them, which may
\* speak of launching the app or only of something being visible.
Read(launchTold, onlyVisible) ==
  [acted |-> history.acted, failed |-> history.failed,
   launched |-> history.opened \/ launchTold, onlyVisible |-> onlyVisible]

\* The evaluator refused; the verifier compares the screen the subtask started on
\* with the last one of its last run.
Judge(said) ==
  /\ pc = "judging"
  /\ obs' = run.obs
  /\ opinion' = said
  /\ \E launchTold, onlyVisible \in BOOLEAN :
       verdict' \in Verdicts(said, goal, Look[before.screen], Now,
                             Read(launchTold, onlyVisible))
  /\ pc' = "judged"
  /\ UNCHANGED <<goal, before, attempt, run, recent, history, persisted, device>>

Next ==
  \/ StartSubtask
  \/ DirectOpen
  \/ \E answer \in Answers :
       RefuseAnswer(answer) \/ Declare(answer) \/ TakeAction(answer)
  \/ StepLimit
  \/ Rerun
  \/ Settle
  \/ Refresh
  \/ Retry
  \/ SettleRetry
  \/ \E said \in Opinions : Judge(said)

Spec == Init /\ [][Next]_vars

-----------------------------------------------------------------------------
(***************************************************************************)
(* Properties.                                                             *)
(***************************************************************************)
Observation == [screen : Screens, at : Nat]

\* Types of the subtask's state; the counters stay within their limits.
SubtaskTypeOK ==
  /\ pc \in {"subtask", "acting", "judging", "judged"}
  /\ goal \in Goals
  /\ obs \in Observation
  /\ before \in Observation
  /\ attempt \in {"first", "rerun", "retry"}
  /\ run \in [status : Ended \cup {"none", "running"}, steps : 0..MaxSteps,
              obs : Observation]
  /\ recent \in Nat
  /\ history \in [acted : BOOLEAN, failed : BOOLEAN, opened : BOOLEAN]
  /\ persisted \in BOOLEAN
  /\ verdict \in [status : {"none", "success", "failure", "uncertain"},
                  eligible : BOOLEAN]
  /\ opinion \in Opinions \cup {"none"}
  /\ executed \in Nat /\ seen \in Nat /\ weighty \in Nat

LooksDifferent(s, t) ==
  \/ s.foreground # t.foreground
  \/ s.activity # t.activity
  \/ Description(s) # Description(t)

\* A subtask that was to open, reach, set or save something is only verified when
\* the screen at its end differs from the one run_task held when it began, and a
\* toggling one only when a check mark differs; through reruns, refreshes and
\* retries, whatever verifier and actor claim.
VerifiedMeansMoved ==
  [][pc = "judging" /\ verdict'.status = "success" =>
       /\ goal.progress => LooksDifferent(Look[obs.screen], Look[obs'.screen])
       /\ goal.kind = "toggle" => ToggleChanged(Look[obs.screen], Look[obs'.screen])]_vars

\* A text, an enter, a navigation, or a press that is not one on a field is done at
\* most twice before somebody judges its effect, and the second time only by the
\* one retry on a screen nobody trusts; a rerun repeats none.  (An icon within a
\* field's box, pressed by coordinates, counts as the field: such a press does not
\* end the run, and max_steps alone limits it.)
RepeatedAtMostOnce == weighty <= IF attempt = "retry" THEN 2 ELSE 1

\* A run whose actor was allowed to declare it complete is judged as it is: the
\* runner neither repeats it nor exchanges its last screen.  The actor refuses on
\* every screen the runner would distrust, although each has its own rule.
CompletedRunStands == [][run.status = "completed" => run' = run]_vars

(***************************************************************************)
(* Every step is one of TaskRunner's, with its observations reduced to how *)
(* the runner judges them: the rules only choose among what TaskRunner     *)
(* allows.  Round, plan and memory are those of a task with one subtask.   *)
(***************************************************************************)
Kind(n) ==
  IF n \in Unstable THEN "unstable" ELSE IF n \in Untrusted THEN "bare" ELSE "usable"
Reduced(o) == [at |-> o.at, kind |-> Kind(o.screen)]

Judged == pc = "judged"

Runner == INSTANCE TaskRunner WITH
  MaxRounds <- 1, MaxTotal <- 1, MaxSubtasks <- 1, Stop <- TRUE,
  HasVerifier <- TRUE,
  pc <- IF Judged THEN "recording" ELSE pc,
  round <- 1, left <- 1, status <- "none",
  obs <- Reduced(obs),
  run <- [run EXCEPT !.obs = Reduced(run.obs)],
  total <- IF Judged THEN run.steps ELSE 0,
  judged <- [accepted |-> FALSE, success |-> verdict.status = "success",
             eligible |-> verdict.eligible],
  verdict <- [accepted |-> FALSE, at |-> IF Judged THEN executed ELSE 0],
  called <- CASE pc = "subtask" -> "reset"
              [] pc # "subtask" /\ attempt = "retry" -> "reread"
              [] OTHER -> "read"

\* The subtask loop with its rules takes only steps TaskRunner allows.
ImplementsTaskRunner == [][Runner!RunnerStep]_(Runner!vars)

\* A toggle whose check mark changed is not refused when the verifier's model
\* accepts it (tests/test_verifier.py,
\* test_local_veto_keeps_toggle_success_when_checked_state_changes).
ChangedToggleKept ==
  /\ Judged /\ opinion = "success" /\ goal.kind = "toggle"
  /\ ToggleChanged(Look[before.screen], Look[obs.screen])
  => verdict.status = "success"
=============================================================================
