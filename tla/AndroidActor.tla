---------------------------- MODULE AndroidActor ----------------------------
(***************************************************************************)
(* AndroidActor.run_subtask (agents/android_actor.py): one run of the      *)
(* actor on one subtask, as a loop of at most max_steps steps.  Each step  *)
(* asks the model for an action, executes it on the device and captures    *)
(* the screen; a run ends when an action cannot be parsed or executed,     *)
(* when the model declares the subtask over, when a rule stops the run for *)
(* the verifier, or at max_steps.                                          *)
(*                                                                         *)
(* External assumptions: the model may answer anything; env.execute_action *)
(* and the capture after it may raise, the former before or after it       *)
(* changed the device.  An observation is abstracted to the number of      *)
(* actions the device had executed when it was captured, and to how the    *)
(* runner will judge it.                                                   *)
(***************************************************************************)
EXTENDS Integers

CONSTANT MaxSteps   \* ActorConfig.max_steps

ASSUME ActorConfig == MaxSteps \in Nat \ {0}

VARIABLES
  executed,   \* actions the device has executed for this task
  run,        \* the current or last run: status, steps, current_observation
  (* history *)
  seen        \* value of executed at the last capture

actorVars == <<executed, run, seen>>

\* usable: fit to go on; unstable: observation_consistency is "unstable"; bare:
\* consistent, but nothing to act on in the foreground app.  The runner distrusts
\* the last two (task_runner.py, _is_unstable_observation).
Kinds == {"usable", "unstable", "bare"}

Observation == [at : Nat, kind : Kinds]

\* A capture now, after n actions.
Captured(n) == [at : {n}, kind : Kinds]

Ended == {"completed", "infeasible", "stopped", "parse_error",
          "execution_error", "step_limit"}

Running == run.status = "running"

NoRun(o) == [status |-> "none", steps |-> 0, obs |-> o]

StartRun(o) == run' = [status |-> "running", steps |-> 0, obs |-> o]

Stepped(status, o) == [status |-> status, steps |-> run.steps + 1, obs |-> o]

MayStep == Running /\ run.steps < MaxSteps

\* An action was executed and the screen captured; the loop goes on, or a rule
\* stops it: a heuristic stop, after one more capture, or a direct open_app, which
\* is the only step of its run.
Act(status) ==
  /\ MayStep
  /\ executed' = executed + 1
  /\ \E o \in Captured(executed') : run' = Stepped(status, o)
  /\ seen' = executed'

\* execute_action or the capture after it raised: the observation of the run stays
\* the one from before the action, whether or not the device changed.
ExecutionError ==
  /\ MayStep
  /\ executed' \in {executed, executed + 1}
  /\ run' = Stepped("execution_error", run.obs)
  /\ UNCHANGED seen

\* No step of the device: the answer is not an action, or declares the end.
EndWithoutAction(status) ==
  /\ MayStep
  /\ run' = Stepped(status, run.obs)
  /\ UNCHANGED <<executed, seen>>

StepLimit ==
  /\ Running
  /\ run.steps >= MaxSteps
  /\ run' = [run EXCEPT !.status = "step_limit"]
  /\ UNCHANGED <<executed, seen>>

ActorStep ==
  \/ \E status \in {"running", "stopped"} : Act(status)
  \/ ExecutionError
  \/ \E status \in {"parse_error", "completed", "infeasible"} :
       EndWithoutAction(status)
  \/ StepLimit

\* No step of the run failed to parse or to execute: either would have ended it.
Clean == run.status \notin {"parse_error", "execution_error"}
=============================================================================
