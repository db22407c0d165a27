---------------------------- MODULE MCTaskRunner ----------------------------
(***************************************************************************)
(* TaskRunner for TLC, in the two configurations that differ most: as the  *)
(* scripts build it, with a verifier and stop_on_goal_complete (the        *)
(* constants of the .cfg), and open, with neither, where only the planner  *)
(* can complete a task.  The initial state chooses one of them.            *)
(***************************************************************************)
EXTENDS TaskRunner

VARIABLE config   \* "scripts" or "open"

Open == INSTANCE TaskRunner WITH Stop <- FALSE, HasVerifier <- FALSE

mcVars == <<vars, config>>

MCInit == Init /\ config \in {"scripts", "open"}

MCRunnerStep ==
  /\ \/ config = "scripts" /\ RunnerStep
     \/ config = "open" /\ Open!RunnerStep
  /\ UNCHANGED config

MCNext ==
  \/ Begin /\ UNCHANGED config
  \/ MCRunnerStep
  \/ Abort /\ UNCHANGED config

MCSpec == MCInit /\ [][MCNext]_mcVars /\ WF_mcVars(MCRunnerStep)

\* NoActionAfterAcceptance of TaskRunner, for the configuration it is about:
\* whoever asked the evaluator, once it has accepted the task no action touches
\* the device.
ScriptsStopOnAcceptance ==
  [][config = "scripts" /\ pc # "idle" /\ verdict.accepted
       => executed' = executed]_mcVars
=============================================================================
