--------------------------- MODULE MemoryProtocol ---------------------------
(***************************************************************************)
(* The calls a task makes to its MemoryProvider (memory/base.py), and the  *)
(* order the provider may rely on: reset first; a read before every run of *)
(* the actor, possibly a second one when the run is repeated; one event    *)
(* per subtask, after which, and only then, its trajectory may be          *)
(* recorded; task_end last, between subtasks.  An exception may end a task *)
(* anywhere, without task_end.                                             *)
(*                                                                         *)
(* TaskRunner is shown to call in no other order.                          *)
(***************************************************************************)
VARIABLE stage   \* what the provider was last told

Stages == {"idle", "ready", "acting", "retrying", "recorded", "finished"}

Init == stage = "idle"

Reset == stage \in {"idle", "finished"} /\ stage' = "ready"

Read == stage \in {"ready", "recorded"} /\ stage' = "acting"

ReadAgain == stage = "acting" /\ stage' = "retrying"

RecordEvent == stage \in {"acting", "retrying"} /\ stage' = "recorded"

\* record_subtask_trajectory; not every event is followed by one.
RecordTrajectory == stage = "recorded" /\ stage' = "ready"

EndTask == stage \in {"ready", "recorded"} /\ stage' = "finished"

\* The task died; also a task that ended, once the provider forgot it.
Abandon == stage' = "idle"

Next ==
  \/ Reset
  \/ Read
  \/ ReadAgain
  \/ RecordEvent
  \/ RecordTrajectory
  \/ EndTask
  \/ Abandon

Spec == Init /\ [][Next]_stage
=============================================================================
