----------------------------- MODULE DMSMemory -----------------------------
(***************************************************************************)
(* DMSMemoryProvider (memory/dms.py) with its JsonDMSMemoryStore index     *)
(* (memory/store.py) and its DMSPruner (memory/pruning.py), driven by the  *)
(* calls AndroidTaskRunner makes in one task (agents/task_runner.py):      *)
(*                                                                         *)
(*   reset; (build_actor_memory (again, if the screen stayed unstable);    *)
(*   record(subtask event); record_subtask_trajectory?)*; record(task_end) *)
(*                                                                         *)
(* One process runs all of this in one thread, so calls do not overlap;    *)
(* what interleaves is the process's death, which keeps the index file and *)
(* loses the provider.  A call that writes the index several times is      *)
(* therefore split at its writes: variable phase is the program's position *)
(* and RestartProcess may cut it anywhere.  Two series of writes are one   *)
(* step, because cutting them leaves nothing new.  A read marks its RISKY  *)
(* records one by one; cut short, it leaves what a read leaves that marked *)
(* fewer and was then cut.  A pass rewrites the survival values before it  *)
(* selects; the model keeps none.                                          *)
(*                                                                         *)
(* A memory is named by its position in index.jsonl: records are only ever *)
(* appended and every rewrite keeps their order (ids are fresh uuids).     *)
(*                                                                         *)
(* The definitions below a "wrong variant" comment are not part of the     *)
(* model: each is a bug the next definition could have had, kept to show   *)
(* that a property notices it.                                             *)
(***************************************************************************)
EXTENDS Pruning, Sequences

CONSTANTS
  Trajectories,          \* trajectories an actor can produce (one per hash)
  Length,                \* number of steps of each
  MinTrajectoryLen,      \* min_trajectory_len_to_store
  TopK,                  \* retrieval_top_k
  RiskPct,               \* risk_threshold, in percent
  EnableMutation,        \* enable_mutation
  ReplaceOnlyIfShorter,  \* replace_only_if_shorter
  InitialCapacity,       \* capacity_min as configured
  SurvivalValues,        \* values the survival score is abstracted to
  EventKinds,            \* what success_check is in a subtask event
  MaxRecords,            \* bound: records in the index
  MaxClock,              \* bound: subtask events
  MaxFailures            \* bound: failed tasks

NoId == 0

ASSUME MemoryConfig ==
  /\ Length \in [Trajectories -> Nat]
  /\ MinTrajectoryLen \in Nat
  /\ TopK \in Nat
  /\ RiskPct \in Nat
  /\ EnableMutation \in BOOLEAN
  /\ ReplaceOnlyIfShorter \in BOOLEAN
  /\ InitialCapacity \in Nat
  /\ SurvivalValues \subseteq Nat
  /\ EventKinds \subseteq {"dict", "bool"}
  /\ MaxRecords \in Nat
  /\ MaxClock \in Nat
  /\ MaxFailures \in Nat

VARIABLES
  index,         \* index.jsonl: the only state that outlives the process
  logicalStep,   \* provider.logical_step
  activeIds,     \* provider.active_memory_ids_for_task
  lastRead,      \* provider.last_read_result
  capacityMin,   \* pruner.config.capacity_min
  phase,         \* where the single thread is
  resume,        \* where it continues after the pruning check
  eventId,       \* selected_memory_id the runner holds for its next event
  pending,       \* memories finalize_task has still to blame
  victims,       \* memories prune() has still to mark
  (* history *)
  clock,         \* subtask events since the index was created
  failedTasks,   \* failed tasks finalized since the index was created
  readers        \* memories read since the current task began

providerVars == <<logicalStep, activeIds, lastRead, capacityMin>>
history == <<clock, failedTasks, readers>>
vars == <<index, providerVars, phase, resume, eventId, pending, victims, history>>

Status == {"ACTIVE", "PRUNED", "REPLACED", "RISKY"}

\* The fields of a DMSMemoryRecord the program decides on; born is history.
Record ==
  [status : Status, traj : Trajectories, created : Nat,
   success : Nat, failure : Nat, strike : Nat,
   replacedBy : Nat, replacementOf : Nat, born : Nat]

NoRead == [id |-> NoId, mutate |-> FALSE]

Ids == DOMAIN index
\* Wrong variant: the filter only leaves out what was replaced or found risky.
ActiveWithPruned == {i \in Ids : index[i].status \in {"ACTIVE", "PRUNED"}}

Active == {i \in Ids : index[i].status = "ACTIVE"}

\* (failure + 1) / (success + failure + 2) reaches the risk threshold.
Risky(r) == 100 * (r.failure + 1) >= RiskPct * (r.success + r.failure + 2)

\* store.mark_status on one record.
Marked(r, status) == [r EXCEPT !.status = status]

Init ==
  /\ index = << >>
  /\ logicalStep = 0
  /\ activeIds = {}
  /\ lastRead = NoRead
  /\ capacityMin = InitialCapacity
  /\ phase = "idle"
  /\ resume = "idle"
  /\ eventId = NoId
  /\ pending = {}
  /\ victims = {}
  /\ clock = 0
  /\ failedTasks = 0
  /\ readers = {}

(***************************************************************************)
(* reset(), at the start of run_task.                                      *)
(***************************************************************************)

\* Wrong variant: the ids read by the previous task are kept.
StartTaskKeepingReads ==
  /\ phase = "idle"
  /\ lastRead' = NoRead
  /\ readers' = {}
  /\ phase' = "ready"
  /\ UNCHANGED <<index, logicalStep, activeIds, capacityMin, resume, eventId,
                 pending, victims, clock, failedTasks>>

StartTask ==
  /\ phase = "idle"
  /\ activeIds' = {}
  /\ lastRead' = NoRead
  /\ readers' = {}
  /\ phase' = "ready"
  /\ UNCHANGED <<index, logicalStep, capacityMin, resume, eventId, pending,
                 victims, clock, failedTasks>>

(***************************************************************************)
(* build_actor_memory().  Retrieval ranks the active memories in any       *)
(* order; the scan of its top results marks the risky ones RISKY until it  *)
(* meets a safe one, which is selected.  No hit (NoId) covers every early  *)
(* return.                                                                 *)
(***************************************************************************)
MutationChoices(id) ==
  IF EnableMutation /\ id # NoId THEN BOOLEAN ELSE {FALSE}

\* Wrong variant: the set of ids is replaced instead of extended.
ReadOnlyLast(ids, id) == IF id = NoId THEN ids ELSE {id}

\* active_memory_ids_for_task with the memory of one more read.
WithRead(ids, id) == IF id = NoId THEN ids ELSE ids \cup {id}

\* Wrong variant: a read without a hit leaves last_read_result alone.
ReadResultOfLastHit(id, mutate) ==
  IF id = NoId THEN lastRead ELSE [id |-> id, mutate |-> mutate]

\* The MemoryReadResult of a read, hit or not.
ReadResult(id, mutate) == [id |-> id, mutate |-> mutate]

BuildActorMemory(risky, id, mutate) ==
  /\ Cardinality(risky) + (IF id = NoId THEN 0 ELSE 1) <= TopK
  /\ index' = [i \in Ids |->
                 IF i \in risky THEN Marked(index[i], "RISKY") ELSE index[i]]
  /\ activeIds' = WithRead(activeIds, id)
  /\ readers' = readers \cup ({id} \ {NoId})
  /\ lastRead' = ReadResult(id, mutate)
  /\ UNCHANGED <<logicalStep, capacityMin, resume, pending, victims,
                 clock, failedTasks>>

ReadForSubtask ==
  /\ phase = "ready"
  /\ \E risky \in SUBSET {i \in Active : Risky(index[i])},
        id \in {i \in Active : ~Risky(index[i])} \cup {NoId} :
       \E mutate \in MutationChoices(id) :
         /\ BuildActorMemory(risky, id, mutate)
         /\ eventId' = id
  /\ phase' = "acting"

\* The screen is still unstable after a refresh: the actor is rerun with a second
\* read, but the event will carry the result of the first.
ReadForRetry ==
  /\ phase = "acting"
  /\ \E risky \in SUBSET {i \in Active : Risky(index[i])},
        id \in {i \in Active : ~Risky(index[i])} \cup {NoId} :
       \E mutate \in MutationChoices(id) :
         BuildActorMemory(risky, id, mutate)
  /\ phase' = "retrying"
  /\ UNCHANGED eventId

(***************************************************************************)
(* record(event) for a subtask.  success_check is the runner's dictionary  *)
(* ("dict") or a plain boolean ("bool", the shape the unit tests use).     *)
(***************************************************************************)
ExtractEventSuccess(kind, ok) ==
  IF kind = "bool" THEN (IF ok THEN "success" ELSE "failure") ELSE "unknown"

\* Wrong variant: a success takes a strike off without the floor at zero.
FeedbackUnfloored(r, outcome) ==
  [r EXCEPT !.strike = IF outcome = "success" THEN @ - 1
                       ELSE IF outcome = "failure" THEN @ + 1 ELSE @]

Feedback(r, outcome) ==
  [r EXCEPT
     !.success = IF outcome = "success" THEN @ + 1 ELSE @,
     !.failure = IF outcome = "failure" THEN @ + 1 ELSE @,
     !.strike  = IF outcome = "success" THEN Max({0, @ - 1})
                 ELSE IF outcome = "failure" THEN @ + 1 ELSE @]

RecordSubtaskEvent(kind, verified) ==
  /\ phase \in {"acting", "retrying"}
  /\ clock < MaxClock
  /\ logicalStep' = logicalStep + 1
  /\ clock' = clock + 1
  /\ index' = IF eventId \in Ids
              THEN [index EXCEPT ![eventId] =
                      Feedback(@, ExtractEventSuccess(kind, verified))]
              ELSE index
  /\ phase' = "check"
  /\ resume' = IF verified THEN "store" ELSE "ready"
  /\ eventId' = NoId
  /\ UNCHANGED <<activeIds, lastRead, capacityMin, pending, victims,
                 failedTasks, readers>>

(***************************************************************************)
(* record_subtask_trajectory(), only after a verified subtask.             *)
(***************************************************************************)
\* Wrong variant: only active memories count as duplicates.
StorableAmongActive(t) ==
  /\ Length[t] >= MinTrajectoryLen
  /\ \A i \in Active : index[i].traj # t

Storable(t) ==
  /\ Length[t] >= MinTrajectoryLen
  /\ \A i \in Ids : index[i].traj # t      \* every status counts as duplicate

NewRecord(t, old) ==
  [status |-> "ACTIVE", traj |-> t, created |-> logicalStep,
   success |-> 1, failure |-> 0, strike |-> 0,
   replacedBy |-> NoId, replacementOf |-> old, born |-> clock]

Replaces(t) ==
  /\ EnableMutation
  /\ lastRead.mutate
  /\ lastRead.id \in Ids
  /\ ReplaceOnlyIfShorter => Length[t] < Length[index[lastRead.id].traj]

Superseded(r, by) == [Marked(r, "REPLACED") EXCEPT !.replacedBy = by]

StoreDone ==
  /\ phase' = "ready"
  /\ UNCHANGED <<providerVars, resume, eventId, pending, victims, history>>

AddMemory(t) ==
  /\ phase = "store"
  /\ Storable(t)
  /\ ~Replaces(t)
  /\ Len(index) < MaxRecords
  /\ index' = Append(index, NewRecord(t, NoId))
  /\ StoreDone

ReplaceMemory(t) ==
  /\ phase = "store"
  /\ Storable(t)
  /\ Replaces(t)
  /\ Len(index) < MaxRecords
  /\ index' = Append([index EXCEPT ![lastRead.id] = Superseded(@, Len(index) + 1)],
                     NewRecord(t, lastRead.id))
  /\ StoreDone

\* Not eligible, too short, or the same trajectory is already on file.
SkipTrajectory ==
  /\ phase = "store"
  /\ UNCHANGED index
  /\ StoreDone

(***************************************************************************)
(* record(task_end) -> finalize_task(): blame every memory read in a       *)
(* failed task, one index rewrite each, then forget the task.              *)
(***************************************************************************)
EndTask(success) ==
  /\ phase = "ready"
  /\ ~success => failedTasks < MaxFailures
  /\ failedTasks' = IF success THEN failedTasks ELSE failedTasks + 1
  /\ pending' = IF success THEN {} ELSE activeIds
  /\ phase' = "blaming"
  /\ UNCHANGED <<index, providerVars, resume, eventId, victims, clock, readers>>

Blamed(r) == [r EXCEPT !.failure = @ + 1, !.strike = @ + 1]

\* Wrong variant: the loop does not advance past the memory it charged.
BlameMemoryAgain(i) ==
  /\ phase = "blaming"
  /\ index' = [index EXCEPT ![i] = Blamed(@)]
  /\ UNCHANGED <<providerVars, phase, resume, eventId, pending, victims, history>>

BlameMemory(i) ==
  /\ phase = "blaming"
  /\ index' = [index EXCEPT ![i] = Blamed(@)]
  /\ pending' = pending \ {i}
  /\ UNCHANGED <<providerVars, phase, resume, eventId, victims, history>>

ForgetTask ==
  /\ phase = "blaming"
  /\ pending = {}
  /\ activeIds' = {}
  /\ lastRead' = NoRead
  /\ phase' = "check"
  /\ resume' = "idle"
  /\ UNCHANGED <<index, logicalStep, capacityMin, eventId, pending, victims,
                 history>>

(***************************************************************************)
(* The pruning check that ends record() and finalize_task().  The survival *)
(* values are recomputed for every active memory before they are used; val *)
(* is whatever the formula gives.                                          *)
(***************************************************************************)
CallReturns ==
  /\ phase' = resume
  /\ resume' = "idle"
  /\ UNCHANGED <<index, providerVars, eventId, pending, victims, history>>

PruneNotDue ==
  /\ phase = "check"
  /\ ~ShouldRun(logicalStep, Cardinality(Active), capacityMin)
  /\ CallReturns

PruneSelect ==
  /\ phase = "check"
  /\ ShouldRun(logicalStep, Cardinality(Active), capacityMin)
  /\ \E val \in [Active -> SurvivalValues] :
       /\ capacityMin' = ExpandedCapacity(Active, val, capacityMin)
       /\ victims' = SelectPrunable(Active, index, val, logicalStep, capacityMin')
  /\ phase' = "pruning"
  /\ UNCHANGED <<index, logicalStep, activeIds, lastRead, resume, eventId,
                 pending, history>>

\* Wrong variant: the loop does not advance past the memory it marked.
PruneMarkAgain(i) ==
  /\ phase = "pruning"
  /\ index' = [index EXCEPT ![i] = Marked(@, "PRUNED")]
  /\ UNCHANGED <<providerVars, phase, resume, eventId, pending, victims, history>>

PruneMark(i) ==
  /\ phase = "pruning"
  /\ index' = [index EXCEPT ![i] = Marked(@, "PRUNED")]
  /\ victims' = victims \ {i}
  /\ UNCHANGED <<providerVars, phase, resume, eventId, pending, history>>

PruneDone ==
  /\ phase = "pruning"
  /\ victims = {}
  /\ CallReturns

(***************************************************************************)
(* The end of a task without task_end, and the end of the process.         *)
(***************************************************************************)

\* An exception of the model or of the environment leaves run_task: no task_end.
AbortTask ==
  /\ phase \in {"ready", "acting", "retrying"}
  /\ phase' = "idle"
  /\ eventId' = NoId
  /\ UNCHANGED <<index, providerVars, resume, pending, victims, history>>

\* A new process opens the same directory: every run of the batch script, and
\* every run after a crash.
RestartProcess ==
  /\ logicalStep' = 0
  /\ activeIds' = {}
  /\ lastRead' = NoRead
  /\ capacityMin' = InitialCapacity
  /\ phase' = "idle"
  /\ resume' = "idle"
  /\ eventId' = NoId
  /\ pending' = {}
  /\ victims' = {}
  /\ readers' = {}
  /\ UNCHANGED <<index, clock, failedTasks>>

\* Steps inside a call of the provider: the thread runs them without waiting.
ProviderStep ==
  \/ \E i \in pending : BlameMemory(i)
  \/ ForgetTask
  \/ PruneNotDue
  \/ PruneSelect
  \/ \E i \in victims : PruneMark(i)
  \/ PruneDone

Next ==
  \/ StartTask
  \/ ReadForSubtask
  \/ ReadForRetry
  \/ \E kind \in EventKinds, verified \in BOOLEAN : RecordSubtaskEvent(kind, verified)
  \/ \E t \in Trajectories : AddMemory(t)
  \/ \E t \in Trajectories : ReplaceMemory(t)
  \/ SkipTrajectory
  \/ \E success \in BOOLEAN : EndTask(success)
  \/ ProviderStep
  \/ AbortTask
  \/ RestartProcess

Spec == Init /\ [][Next]_vars

FairSpec == Spec /\ WF_vars(ProviderStep)

-----------------------------------------------------------------------------
(***************************************************************************)
(* Properties.                                                             *)
(***************************************************************************)

\* Type invariant: every variable of the provider, the index and the history has
\* its type, and the ids the provider holds name records of the index.
TypeOK ==
  /\ index \in Seq(Record)
  /\ logicalStep \in Nat
  /\ activeIds \subseteq Ids
  /\ lastRead \in [id : Ids \cup {NoId}, mutate : BOOLEAN]
  /\ capacityMin \in Nat
  /\ phase \in {"idle", "ready", "acting", "retrying", "check", "store",
                "blaming", "pruning"}
  /\ resume \in {"idle", "ready", "store"}
  /\ eventId \in Ids \cup {NoId}
  /\ pending \subseteq Ids
  /\ victims \subseteq Ids
  /\ clock \in Nat
  /\ failedTasks \in Nat
  /\ readers \subseteq Ids

\* replaced_by and replacement_of (store.replace_memory) always form chains: they
\* are inverse to each other, lead from older to newer records, exist exactly for
\* REPLACED memories, and every link shortens the trajectory when
\* replace_only_if_shorter is set.  This holds although last_read_result is not
\* cleared by the replacement it triggered.
ReplacementChains ==
  \A i \in Ids :
    /\ index[i].status = "REPLACED" <=> index[i].replacedBy # NoId
    /\ index[i].replacedBy # NoId =>
         /\ index[i].replacedBy \in Ids
         /\ index[i].replacedBy > i
         /\ index[index[i].replacedBy].replacementOf = i
    /\ index[i].replacementOf # NoId =>
         /\ index[i].replacementOf \in Ids
         /\ index[i].replacementOf < i
         /\ index[index[i].replacementOf].replacedBy = i
         /\ ReplaceOnlyIfShorter =>
              Length[index[i].traj] < Length[index[index[i].replacementOf].traj]

\* No trajectory is stored twice, whatever became of its first record: not by a
\* retry, not after it was pruned, not in a later process.
NoTwinTrajectories ==
  \A i, j \in Ids : index[i].traj = index[j].traj => i = j

\* The memory whose outcome the actor's run will be credited to is still in
\* service and below the risk threshold until the event is recorded, also when a
\* second read marked others RISKY; and what the last read selected will be blamed
\* if the task fails.
MemoryInUse ==
  /\ phase \in {"acting", "retrying"} /\ eventId # NoId =>
       /\ eventId \in activeIds
       /\ index[eventId].status = "ACTIVE"
       /\ ~Risky(index[eventId])
  /\ lastRead.id # NoId => lastRead.id \in activeIds

\* A memory's failures are accounted for: finalize_task charges it at most once
\* per failed task, even when it was read several times or a crash cut the blaming
\* short, and a subtask event at most once; strikes never exceed failures.
BlameBounded ==
  \A i \in Ids :
    /\ index[i].strike <= index[i].failure
    /\ index[i].failure <=
         failedTasks + (IF "bool" \in EventKinds THEN clock - index[i].born ELSE 0)

\* Only memories read in the current task are charged, one failure at a time: a
\* task that died without task_end leaves no memory behind to be blamed for the
\* next one (reset() in run_task).
BlameReadersOnly ==
  [][\A i \in Ids :
       index'[i].failure # index[i].failure =>
         i \in readers /\ index'[i].failure = index[i].failure + 1]_vars

\* Recent-memory protection in real time: a memory is never pruned before more
\* than protect_recent_steps subtask events were recorded since it was learned,
\* although its age is computed from a logical step that restarts at 0.
YoungSurvivePruning ==
  [][\A i \in Ids :
       ProtectRecent > 0
         /\ index[i].status = "ACTIVE" /\ index'[i].status = "PRUNED" =>
         clock - index[i].born > ProtectRecent]_vars

PassFinished == phase = "pruning" /\ victims = {}

PassNotCut == MaxPrunePerRun = 0 \/ MaxPrunePerRun >= MaxRecords

Aged(i) == ProtectRecent = 0 \/ logicalStep - index[i].created > ProtectRecent

\* After a pruning pass the pool fits the (possibly raised) soft capacity, unless
\* everything left is protected as recent.
CapacityRestored ==
  PassFinished /\ PassNotCut =>
    \/ Cardinality(Active) <= capacityMin
    \/ \A i \in Active : ~Aged(i)

\* After a pruning pass no memory that reached strike_limit is in service, unless
\* it is protected as recent.
StruckOutPruned ==
  PassFinished /\ PassNotCut =>
    \A i \in Active : Aged(i) /\ StrikeLimit > 0 => index[i].strike < StrikeLimit

\* The provider implements the abstract life of the memory pool: every step of a
\* call, and every crash between two steps, is one step of MemoryLifecycle or
\* leaves the pool alone.
Pool == INSTANCE MemoryLifecycle WITH
  pool <- [i \in Ids |-> [status |-> index[i].status,
                          successor |-> index[i].replacedBy]]

LifecycleSpec == Pool!Spec

\* Every call of the provider returns: blaming and pruning loops come to an end.
OperationsReturn ==
  phase \in {"blaming", "check", "pruning"} ~>
    phase \in {"idle", "ready", "store"}

\* record() updates the statistics of the memory that was used: a verified subtask
\* counts as a success of the selected memory (dms.py, class docstring, item 3).
SuccessReachesMemory ==
  [][(/\ phase \in {"acting", "retrying"}
       /\ phase' = "check"
       /\ resume' = "store"
       /\ eventId \in Ids)
     => index'[eventId].success = index[eventId].success + 1]_vars

\* A memory that the strike rule condemns does not outlive a pruning pass once it
\* is no longer recent, counted in subtask events over all runs (reset(): logical
\* time "should span across multiple tasks/runs").
StruckOutDoNotLinger ==
  PassFinished /\ PassNotCut =>
    \A i \in Active :
      clock - index[i].born > ProtectRecent /\ StrikeLimit > 0 =>
        index[i].strike < StrikeLimit
=============================================================================
