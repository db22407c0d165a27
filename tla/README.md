# A TLA+ verification project for the DMS reproduction

The repository implements a GUI agent for Android with a *Darwinian Memory
System* (DMS): a planner proposes subtasks, an actor carries them out on the
device, a verifier judges them, and a memory learns the trajectories that
worked, credits and blames them as they are reused, and prunes what is worth
little. This directory models the parts whose correctness depends on the order
of events: the task runner, the actor with its parsing and stop rules, the
verifier's vetoes, the memory provider with its pruner, the file store under it,
and the assessment and resampling of screens. Twelve TLC runs check them on small
instances; forty-seven theorems, proved with TLAPS, hold for every value of the
constants.

All source paths below are relative to `src/`; `memory/`, `agents/`, `envs/`
stand for the directories of `dms_reproduction/`.

## 1. Inventory

| Component | Code | State it keeps | Operations | Hard behaviour |
|---|---|---|---|---|
| Memory provider | `memory/dms.py` | `logical_step`, `active_memory_ids_for_task`, `last_read_result`, the pruner's `capacity_min` | `reset`, `build_actor_memory`, `record`, `record_subtask_trajectory`, `finalize_task` | process state is lost at every restart while the index survives; calls that write the index several times; a read result used two calls later |
| Pruner | `memory/pruning.py` | `capacity_min` (raised in place) | `should_run`, `prune` | three rules and a budget share one count; ages across restarts |
| Store | `memory/store.py` | `index.jsonl`, `trajectories/*.json`, `event.jsonl`, an `RLock` | `add_memory`, `update_meta`, `mark_status`, `replace_memory`, `append_event` | read-modify-write of whole files, threads, crashes between files |
| Task runner | `agents/task_runner.py` | the loop variables of `run_task` | planner round, subtask, rerun, retry, memory events, return paths | nested retries, evaluator at several points, budgets, exceptions |
| Actor | `agents/android_actor.py` | the steps of one subtask, its screen, the most recent input field | `run_subtask`: direct opening of an app, parsing and correction of an answer, execution, stop rule | partial failure between acting and looking; an answer that means something else on another screen |
| Verifier | `agents/verifier.py` | none | `run_verification`: evidence, the model's opinion, four local vetoes | the vetoes work on another reading of the screen than the actor |
| Observation adapter | `envs/` | none between calls; within one, the attempts and the look to compare with | `capture_observation`, the assessment of one look | resampling of unstable screens |
| Planner | `agents/planner.py` | none | one call per round | free text of a language model |
| Model clients | `llm/` | none | HTTP calls | time-outs |
| Retrieval, embeddings, survival value, formatting | `memory/retrieval.py`, `embedding.py`, `survival_value.py`, `formatting.py` | none | pure functions | real arithmetic |
| Static memory | `memory/static.py` | a read-only list | `build_actor_context` | none |
| Scripts | `scripts/` | one process per task | batch, smoke run | every task is a new process on the same memory directory |
| Environment | `android_world/` | the device | third party | - |

How they interact: `AndroidTaskRunner.run_task` is one thread. It calls
`reset()` once, then for every subtask `build_actor_memory()`, the actor (which
calls the environment and the language model), possibly a second read and a
second actor run, the evaluator or the verifier, `record()` and, after a clean
verified subtask, `record_subtask_trajectory()`; every return path ends with
`record(task_end)`. The provider calls the store for every change, and the
pruner at the end of `record()` and `finalize_task()`. There are no callbacks;
what interleaves with the thread is the end of its process, and, for a store
shared by several threads, its lock.

What makes each part correct:

* provider: replacement records form chains; no trajectory is kept twice; a
  memory is blamed at most once per failed task and only for tasks it was read
  in; the memory an event will be credited to is still in service; every call
  returns;
* pruner: recent memories survive, struck-out ones do not, the excess over the
  soft capacity leaves, least valuable first, within the budget;
* store: each operation is one atomic step of a table, no update is lost, a
  listed memory has its trajectory, the lock is always released;
* runner: `completed` only if the evaluator accepted, nothing is done after it
  did, the newest screen is used, the work is bounded, the loops end;
* actor and verifier: a text, an enter, a navigation, or a press the actor does not
  take for one on a field is repeated unjudged at most once, a run declared complete
  is judged as it is, and a verified subtask left a visible trace, over all reruns
  and retries;
* adapter: an early return is confirmed, an unstable screen is reported as such.

The hazards behind these, each at its line, are listed in `PROJECT.json`.

## 2. Modules

| Module | Models | Uses |
|---|---|---|
| `Pruning` | the selection rules of `DMSPruner`, as operators | - |
| `PruningPass` | one call of `prune()` on any small pool | `Pruning` |
| `DMSMemory` | the provider, its index, the driver that calls it | `Pruning` |
| `MemoryLifecycle` | abstract: what may happen to a memory in its life | - |
| `MemoryProtocol` | abstract: the order of calls of a `MemoryProvider` | - |
| `AndroidActor` | `run_subtask` without its rules: any step may end a run | - |
| `TaskRunner` | `run_task`, with that actor and free judgements | `AndroidActor` |
| `Screen` | an observation: fields, consistency, trust, what is compared | - |
| `ActorAction` | from an answer to an action: parsing, completing, correcting; the stop rule | `Screen` |
| `Verdict` | from evidence and opinion to a verdict: the vetoes | `ActorAction` |
| `SubtaskRun` | one subtask of `run_task` with these rules | `Verdict` |
| `DMSStore` | the store at the level of files, lock and threads | `MemoryIndex` |
| `MemoryIndex` | abstract: an indivisible table of records | - |
| `ObservationAdapter` | `capture_observation` | - |
| `MCDMSMemory` | trajectory lengths for TLC | `DMSMemory` |
| `MCTaskRunner` | two configurations of the runner in one run | `TaskRunner` |
| `MCScreens` | a small device: fourteen screens, six goals | `ActorAction` |
| `MCSubtaskRun`, `MCObservationAdapter` | that device for `SubtaskRun` and `ObservationAdapter` | `MCScreens` |
| `PruningProofs` | lemmas about the rules of `Pruning` | `TLAPS` |
| `PruningPassProofs` | theorems about `PruningPass` | `PruningProofs` |
| `DMSMemoryProofs`, `DMSMemoryPoolProofs` | theorems about `DMSMemory` | `PruningProofs` |
| `TaskRunnerProofs`, `SubtaskRunProofs`, `DMSStoreProofs`, `ObservationAdapterProofs` | theorems about these modules | `TLAPS` |

Definitions under a "wrong variant" comment are not part of a model. Each is a
bug the definition after it could have had; `PROJECT.json` pairs it with the
property that notices it, and every property of every passing run has one.

Four refinements tie the specifications together:

* `DMSStore` implements `MemoryIndex` (`AtomicIndex`): a call that reads the
  whole file, works on its copy and renames a new file into place is one step of
  the table. This is why `DMSMemory` may treat a call of the store as one step.
* `TaskRunner` implements `MemoryProtocol` (`MemoryCallsInOrder`): over all returns,
  reruns, retries and exceptions the memory is called in no other order. That the
  driver inside `DMSMemory`, which feeds the provider, admits each of these orders
  is seen by reading the two modules side by side and is not checked:
  `Reset` is `StartTask`; `Read` and `ReadAgain` are `ReadForSubtask` and
  `ReadForRetry`; `RecordEvent` is `RecordSubtaskEvent`; `RecordTrajectory` is
  `AddMemory`, `ReplaceMemory` or `SkipTrajectory`, and a read or a `task_end`
  without it follows a `SkipTrajectory`, which changes nothing the provider keeps;
  `Abandon` is `AbortTask` or `RestartProcess`.
* `DMSMemory` implements `MemoryLifecycle` (`LifecycleSpec`), the view of the
  pool a reader of the index has.
* `SubtaskRun` implements `TaskRunner` (`ImplementsTaskRunner`), its screens
  reduced to how the runner judges them: the rules of actor, runner and verifier
  only choose among the steps `TaskRunner` allows, so what is proved of
  `TaskRunner` about one subtask holds with the rules too.

### Provider (`DMSMemory`)

`index` is `index.jsonl` in file order; a memory's id is its position, since
records are only appended. A record keeps what the decisions look at: trajectory,
status, the counters, `created_step`, the two replacement links, and `born`, a
history value: the number of subtask events recorded, over all processes, when
it was learned. `logicalStep`, `activeIds`, `lastRead` and `capacityMin` are the
provider's fields. `phase` is the position of the thread: between calls (`idle`,
`ready`, `acting`, `retrying`, `store`) or inside one (`check`, `pruning`,
`blaming`). One action is one write of the index, so a process can die
(`RestartProcess`) between any two writes of a call; the four provider fields are
then lost and the index is not. Two series of writes are one action each, because a
death inside them leaves nothing new. A read marks its RISKY records one by one, and
`BuildActorMemory` marks any subset of the risky ones: a read that dies after some
marks leaves what a read leaves that marked only these, and then died. A pass writes
refreshed survival values to all records before it selects, and the index of the
model holds no such values.

| Action | Code |
|---|---|
| `StartTask` | `reset()` |
| `ReadForSubtask`, `ReadForRetry` (`BuildActorMemory`) | `build_actor_memory()`, first and second read |
| `RecordSubtaskEvent` | `record()` of a subtask event, with `_extract_event_success` and `_update_selected_memory_from_event` |
| `AddMemory`, `ReplaceMemory`, `SkipTrajectory` | `record_subtask_trajectory()` |
| `EndTask`, `BlameMemory`, `ForgetTask` | `record(task_end)` and `finalize_task()` |
| `PruneNotDue`, `PruneSelect`, `PruneMark`, `PruneDone` | `_maybe_prune()` and `prune()` |
| `AbortTask` | an exception leaves `run_task` |
| `RestartProcess` | a new process opens the directory |

Retrieval is a choice: similarity may rank the active memories in any order.
Survival values are chosen afresh for every pass, since the formula depends on
quantities (time, reuse) the model does not keep; only their order, their second
differences and their mean matter to the pruner.

### Runner and actor (`TaskRunner`, `AndroidActor`)

An action is the code between two calls of the outside world. `executed` counts
what the device did, `seen` is its value at the last capture, and an observation
is the pair of the moment it was captured and how the runner will judge it
(`usable`, `unstable`, `bare`). Planner, verifier and evaluator may answer
anything, also differently when asked twice; any call may raise (`Abort`). An
error of `execute_action` or of the capture after it may or may not have changed
the device. `attempt` tells the first run of a subtask from the rerun after a
parse error and the retry on an unstable screen.

### One subtask with its rules (`SubtaskRun`)

A screen is its foreground package, its activity, and the elements: package,
label, hint, the flags the code tests (`tab` and `control` for what it reads from
resource and class names), and `cover`, the first element that covers the point at
which this one is pressed (a coordinate click is resolved to it). A goal is a record of what the
code's word lists extract from its text: kind, target, named phrase, app, and
whether it enters text, toggles or makes progress. An answer of the model is an
action type with the index, which may be missing, null or no number (`odd`), the
point and the words the parser reads; refusals of the parser are the value `Refused`.

| Action | Code |
|---|---|
| `StartSubtask` | the head of the subtask loop of `run_task` |
| `DirectOpen` | `_maybe_plan_direct_open_app_action` and its execution |
| `RefuseAnswer`, `Declare`, `TakeAction` | one step of `run_subtask`: `parse_actor_action` with `_maybe_autofill_input_text_payload` and `_maybe_correct_pointing_payload`, execution, capture, `_should_stop_for_external_verification` |
| `StepLimit` | the loop of `run_subtask` is used up |
| `Rerun` | a parse error on an unstable screen |
| `Settle`, `Refresh`, `Retry`, `SettleRetry` | `_recover_unstable_subtask_observation` |
| `Judge` | `_run_subtask_verification` with the evaluator refusing, and `AndroidVerifier.run_verification`: evidence, vetoes, status |

The device may show any screen after any action, also between two captures, and
the verifier's model may hold any opinion. `weighty` counts, for the properties
only, the executed actions that are not `Light`: all but waits, scrolls, answers and
presses on a field. A press by coordinates counts as one on a field where a field is
the first element that holds the point, as the actor sees it; section 5 says what
this leaves out.

### Store (`DMSStore`)

Threads (`Clients`) share one instance. A call is read under the lock
(`ReadIndex`), refused (`Reject`: duplicate or unknown id) or carried out:
trajectory file, `index.jsonl.tmp`, rename and release of the lock, and, for a
status change, the audit event afterwards. `Crash` may come between any two.

### Adapter (`ObservationAdapter`)

Each look sees any screen. Constants say which screens are inconsistent, which need
a second look to agree, and by which signature two looks are compared: different
screens can agree, since a signature reads fifteen elements and no check marks.
`MCObservationAdapter` takes all three from `Screen`'s assessment of the device's
screens.

## 3. What the runs check

| Run | Distinct states | Shows |
|---|---|---|
| `runner` | 828 k | the provider, fed with the events of the task runner and with the boolean ones of its unit tests, over crashes and restarts: types, chains, no twins, memory in use until the event, bounded blame and only of readers, struck-out memories pruned, young ones not, capacity after a pass, refinement of `MemoryLifecycle`, every call returns |
| `limits` | 349 k | one pruning pass over all pools of four: exactly the excess is taken, budget spent on the lowest, ratio rule takes the low end, expansion bounded |
| `store` | 76 k | two threads, one process death anywhere: refinement of `MemoryIndex`, trajectory before listing, audit log (by its number of events of each kind: what it tells is true, and a process death costs it at most the events about to be appended), lock released |
| `loop` | 857 k | the runner as the scripts configure it, and without verifier and without stopping on acceptance: what `completed` means, nothing after acceptance, budgets of steps, of work and of what the device executes in all, newest capture (by the number of actions executed when it was taken; two captures with no action between them are not told apart), memory calls in order, every task ends |
| `subtask` | 540 k | one subtask over concrete screens: what a verified subtask means, what is done twice, a completed run stands, refinement of `TaskRunner` |
| `capture` | 320 | all sequences of looks: early returns are confirmed, unstable is the last resort, the call returns |
| `feedback`, `restart`, `tail`, `stale`, `disagree`, `toggle` | - | violations, see section 6 |

Bounds and why they are enough.

* `DMSMemory`: three memories make a chain of two replacements, a pool above
  `capacity_min` while one of its memories is protected, and a pass with two
  victims (a crash in between). Three subtask events (`MaxClock`) are as many as
  the pruning interval (3) and two more than protection (1): a periodic pass
  and one forced by capacity both happen, on memories young and old, and a
  failure followed by a success fits. Two failed tasks tell "once per task" from
  "once". Trajectories have lengths 4, 3, 2 and 1, the last being too short to
  store.
* `PruningPass`: four memories, four survival values on both sides of
  `min_survival_value`, with ties, two ages and two strike counts on both sides
  of their limits, three capacities (below, at and above expansion). The elbow
  decides from three free memories on, the ratio below.
  `tail` uses the repository's default limits at a capacity of 8, with nine
  memories.
* `DMSStore`: two threads and four calls make a lost update, a refused call while
  another waits, and a call after a crash; two ids make replace and duplicates.
* `TaskRunner`: two rounds, two subtasks, two steps per run, total budget 3:
  the budget ends in the middle of a round, a run is cut at its limit, and each
  subtask can be run, rerun and retried.
* `SubtaskRun`: nine screens, among them one captured with another package's
  elements, one with only the status bar, and an overlay: each way a screen can be
  unstable or distrusted; over a field of the form lies an icon, which an answer
  presses by coordinates. Six goals, one of each kind the rules tell apart, and
  twenty answers, each refusal and each correction among them. Two
  steps per run: a press and the text after it, and a run cut at its limit.
  `toggle` needs a list and the two states of a switch.
* `ObservationAdapter`: `MaxResample = 4`, the code's default being 2, and eleven
  screens: two inconsistent ones, five that a second look must confirm, four that
  are returned at once. Of the five one shows tabs with none selected, and two differ
  only below the fifteenth element, so that they agree.

Deadlock is checked except in the models that really stop: `DMSStore` when its
bound of calls is used up, `ObservationAdapter` when the call has returned,
`PruningPass` after its one pass, and `SubtaskRun` once the subtask is judged.

Fairness. Each liveness property assumes only that a thread that can take its
next step does so: `WF_vars(ProviderStep)` for the steps inside a call of the
provider, `WF_vars(RunnerStep)` for the runner, one `WF_vars(Step(c))` per thread
of the store, `WF_vars(Next)` for the adapter. The code justifies it: inside a
provider call the thread waits for nothing but the file system; every call of the
runner to the outside returns or raises: model calls have a timeout
(`llm/openai_compatible.py:34`), and calls of the environment are assumed to end. No fairness is assumed of
tasks being started, of any particular answer, of crashes or of exceptions. In
the store weak fairness is enough, although a thread competes for the lock,
because `LockReleased` speaks of the holder, whom nothing disables.

## 4. What is proved

Each theorem is of the form `Spec => []Inv` or `Spec => [][A]_vars` (or a
refinement) and rests only on the named assumptions on the constants:
`ActorConfig`, `RunnerConfig` for the runner; `PruningConfig`, `MemoryConfig`
for the provider; `PruningConfig`, `PassConfig` for one pruning pass; `StoreConfig` for the store; `AdapterConfig` for the adapter;
`SubtaskConfig` for one subtask, over any screens, goals and answers: of a screen it
asks only that each element's `cover` is one of the screen's elements. The bounds of the models (`MaxRecords`, `MaxClock`,
`MaxFailures`) are constants there too, so the proofs hold for any value of them.

**Task runner** (`TaskRunnerProofs`). The type invariant needs `SubtaskAtHand`
(inside a subtask the plan is not used up), or `left` could become negative. On
top of `Typed`, each property has its own inductive strengthening:

| Theorem | Property | Inductive invariant and why |
|---|---|---|
| `RunnerTypeCorrect` | `RunnerTypeOK` | `Typed` |
| `StepBudgetHolds` | `StepBudget` | `BudgetKept`: while the actor runs, `total` is still the value `StartSubtask` tested |
| `CompletedIsAccepted`, `AcceptanceEndsActing` | `CompletedMeansAccepted`, `NoActionAfterAcceptance` | `VerdictRespected`: an acceptance not yet acted on is the judgement at hand, so the actor is never started with one pending |
| `NewestCaptureGiven`, `UnusableScreenEndsRound` | `NewestCaptureUsed`, `NextSubtaskOnUsableScreen` | `ObservationTracked`: where the newest capture is kept at each position, and that `persisted` records an unusable one |
| `MemoryCallsKeepOrder` | `MemoryCallsInOrder` | `CalledAsDue`: the memory's last call at each position; every step maps to a `MemoryProtocol` step or a stutter |
| `WorkStaysBounded` | `WorkIsBounded` | `WorkCovered`: actions not yet covered by counted steps belong to the discarded runs of the subtask at hand; the bound is nonlinear in `MaxSteps` and rests on `TwoRunsPerStep` |
| `DeviceStaysBounded` | `DeviceIsBounded` | `WorkCovered` with `BudgetKept`: the one bounds the device by the counted steps, the other the counted steps by the budget; carried through every step, since during a run neither is at its final value |
| `OnlyLostCapturesMislead` | `PlansOnCurrentScreen`, under `CapturingSpec` | `AllSeen`: without a lost capture `seen = executed` at every position |
| `EveryStepDescends` | - | each `RunnerStep` goes down in a lexicographic order of six numbers (`Ahead`), from rounds left and the stage of the round down to the steps of the run; the order is proved well-founded |

**Provider.** All start from `TypeCorrect`.

| Theorem | Property | Inductive invariant and why |
|---|---|---|
| `TypeCorrect` | `TypeOK` | itself; `StrikeOff` shows that the floor keeps strikes natural |
| `NoTwins` | `NoTwinTrajectories` | itself, by `IndexStep`: a step keeps every record's trajectory and adds at most one, storable, record |
| `YoungSurvive` | `YoungSurvivePruning` | `AgesHonest`: the pruner's age never exceeds the events since birth (a restart makes memories look younger, never older), and every memory selected was old enough when selected |
| `ChainsHold` | `ReplacementChains` | `InService`: what the last read selected was active then and can only have been pruned since; a replacement without another read is impossible, although `last_read_result` is not cleared by it |
| `LifecycleImplemented` | `LifecycleSpec` | `InService` again: initial states map to initial states, every action to a step or a stutter (`LearnSimulated`, `RetireSimulated`) |
| `BlameIsBounded` | `BlameBounded` | `BlameOpen`: a memory still pending in `finalize_task` has one failure in hand, and nothing is pending elsewhere |
| `InUseUntilRecorded`, `ReadersAloneBlamed` | `MemoryInUse`, `BlameReadersOnly` | `ReadersKnown`: the memory in use, the task's set and what is to be blamed were all read in this task |
| `StruckOutLeave`, `CapacityIsRestored` | `StruckOutPruned`, `CapacityRestored` | `Settled`: from its selection on, a pass has the pool without its victims in the state it is to leave; marking a victim takes it out of both. The selection itself is `UncutPass`, below |
| `CallsAreShort` | - | `TypeOK`: `StepsLeft`, at most 2n + 3 on n records, goes down with every step of a call |
| `DictionariesNeverCredit`, `BooleansReachMemory` | `OnlyTasksCount`; `SuccessReachesMemory` | themselves, each for one kind of event only: with dictionaries the counters follow the failed tasks alone, with booleans each success is counted |
| `OnlyRestartsLinger` | `StruckOutDoNotLinger`, under `UnbrokenSpec` | `AgesExact`: while the logical step is never set back, the pruner's age of a memory is the number of events since its birth |

**Pruning** (`PruningProofs`, `PruningPassProofs`). The code sorts and slices lists;
`Pruning` counts ranks. `RankIsBijection` shows once, for any strict total order on a
finite set, that ranks are the positions 0 .. n-1, each taken once: they are
distinct, and an injection into a set of the same size is onto, so no induction is
needed. `SliceSize` follows: a slice of a sorted list has as many memories as
places. `ElbowInRange` shows that the elbow is one of the list's positions (its
`CHOOSE` has a witness: the list of curvatures, sorted, has a first element). From
these, `CapacitySize` (elbow or ratio, the capacity rule takes what it is asked for),
`CutSize` and `CutLowest` (the budget), and `UncutPass` (what a pass leaves).

| Theorem | Property | Argument |
|---|---|---|
| `ExcessIsExact` | `ExactlyTheExcess` | `CapacitySize`: elbow and ratio decide which memories leave, never how many |
| `BudgetTakesLowest` | `BudgetSpentOnLowest` | `CutSize`, `CutLowest` |
| `RatioTakesLowEnd` | `RatioTakesLowest` | `RatioLowest`; the elbow has no such lemma, see `tail` |
| `OnlyLongTailsMisorder` | `LowestValueFirst`, but for `TailOverlong` | `ElbowLowest`: a tail that fits the excess is filled up to it with the lowest of the rest, so together they are the low end; `ExcessTaken` shares the counting with the ratio rule |
| `ExpansionStaysBounded` | `ExpansionIsBounded` | the minimum with `capacity_max` |

**Store** (`DMSStoreProofs`), for any finite number of threads, any ids, any
number of calls.

| Theorem | Property | Inductive invariant and why |
|---|---|---|
| `StoreTypeCorrect` | `StoreTypeOK` | itself |
| `ListedHasTrajectory`, `StoreIsAtomic` | `IndexedHasTrajectory`, `AtomicIndex` | `Sound`, the discipline of the lock: at most one thread is inside a call, its copy is the index it read plus its own change, and a trajectory precedes its entry. Only a thread's rename changes the table, and by what its call promises |
| `AuditAgrees` | `AuditMatchesIndex` | `Audit`: of each event, those logged and those a thread still owes (between rename and event) are at most the changes made, and exactly as many while no process has died |
| `AuditLossBounded` | `AuditLossIsBounded` | `LossBounded`: the changes made are those logged, those owed by a thread, and at most one more per thread of each process that died |
| `LockHeldBriefly` | - | `HeldInside`: the lock is held exactly by the thread inside the block, and each step of that thread brings it nearer to the release (`WritesLeft`, at most three) |

**Adapter** (`ObservationAdapterProofs`).

| Theorem | Property | Inductive invariant and why |
|---|---|---|
| `EarlyReturnConfirmed`, `UnstableComesLast` | `EarlyReturnIsConfirmed`, `UnstableIsLastResort` | `Held`: which look is held for comparison at each attempt |
| `DowngradeNeverReached` | - | from `Held` too: the branch in which two stable looks disagree is dead code (the proved side of `disagree`) |
| `OnlyTheLastLookHides` | `DisagreementIsReported`, until the attempts are used up | `Held` again |
| `LooksAreCounted` | - | each step takes one look, and the call ends with the one after the last attempt |

**One subtask** (`SubtaskRunProofs`). One inductive invariant, `SubtaskInv`,
carries five of the six theorems (`SubtaskTypeCorrect`, `NothingRepeatedTwice`,
`CompletionIsKept`, `SuccessMeansMoved`, `SubtaskRefinesRunner`): the types; the
screen the subtask began on is still the runner's own until the verdict
(`BeforeIsHeld`); a run that was declared complete ended on a screen the runner
trusts (`CompletedIsSound`, by `DistrustedIsDegraded`: what the runner distrusts
the actor refuses to complete on, two rules in two files); and what the current
run may still do (`WeightyBound`, by `WeightyStops`: every action that is not
`Light` ends its run). The sixth, `OnlyTheDescriptionRefuses`, is about what one `Judge`
may do and is its own invariant.

`AcceptanceEndsActing` is about `NoActionAfterAcceptance`, which TLC checks as
`ScriptsStopOnAcceptance`, restricted to the configuration it is about.

Every finding has a theorem that states its only cause, for all configurations:
what the refuted sentence comes to once the cause is taken away.

| Finding | The refuted sentence holds | Theorem |
|---|---|---|
| `feedback` | when events carry a boolean and no dictionary | `BooleansReachMemory`; `DictionariesNeverCredit` says what is left otherwise |
| `restart` | as long as the logical step is not set back | `OnlyRestartsLinger` |
| `tail` | when the tail past the elbow fits the excess, and without the elbow | `OnlyLongTailsMisorder` |
| `stale` | where no capture after an action is lost | `OnlyLostCapturesMislead` |
| `disagree` | until the attempts are used up | `OnlyTheLastLookHides` |
| `toggle` | when the descriptions differ, or the goal asks for no progress | `OnlyTheDescriptionRefuses` |

Only model-checked: the four liveness properties (`TaskEnds`, `OperationsReturn`,
`LockReleased`, `CaptureReturns`), which need fairness and `ENABLED`, beyond the
provers. What of them is safety is proved, for all constants: each step of a
runner, a call, a lock's holder or a capture brings it nearer to its end
(`EveryStepDescends`, `CallsAreShort`, `LockHeldBriefly`, `LooksAreCounted`), so no
loop of the code can go round without using something up. That such a step is
always possible, and then taken, is what TLC adds.

## 5. What is not modelled

* Prompts, and texts as such. Labels and words are atoms of `Screen`; what the
  code's word lists find in a goal or in the reasons given for a step is part of the
  goal's record or free. Formatting of context and of summaries is left out.
* The planner (`planner.py`). Its checks of a plan compare the wording of
  subtasks with the wording of the goal, each a guard on free text that falls back
  to asking again; the stage plan it also builds is not read by `run_task`.
  `TaskRunner` allows every plan, so its properties do not depend on these checks,
  and a property of theirs would only repeat a guard.
* Real arithmetic: similarity, survival values. Any order is allowed.
* Metrics, histories and replan reasons of `run_task`, and the contact-form and
  stage-plan helpers of `task_runner.py`, which `run_task` does not call.
* The scripts, except that each task of a batch is a new process on the same
  memory directory. They run one after the other and keep no state between runs;
  what they compute afterwards (`aggregate_batch_results`) is arithmetic on reports.
* Torn writes and power loss: `os.replace` is taken as atomic and a completed
  write as durable.
* Several processes on one directory at the same time: the batch script runs
  them one after the other, and the lock does not reach across processes.
* Third-party code: `.vendor/` and `android_world/` are copies of libraries and of
  the benchmark, and make up most of the repository's lines; the environment appears as
  the nondeterministic device. The repository's own program is `dms_reproduction/`
  and `scripts/`, about an eighth of all lines, and what is modelled of it is listed
  component by component in `PROJECT.json`.

These behaviours are noted, not claimed as defects, because no text of the
repository says otherwise:

* the event of a retried run carries the first read, so feedback goes to a memory
  the retried run was not given (`agents/task_runner.py:487` and `:979`);
* the trajectory stored for a subtask lacks the actions of its discarded runs
  (`agents/task_runner.py:973`);
* the verifier's prompt lets a goal that was already satisfied pass, and the
  no-progress veto then refuses it, so such a subtask is never verified;
* every element of the environment carries a boolean `is_checked`, so
  `_is_control_like_target` holds of every element, and toggle states are compared
  over all of them, by a key that several elements can share;
* with the keyboard open, the warning about it makes the actor refuse "complete";
* a coordinate click is resolved to the first element that covers it, which need
  not be the innermost one (`agents/android_actor.py:1800`). An icon within a text
  field's box, pressed by coordinates, is therefore taken for the field: the press
  does not end the run, and may be repeated up to `max_steps` before anybody judges
  it. `RepeatedAtMostOnce` exempts exactly these presses; `DeviceIsBounded`, which
  counts every action, bounds them.

## 6. Disagreements found

Each is a run that TLC refutes, against a sentence of the repository.

* `feedback`: the runner's `success_check` is a dictionary, and
  `_extract_event_success` takes a dictionary for "unknown", so no subtask event
  of the runner ever changes the statistics of the memory it used. For the same
  reason strikes come only from failed tasks, and none is ever taken back.
* `restart`: `logical_step` restarts at 0 while `created_step` does not, so
  memories of earlier processes have negative ages, count as recent, and
  struck-out ones stay in service. (They err on the side of keeping:
  `YoungSurvivePruning` holds.)
* `tail`: when the tail below the elbow is longer than the excess, the pass takes
  its most valuable end.
* `stale`: a capture that raises after its action was executed leaves the runner
  with the screen from before, and the planner plans on it.
* `toggle`: the veto against claimed progress compares the screens' descriptions,
  which do not contain check marks, so a switch that was flipped and changed
  nothing else is refused when the goal says "turn on", although a test promises
  that a changed check mark is kept.
* `disagree`: the look to compare with is overwritten before the comparison, so
  two different stable looks in a row are returned as stable.

## 7. Plan

Done, in this order: `Pruning` and `DMSMemory` (the core), `DMSStore` with
`MemoryIndex`, `AndroidActor` and `TaskRunner`, `ObservationAdapter`, the proofs
about provider and runner; then `Screen`, `ActorAction`, `Verdict` and
`SubtaskRun`, which give actor and verifier their rules, and the proofs about
store, adapter, subtask and pruning; then the two bounds on a whole task and on the
audit log, the only cause of each finding, and the safety half of each liveness
property. Next:

1. Batches longer than one process life: the aggregation of reports composed with
   the store's crashes.
2. Survival value in scaled integers against its monotonicity claims; retrieval's
   thresholds and top-k as a filter in `DMSMemory`.
3. `SubtaskRun` inside the rounds of `TaskRunner`, with its trajectory handed to the
   provider, for the two noted behaviours of retried runs.
