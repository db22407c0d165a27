------------------------------ MODULE DMSStore ------------------------------
(***************************************************************************)
(* JsonDMSMemoryStore (memory/store.py) at the level of its files.  Every  *)
(* operation that changes the index reads the whole file, changes the      *)
(* records in memory, writes them to index.jsonl.tmp and renames that over *)
(* index.jsonl, all under the instance's lock; new memories have their     *)
(* trajectory file written first, and status changes append an audit event *)
(* after the lock was released.  The process may die between any two of    *)
(* these writes; the files stay as they are.                               *)
(*                                                                         *)
(* External assumptions: os.replace is atomic, and a process that dies     *)
(* does not lose what it already wrote (no power loss).                    *)
(*                                                                         *)
(* The definitions below a "wrong variant" comment are not part of the     *)
(* model: each is a bug the next definition could have had, kept to show   *)
(* that a property notices it.                                             *)
(***************************************************************************)
EXTENDS Naturals, Sequences, FiniteSets

CONSTANTS
  Ids,         \* memory ids
  Clients,     \* threads that share one store instance
  Marks,       \* statuses mark_status is called with
  Nobody,      \* no thread: the lock is free
  MaxCalls,    \* bound: calls over all processes
  MaxCrashes   \* bound: process deaths

ASSUME StoreConfig ==
  /\ Marks \subseteq {"ACTIVE", "PRUNED", "REPLACED", "RISKY"}
  /\ IsFiniteSet(Clients)
  /\ Nobody \notin Clients
  /\ MaxCalls \in Nat
  /\ MaxCrashes \in Nat

Status == {"ACTIVE", "PRUNED", "REPLACED", "RISKY"}

VARIABLES
  rows,       \* index.jsonl
  tmp,        \* index.jsonl.tmp: {} or {its content}
  trajs,      \* ids with a trajectory file
  log,        \* audit events in event.jsonl
  lock,       \* holder of the instance lock
  pc,         \* where each thread is
  op,         \* the call each thread is executing
  snap,       \* the records each thread has read
  (* history *)
  changes,    \* status changes made to index.jsonl
  calls,      \* calls made so far
  crashes     \* process deaths so far

files == <<rows, tmp, trajs, log>>
threads == <<lock, pc, op, snap>>
vars == <<files, threads, changes, calls, crashes>>

Index == INSTANCE MemoryIndex

Ops ==
       [kind : {"add", "update"}, id : Ids]
  \cup [kind : {"mark"}, id : Ids, status : Marks]
  \cup [kind : {"replace"}, id : Ids, new : Ids]

Idle == [kind |-> "none"]
Empty == [i \in {} |-> Index!Fresh]

Init ==
  /\ rows = Empty
  /\ tmp = {}
  /\ trajs = {}
  /\ log = << >>
  /\ lock = Nobody
  /\ pc = [c \in Clients |-> "idle"]
  /\ op = [c \in Clients |-> Idle]
  /\ snap = [c \in Clients |-> Empty]
  /\ changes = << >>
  /\ calls = 0
  /\ crashes = 0

\* The record a call creates.
Created(o) == CASE o.kind = "add" -> {o.id}
                [] o.kind = "replace" -> {o.new}
                [] OTHER -> {}

\* The record a call needs to find.
Needed(o) == IF o.kind = "add" THEN {} ELSE {o.id}

\* The audit event of a call.
Event(o) == IF o.kind = "replace" THEN <<o.id, "REPLACED">> ELSE <<o.id, o.status>>

Audited(o) == o.kind \in {"mark", "replace"}

\* The records after the call's change.
Apply(o, table) ==
  CASE o.kind = "add"     -> Index!With(table, o.id, Index!Fresh)
    [] o.kind = "update"  -> [table EXCEPT ![o.id].updates = @ + 1]
    [] o.kind = "mark"    -> [table EXCEPT ![o.id].status = o.status]
    [] o.kind = "replace" ->
         Index!With([table EXCEPT ![o.id].status = "REPLACED",
                                  ![o.id].successor = {o.new}],
                    o.new, Index!Fresh)

Call(c, o) ==
  /\ pc[c] = "idle"
  /\ calls < MaxCalls
  /\ calls' = calls + 1
  /\ pc' = [pc EXCEPT ![c] = "called"]
  /\ op' = [op EXCEPT ![c] = o]
  /\ UNCHANGED <<files, lock, snap, changes, crashes>>

\* Wrong variant: the index is read before the lock is taken.
ReadIndexUnlocked(c) ==
  /\ pc[c] = "called"
  /\ lock' = c
  /\ snap' = [snap EXCEPT ![c] = rows]
  /\ pc' = [pc EXCEPT ![c] = "read"]
  /\ UNCHANGED <<files, op, changes, calls, crashes>>

\* with self._lock: records = self._read_index_records()
ReadIndex(c) ==
  /\ pc[c] = "called"
  /\ lock = Nobody
  /\ lock' = c
  /\ snap' = [snap EXCEPT ![c] = rows]
  /\ pc' = [pc EXCEPT ![c] = "read"]
  /\ UNCHANGED <<files, op, changes, calls, crashes>>

Refused(c) ==
  \/ Created(op[c]) \cap DOMAIN snap[c] # {}
  \/ ~(Needed(op[c]) \subseteq DOMAIN snap[c])

\* Wrong variant: the exception leaves the lock held.
RejectHoldingLock(c) ==
  /\ pc[c] = "read"
  /\ Refused(c)
  /\ pc' = [pc EXCEPT ![c] = "idle"]
  /\ op' = [op EXCEPT ![c] = Idle]
  /\ snap' = [snap EXCEPT ![c] = Empty]
  /\ UNCHANGED <<files, lock, changes, calls, crashes>>

\* The duplicate-id ValueError and the not-found KeyError.
Reject(c) ==
  /\ pc[c] = "read"
  /\ Refused(c)
  /\ lock' = Nobody
  /\ pc' = [pc EXCEPT ![c] = "idle"]
  /\ op' = [op EXCEPT ![c] = Idle]
  /\ snap' = [snap EXCEPT ![c] = Empty]
  /\ UNCHANGED <<files, changes, calls, crashes>>

\* Wrong variant: replace_memory leaves the trajectory to a later save.
WriteTrajectoryOfAdd(c) ==
  /\ pc[c] = "read"
  /\ ~Refused(c)
  /\ trajs' = IF op[c].kind = "add" THEN trajs \cup {op[c].id} ELSE trajs
  /\ pc' = [pc EXCEPT ![c] = "prepared"]
  /\ UNCHANGED <<rows, tmp, log, lock, op, snap, changes, calls, crashes>>

\* Checks passed: _write_trajectory for a new memory (a file of its own, written
\* beside it and renamed).
WriteTrajectory(c) ==
  /\ pc[c] = "read"
  /\ ~Refused(c)
  /\ trajs' = trajs \cup Created(op[c])
  /\ pc' = [pc EXCEPT ![c] = "prepared"]
  /\ UNCHANGED <<rows, tmp, log, lock, op, snap, changes, calls, crashes>>

\* Wrong variant: index.jsonl.tmp is opened for appending.
WriteTmpAppending(c) ==
  /\ pc[c] = "prepared"
  /\ tmp' = tmp \cup {Apply(op[c], snap[c])}
  /\ pc' = [pc EXCEPT ![c] = "written"]
  /\ UNCHANGED <<rows, trajs, log, lock, op, snap, changes, calls, crashes>>

WriteTmp(c) ==
  /\ pc[c] = "prepared"
  /\ tmp' = {Apply(op[c], snap[c])}
  /\ pc' = [pc EXCEPT ![c] = "written"]
  /\ UNCHANGED <<rows, trajs, log, lock, op, snap, changes, calls, crashes>>

\* os.replace(tmp_path, path); the lock is released as the with block ends.
Rename(c) ==
  /\ pc[c] = "written"
  /\ rows' \in tmp
  /\ tmp' = {}
  /\ lock' = Nobody
  /\ snap' = [snap EXCEPT ![c] = Empty]
  /\ IF Audited(op[c])
     THEN /\ changes' = Append(changes, Event(op[c]))
          /\ pc' = [pc EXCEPT ![c] = "renamed"]
          /\ UNCHANGED op
     ELSE /\ pc' = [pc EXCEPT ![c] = "idle"]
          /\ op' = [op EXCEPT ![c] = Idle]
          /\ UNCHANGED changes
  /\ UNCHANGED <<trajs, log, calls, crashes>>

\* Wrong variant: two threads' events are merged when they are alike.
AppendEventOnce(c) ==
  /\ pc[c] = "renamed"
  /\ lock = Nobody
  /\ log' = IF Event(op[c]) \in {log[k] : k \in DOMAIN log}
            THEN log ELSE Append(log, Event(op[c]))
  /\ pc' = [pc EXCEPT ![c] = "idle"]
  /\ op' = [op EXCEPT ![c] = Idle]
  /\ UNCHANGED <<rows, tmp, trajs, lock, snap, changes, calls, crashes>>

\* append_event, under the lock again.
AppendEvent(c) ==
  /\ pc[c] = "renamed"
  /\ lock = Nobody
  /\ log' = Append(log, Event(op[c]))
  /\ pc' = [pc EXCEPT ![c] = "idle"]
  /\ op' = [op EXCEPT ![c] = Idle]
  /\ UNCHANGED <<rows, tmp, trajs, lock, snap, changes, calls, crashes>>

\* Wrong variant: the new process opens event.jsonl for writing, not appending.
CrashTruncatingLog ==
  /\ crashes < MaxCrashes
  /\ crashes' = crashes + 1
  /\ log' = << >>
  /\ lock' = Nobody
  /\ pc' = [c \in Clients |-> "idle"]
  /\ op' = [c \in Clients |-> Idle]
  /\ snap' = [c \in Clients |-> Empty]
  /\ UNCHANGED <<rows, tmp, trajs, changes, calls>>

\* The process dies with all its threads; a new one opens the directory.  A stale
\* index.jsonl.tmp is left behind and overwritten by the next write.
Crash ==
  /\ crashes < MaxCrashes
  /\ crashes' = crashes + 1
  /\ lock' = Nobody
  /\ pc' = [c \in Clients |-> "idle"]
  /\ op' = [c \in Clients |-> Idle]
  /\ snap' = [c \in Clients |-> Empty]
  /\ UNCHANGED <<files, changes, calls>>

Step(c) ==
  \/ ReadIndex(c)
  \/ Reject(c)
  \/ WriteTrajectory(c)
  \/ WriteTmp(c)
  \/ Rename(c)
  \/ AppendEvent(c)

Next ==
  \/ \E c \in Clients : \E o \in Ops : Call(c, o)
  \/ \E c \in Clients : Step(c)
  \/ Crash

Spec == Init /\ [][Next]_vars

FairSpec == Spec /\ \A c \in Clients : WF_vars(Step(c))

-----------------------------------------------------------------------------
\* Type invariant of the store.
StoreTypeOK ==
  /\ DOMAIN rows \subseteq Ids
  /\ \A i \in DOMAIN rows : rows[i] \in Index!Row
  /\ Cardinality(tmp) <= 1
  /\ trajs \subseteq Ids
  /\ lock \in Clients \cup {Nobody}
  /\ pc \in [Clients -> {"idle", "called", "read", "prepared", "written", "renamed"}]

\* Whatever the threads' interleaving and wherever the process died, a memory that
\* is in the index has its trajectory file (add_memory and replace_memory write it
\* first), so load_trajectory never returns an empty plan for a listed memory.
IndexedHasTrajectory == DOMAIN rows \subseteq trajs

\* No update is lost and none is half done: index.jsonl changes exactly as the
\* indivisible table of MemoryIndex does, one whole operation applied to the
\* records of that moment, although each thread works on records it read earlier.
AtomicIndex == Index!Spec

\* As long as no process died, the audit log tells each status change once, and
\* only changes that are already on file, whatever the threads' order.
Count(seq, e) == Cardinality({k \in DOMAIN seq : seq[k] = e})

AuditMatchesIndex ==
  \A e \in Ids \X Status :
    /\ Count(log, e) <= Count(changes, e)
    /\ crashes = 0 =>
         Count(changes, e) =
           Count(log, e) + Cardinality({c \in Clients : pc[c] = "renamed"
                                                        /\ Event(op[c]) = e})

\* A process death costs the audit log no more than the event each of its threads
\* was about to append (mark_status and replace_memory log after the rename): what
\* earlier calls or earlier processes logged stays on file.
AuditLossIsBounded ==
  Len(changes) <= Len(log) + Cardinality({c \in Clients : pc[c] = "renamed"})
                    + crashes * Cardinality(Clients)

\* The lock is never held for ever: not by a call that raised, not by a call whose
\* process died.
LockReleased == \A c \in Clients : lock = c ~> lock # c
=============================================================================
