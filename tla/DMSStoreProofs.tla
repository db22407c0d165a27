--------------------------- MODULE DMSStoreProofs ---------------------------
(***************************************************************************)
(* What holds of the store for any set of ids, any number of threads,      *)
(* calls and process deaths, proved from StoreConfig: its files keep their *)
(* types, a listed memory has its trajectory, the index changes as the     *)
(* indivisible table of MemoryIndex does, the audit log agrees with it but *)
(* for a bounded loss at each death, and the lock is held for three steps  *)
(* at most.  All rest on the discipline of the lock: between reading the   *)
(* index and renaming the new one over it, a thread holds the lock, and so *)
(* what it has read is what is on file.                                    *)
(***************************************************************************)
EXTENDS DMSStore, FiniteSetTheorems, TLAPS

IsTable(t) == DOMAIN t \subseteq Ids /\ \A i \in DOMAIN t : t[i] \in Index!Row

Positions == {"idle", "called", "read", "prepared", "written", "renamed"}

Typed ==
  /\ IsTable(rows)
  /\ \A t \in tmp : IsTable(t)
  /\ tmp = {} \/ \E t : tmp = {t}
  /\ trajs \subseteq Ids
  /\ lock \in Clients \cup {Nobody}
  /\ pc \in [Clients -> Positions]
  /\ op \in [Clients -> Ops \cup {Idle}]
  /\ DOMAIN snap = Clients

\* Where a thread is inside the locked block.
Inside(c) == pc[c] \in {"read", "prepared", "written"}

Checked(c) == pc[c] \in {"prepared", "written"}

\* The discipline of the lock.
Discipline ==
  \A c \in Clients :
    /\ pc[c] # "idle" => op[c] \in Ops
    /\ Inside(c) => lock = c /\ snap[c] = rows
    /\ Checked(c) => ~Refused(c) /\ Created(op[c]) \subseteq trajs
    /\ pc[c] = "written" => tmp = {Apply(op[c], rows)}
    /\ pc[c] = "renamed" => Audited(op[c])

Sound == Typed /\ Discipline /\ IndexedHasTrajectory

-----------------------------------------------------------------------------
(***************************************************************************)
(* What a call does to a table.                                            *)
(***************************************************************************)
LEMMA StatusesKnown == Marks \subseteq Status /\ {"ACTIVE", "REPLACED"} \subseteq Status
  BY StoreConfig DEF Status

LEMMA RecordTyped ==
  /\ Index!Fresh \in Index!Row
  /\ \A r \in Index!Row :
       /\ [r EXCEPT !.updates = @ + 1] \in Index!Row
       /\ \A s \in Status : [r EXCEPT !.status = s] \in Index!Row
       /\ \A i \in Ids :
            [r EXCEPT !.status = "REPLACED", !.successor = {i}] \in Index!Row
<1>1. Index!Fresh \in Index!Row
  BY StatusesKnown DEF Index!Fresh, Index!Row
<1>2. ASSUME NEW r \in Index!Row
      PROVE  /\ [r EXCEPT !.updates = @ + 1] \in Index!Row
             /\ \A s \in Status : [r EXCEPT !.status = s] \in Index!Row
  BY <1>2 DEF Index!Row
<1>3. ASSUME NEW r \in Index!Row, NEW i \in Ids
      PROVE  [r EXCEPT !.status = "REPLACED", !.successor = {i}] \in Index!Row
  <2>1. {i} \in SUBSET Ids /\ "REPLACED" \in Status  BY StatusesKnown
  <2>2. QED  BY <1>3, <2>1 DEF Index!Row
<1>4. QED  BY <1>1, <1>2, <1>3

\* A call that is not refused keeps the table's type and adds what it creates.
LEMMA ApplyTyped ==
  ASSUME NEW o \in Ops, NEW t, IsTable(t), Needed(o) \subseteq DOMAIN t
  PROVE  IsTable(Apply(o, t)) /\ DOMAIN Apply(o, t) = DOMAIN t \cup Created(o)
<1> USE RecordTyped DEF IsTable, Apply, Needed, Created
<1>1. CASE o.kind = "add"
  <2>1. o.id \in Ids  BY <1>1 DEF Ops
  <2>2. QED  BY <1>1, <2>1 DEF Index!With
<1>2. CASE o.kind = "update"
  <2>1. o.id \in DOMAIN t  BY <1>2
  <2>2. Apply(o, t) = [t EXCEPT ![o.id] = [t[o.id] EXCEPT !.updates = @ + 1]]
    BY <1>2
  <2>3. QED  BY <1>2, <2>1, <2>2
<1>3. CASE o.kind = "mark"
  <2>1. o.id \in DOMAIN t /\ o.status \in Status  BY <1>3, StatusesKnown DEF Ops
  <2>2. Apply(o, t) = [t EXCEPT ![o.id] = [t[o.id] EXCEPT !.status = o.status]]
    BY <1>3
  <2>3. QED  BY <1>3, <2>1, <2>2
<1>4. CASE o.kind = "replace"
  <2>1. o.id \in DOMAIN t /\ o.new \in Ids  BY <1>4 DEF Ops
  <2> DEFINE r == [t[o.id] EXCEPT !.status = "REPLACED", !.successor = {o.new}]
             u == [t EXCEPT ![o.id].status = "REPLACED", ![o.id].successor = {o.new}]
  <2>2. t[o.id] \in Index!Row  BY <2>1
  <2>3. r \in Index!Row  BY <2>1, <2>2
  <2>4. u = [t EXCEPT ![o.id] = r]
    BY <2>1, <2>2 DEF Index!Row
  <2>5. DOMAIN u = DOMAIN t /\ \A i \in DOMAIN u : u[i] \in Index!Row
    BY <2>1, <2>3, <2>4
  <2>6. Apply(o, t) = Index!With(u, o.new, Index!Fresh)  BY <1>4
  <2> HIDE DEF u
  <2>7. QED  BY <1>4, <2>1, <2>5, <2>6 DEF Index!With
<1>5. QED  BY <1>1, <1>2, <1>3, <1>4 DEF Ops

\* A call's change is one step of the abstract table.
LEMMA ApplyIsStep ==
  ASSUME NEW o \in Ops, Created(o) \cap DOMAIN rows = {},
         Needed(o) \subseteq DOMAIN rows, rows' = Apply(o, rows)
  PROVE  Index!Next
<1> USE DEF Apply, Needed, Created
<1>1. CASE o.kind = "add"
  <2>1. o.id \in Ids  BY <1>1 DEF Ops
  <2>2. Index!Add(o.id)  BY <1>1 DEF Index!Add
  <2>3. QED  BY <2>1, <2>2 DEF Index!Next
<1>2. CASE o.kind = "update"
  <2>1. o.id \in Ids  BY <1>2 DEF Ops
  <2>2. Index!UpdateMeta(o.id)  BY <1>2 DEF Index!UpdateMeta
  <2>3. QED  BY <2>1, <2>2 DEF Index!Next
<1>3. CASE o.kind = "mark"
  <2>1. o.id \in Ids /\ o.status \in Status  BY <1>3, StatusesKnown DEF Ops
  <2>2. Index!MarkStatus(o.id, o.status)  BY <1>3 DEF Index!MarkStatus
  <2>3. QED  BY <2>1, <2>2 DEF Index!Next
<1>4. CASE o.kind = "replace"
  <2>1. o.id \in Ids /\ o.new \in Ids  BY <1>4 DEF Ops
  <2>2. Index!Replace(o.id, o.new)  BY <1>4 DEF Index!Replace
  <2>3. QED  BY <2>1, <2>2 DEF Index!Next
<1>5. QED  BY <1>1, <1>2, <1>3, <1>4 DEF Ops

-----------------------------------------------------------------------------
(***************************************************************************)
(* The discipline is kept.                                                 *)
(***************************************************************************)
LEMMA SoundInit == Init => Sound
<1> SUFFICES ASSUME Init PROVE Sound  OBVIOUS
<1>1. DOMAIN rows = {} /\ IsTable(rows)
  BY DEF Init, Empty, IsTable
<1>2. Typed
  BY <1>1, StoreConfig DEF Init, Typed, Positions
<1>3. Discipline
  BY DEF Init, Discipline, Inside, Checked
<1>4. QED  BY <1>1, <1>2, <1>3 DEF Sound, IndexedHasTrajectory

\* Only the holder of the lock is inside.
LEMMA OneInside ==
  ASSUME Sound, NEW c \in Clients, Inside(c), NEW d \in Clients, d # c
  PROVE  ~Inside(d)
  BY DEF Sound, Discipline

\* A renamed index is what its writer made of the index before.
LEMMA RenameEffect ==
  ASSUME Sound, NEW c \in Clients, Rename(c)
  PROVE  /\ op[c] \in Ops
         /\ rows' = Apply(op[c], rows)
         /\ Created(op[c]) \cap DOMAIN rows = {}
         /\ Needed(op[c]) \subseteq DOMAIN rows
         /\ Created(op[c]) \subseteq trajs
<1>1. pc[c] = "written" /\ rows' \in tmp  BY DEF Rename
<1>2. /\ op[c] \in Ops /\ tmp = {Apply(op[c], rows)}
      /\ snap[c] = rows /\ ~Refused(c) /\ Created(op[c]) \subseteq trajs
  BY <1>1 DEF Sound, Discipline, Inside, Checked
<1>3. QED  BY <1>1, <1>2 DEF Refused

LEMMA SoundStep == Sound /\ [Next]_vars => Sound'
<1> SUFFICES ASSUME Sound, [Next]_vars PROVE Sound'  OBVIOUS
<1> USE StoreConfig DEF Sound
<1>1. CASE UNCHANGED vars
  BY <1>1 DEF vars, files, threads, Typed, Discipline, Inside, Checked, Refused,
     IndexedHasTrajectory
<1>2. ASSUME NEW c \in Clients, NEW o \in Ops, Call(c, o) PROVE Sound'
  <2>1. Typed'  BY <1>2 DEF Call, files, Typed, Positions
  <2>2. Discipline'
    BY <1>2 DEF Call, files, Typed, Discipline, Inside, Checked, Refused
  <2>3. QED  BY <1>2, <2>1, <2>2 DEF Call, files, IndexedHasTrajectory
<1>3. ASSUME NEW c \in Clients, ReadIndex(c) PROVE Sound'
  <2>1. Typed'  BY <1>3 DEF ReadIndex, files, Typed, Positions
  <2>2. \A d \in Clients : ~Inside(d)
    BY <1>3 DEF ReadIndex, Discipline
  <2>3. Discipline'
    BY <1>3, <2>2 DEF ReadIndex, files, Typed, Discipline, Inside, Checked, Refused
  <2>4. QED  BY <1>3, <2>1, <2>3 DEF ReadIndex, files, IndexedHasTrajectory
<1>4. ASSUME NEW c \in Clients, Reject(c) PROVE Sound'
  <2>1. Typed'  BY <1>4 DEF Reject, files, Typed, Positions
  <2>2. \A d \in Clients : d # c => ~Inside(d)
    BY <1>4, OneInside DEF Reject, Inside
  <2>3. Discipline'
    BY <1>4, <2>2 DEF Reject, files, Typed, Discipline, Inside, Checked, Refused
  <2>4. QED  BY <1>4, <2>1, <2>3 DEF Reject, files, IndexedHasTrajectory
<1>5. ASSUME NEW c \in Clients, WriteTrajectory(c) PROVE Sound'
  <2>1. op[c] \in Ops /\ Created(op[c]) \subseteq Ids
    BY <1>5 DEF WriteTrajectory, Discipline, Created, Ops
  <2>2. Typed'  BY <1>5, <2>1 DEF WriteTrajectory, Typed, Positions
  <2>3. \A d \in Clients : d # c => ~Inside(d)
    BY <1>5, OneInside DEF WriteTrajectory, Inside
  <2>4. Discipline'
    BY <1>5, <2>3 DEF WriteTrajectory, Typed, Discipline, Inside, Checked, Refused
  <2>5. QED  BY <1>5, <2>2, <2>4 DEF WriteTrajectory, IndexedHasTrajectory
<1>6. ASSUME NEW c \in Clients, WriteTmp(c) PROVE Sound'
  <2>1. /\ op[c] \in Ops /\ snap[c] = rows
        /\ Needed(op[c]) \subseteq DOMAIN rows
    BY <1>6 DEF WriteTmp, Discipline, Inside, Checked, Refused
  <2>2. IsTable(Apply(op[c], rows))
    BY <2>1, ApplyTyped DEF Typed
  <2>3. tmp' = {Apply(op[c], rows)}  BY <1>6, <2>1 DEF WriteTmp
  <2>4. Typed'  BY <1>6, <2>2, <2>3 DEF WriteTmp, Typed, Positions, IsTable
  <2>5. \A d \in Clients : d # c => ~Inside(d)
    BY <1>6, OneInside DEF WriteTmp, Inside
  <2>6. Discipline'
    BY <1>6, <2>3, <2>5 DEF WriteTmp, Typed, Discipline, Inside, Checked, Refused
  <2>7. QED  BY <1>6, <2>4, <2>6 DEF WriteTmp, IndexedHasTrajectory
<1>7. ASSUME NEW c \in Clients, Rename(c) PROVE Sound'
  <2>1. /\ op[c] \in Ops /\ rows' = Apply(op[c], rows)
        /\ Needed(op[c]) \subseteq DOMAIN rows
        /\ Created(op[c]) \subseteq trajs
    BY <1>7, RenameEffect
  <2>2. IsTable(rows') /\ DOMAIN rows' = DOMAIN rows \cup Created(op[c])
    BY <2>1, ApplyTyped DEF Typed
  <2>3. Typed'  BY <1>7, <2>2 DEF Rename, Typed, Positions, IsTable
  <2>4. \A d \in Clients : d # c => ~Inside(d)
    BY <1>7, OneInside DEF Rename, Inside
  <2>5. Discipline'
    BY <1>7, <2>4 DEF Rename, Typed, Discipline, Inside, Checked, Refused, Positions
  <2>6. QED  BY <1>7, <2>1, <2>2, <2>3, <2>5 DEF Rename, IndexedHasTrajectory
<1>8. ASSUME NEW c \in Clients, AppendEvent(c) PROVE Sound'
  <2>1. Typed'  BY <1>8 DEF AppendEvent, Typed, Positions
  <2>2. Discipline'
    BY <1>8 DEF AppendEvent, Typed, Discipline, Inside, Checked, Refused
  <2>3. QED  BY <1>8, <2>1, <2>2 DEF AppendEvent, IndexedHasTrajectory
<1>9. CASE Crash
  <2>1. Typed'  BY <1>9 DEF Crash, files, Typed, Positions
  <2>2. Discipline'  BY <1>9 DEF Crash, files, Discipline, Inside, Checked
  <2>3. QED  BY <1>9, <2>1, <2>2 DEF Crash, files, IndexedHasTrajectory
<1>10. QED
  BY <1>1, <1>2, <1>3, <1>4, <1>5, <1>6, <1>7, <1>8, <1>9 DEF Next, Step

LEMMA AlwaysSound == Spec => []Sound
<1>1. QED  BY SoundInit, SoundStep, PTL DEF Spec

\* The files and the threads keep their types; index.jsonl.tmp, also one a dead
\* process left behind, never holds more than one table.
THEOREM StoreTypeCorrect == Spec => []StoreTypeOK
<1>1. Sound => StoreTypeOK
  <2> SUFFICES ASSUME Sound PROVE StoreTypeOK  OBVIOUS
  <2>1. Cardinality(tmp) <= 1
    BY FS_EmptySet, FS_Singleton DEF Sound, Typed
  <2>2. QED  BY <2>1 DEF Sound, Typed, StoreTypeOK, IsTable, Positions
<1>2. QED  BY <1>1, AlwaysSound, PTL

\* A memory in the index has its trajectory file, whatever threads and process
\* deaths do.
THEOREM ListedHasTrajectory == Spec => []IndexedHasTrajectory
<1>1. Sound => IndexedHasTrajectory  BY DEF Sound
<1>2. QED  BY <1>1, AlwaysSound, PTL

\* The store implements the indivisible table: every step of a thread, and every
\* process death, is one whole operation on the records of that moment or none.
THEOREM StoreIsAtomic == Spec => AtomicIndex
<1>1. Init => Index!Init  BY DEF Init, Index!Init, Empty
<1>2. Sound /\ [Next]_vars => [Index!Next]_rows
  <2> SUFFICES ASSUME Sound, [Next]_vars PROVE [Index!Next]_rows  OBVIOUS
  <2>1. CASE UNCHANGED vars  BY <2>1 DEF vars, files
  <2>2. ASSUME NEW c \in Clients, Rename(c) PROVE Index!Next
    BY <2>2, RenameEffect, ApplyIsStep
  <2>3. ASSUME NEW c \in Clients, Step(c), ~Rename(c) PROVE UNCHANGED rows
    BY <2>3 DEF Step, ReadIndex, Reject, WriteTrajectory, WriteTmp, AppendEvent, files
  <2>4. ASSUME NEW c \in Clients, NEW o \in Ops, Call(c, o) PROVE UNCHANGED rows
    BY <2>4 DEF Call, files
  <2>5. CASE Crash  BY <2>5 DEF Crash, files
  <2>6. QED  BY <2>1, <2>2, <2>3, <2>4, <2>5 DEF Next
<1>3. QED  BY <1>1, <1>2, AlwaysSound, PTL DEF Spec, AtomicIndex, Index!Spec

-----------------------------------------------------------------------------
(***************************************************************************)
(* The audit log.  A change on file and not in the log is one whose thread *)
(* is about to append it, or was when its process died.                    *)
(***************************************************************************)
Events == Ids \X Status

Pending(e) == {c \in Clients : pc[c] = "renamed" /\ Event(op[c]) = e}

Audit ==
  /\ log \in Seq(Events) /\ changes \in Seq(Events)
  /\ crashes \in Nat
  /\ \A e \in Events :
       /\ Count(log, e) + Cardinality(Pending(e)) <= Count(changes, e)
       /\ crashes = 0 =>
            Count(changes, e) = Count(log, e) + Cardinality(Pending(e))

\* Appending an event counts one more of it, and no more of any other.
LEMMA CountAppend ==
  ASSUME NEW S, NEW seq \in Seq(S), NEW x \in S, NEW e
  PROVE  /\ Count(seq, e) \in Nat
         /\ Count(Append(seq, x), e) = IF x = e THEN Count(seq, e) + 1
                                       ELSE Count(seq, e)
<1> DEFINE at == {k \in DOMAIN seq : seq[k] = e}
           n == Len(seq) + 1
           at2 == {k \in DOMAIN Append(seq, x) : Append(seq, x)[k] = e}
<1>1. /\ DOMAIN seq = 1 .. Len(seq) /\ Len(seq) \in Nat
      /\ DOMAIN Append(seq, x) = 1 .. n
      /\ \A k \in 1 .. Len(seq) : Append(seq, x)[k] = seq[k]
      /\ Append(seq, x)[n] = x
  OBVIOUS
<1>2. IsFiniteSet(at)
  <2>1. IsFiniteSet(1 .. Len(seq))  BY <1>1, FS_Interval
  <2>2. QED  BY <1>1, <2>1, FS_Subset
<1>3. n \notin at  BY <1>1
<1>4. at2 = IF x = e THEN at \cup {n} ELSE at
  BY <1>1
<1>5. Count(seq, e) = Cardinality(at) /\ Count(Append(seq, x), e) = Cardinality(at2)
  BY DEF Count
<1> HIDE DEF at, at2
<1>6. Cardinality(at) \in Nat  BY <1>2, FS_CardinalityType
<1>7. Cardinality(at \cup {n}) = Cardinality(at) + 1
  BY <1>2, <1>3, FS_AddElement
<1>8. QED  BY <1>4, <1>5, <1>6, <1>7

LEMMA PendingFinite ==
  ASSUME NEW e PROVE IsFiniteSet(Pending(e)) /\ Cardinality(Pending(e)) \in Nat
<1>1. IsFiniteSet(Pending(e))  BY StoreConfig, FS_Subset DEF Pending
<1>2. QED  BY <1>1, FS_CardinalityType

LEMMA EventTyped ==
  ASSUME NEW o \in Ops, Audited(o) PROVE Event(o) \in Events
  BY StatusesKnown DEF Ops, Audited, Event, Events

\* A step that changes neither log nor index leaves the events pending as they are.
LEMMA AuditUntouched ==
  ASSUME Sound, Audit, log' = log, changes' = changes, crashes' = crashes,
         \A e \in Events : Pending(e)' = Pending(e)
  PROVE  Audit'
<1>1. \A e \in Events :
        /\ Count(log, e)' = Count(log, e) /\ Count(changes, e)' = Count(changes, e)
        /\ Cardinality(Pending(e))' = Cardinality(Pending(e))
  BY DEF Count
<1>2. QED  BY <1>1 DEF Audit

LEMMA AuditInit == Init => Audit
<1> SUFFICES ASSUME Init PROVE Audit  OBVIOUS
<1>1. ASSUME NEW e \in Events PROVE Count(log, e) = 0 /\ Count(changes, e) = 0
  <2>1. {k \in DOMAIN log : log[k] = e} = {} /\ {k \in DOMAIN changes : changes[k] = e} = {}
    BY DEF Init
  <2>2. QED  BY <2>1, FS_EmptySet DEF Count
<1>2. ASSUME NEW e \in Events PROVE Cardinality(Pending(e)) = 0
  <2>1. Pending(e) = {}  BY DEF Init, Pending
  <2>2. QED  BY <2>1, FS_EmptySet
<1>3. log \in Seq(Events) /\ changes \in Seq(Events) /\ crashes = 0
  BY DEF Init
<1>4. QED  BY <1>1, <1>2, <1>3 DEF Audit

LEMMA AuditStep == Sound /\ Audit /\ [Next]_vars => Audit'
<1> SUFFICES ASSUME Sound, Audit, [Next]_vars PROVE Audit'  OBVIOUS
<1> USE DEF Sound, Typed
<1>1. CASE UNCHANGED vars
  <2>1. \A e \in Events : Pending(e)' = Pending(e)
    BY <1>1 DEF vars, threads, Pending
  <2>2. QED  BY <1>1, <2>1, AuditUntouched DEF vars, files
<1>2. ASSUME NEW c \in Clients, NEW o \in Ops, Call(c, o) PROVE Audit'
  <2>1. \A e \in Events : Pending(e)' = Pending(e)
    BY <1>2 DEF Call, Pending
  <2>2. QED  BY <1>2, <2>1, AuditUntouched DEF Call, files
<1>3. ASSUME NEW c \in Clients,
             ReadIndex(c) \/ Reject(c) \/ WriteTrajectory(c) \/ WriteTmp(c)
      PROVE Audit'
  <2>1. \A e \in Events : Pending(e)' = Pending(e)
    BY <1>3 DEF ReadIndex, Reject, WriteTrajectory, WriteTmp, Pending
  <2>2. QED
    BY <1>3, <2>1, AuditUntouched
    DEF ReadIndex, Reject, WriteTrajectory, WriteTmp, files
<1>4. ASSUME NEW c \in Clients, Rename(c), ~Audited(op[c]) PROVE Audit'
  <2>1. \A e \in Events : Pending(e)' = Pending(e)
    BY <1>4 DEF Rename, Pending
  <2>2. QED  BY <1>4, <2>1, AuditUntouched DEF Rename
<1>5. ASSUME NEW c \in Clients, Rename(c), Audited(op[c]) PROVE Audit'
  <2> DEFINE x == Event(op[c])
  <2>1. x \in Events  BY <1>5, RenameEffect, EventTyped
  <2>2. /\ changes' = Append(changes, x) /\ log' = log /\ crashes' = crashes
        /\ pc[c] = "written" /\ pc' = [pc EXCEPT ![c] = "renamed"] /\ op' = op
    BY <1>5 DEF Rename
  <2>3. ASSUME NEW e \in Events
        PROVE  /\ Cardinality(Pending(e)') =
                    IF x = e THEN Cardinality(Pending(e)) + 1 ELSE Cardinality(Pending(e))
               /\ Count(changes', e) =
                    IF x = e THEN Count(changes, e) + 1 ELSE Count(changes, e)
               /\ Count(changes, e) \in Nat
    <3>1. c \notin Pending(e)  BY <2>2 DEF Pending
    <3>2. Pending(e)' = IF x = e THEN Pending(e) \cup {c} ELSE Pending(e)
      BY <2>2 DEF Pending
    <3>3. Cardinality(Pending(e) \cup {c}) = Cardinality(Pending(e)) + 1
      BY <3>1, PendingFinite, FS_AddElement
    <3>4. /\ Count(changes, e) \in Nat
          /\ Count(Append(changes, x), e) =
               IF x = e THEN Count(changes, e) + 1 ELSE Count(changes, e)
      BY <2>1, CountAppend DEF Audit
    <3>5. QED  BY <2>2, <3>2, <3>3, <3>4
  <2>4. \A e \in Events : Count(log', e) = Count(log, e)  BY <2>2
  <2>5. \A e \in Events : Count(log, e) \in Nat
    BY <2>1, CountAppend DEF Audit
  <2>6. changes' \in Seq(Events)  BY <2>1, <2>2 DEF Audit
  <2> HIDE DEF x
  <2>7. ASSUME NEW e \in Events
        PROVE  /\ Count(log', e) + Cardinality(Pending(e)') <= Count(changes', e)
               /\ crashes' = 0 =>
                    Count(changes', e) = Count(log', e) + Cardinality(Pending(e)')
    <3>1. CASE x = e
      BY <2>2, <2>3, <2>4, <2>5, <3>1, PendingFinite DEF Audit
    <3>2. CASE x # e
      BY <2>2, <2>3, <2>4, <2>5, <3>2, PendingFinite DEF Audit
    <3>3. QED  BY <3>1, <3>2
  <2>8. log' \in Seq(Events) /\ crashes' \in Nat  BY <2>2 DEF Audit
  <2>9. QED  BY <2>6, <2>7, <2>8 DEF Audit
<1>6. ASSUME NEW c \in Clients, AppendEvent(c) PROVE Audit'
  <2> DEFINE x == Event(op[c])
  <2>1. /\ log' = Append(log, x) /\ changes' = changes /\ crashes' = crashes
        /\ pc[c] = "renamed" /\ pc' = [pc EXCEPT ![c] = "idle"]
        /\ op' = [op EXCEPT ![c] = Idle]
    BY <1>6 DEF AppendEvent
  <2>2. x \in Events
    BY <2>1, EventTyped DEF Discipline
  <2>3. ASSUME NEW e \in Events
        PROVE  /\ Cardinality(Pending(e)') =
                    IF x = e THEN Cardinality(Pending(e)) - 1 ELSE Cardinality(Pending(e))
               /\ Count(log', e) = IF x = e THEN Count(log, e) + 1 ELSE Count(log, e)
               /\ Count(log, e) \in Nat
    <3>1. c \in Pending(e) <=> x = e  BY <2>1 DEF Pending
    <3>2. Pending(e)' = Pending(e) \ {c}
      BY <2>1 DEF Pending
    <3>3. Cardinality(Pending(e) \ {c}) =
            IF c \in Pending(e) THEN Cardinality(Pending(e)) - 1
            ELSE Cardinality(Pending(e))
      BY PendingFinite, FS_RemoveElement
    <3>4. /\ Count(log, e) \in Nat
          /\ Count(Append(log, x), e) = IF x = e THEN Count(log, e) + 1 ELSE Count(log, e)
      BY <2>2, CountAppend DEF Audit
    <3>5. QED  BY <2>1, <3>1, <3>2, <3>3, <3>4
  <2>4. \A e \in Events : Count(changes', e) = Count(changes, e)  BY <2>1
  <2>5. \A e \in Events : Count(changes, e) \in Nat
    BY <2>2, CountAppend DEF Audit
  <2>6. log' \in Seq(Events)  BY <2>1, <2>2 DEF Audit
  <2> HIDE DEF x
  <2>7. ASSUME NEW e \in Events
        PROVE  /\ Count(log', e) + Cardinality(Pending(e)') <= Count(changes', e)
               /\ crashes' = 0 =>
                    Count(changes', e) = Count(log', e) + Cardinality(Pending(e)')
    <3>1. CASE x = e
      BY <2>1, <2>3, <2>4, <2>5, <3>1, PendingFinite DEF Audit
    <3>2. CASE x # e
      BY <2>1, <2>3, <2>4, <2>5, <3>2, PendingFinite DEF Audit
    <3>3. QED  BY <3>1, <3>2
  <2>8. changes' \in Seq(Events) /\ crashes' \in Nat  BY <2>1 DEF Audit
  <2>9. QED  BY <2>6, <2>7, <2>8 DEF Audit
<1>7. CASE Crash
  <2>1. /\ log' = log /\ changes' = changes /\ crashes' = crashes + 1
        /\ pc' = [c \in Clients |-> "idle"]
    BY <1>7 DEF Crash, files
  <2>2. ASSUME NEW e \in Events PROVE Cardinality(Pending(e)') = 0
    <3>1. Pending(e)' = {}  BY <2>1 DEF Pending
    <3>2. QED  BY <3>1, FS_EmptySet
  <2>3. ASSUME NEW e \in Events
        PROVE Count(log', e) + Cardinality(Pending(e)') <= Count(changes', e)
    <3>1. Count(log, e) \in Nat /\ Count(changes, e) \in Nat
      BY CountAppend DEF Audit
    <3>2. QED  BY <2>1, <2>2, <3>1, PendingFinite DEF Audit
  <2>4. crashes' \in Nat /\ crashes' # 0  BY <2>1 DEF Audit
  <2>5. QED  BY <2>1, <2>3, <2>4 DEF Audit
<1>8. QED
  BY <1>1, <1>2, <1>3, <1>4, <1>5, <1>6, <1>7 DEF Next, Step

\* The audit log tells of no status change that is not on file, and, as long as no
\* process died, of all that are, in whatever order the threads append.
THEOREM AuditAgrees == Spec => []AuditMatchesIndex
<1>1. Audit => AuditMatchesIndex
  <2> SUFFICES ASSUME Audit, NEW e \in Events
               PROVE  /\ Count(log, e) <= Count(changes, e)
                      /\ crashes = 0 =>
                           Count(changes, e) = Count(log, e) + Cardinality(Pending(e))
    BY DEF AuditMatchesIndex, Events, Pending
  <2>1. Count(log, e) \in Nat /\ Count(changes, e) \in Nat
    BY CountAppend DEF Audit
  <2>2. QED  BY <2>1, PendingFinite DEF Audit
<1>2. QED  BY <1>1, AlwaysSound, AuditInit, AuditStep, PTL DEF Spec

-----------------------------------------------------------------------------
(***************************************************************************)
(* What a death costs the log.                                             *)
(***************************************************************************)

\* The threads whose change is on file and whose event is not yet.
Owing == {c \in Clients : pc[c] = "renamed"}

LossBounded ==
  /\ log \in Seq(Events) /\ changes \in Seq(Events)
  /\ crashes \in Nat
  /\ Len(changes) <= Len(log) + Cardinality(Owing) + crashes * Cardinality(Clients)

LEMMA OwingCounted ==
  /\ IsFiniteSet(Owing) /\ Cardinality(Owing) \in Nat
  /\ Cardinality(Clients) \in Nat
  /\ Cardinality(Owing) <= Cardinality(Clients)
<1>1. Owing \subseteq Clients  BY DEF Owing
<1>2. QED  BY <1>1, StoreConfig, FS_Subset, FS_CardinalityType

\* A renamed index owes one event more, a logged one one less, and a death writes
\* off at most one for each thread.
LEMMA LossStep == Sound /\ LossBounded /\ [Next]_vars => LossBounded'
<1> SUFFICES ASSUME Sound, LossBounded, [Next]_vars PROVE LossBounded'  OBVIOUS
<1> USE DEF Sound, Typed
<1> DEFINE K == Cardinality(Clients)
           owed == Cardinality(Owing)
<1>1. /\ K \in Nat /\ owed \in Nat /\ owed <= K
      /\ Len(log) \in Nat /\ Len(changes) \in Nat
      /\ crashes \in Nat /\ crashes * K \in Nat
      /\ Len(changes) <= Len(log) + owed + crashes * K
  BY OwingCounted DEF LossBounded
<1>2. ASSUME UNCHANGED <<log, changes, crashes>>, Owing' = Owing
      PROVE  LossBounded'
  BY <1>2 DEF LossBounded
<1>3. CASE UNCHANGED vars
  BY <1>2, <1>3 DEF vars, files, threads, Owing
<1>4. ASSUME NEW c \in Clients, NEW o \in Ops, Call(c, o) PROVE LossBounded'
  <2>1. Owing' = Owing  BY <1>4 DEF Call, Owing
  <2>2. QED  BY <1>2, <1>4, <2>1 DEF Call, files
<1>5. ASSUME NEW c \in Clients,
             \/ ReadIndex(c) \/ Reject(c) \/ WriteTrajectory(c) \/ WriteTmp(c)
             \/ Rename(c) /\ ~Audited(op[c])
      PROVE LossBounded'
  <2>1. Owing' = Owing
    BY <1>5 DEF ReadIndex, Reject, WriteTrajectory, WriteTmp, Rename, Owing
  <2>2. QED
    BY <1>2, <1>5, <2>1
    DEF ReadIndex, Reject, WriteTrajectory, WriteTmp, Rename, files
<1>6. ASSUME NEW c \in Clients, Rename(c), Audited(op[c]) PROVE LossBounded'
  <2>1. Event(op[c]) \in Events  BY <1>6, RenameEffect, EventTyped
  <2>2. /\ changes' = Append(changes, Event(op[c]))
        /\ UNCHANGED <<log, crashes>>
        /\ c \notin Owing /\ Owing' = Owing \cup {c}
    BY <1>6 DEF Rename, Owing
  <2>3. Cardinality(Owing') = owed + 1
    BY <2>2, OwingCounted, FS_AddElement
  <2>4. Len(changes') = Len(changes) + 1 /\ changes' \in Seq(Events)
    BY <2>1, <2>2 DEF LossBounded
  <2>5. Len(changes') <= Len(log') + Cardinality(Owing') + crashes' * K
    <3> HIDE DEF K, owed
    <3>1. QED  BY <1>1, <2>2, <2>3, <2>4
  <2>6. QED  BY <2>2, <2>4, <2>5 DEF LossBounded
<1>7. ASSUME NEW c \in Clients, AppendEvent(c) PROVE LossBounded'
  <2>1. op[c] \in Ops /\ Audited(op[c])
    BY <1>7 DEF AppendEvent, Discipline
  <2>2. Event(op[c]) \in Events  BY <2>1, EventTyped
  <2>3. /\ log' = Append(log, Event(op[c]))
        /\ UNCHANGED <<changes, crashes>>
        /\ c \in Owing /\ Owing' = Owing \ {c}
    BY <1>7 DEF AppendEvent, Owing
  <2>4. Cardinality(Owing') = owed - 1
    BY <2>3, OwingCounted, FS_RemoveElement
  <2>5. Len(log') = Len(log) + 1 /\ log' \in Seq(Events)
    BY <2>2, <2>3 DEF LossBounded
  <2>6. Len(changes') <= Len(log') + Cardinality(Owing') + crashes' * K
    <3> HIDE DEF K, owed
    <3>1. QED  BY <1>1, <2>3, <2>4, <2>5
  <2>7. QED  BY <2>3, <2>5, <2>6 DEF LossBounded
<1>8. CASE Crash
  <2>1. UNCHANGED <<log, changes>> /\ crashes' = crashes + 1 /\ Owing' = {}
    BY <1>8 DEF Crash, files, Owing
  <2>2. Cardinality(Owing') = 0  BY <2>1, FS_EmptySet
  <2>3. (crashes + 1) * K = crashes * K + K
    <3> HIDE DEF K
    <3>1. QED  BY <1>1
  <2>4. Len(changes') <= Len(log') + Cardinality(Owing') + crashes' * K
    <3> HIDE DEF K, owed
    <3>1. QED  BY <1>1, <2>1, <2>2, <2>3
  <2>5. QED  BY <1>1, <2>1, <2>4 DEF LossBounded
<1>9. QED
  BY <1>3, <1>4, <1>5, <1>6, <1>7, <1>8 DEF Next, Step

\* However many processes died, and wherever, the log lacks at most one event for
\* each thread of each of them and for each thread about to append.
THEOREM AuditLossBounded == Spec => []AuditLossIsBounded
<1>1. Init => LossBounded
  <2> SUFFICES ASSUME Init PROVE LossBounded  OBVIOUS
  <2>1. Owing = {}  BY DEF Init, Owing
  <2>2. Cardinality(Owing) = 0  BY <2>1, FS_EmptySet
  <2>3. log = << >> /\ changes = << >> /\ crashes = 0  BY DEF Init
  <2>4. crashes * Cardinality(Clients) = 0  BY <2>3, OwingCounted
  <2>5. QED  BY <2>2, <2>3, <2>4 DEF LossBounded
<1>2. LossBounded => AuditLossIsBounded
  BY DEF LossBounded, AuditLossIsBounded, Owing
<1>3. QED  BY <1>1, <1>2, LossStep, AlwaysSound, PTL DEF Spec

-----------------------------------------------------------------------------
(***************************************************************************)
(* The end of the locked block.                                            *)
(***************************************************************************)

\* The lock is held by the thread inside the locked block, and by no other.
HeldInside == \A c \in Clients : lock = c <=> Inside(c)

\* The writes a thread inside the block has still to make.
WritesLeft(c) ==
  IF pc[c] = "read" THEN 3 ELSE IF pc[c] = "prepared" THEN 2
  ELSE IF pc[c] = "written" THEN 1 ELSE 0

\* Another thread's step, or a call, leaves the holder where it is; its own steps
\* bring it nearer to the end of the block.
HolderAdvances ==
  \A c \in Clients :
    lock = c => \/ UNCHANGED <<lock, pc[c]>>
                \/ WritesLeft(c)' < WritesLeft(c)

LEMMA HolderStep ==
  ASSUME Sound, HeldInside, [Next]_vars
  PROVE  HeldInside' /\ HolderAdvances
<1> USE DEF Sound, Typed, HeldInside, HolderAdvances, Inside
<1>1. CASE UNCHANGED vars  BY <1>1 DEF vars, threads
<1>2. ASSUME NEW c \in Clients, NEW o \in Ops, Call(c, o)
      PROVE  HeldInside' /\ HolderAdvances
  BY <1>2 DEF Call
<1>3. ASSUME NEW c \in Clients, ReadIndex(c) PROVE HeldInside' /\ HolderAdvances
  BY <1>3, StoreConfig DEF ReadIndex
<1>4. ASSUME NEW c \in Clients, Reject(c) PROVE HeldInside' /\ HolderAdvances
  BY <1>4, StoreConfig DEF Reject, WritesLeft
<1>5. ASSUME NEW c \in Clients, WriteTrajectory(c) PROVE HeldInside' /\ HolderAdvances
  BY <1>5 DEF WriteTrajectory, WritesLeft
<1>6. ASSUME NEW c \in Clients, WriteTmp(c) PROVE HeldInside' /\ HolderAdvances
  BY <1>6 DEF WriteTmp, WritesLeft
<1>7. ASSUME NEW c \in Clients, Rename(c) PROVE HeldInside' /\ HolderAdvances
  BY <1>7, StoreConfig DEF Rename, WritesLeft
<1>8. ASSUME NEW c \in Clients, AppendEvent(c) PROVE HeldInside' /\ HolderAdvances
  BY <1>8 DEF AppendEvent
<1>9. CASE Crash
  BY <1>9, StoreConfig DEF Crash, WritesLeft
<1>10. QED
  BY <1>1, <1>2, <1>3, <1>4, <1>5, <1>6, <1>7, <1>8, <1>9 DEF Next, Step

\* The lock is held exactly by the thread between reading the index and renaming
\* it, also after an exception and after a death, and its holder is at most three
\* steps of its own from releasing it, which no other thread can undo: what
\* LockReleased needs beyond fairness.
THEOREM LockHeldBriefly == Spec => []HeldInside /\ [][HolderAdvances]_vars
<1>1. Init => HeldInside
  BY StoreConfig DEF Init, HeldInside, Inside
<1>2. Sound /\ HeldInside /\ [Next]_vars => HeldInside' /\ [HolderAdvances]_vars
  BY HolderStep
<1>3. QED  BY <1>1, <1>2, AlwaysSound, PTL DEF Spec
=============================================================================
