-------------------------- MODULE DMSMemoryProofs --------------------------
(***************************************************************************)
(* The records of the memory provider, for every value of the constants    *)
(* that PruningConfig and MemoryConfig allow: they keep their shape, no    *)
(* trajectory is stored twice, no memory is pruned young, and what a       *)
(* pruning pass leaves is neither struck out nor over capacity.            *)
(***************************************************************************)
EXTENDS DMSMemory, PruningProofs, SequenceTheorems, TLAPS

\* Taking one strike off leaves a number of strikes, and no more than there were.
LEMMA StrikeOff ==
  ASSUME NEW n \in Nat
  PROVE  Max({0, n - 1}) \in Nat /\ Max({0, n - 1}) <= n
<1>1. n - 1 \in Int  OBVIOUS
<1>2. Max({0, n - 1}) \in {0, n - 1} /\ Max({0, n - 1}) >= 0
  BY <1>1, MaxIs
<1>3. QED  BY <1>1, <1>2

\* Rewriting every record of the index in place gives an index of the same length.
LEMMA SeqFromFunction ==
  ASSUME NEW S, NEW s \in Seq(S), NEW t \in [DOMAIN s -> S]
  PROVE  /\ t \in Seq(S)
         /\ DOMAIN t = DOMAIN s
         /\ Len(t) = Len(s)
  OBVIOUS

\* The pruner selects active memories only, and none that is protected as recent,
\* whatever rule decides and whatever the parameters are.
LEMMA SelectPrunableSubset ==
  ASSUME NEW active, NEW rec, NEW val, NEW step, NEW cap
  PROVE  SelectPrunable(active, rec, val, step, cap)
           \subseteq active \ Protected(active, rec, step)
<1> DEFINE free == active \ Protected(active, rec, step)
           hard == {x \in free : HardRule(rec, x)}
           weak == {x \in free \ hard : val[x] < MinSurvival}
<1>1. \A S, n : SelectForCapacity(S, val, n) \subseteq S
  BY DEF SelectForCapacity, SelectByElbow, SelectByBottomRatio
<1>2. \A C, H, W : CutToBudget(C, H, W, val) \subseteq C
  BY DEF CutToBudget
<1>3. QED  BY <1>1, <1>2 DEF SelectPrunable

\* Raising the soft capacity leaves a capacity.
LEMMA ExpandedCapacityNat ==
  ASSUME NEW active, NEW val, NEW cap \in Nat
  PROVE  ExpandedCapacity(active, val, cap) \in Nat
<1>1. cap + ExpandStep \in Nat /\ CapacityMax \in Nat  BY PruningConfig
<1>2. Min({cap + ExpandStep, CapacityMax}) \in Nat  BY <1>1, MinIs
<1>3. QED  BY <1>2 DEF ExpandedCapacity

-----------------------------------------------------------------------------
USE DEF Ids, NoId

\* A record of the index has the type of a record.
LEMMA RecordOfIndex ==
  ASSUME TypeOK, NEW i \in Ids
  PROVE  /\ index[i] \in Record
         /\ i \in Nat
         /\ i # NoId
         /\ Ids = 1..Len(index)
  BY DEF TypeOK

\* A change of status (mark_status) leaves a record.
LEMMA MarkedTyped ==
  ASSUME NEW r \in Record, NEW status \in Status
  PROVE  Marked(r, status) \in Record
  BY DEF Marked, Record

\* So does being replaced by another memory (replace_memory).
LEMMA SupersededTyped ==
  ASSUME NEW r \in Record, NEW by \in Nat
  PROVE  Superseded(r, by) \in Record
  BY DEF Superseded, Marked, Record, Status

\* So does the blame of a failed task (finalize_task).
LEMMA BlamedTyped ==
  ASSUME NEW r \in Record
  PROVE  Blamed(r) \in Record
<1>1. r.failure + 1 \in Nat /\ r.strike + 1 \in Nat  BY DEF Record
<1> DEFINE failure == r.failure + 1
           strike == r.strike + 1
<1>2. Blamed(r) = [r EXCEPT !.failure = failure, !.strike = strike]
  BY DEF Blamed
<1> HIDE DEF failure, strike
<1>3. failure \in Nat /\ strike \in Nat  BY <1>1 DEF failure, strike
<1>4. QED  BY <1>2, <1>3 DEF Record

\* A read marks records in place and remembers ids of the index only.
LEMMA ReadTyped ==
  ASSUME TypeOK, NEW risky \in SUBSET Active, NEW id \in Active \cup {NoId},
         NEW mutate \in BOOLEAN, BuildActorMemory(risky, id, mutate)
  PROVE  /\ index' \in Seq(Record)
         /\ Ids' = Ids
         /\ activeIds' \subseteq Ids
         /\ readers' \subseteq Ids
         /\ lastRead' \in [id : Ids \cup {NoId}, mutate : BOOLEAN]
<1>1. \A i \in Ids : Marked(index[i], "RISKY") \in Record
  BY RecordOfIndex, MarkedTyped DEF Status
<1>2. index' \in [DOMAIN index -> Record]
  BY <1>1, RecordOfIndex DEF BuildActorMemory
<1>3. index' \in Seq(Record) /\ DOMAIN index' = DOMAIN index
  BY <1>2, SeqFromFunction DEF TypeOK
<1>4. QED  BY <1>3 DEF BuildActorMemory, WithRead, ReadResult, TypeOK, Active

\* Feedback leaves a record: the strike count is never taken below zero.
LEMMA FeedbackTyped ==
  ASSUME NEW r \in Record, NEW outcome
  PROVE  Feedback(r, outcome) \in Record
<1>1. /\ r.success \in Nat
      /\ r.failure \in Nat
      /\ r.strike \in Nat
  BY DEF Record
<1>2. Max({0, r.strike - 1}) \in Nat  BY <1>1, StrikeOff
<1> DEFINE success == IF outcome = "success" THEN r.success + 1 ELSE r.success
           failure == IF outcome = "failure" THEN r.failure + 1 ELSE r.failure
           strike  == IF outcome = "success" THEN Max({0, r.strike - 1})
                      ELSE IF outcome = "failure" THEN r.strike + 1 ELSE r.strike
<1>3. success \in Nat /\ failure \in Nat /\ strike \in Nat
  BY <1>1, <1>2
<1>4. Feedback(r, outcome) =
        [r EXCEPT !.success = success, !.failure = failure, !.strike = strike]
  BY DEF Feedback
<1> HIDE DEF success, failure, strike
<1>5. QED  BY <1>3, <1>4 DEF Record

\* A new record has the type of a record, whether or not it replaces another.
LEMMA NewRecordTyped ==
  ASSUME TypeOK, NEW t \in Trajectories, NEW old \in Ids \cup {NoId}
  PROVE  NewRecord(t, old) \in Record
<1>1. old \in Nat  BY RecordOfIndex
<1>2. QED  BY <1>1 DEF NewRecord, Record, Status, TypeOK

\* A provider opened on an empty directory has its types.
LEMMA InitTyped == Init => TypeOK
  BY MemoryConfig DEF Init, TypeOK, NoRead

\* Every call of the provider, every step of one, and every crash and restart keeps
\* the types: type correctness is inductive on its own.
LEMMA NextTyped ==
  ASSUME TypeOK, [Next]_vars
  PROVE  TypeOK'
<1> USE DEF providerVars, history
<1>1. CASE StartTask
  BY <1>1 DEF StartTask, TypeOK, NoRead
<1>2. CASE ReadForSubtask
  <2> PICK risky \in SUBSET {i \in Active : Risky(index[i])},
           id \in {i \in Active : ~Risky(index[i])} \cup {NoId} :
         \E mutate \in MutationChoices(id) :
           BuildActorMemory(risky, id, mutate) /\ eventId' = id
    BY <1>2 DEF ReadForSubtask
  <2> PICK mutate \in MutationChoices(id) :
         BuildActorMemory(risky, id, mutate) /\ eventId' = id
    OBVIOUS
  <2>1. mutate \in BOOLEAN  BY DEF MutationChoices
  <2>2. risky \in SUBSET Active /\ id \in Active \cup {NoId}  OBVIOUS
  <2>3. id \in Ids \cup {NoId}  BY DEF Active
  <2>4. QED
    BY <1>2, <2>1, <2>2, <2>3, ReadTyped
    DEF ReadForSubtask, BuildActorMemory, TypeOK
<1>3. CASE ReadForRetry
  <2> PICK risky \in SUBSET {i \in Active : Risky(index[i])},
           id \in {i \in Active : ~Risky(index[i])} \cup {NoId} :
         \E mutate \in MutationChoices(id) : BuildActorMemory(risky, id, mutate)
    BY <1>3 DEF ReadForRetry
  <2> PICK mutate \in MutationChoices(id) : BuildActorMemory(risky, id, mutate)
    OBVIOUS
  <2>1. mutate \in BOOLEAN  BY DEF MutationChoices
  <2>2. risky \in SUBSET Active /\ id \in Active \cup {NoId}  OBVIOUS
  <2>3. QED
    BY <1>3, <2>1, <2>2, ReadTyped DEF ReadForRetry, BuildActorMemory, TypeOK
<1>4. ASSUME NEW kind \in EventKinds, NEW verified \in BOOLEAN,
             RecordSubtaskEvent(kind, verified)
      PROVE  TypeOK'
  <2>1. index' \in Seq(Record) /\ Ids' = Ids
    <3>1. CASE eventId \in Ids
      <4>1. Feedback(index[eventId], ExtractEventSuccess(kind, verified)) \in Record
        BY <3>1, RecordOfIndex, FeedbackTyped
      <4>2. QED  BY <1>4, <3>1, <4>1, ExceptSeq DEF RecordSubtaskEvent, TypeOK
    <3>2. CASE eventId \notin Ids
      BY <1>4, <3>2 DEF RecordSubtaskEvent, TypeOK
    <3>3. QED  BY <3>1, <3>2
  <2>2. QED  BY <1>4, <2>1 DEF RecordSubtaskEvent, TypeOK
<1>5. ASSUME NEW t \in Trajectories, AddMemory(t)
      PROVE  TypeOK'
  <2>1. NewRecord(t, NoId) \in Record  BY NewRecordTyped
  <2>2. index' \in Seq(Record) /\ Ids \subseteq Ids'
    BY <1>5, <2>1 DEF AddMemory, TypeOK
  <2>3. QED  BY <1>5, <2>2 DEF AddMemory, StoreDone, TypeOK
<1>6. ASSUME NEW t \in Trajectories, ReplaceMemory(t)
      PROVE  TypeOK'
  <2> DEFINE old == lastRead.id
             retired == [index EXCEPT ![old] = Superseded(@, Len(index) + 1)]
  <2>1. old \in Ids  BY <1>6 DEF ReplaceMemory, Replaces
  <2>2. NewRecord(t, old) \in Record  BY <2>1, NewRecordTyped
  <2>3. retired \in Seq(Record) /\ DOMAIN retired = Ids
    <3>1. index[old] \in Record /\ Len(index) + 1 \in Nat
      BY <2>1, RecordOfIndex DEF TypeOK
    <3>2. Superseded(index[old], Len(index) + 1) \in Record
      BY <3>1, SupersededTyped
    <3>3. QED  BY <2>1, <3>2, ExceptSeq DEF TypeOK
  <2>4. index' \in Seq(Record) /\ Ids \subseteq Ids'
    <3> HIDE DEF retired
    <3>1. index' = Append(retired, NewRecord(t, old))
      BY <1>6 DEF ReplaceMemory, retired
    <3>2. QED  BY <2>2, <2>3, <3>1
  <2>5. QED  BY <1>6, <2>4 DEF ReplaceMemory, StoreDone, TypeOK
<1>7. CASE SkipTrajectory
  BY <1>7 DEF SkipTrajectory, StoreDone, TypeOK
<1>8. ASSUME NEW success \in BOOLEAN, EndTask(success)
      PROVE  TypeOK'
  BY <1>8 DEF EndTask, TypeOK
<1>9. ASSUME NEW i \in pending, BlameMemory(i)
      PROVE  TypeOK'
  <2>1. i \in Ids  BY DEF TypeOK
  <2>2. Blamed(index[i]) \in Record  BY <2>1, RecordOfIndex, BlamedTyped
  <2>3. index' \in Seq(Record) /\ Ids' = Ids
    BY <1>9, <2>1, <2>2, ExceptSeq DEF BlameMemory, TypeOK
  <2>4. QED  BY <1>9, <2>3 DEF BlameMemory, TypeOK
<1>10. CASE ForgetTask
  BY <1>10 DEF ForgetTask, TypeOK, NoRead
<1>11. CASE PruneNotDue
  BY <1>11 DEF PruneNotDue, CallReturns, TypeOK
<1>12. CASE PruneSelect
  <2> PICK val \in [Active -> SurvivalValues] :
        /\ capacityMin' = ExpandedCapacity(Active, val, capacityMin)
        /\ victims' = SelectPrunable(Active, index, val, logicalStep, capacityMin')
    BY <1>12 DEF PruneSelect
  <2>1. capacityMin' \in Nat  BY ExpandedCapacityNat DEF TypeOK
  <2>2. victims' \subseteq Ids  BY SelectPrunableSubset DEF Active
  <2>3. QED  BY <1>12, <2>1, <2>2 DEF PruneSelect, TypeOK
<1>13. ASSUME NEW i \in victims, PruneMark(i)
       PROVE  TypeOK'
  <2>1. i \in Ids  BY DEF TypeOK
  <2>2. Marked(index[i], "PRUNED") \in Record
    BY <2>1, RecordOfIndex, MarkedTyped DEF Status
  <2>3. index' \in Seq(Record) /\ Ids' = Ids
    BY <1>13, <2>1, <2>2, ExceptSeq DEF PruneMark, TypeOK
  <2>4. QED  BY <1>13, <2>3 DEF PruneMark, TypeOK
<1>14. CASE PruneDone
  BY <1>14 DEF PruneDone, CallReturns, TypeOK
<1>15. CASE AbortTask
  BY <1>15 DEF AbortTask, TypeOK
<1>16. CASE RestartProcess
  BY <1>16, MemoryConfig DEF RestartProcess, TypeOK, NoRead
<1>17. CASE UNCHANGED vars
  BY <1>17 DEF vars, TypeOK
<1>18. QED
  BY <1>1, <1>2, <1>3, <1>4, <1>5, <1>6, <1>7, <1>8, <1>9, <1>10, <1>11, <1>12,
     <1>13, <1>14, <1>15, <1>16, <1>17 DEF Next, ProviderStep

\* The provider, its index and the history always have their types, and every id
\* the provider holds names a record of the index.
THEOREM TypeCorrect == Spec => []TypeOK
<1>1. QED  BY InitTyped, NextTyped, PTL DEF Spec

-----------------------------------------------------------------------------
(***************************************************************************)
(* What a step may do to the records already on file, and to the index.    *)
(***************************************************************************)

\* What a record says of its origin.
SameOrigin(r, s) ==
  s.traj = r.traj /\ s.created = r.created /\ s.born = r.born

\* No update of a record touches its origin, and only marking it PRUNED makes it
\* so.
LEMMA UpdatesKeepOrigin ==
  ASSUME NEW r \in Record
  PROVE  /\ \A status \in Status :
              SameOrigin(r, Marked(r, status)) /\ Marked(r, status).status = status
         /\ \A outcome :
              /\ SameOrigin(r, Feedback(r, outcome))
              /\ Feedback(r, outcome).status = r.status
         /\ SameOrigin(r, Blamed(r)) /\ Blamed(r).status = r.status
         /\ \A by : /\ SameOrigin(r, Superseded(r, by))
                    /\ Superseded(r, by).status = "REPLACED"
  BY DEF SameOrigin, Marked, Feedback, Blamed, Superseded, Record

\* The records on file before a step are there after it, with their origin; the one
\* record a step may add is that of a storable trajectory, learned now.
OldRecordsKept ==
  /\ Ids \subseteq Ids'
  /\ \A i \in Ids :
       /\ SameOrigin(index[i], index'[i])
       /\ index'[i].status = "PRUNED" =>
            index[i].status = "PRUNED" \/ (phase = "pruning" /\ i \in victims)

NewRecordsFresh ==
  \A i \in Ids' \ Ids :
    /\ i = Len(index) + 1
    /\ index'[i].created = logicalStep /\ index'[i].born = clock
    /\ index'[i].status = "ACTIVE"
    /\ \A j \in Ids : index[j].traj # index'[i].traj
    /\ UNCHANGED <<clock, logicalStep>>

LEMMA IndexStep ==
  ASSUME TypeOK, [Next]_vars
  PROVE  OldRecordsKept /\ NewRecordsFresh
<1> USE DEF providerVars, history
<1>1. ASSUME UNCHANGED index
      PROVE  OldRecordsKept /\ NewRecordsFresh
  BY <1>1 DEF OldRecordsKept, NewRecordsFresh, SameOrigin
<1>2. ASSUME NEW risky \in SUBSET Active, NEW id, NEW mutate,
             BuildActorMemory(risky, id, mutate)
      PROVE  OldRecordsKept /\ NewRecordsFresh
  <2>1. DOMAIN index' = Ids  BY <1>2 DEF BuildActorMemory
  <2>2. ASSUME NEW i \in Ids
        PROVE  SameOrigin(index[i], index'[i])
               /\ (index'[i].status = "PRUNED" => index[i].status = "PRUNED")
    <3>1. index'[i] = IF i \in risky THEN Marked(index[i], "RISKY") ELSE index[i]
      BY <1>2 DEF BuildActorMemory
    <3>2. index[i] \in Record /\ "RISKY" \in Status
      BY RecordOfIndex DEF Status
    <3>3. QED  BY <3>1, <3>2, UpdatesKeepOrigin DEF SameOrigin
  <2>3. QED  BY <2>1, <2>2 DEF OldRecordsKept, NewRecordsFresh
<1>3. ASSUME NEW i \in Ids, NEW r,
             index' = [index EXCEPT ![i] = r],
             SameOrigin(index[i], r),
             r.status = "PRUNED" =>
               index[i].status = "PRUNED" \/ (phase = "pruning" /\ i \in victims)
      PROVE  OldRecordsKept /\ NewRecordsFresh
  <2>1. DOMAIN index' = Ids  BY <1>3
  <2>2. \A j \in Ids : index'[j] = IF j = i THEN r ELSE index[j]  BY <1>3
  <2>3. QED
    BY <1>3, <2>1, <2>2 DEF OldRecordsKept, NewRecordsFresh, SameOrigin
<1>4. CASE ReadForSubtask
  BY <1>2, <1>4 DEF ReadForSubtask
<1>5. CASE ReadForRetry
  BY <1>2, <1>5 DEF ReadForRetry
<1>6. ASSUME NEW kind \in EventKinds, NEW verified \in BOOLEAN,
             RecordSubtaskEvent(kind, verified)
      PROVE  OldRecordsKept /\ NewRecordsFresh
  <2>1. CASE eventId \notin Ids
    BY <1>1, <1>6, <2>1 DEF RecordSubtaskEvent
  <2>2. CASE eventId \in Ids
    <3> DEFINE r == Feedback(index[eventId], ExtractEventSuccess(kind, verified))
    <3>1. SameOrigin(index[eventId], r) /\ r.status = index[eventId].status
      BY <2>2, RecordOfIndex, UpdatesKeepOrigin
    <3>2. index' = [index EXCEPT ![eventId] = r]
      BY <1>6, <2>2 DEF RecordSubtaskEvent
    <3> HIDE DEF r
    <3>3. QED  BY <1>3, <2>2, <3>1, <3>2
  <2>3. QED  BY <2>1, <2>2
<1>7. ASSUME NEW t \in Trajectories, AddMemory(t)
      PROVE  OldRecordsKept /\ NewRecordsFresh
  <2> DEFINE r == NewRecord(t, NoId)
  <2>1. /\ r.traj = t /\ r.created = logicalStep /\ r.born = clock
        /\ r.status = "ACTIVE"
    BY DEF NewRecord
  <2>2. index' = Append(index, r)  BY <1>7 DEF AddMemory
  <2> HIDE DEF r
  <2>3. /\ Ids' = Ids \cup {Len(index) + 1}
        /\ \A i \in Ids : index'[i] = index[i]
        /\ index'[Len(index) + 1] = r
    BY <2>2 DEF TypeOK
  <2>4. QED
    BY <1>7, <2>1, <2>3
    DEF OldRecordsKept, NewRecordsFresh, SameOrigin, AddMemory, StoreDone, Storable
<1>8. ASSUME NEW t \in Trajectories, ReplaceMemory(t)
      PROVE  OldRecordsKept /\ NewRecordsFresh
  <2> DEFINE old == lastRead.id
             r == NewRecord(t, old)
             q == Superseded(index[old], Len(index) + 1)
             retired == [index EXCEPT ![old] = q]
  <2>1. /\ r.traj = t /\ r.created = logicalStep /\ r.born = clock
        /\ r.status = "ACTIVE"
    BY DEF NewRecord
  <2>2. old \in Ids  BY <1>8 DEF ReplaceMemory, Replaces
  <2>3. SameOrigin(index[old], q) /\ q.status = "REPLACED"
    BY <2>2, RecordOfIndex, UpdatesKeepOrigin
  <2>4. index' = Append(retired, r)  BY <1>8 DEF ReplaceMemory
  <2>5. q \in Record  BY <2>2, RecordOfIndex, SupersededTyped DEF TypeOK
  <2> HIDE DEF r, q
  <2>6. retired \in Seq(Record) /\ Len(retired) = Len(index) /\ DOMAIN retired = Ids
    BY <2>2, <2>5, ExceptSeq DEF TypeOK
  <2>7. \A i \in Ids : retired[i] = IF i = old THEN q ELSE index[i]
    BY DEF TypeOK
  <2> HIDE DEF retired
  <2>8. /\ Ids' = Ids \cup {Len(index) + 1}
        /\ \A i \in Ids : index'[i] = IF i = old THEN q ELSE index[i]
        /\ index'[Len(index) + 1] = r
    BY <2>4, <2>6, <2>7 DEF TypeOK
  <2>9. QED
    BY <1>8, <2>1, <2>3, <2>8
    DEF OldRecordsKept, NewRecordsFresh, SameOrigin, ReplaceMemory, StoreDone,
        Storable
<1>9. ASSUME NEW i \in pending, BlameMemory(i)
      PROVE  OldRecordsKept /\ NewRecordsFresh
  <2>1. i \in Ids  BY DEF TypeOK
  <2>2. index' = [index EXCEPT ![i] = Blamed(index[i])]
    BY <1>9 DEF BlameMemory
  <2>3. QED  BY <1>3, <2>1, <2>2, RecordOfIndex, UpdatesKeepOrigin
<1>10. ASSUME NEW i \in victims, PruneMark(i)
       PROVE  OldRecordsKept /\ NewRecordsFresh
  <2>1. i \in Ids  BY DEF TypeOK
  <2>2. index' = [index EXCEPT ![i] = Marked(index[i], "PRUNED")]
    BY <1>10 DEF PruneMark
  <2>3. SameOrigin(index[i], Marked(index[i], "PRUNED"))
    BY <2>1, RecordOfIndex, UpdatesKeepOrigin DEF Status
  <2>4. QED  BY <1>3, <1>10, <2>1, <2>2, <2>3 DEF PruneMark
<1>11. CASE UNCHANGED index
  BY <1>1, <1>11
<1>12. StartTask \/ SkipTrajectory \/ (\E success \in BOOLEAN : EndTask(success))
         \/ ForgetTask \/ PruneNotDue \/ PruneSelect \/ PruneDone \/ AbortTask
         \/ RestartProcess \/ UNCHANGED vars
       => UNCHANGED index
  BY DEF StartTask, SkipTrajectory, EndTask, ForgetTask, PruneNotDue, PruneSelect,
         PruneDone, CallReturns, AbortTask, RestartProcess, vars
<1>13. QED
  BY <1>4, <1>5, <1>6, <1>7, <1>8, <1>9, <1>10, <1>11, <1>12
  DEF Next, ProviderStep

-----------------------------------------------------------------------------
\* A step stores no trajectory that is on file already.
LEMMA TwinStep ==
  ASSUME TypeOK, NoTwinTrajectories, [Next]_vars
  PROVE  NoTwinTrajectories'
<1>1. OldRecordsKept /\ NewRecordsFresh  BY IndexStep
<1>2. SUFFICES ASSUME NEW i \in Ids', NEW j \in Ids',
                      index'[i].traj = index'[j].traj
               PROVE  i = j
  BY DEF NoTwinTrajectories
<1>3. CASE i \in Ids /\ j \in Ids
  BY <1>1, <1>2, <1>3 DEF OldRecordsKept, SameOrigin, NoTwinTrajectories
<1>4. CASE i \notin Ids /\ j \notin Ids
  BY <1>1, <1>4 DEF NewRecordsFresh
<1>5. CASE i \in Ids /\ j \notin Ids
  BY <1>1, <1>2, <1>5 DEF OldRecordsKept, NewRecordsFresh, SameOrigin
<1>6. CASE i \notin Ids /\ j \in Ids
  BY <1>1, <1>2, <1>6 DEF OldRecordsKept, NewRecordsFresh, SameOrigin
<1>7. QED  BY <1>3, <1>4, <1>5, <1>6

\* No trajectory is ever stored twice, by any number of processes on the same
\* directory, whatever becomes of its first record.
THEOREM NoTwins == Spec => []NoTwinTrajectories
<1>1. Init => NoTwinTrajectories  BY DEF Init, NoTwinTrajectories
<1>2. TypeOK /\ NoTwinTrajectories /\ [Next]_vars => NoTwinTrajectories'
  BY TwinStep
<1>3. QED  BY <1>1, <1>2, TypeCorrect, PTL DEF Spec

-----------------------------------------------------------------------------
(***************************************************************************)
(* Protection of the young.  The age the pruner computes never exceeds the *)
(* number of events since the memory was learned: a restart of the logical *)
(* step only makes memories look younger than they are.                    *)
(***************************************************************************)
AgesHonest ==
  /\ \A i \in Ids :
       /\ index[i].born <= clock
       /\ logicalStep - index[i].created <= clock - index[i].born
  /\ \A i \in victims :
       ProtectRecent > 0 => clock - index[i].born > ProtectRecent

\* Time passes for the provider's clock and for the history alike, and victims are
\* chosen among the memories old enough.
LEMMA AgeStep ==
  ASSUME TypeOK, AgesHonest, [Next]_vars
  PROVE  AgesHonest'
<1> USE DEF providerVars, history
<1>1. OldRecordsKept /\ NewRecordsFresh  BY IndexStep
<1>2. TypeOK'  BY NextTyped
<1>3. \A i \in Ids : index[i].created \in Nat /\ index[i].born \in Nat
  BY RecordOfIndex DEF Record
<1>4. \A i \in Ids' : index'[i].created \in Nat /\ index'[i].born \in Nat
  <2>1. \A i \in Ids' : index'[i] \in Record  BY <1>2 DEF TypeOK
  <2>2. QED  BY <2>1 DEF Record
<1>5. \/ UNCHANGED <<logicalStep, clock>>
      \/ logicalStep' = logicalStep + 1 /\ clock' = clock + 1
      \/ logicalStep' = 0 /\ UNCHANGED clock /\ UNCHANGED index
  BY DEF Next, ProviderStep, vars, StartTask, ReadForSubtask, ReadForRetry,
         BuildActorMemory, RecordSubtaskEvent, AddMemory, ReplaceMemory,
         SkipTrajectory, StoreDone, EndTask, BlameMemory, ForgetTask, PruneNotDue,
         PruneSelect, PruneMark, PruneDone, CallReturns, AbortTask, RestartProcess
<1>6. \A i \in Ids' : /\ index'[i].born <= clock'
                      /\ logicalStep' - index'[i].created <= clock' - index'[i].born
  <2> TAKE i \in Ids'
  <2>1. logicalStep \in Nat /\ clock \in Nat  BY DEF TypeOK
  <2>2. CASE i \in Ids
    <3>1. /\ index'[i].created = index[i].created
          /\ index'[i].born = index[i].born
      BY <1>1, <2>2 DEF OldRecordsKept, SameOrigin
    <3>2. /\ index[i].born <= clock
          /\ logicalStep - index[i].created <= clock - index[i].born
      BY <2>2 DEF AgesHonest
    <3>3. QED  BY <1>3, <1>5, <2>1, <2>2, <3>1, <3>2
  <2>3. CASE i \notin Ids
    BY <1>1, <1>4, <2>1, <2>3 DEF NewRecordsFresh
  <2>4. QED  BY <2>2, <2>3
<1>7. clock' >= clock /\ clock \in Nat /\ clock' \in Nat
  BY <1>2, <1>5 DEF TypeOK
<1>8. ASSUME ~PruneSelect
      PROVE  victims' \subseteq victims
  BY <1>8 DEF Next, ProviderStep, vars, StartTask, ReadForSubtask, ReadForRetry,
         BuildActorMemory, RecordSubtaskEvent, AddMemory, ReplaceMemory,
         SkipTrajectory, StoreDone, EndTask, BlameMemory, ForgetTask, PruneNotDue,
         PruneMark, PruneDone, CallReturns, AbortTask, RestartProcess
<1>9. ASSUME ProtectRecent > 0, NEW i \in victims'
      PROVE  clock' - index'[i].born > ProtectRecent
  <2>1. CASE ~PruneSelect
    <3>1. i \in victims /\ i \in Ids  BY <1>8, <2>1, <1>9 DEF TypeOK
    <3>2. index'[i].born = index[i].born
      BY <1>1, <3>1 DEF OldRecordsKept, SameOrigin
    <3>3. clock - index[i].born > ProtectRecent
      BY <1>9, <3>1 DEF AgesHonest
    <3>4. QED  BY <1>3, <1>7, <3>1, <3>2, <3>3, PruningConfig
  <2>2. CASE PruneSelect
    <3> PICK val \in [Active -> SurvivalValues] :
          victims' = SelectPrunable(Active, index, val, logicalStep, capacityMin')
      BY <2>2 DEF PruneSelect
    <3>1. i \in Active \ Protected(Active, index, logicalStep)
      BY <1>9, SelectPrunableSubset
    <3>2. i \in Ids /\ ~(logicalStep - index[i].created <= ProtectRecent)
      BY <1>9, <3>1 DEF Protected, Active
    <3>3. /\ logicalStep - index[i].created <= clock - index[i].born
          /\ logicalStep \in Nat /\ clock \in Nat
      BY <3>2 DEF AgesHonest, TypeOK
    <3>4. index' = index /\ clock' = clock  BY <2>2 DEF PruneSelect
    <3>5. QED  BY <1>3, <3>2, <3>3, <3>4, PruningConfig
  <2>3. QED  BY <2>1, <2>2
<1>10. QED  BY <1>6, <1>9 DEF AgesHonest

\* A memory is never pruned within protect_recent_steps events of being learned,
\* however often the process, and with it the logical step, starts again.
THEOREM YoungSurvive == Spec => YoungSurvivePruning
<1>1. Init => AgesHonest  BY DEF Init, AgesHonest
<1>2. TypeOK /\ AgesHonest /\ [Next]_vars => AgesHonest'
  BY AgeStep
<1>3. TypeOK /\ AgesHonest /\ [Next]_vars =>
        [\A i \in Ids :
           ProtectRecent > 0
             /\ index[i].status = "ACTIVE" /\ index'[i].status = "PRUNED" =>
             clock - index[i].born > ProtectRecent]_vars
  <2> SUFFICES ASSUME TypeOK, AgesHonest, [Next]_vars, NEW i \in Ids,
                      ProtectRecent > 0,
                      index[i].status = "ACTIVE", index'[i].status = "PRUNED"
               PROVE  clock - index[i].born > ProtectRecent
    OBVIOUS
  <2>1. i \in victims  BY IndexStep DEF OldRecordsKept
  <2>2. QED  BY <2>1 DEF AgesHonest
<1>4. QED  BY <1>1, <1>2, <1>3, TypeCorrect, PTL DEF Spec, YoungSurvivePruning

-----------------------------------------------------------------------------
(***************************************************************************)
(* The end of a pruning pass.  While the pass marks its victims one by     *)
(* one, the pool without them is already what the pass is to leave.        *)
(***************************************************************************)
IndexBounded == Len(index) <= MaxRecords

Remaining == Active \ victims

Settled ==
  phase = "pruning" /\ PassNotCut =>
    /\ \A i \in Remaining : Aged(i) /\ StrikeLimit > 0 => index[i].strike < StrikeLimit
    /\ \/ Cardinality(Remaining) <= capacityMin
       \/ \A i \in Remaining : ~Aged(i)

LEMMA BoundStep ==
  ASSUME TypeOK, IndexBounded, [Next]_vars
  PROVE  IndexBounded'
<1>1. TypeOK' /\ NewRecordsFresh  BY NextTyped, IndexStep
<1>2. Ids' = 1..Len(index') /\ Len(index') \in Nat /\ Len(index) \in Nat
  BY <1>1 DEF TypeOK
<1>3. CASE Len(index) < MaxRecords
  <2>1. Ids = 1..Len(index)  BY DEF TypeOK
  <2>2. CASE Len(index') > Len(index)
    <3>1. Len(index') \in Ids' \ Ids  BY <1>2, <2>1, <2>2
    <3>2. Len(index') = Len(index) + 1  BY <1>1, <3>1 DEF NewRecordsFresh
    <3>3. QED  BY <1>2, <1>3, <3>2, MemoryConfig DEF IndexBounded
  <2>3. CASE Len(index') <= Len(index)
    BY <1>2, <2>3, MemoryConfig DEF IndexBounded
  <2>4. QED  BY <1>2, <2>2, <2>3
<1>4. CASE ~(Len(index) < MaxRecords)
  <2>1. DOMAIN index' = DOMAIN index
    BY <1>4 DEF Next, ProviderStep, vars, StartTask, ReadForSubtask, ReadForRetry,
         BuildActorMemory, RecordSubtaskEvent, AddMemory, ReplaceMemory,
         SkipTrajectory, StoreDone, EndTask, BlameMemory, ForgetTask, PruneNotDue,
         PruneSelect, PruneMark, PruneDone, CallReturns, AbortTask, RestartProcess
  <2>2. Len(index') = Len(index)  BY <1>1, <2>1 DEF TypeOK
  <2>3. QED  BY <2>2 DEF IndexBounded
<1>5. QED  BY <1>3, <1>4

\* The pass selects by what is on file when it begins.
LEMMA SelectSettles ==
  ASSUME TypeOK, IndexBounded, PruneSelect
  PROVE  Settled'
<1> SUFFICES ASSUME PassNotCut PROVE Settled'
  BY DEF Settled, PassNotCut
<1> PICK val \in [Active -> SurvivalValues] :
      /\ capacityMin' = ExpandedCapacity(Active, val, capacityMin)
      /\ victims' = SelectPrunable(Active, index, val, logicalStep, capacityMin')
  BY DEF PruneSelect
<1>1. capacityMin' \in Nat  BY ExpandedCapacityNat DEF TypeOK
<1>2. /\ Active \subseteq 1..Len(index) /\ Len(index) \in Nat
      /\ IsFiniteSet(1..Len(index)) /\ Cardinality(1..Len(index)) = Len(index)
  <2>1. Len(index) \in Nat /\ DOMAIN index = 1..Len(index)  BY DEF TypeOK
  <2>2. QED  BY <2>1, FS_Interval DEF Active
<1>3. /\ IsFiniteSet(Active) /\ Cardinality(Active) <= Len(index)
      /\ Cardinality(Active) \in Nat
  BY <1>2, FS_Subset, FS_CardinalityType
<1>4. Sortable(Active, val)
  <2>1. Active \in SUBSET Nat  BY <1>2
  <2>2. \A i \in Active : val[i] \in Nat  BY MemoryConfig
  <2>3. QED  BY <1>3, <2>1, <2>2 DEF Sortable
<1>5. MaxPrunePerRun = 0 \/ Cardinality(Active) <= MaxPrunePerRun
  BY <1>2, <1>3, MemoryConfig, PruningConfig DEF PassNotCut, IndexBounded
<1> DEFINE left == Active \ victims'
           safe == Protected(Active, index, logicalStep)
<1>6. /\ \A i \in left \ safe : ~HardRule(index, i)
      /\ Cardinality(left) <= capacityMin' \/ left \subseteq safe
  BY <1>1, <1>4, <1>5, UncutPass
<1>7. UNCHANGED <<index, logicalStep>> /\ Remaining' = left
  BY DEF PruneSelect, Remaining, Active
<1>8. \A i \in Active : i \in safe <=> ~Aged(i)
  <2>1. ASSUME NEW i \in Active
        PROVE  logicalStep - index[i].created \in Int
    <3>1. index[i] \in Record /\ logicalStep \in Nat
      BY RecordOfIndex DEF Active, TypeOK
    <3>2. index[i].created \in Nat  BY <3>1 DEF Record
    <3>3. QED  BY <3>1, <3>2
  <2>2. QED  BY <2>1, PruningConfig DEF Protected, Aged
<1>9. \A i \in Active : index[i].strike \in Nat
  BY RecordOfIndex DEF Active, Record
<1>10. \A i \in left : Aged(i) /\ StrikeLimit > 0 => index[i].strike < StrikeLimit
  BY <1>6, <1>8, <1>9, PruningConfig DEF HardRule
<1>11. Cardinality(left) <= capacityMin' \/ \A i \in left : ~Aged(i)
  BY <1>6, <1>8
<1> HIDE DEF left
<1>12. QED  BY <1>7, <1>10, <1>11 DEF Settled, Aged

\* Marking a victim takes it out of the pool and of the victims alike.
LEMMA MarkSettles ==
  ASSUME TypeOK, Settled, NEW i \in victims, PruneMark(i)
  PROVE  Settled'
<1>1. /\ index' = [index EXCEPT ![i] = Marked(index[i], "PRUNED")]
      /\ victims' = victims \ {i}
      /\ UNCHANGED <<phase, logicalStep, capacityMin>>
  BY DEF PruneMark, providerVars
<1>2. Marked(index[i], "PRUNED").status = "PRUNED"
  BY UpdatesKeepOrigin, RecordOfIndex DEF Status, TypeOK
<1>3. Remaining' = Remaining
  BY <1>1, <1>2 DEF Remaining, Active, TypeOK
<1>4. \A j \in Remaining : index'[j] = index[j]
  BY <1>1 DEF Remaining, Active
<1>5. PassNotCut' = PassNotCut  BY DEF PassNotCut
<1>6. QED  BY <1>1, <1>3, <1>4, <1>5 DEF Settled, Aged

LEMMA SettledInvariant == Spec => [](TypeOK /\ IndexBounded /\ Settled)
<1>1. Init => IndexBounded /\ Settled
  BY MemoryConfig DEF Init, IndexBounded, Settled
<1>2. TypeOK /\ IndexBounded /\ Settled /\ [Next]_vars => Settled'
  <2> SUFFICES ASSUME TypeOK, IndexBounded, Settled, [Next]_vars
               PROVE  Settled'
    OBVIOUS
  <2>1. CASE PruneSelect  BY <2>1, SelectSettles
  <2>2. CASE \E i \in victims : PruneMark(i)  BY <2>2, MarkSettles
  <2>3. CASE UNCHANGED vars
    BY <2>3 DEF vars, providerVars, Settled, Remaining, Active, Aged, PassNotCut
  <2>4. CASE ~PruneSelect /\ ~(\E i \in victims : PruneMark(i)) /\ ~UNCHANGED vars
    <3>1. phase' # "pruning"
      BY <2>4 DEF Next, ProviderStep, StartTask, ReadForSubtask, ReadForRetry,
         BuildActorMemory, RecordSubtaskEvent, AddMemory, ReplaceMemory,
         SkipTrajectory, StoreDone, EndTask, BlameMemory, ForgetTask, PruneNotDue,
         PruneDone, CallReturns, AbortTask, RestartProcess, TypeOK
    <3>2. QED  BY <3>1 DEF Settled
  <2>5. QED  BY <2>1, <2>2, <2>3, <2>4
<1>3. QED  BY <1>1, <1>2, BoundStep, TypeCorrect, PTL DEF Spec

\* When a pass that no budget cuts is over, no memory at strike_limit is in service
\* unless it is recent, for every pool, value and limit (select_prunable_records).
THEOREM StruckOutLeave == Spec => []StruckOutPruned
<1>1. Settled => StruckOutPruned
  BY DEF Settled, StruckOutPruned, PassFinished, Remaining
<1>2. QED  BY <1>1, SettledInvariant, PTL

\* When it is over, the pool fits the soft capacity or is all recent
\* (_select_capacity_pruning_decisions).
THEOREM CapacityIsRestored == Spec => []CapacityRestored
<1>1. Settled => CapacityRestored
  <2> SUFFICES ASSUME Settled, PassFinished, PassNotCut
               PROVE  Cardinality(Active) <= capacityMin \/ \A i \in Active : ~Aged(i)
    BY DEF CapacityRestored
  <2>1. Remaining = Active /\ phase = "pruning"  BY DEF Remaining, PassFinished
  <2>2. QED  BY <2>1 DEF Settled
<1>2. QED  BY <1>1, SettledInvariant, PTL
=============================================================================
