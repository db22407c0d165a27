------------------------ MODULE DMSMemoryPoolProofs -------------------------
(***************************************************************************)
(* The memory provider implements MemoryLifecycle, its replacement records *)
(* form chains, the failures a memory is charged with are bounded by the   *)
(* failed tasks and events it can have caused, only memories read in the   *)
(* task are charged, its calls are short, and what the violated properties *)
(* need to hold is exactly what the code lacks, for every value of the     *)
(* constants.                                                              *)
(***************************************************************************)
EXTENDS DMSMemoryProofs

USE DEF Ids, NoId

(***************************************************************************)
(* The life of the pool.  What makes replacement chains sound is that the  *)
(* memory a new one may replace is the one of the last read, which was     *)
(* active then and can since only have been pruned: another replacement    *)
(* would have needed another read.  What makes pruning sound is that       *)
(* nothing happens to a memory between its selection and its marking.      *)
(***************************************************************************)

\* The last read is the one the trajectory to store may belong to.
ReadCurrent ==
  \/ phase \in {"acting", "retrying", "store"}
  \/ phase \in {"check", "pruning"} /\ resume = "store"

InService ==
  /\ \A i \in victims : index[i].status = "ACTIVE"
  /\ phase # "pruning" => victims = {}
  /\ ReadCurrent /\ lastRead.id # NoId =>
       index[lastRead.id].status \in {"ACTIVE", "PRUNED"}

SameLinks(r, s) ==
  /\ s.traj = r.traj
  /\ s.replacedBy = r.replacedBy
  /\ s.replacementOf = r.replacementOf

\* The memories of S, all of them active, leave the service.
Retired(S, why) ==
  /\ Ids' = Ids
  /\ S \subseteq Active
  /\ \A i \in Ids : /\ SameLinks(index[i], index'[i])
                    /\ index'[i].status = IF i \in S THEN why ELSE index[i].status

\* A new memory is on file; it took the place of old, or of none.
Learned(old) ==
  LET n == Len(index) + 1 IN
  /\ n \in Nat \ {0} /\ n \notin Ids /\ Ids' = Ids \cup {n}
  /\ index'[n].status = "ACTIVE"
  /\ index'[n].replacedBy = NoId
  /\ index'[n].replacementOf = old
  /\ \A i \in Ids \ {old} : index'[i] = index[i]
  /\ \A i \in Ids : i < n
  /\ old # NoId =>
       /\ old \in Ids
       /\ index[old].status \in {"ACTIVE", "PRUNED"}
       /\ index'[old].status = "REPLACED"
       /\ index'[old].replacedBy = n
       /\ index'[old].replacementOf = index[old].replacementOf
       /\ index'[old].traj = index[old].traj
       /\ ReplaceOnlyIfShorter => Length[index'[n].traj] < Length[index[old].traj]

\* The updates of a record do not touch its links, except the one meant to.
LEMMA UpdatesKeepLinks ==
  ASSUME NEW r \in Record
  PROVE  /\ \A status \in Status :
              SameLinks(r, Marked(r, status)) /\ Marked(r, status).status = status
         /\ \A outcome :
              /\ SameLinks(r, Feedback(r, outcome))
              /\ Feedback(r, outcome).status = r.status
         /\ SameLinks(r, Blamed(r)) /\ Blamed(r).status = r.status
         /\ \A by \in Nat : /\ Superseded(r, by).status = "REPLACED"
                            /\ Superseded(r, by).replacedBy = by
                            /\ Superseded(r, by).replacementOf = r.replacementOf
                            /\ Superseded(r, by).traj = r.traj
  BY DEF SameLinks, Marked, Feedback, Blamed, Superseded, Record

\* Every step retires active memories (none, one that is pruned, or some found
\* risky) or files a new one.
LEMMA PoolStep ==
  ASSUME TypeOK, InService, [Next]_vars
  PROVE  \/ Retired({}, "PRUNED")
         \/ phase = "pruning" /\ \E i \in Active : Retired({i}, "PRUNED")
         \/ \E S \in SUBSET {i \in Active : Risky(index[i])} : Retired(S, "RISKY")
         \/ phase = "store" /\ \E old \in Ids \cup {NoId} : Learned(old)
<1> USE DEF providerVars, history
<1>1. ASSUME UNCHANGED index
      PROVE  Retired({}, "PRUNED")
  BY <1>1 DEF Retired, SameLinks
<1>2. ASSUME NEW i \in Ids, NEW r, NEW S \in SUBSET {i}, NEW why,
             index' = [index EXCEPT ![i] = r],
             SameLinks(index[i], r), S \subseteq Active,
             r.status = IF i \in S THEN why ELSE index[i].status
      PROVE  Retired(S, why)
  <2>1. DOMAIN index' = Ids  BY <1>2
  <2>2. \A j \in Ids : index'[j] = IF j = i THEN r ELSE index[j]  BY <1>2
  <2>3. QED  BY <1>2, <2>1, <2>2 DEF Retired, SameLinks
<1>3. ASSUME NEW i \in Ids, NEW r, index' = [index EXCEPT ![i] = r],
              SameLinks(index[i], r), r.status = index[i].status
       PROVE  Retired({}, "PRUNED")
  <2> DEFINE none == {}
  <2>1. none \in SUBSET {i} /\ none \subseteq Active  OBVIOUS
  <2>2. r.status = IF i \in none THEN "PRUNED" ELSE index[i].status
    BY <1>3
  <2> HIDE DEF none
  <2>3. Retired(none, "PRUNED")  BY <1>2, <1>3, <2>1, <2>2
  <2>4. QED  BY <2>3 DEF none
<1>4. ASSUME NEW risky \in SUBSET {i \in Active : Risky(index[i])},
             NEW id, NEW mutate, BuildActorMemory(risky, id, mutate)
      PROVE  Retired(risky, "RISKY")
  <2>1. DOMAIN index' = Ids  BY <1>4 DEF BuildActorMemory
  <2>2. ASSUME NEW i \in Ids
        PROVE  /\ SameLinks(index[i], index'[i])
               /\ index'[i].status =
                    IF i \in risky THEN "RISKY" ELSE index[i].status
    <3>1. index'[i] = IF i \in risky THEN Marked(index[i], "RISKY") ELSE index[i]
      BY <1>4 DEF BuildActorMemory
    <3>2. index[i] \in Record /\ "RISKY" \in Status
      BY RecordOfIndex DEF Status
    <3>3. QED  BY <3>1, <3>2, UpdatesKeepLinks DEF SameLinks
  <2>3. QED  BY <2>1, <2>2 DEF Retired
<1>5. CASE ReadForSubtask
  BY <1>4, <1>5 DEF ReadForSubtask
<1>6. CASE ReadForRetry
  BY <1>4, <1>6 DEF ReadForRetry
<1>7. ASSUME NEW kind \in EventKinds, NEW verified \in BOOLEAN,
             RecordSubtaskEvent(kind, verified)
      PROVE  Retired({}, "PRUNED")
  <2>1. CASE eventId \notin Ids
    BY <1>1, <1>7, <2>1 DEF RecordSubtaskEvent
  <2>2. CASE eventId \in Ids
    <3> DEFINE r == Feedback(index[eventId], ExtractEventSuccess(kind, verified))
    <3>1. SameLinks(index[eventId], r) /\ r.status = index[eventId].status
      BY <2>2, RecordOfIndex, UpdatesKeepLinks
    <3>2. index' = [index EXCEPT ![eventId] = r]
      BY <1>7, <2>2 DEF RecordSubtaskEvent
    <3> HIDE DEF r
    <3>3. QED  BY <1>3, <2>2, <3>1, <3>2
  <2>3. QED  BY <2>1, <2>2
<1>8. ASSUME NEW t \in Trajectories, AddMemory(t)
      PROVE  phase = "store" /\ Learned(NoId)
  <2> DEFINE r == NewRecord(t, NoId)
  <2>1. r.status = "ACTIVE" /\ r.replacedBy = NoId /\ r.replacementOf = NoId
    BY DEF NewRecord
  <2>2. index' = Append(index, r)  BY <1>8 DEF AddMemory
  <2> HIDE DEF r
  <2>3. /\ Ids' = Ids \cup {Len(index) + 1}
        /\ Len(index) + 1 \in Nat \ {0}
        /\ \A i \in Ids : index'[i] = index[i] /\ i < Len(index) + 1
        /\ index'[Len(index) + 1] = r
    BY <2>2 DEF TypeOK
  <2>4. QED  BY <1>8, <2>1, <2>3 DEF Learned, AddMemory
<1>9. ASSUME NEW t \in Trajectories, ReplaceMemory(t)
      PROVE  phase = "store" /\ \E old \in Ids : Learned(old)
  <2> DEFINE old == lastRead.id
             n == Len(index) + 1
             r == NewRecord(t, old)
             q == Superseded(index[old], n)
             retired == [index EXCEPT ![old] = q]
  <2>1. /\ r.status = "ACTIVE" /\ r.replacedBy = NoId
        /\ r.replacementOf = old /\ r.traj = t
    BY DEF NewRecord
  <2>2. old \in Ids /\ old # NoId
    <3>1. old \in Ids  BY <1>9 DEF ReplaceMemory, Replaces
    <3>2. QED  BY <3>1, RecordOfIndex
  <2>3. n \in Nat \ {0}  BY DEF TypeOK
  <2>4. /\ q.status = "REPLACED" /\ q.replacedBy = n /\ q.traj = index[old].traj
        /\ q.replacementOf = index[old].replacementOf
    BY <2>2, <2>3, RecordOfIndex, UpdatesKeepLinks
  <2>5. index' = Append(retired, r)  BY <1>9 DEF ReplaceMemory
  <2>6. q \in Record  BY <2>2, <2>3, RecordOfIndex, SupersededTyped
  <2>7. phase = "store" /\ (ReplaceOnlyIfShorter => Length[t] < Length[index[old].traj])
    BY <1>9 DEF ReplaceMemory, Replaces
  <2>8. index[old].status \in {"ACTIVE", "PRUNED"}
    BY <2>2, <2>7 DEF InService, ReadCurrent
  <2> HIDE DEF r, q
  <2>9. retired \in Seq(Record) /\ Len(retired) = Len(index) /\ DOMAIN retired = Ids
    BY <2>2, <2>6, ExceptSeq DEF TypeOK
  <2>10. \A i \in Ids : retired[i] = IF i = old THEN q ELSE index[i]
    BY DEF TypeOK
  <2> HIDE DEF retired
  <2>11. /\ Ids' = Ids \cup {n} /\ n \notin Ids
         /\ \A i \in Ids : i < n /\ index'[i] = IF i = old THEN q ELSE index[i]
         /\ index'[n] = r
    BY <2>5, <2>9, <2>10 DEF TypeOK
  <2> HIDE DEF old, n
  <2>12. Learned(old)
    BY <2>1, <2>2, <2>3, <2>4, <2>7, <2>8, <2>11 DEF Learned, n
  <2>13. QED  BY <2>2, <2>7, <2>12
<1>10. ASSUME NEW i \in pending, BlameMemory(i)
      PROVE  Retired({}, "PRUNED")
  <2>1. i \in Ids  BY DEF TypeOK
  <2>2. index' = [index EXCEPT ![i] = Blamed(index[i])]
    BY <1>10 DEF BlameMemory
  <2>3. SameLinks(index[i], Blamed(index[i]))
        /\ Blamed(index[i]).status = index[i].status
    BY <2>1, RecordOfIndex, UpdatesKeepLinks
  <2>4. QED  BY <1>3, <2>1, <2>2, <2>3
<1>11. ASSUME NEW i \in victims, PruneMark(i)
       PROVE  phase = "pruning" /\ i \in Active /\ Retired({i}, "PRUNED")
  <2>1. i \in Ids /\ i \in Active  BY DEF TypeOK, InService, Active
  <2>2. index' = [index EXCEPT ![i] = Marked(index[i], "PRUNED")]
    BY <1>11 DEF PruneMark
  <2>3. /\ SameLinks(index[i], Marked(index[i], "PRUNED"))
        /\ Marked(index[i], "PRUNED").status = "PRUNED"
    BY <2>1, RecordOfIndex, UpdatesKeepLinks DEF Status
  <2>4. Retired({i}, "PRUNED")  BY <1>2, <2>1, <2>2, <2>3
  <2>5. QED  BY <1>11, <2>1, <2>4 DEF PruneMark
<1>12. CASE UNCHANGED index
  BY <1>1, <1>12
<1>13. StartTask \/ SkipTrajectory \/ (\E success \in BOOLEAN : EndTask(success))
         \/ ForgetTask \/ PruneNotDue \/ PruneSelect \/ PruneDone \/ AbortTask
         \/ RestartProcess \/ UNCHANGED vars
       => UNCHANGED index
  BY DEF StartTask, SkipTrajectory, EndTask, ForgetTask, PruneNotDue, PruneSelect,
         PruneDone, CallReturns, AbortTask, RestartProcess, vars
<1>14. QED
  BY <1>5, <1>6, <1>7, <1>8, <1>9, <1>10, <1>11, <1>12, <1>13
  DEF Next, ProviderStep

\* The last read's memory can only be pruned before its trajectory is stored, and
\* the victims of a pass are left alone until they are marked.
LEMMA ServiceStep ==
  ASSUME TypeOK, InService, [Next]_vars
  PROVE  InService'
<1> USE DEF providerVars, history
<1>1. ASSUME NEW risky \in SUBSET {i \in Active : Risky(index[i])},
             NEW id \in {i \in Active : ~Risky(index[i])} \cup {NoId}, NEW mutate,
             BuildActorMemory(risky, id, mutate), phase \in {"ready", "acting"}
      PROVE  InService'
  <2>1. id # NoId => /\ id \in Ids /\ id \notin risky
                     /\ index[id].status = "ACTIVE"
    BY DEF Active
  <2>2. lastRead'.id = id  BY <1>1 DEF BuildActorMemory, ReadResult
  <2>3. id # NoId => index'[id].status = "ACTIVE"
    BY <1>1, <2>1 DEF BuildActorMemory
  <2>4. victims' = {}  BY <1>1 DEF BuildActorMemory, InService
  <2>5. QED  BY <2>2, <2>3, <2>4 DEF InService
<1>2. CASE StartTask
  BY <1>2 DEF StartTask, InService, ReadCurrent
<1>3. CASE ReadForSubtask
  BY <1>1, <1>3 DEF ReadForSubtask
<1>4. CASE ReadForRetry
  BY <1>1, <1>4 DEF ReadForRetry
<1>5. ASSUME NEW kind \in EventKinds, NEW verified \in BOOLEAN,
             RecordSubtaskEvent(kind, verified)
      PROVE  InService'
  <2>1. \A i \in Ids : index'[i].status = index[i].status
    <3>1. CASE eventId \notin Ids
      BY <1>5, <3>1 DEF RecordSubtaskEvent
    <3>2. CASE eventId \in Ids
      <4> DEFINE r == Feedback(index[eventId], ExtractEventSuccess(kind, verified))
      <4>1. r.status = index[eventId].status
        BY <3>2, RecordOfIndex, UpdatesKeepLinks
      <4>2. index' = [index EXCEPT ![eventId] = r]
        BY <1>5, <3>2 DEF RecordSubtaskEvent
      <4> HIDE DEF r
      <4>3. QED  BY <3>2, <4>1, <4>2
    <3>3. QED  BY <3>1, <3>2
  <2>2. lastRead.id \in Ids \cup {NoId}  BY DEF TypeOK
  <2>3. victims' = {}  BY <1>5 DEF RecordSubtaskEvent, InService
  <2>4. QED
    BY <1>5, <2>1, <2>2, <2>3 DEF RecordSubtaskEvent, InService, ReadCurrent
<1>6. ASSUME NEW t \in Trajectories, AddMemory(t) \/ ReplaceMemory(t)
      PROVE  InService'
  BY <1>6 DEF AddMemory, ReplaceMemory, StoreDone, InService, ReadCurrent
<1>7. CASE SkipTrajectory
  BY <1>7 DEF SkipTrajectory, StoreDone, InService, ReadCurrent
<1>8. ASSUME NEW success \in BOOLEAN, EndTask(success)
      PROVE  InService'
  BY <1>8 DEF EndTask, InService, ReadCurrent
<1>9. ASSUME NEW i \in pending, BlameMemory(i)
      PROVE  InService'
  BY <1>9 DEF BlameMemory, InService, ReadCurrent
<1>10. CASE ForgetTask
  BY <1>10 DEF ForgetTask, InService, ReadCurrent
<1>11. CASE PruneNotDue
  BY <1>11 DEF PruneNotDue, CallReturns, InService, ReadCurrent, TypeOK
<1>12. CASE PruneSelect
  <2>1. \A i \in victims' : index[i].status = "ACTIVE"
    BY <1>12, SelectPrunableSubset DEF PruneSelect, Active
  <2>2. QED  BY <1>12, <2>1 DEF PruneSelect, InService, ReadCurrent
<1>13. ASSUME NEW i \in victims, PruneMark(i)
       PROVE  InService'
  <2>1. i \in Ids /\ lastRead.id \in Ids \cup {NoId}  BY DEF TypeOK
  <2>2. index' = [index EXCEPT ![i] = Marked(index[i], "PRUNED")]
    BY <1>13 DEF PruneMark
  <2>3. Marked(index[i], "PRUNED").status = "PRUNED"
    BY <2>1, RecordOfIndex, UpdatesKeepLinks DEF Status
  <2>4. \A j \in Ids : index'[j].status = IF j = i THEN "PRUNED" ELSE index[j].status
    BY <2>1, <2>2, <2>3
  <2>5. \A j \in victims' : j \in Ids /\ j # i /\ j \in victims
    BY <1>13 DEF PruneMark, TypeOK
  <2>6. \A j \in victims' : index'[j].status = "ACTIVE"
    BY <2>4, <2>5 DEF InService
  <2>7. QED
    BY <1>13, <2>1, <2>4, <2>6 DEF PruneMark, InService, ReadCurrent
<1>14. CASE PruneDone
  BY <1>14 DEF PruneDone, CallReturns, InService, ReadCurrent, TypeOK
<1>15. CASE AbortTask
  BY <1>15 DEF AbortTask, InService, ReadCurrent
<1>16. CASE RestartProcess
  BY <1>16 DEF RestartProcess, InService, ReadCurrent
<1>17. CASE UNCHANGED vars
  BY <1>17 DEF vars, InService, ReadCurrent
<1>18. QED
  BY <1>2, <1>3, <1>4, <1>5, <1>6, <1>7, <1>8, <1>9, <1>10, <1>11, <1>12, <1>13,
     <1>14, <1>15, <1>16, <1>17 DEF Next, ProviderStep

\* Hence, in every reachable state.
LEMMA ServiceInvariant == Spec => [](TypeOK /\ InService)
<1>1. Init => InService  BY DEF Init, InService, NoRead
<1>2. TypeOK /\ InService /\ [Next]_vars => InService'  BY ServiceStep
<1>3. QED  BY <1>1, <1>2, TypeCorrect, PTL DEF Spec

\* Retiring a memory leaves the chains alone, and filing a new one extends a chain
\* at its end or begins one.
LEMMA ChainStep ==
  ASSUME TypeOK, InService, ReplacementChains, [Next]_vars
  PROVE  ReplacementChains'
<1>1. ASSUME NEW S, NEW why \in {"PRUNED", "RISKY"}, Retired(S, why)
      PROVE  ReplacementChains'
  <2>1. \A i \in Ids : index'[i].status = "REPLACED" <=> index[i].status = "REPLACED"
    BY <1>1 DEF Retired, Active
  <2>2. Ids' = Ids /\ \A i \in Ids : SameLinks(index[i], index'[i])
    BY <1>1 DEF Retired
  <2>3. QED  BY <2>1, <2>2 DEF ReplacementChains, SameLinks
<1>2. ASSUME NEW old \in Ids \cup {NoId}, Learned(old)
      PROVE  ReplacementChains'
  <2> DEFINE n == Len(index) + 1
  <2>1. /\ n \in Nat \ {0} /\ n \notin Ids /\ Ids' = Ids \cup {n}
        /\ index'[n].status = "ACTIVE" /\ index'[n].replacedBy = NoId
        /\ index'[n].replacementOf = old
        /\ \A i \in Ids \ {old} : index'[i] = index[i]
        /\ \A i \in Ids : i < n
    BY <1>2 DEF Learned
  <2>2. old # NoId =>
          /\ old \in Ids
          /\ index[old].status \in {"ACTIVE", "PRUNED"}
          /\ index'[old].status = "REPLACED"
          /\ index'[old].replacedBy = n
          /\ index'[old].replacementOf = index[old].replacementOf
          /\ index'[old].traj = index[old].traj
          /\ ReplaceOnlyIfShorter =>
               Length[index'[n].traj] < Length[index[old].traj]
    BY <1>2 DEF Learned
  <2>3. \A i \in Ids : i \in Nat /\ i # NoId  BY RecordOfIndex
  <2> HIDE DEF n
  <2>4. \A i \in Ids : /\ index'[i].traj = index[i].traj
                       /\ index'[i].replacementOf = index[i].replacementOf
    <3> TAKE i \in Ids
    <3>1. CASE i = old  BY <2>2, <2>3, <3>1
    <3>2. CASE i # old  BY <2>1, <3>2
    <3>3. QED  BY <3>1, <3>2
  <2>5. old # NoId => index[old].replacedBy = NoId
    BY <2>2 DEF ReplacementChains
  <2> SUFFICES ASSUME NEW i \in Ids'
               PROVE  /\ index'[i].status = "REPLACED" <=> index'[i].replacedBy # NoId
                      /\ index'[i].replacedBy # NoId =>
                           /\ index'[i].replacedBy \in Ids'
                           /\ index'[i].replacedBy > i
                           /\ index'[index'[i].replacedBy].replacementOf = i
                      /\ index'[i].replacementOf # NoId =>
                           /\ index'[i].replacementOf \in Ids'
                           /\ index'[i].replacementOf < i
                           /\ index'[index'[i].replacementOf].replacedBy = i
                           /\ ReplaceOnlyIfShorter =>
                                Length[index'[i].traj] <
                                  Length[index'[index'[i].replacementOf].traj]
    BY DEF ReplacementChains
  <2>6. CASE i = n
    <3>1. index'[i].status = "ACTIVE" /\ index'[i].replacedBy = NoId
      BY <2>1, <2>6
    <3>2. index'[i].replacementOf = old  BY <2>1, <2>6
    <3>3. old # NoId =>
            /\ old \in Ids' /\ old < i
            /\ index'[old].replacedBy = i
            /\ ReplaceOnlyIfShorter =>
                 Length[index'[i].traj] < Length[index'[old].traj]
      BY <2>1, <2>2, <2>6
    <3>4. QED  BY <3>1, <3>2, <3>3
  <2>7. CASE i \in Ids /\ i = old
    <3>1. index[i].replacementOf # NoId =>
            /\ index[i].replacementOf \in Ids
            /\ index[i].replacementOf < i
            /\ index[index[i].replacementOf].replacedBy = i
            /\ ReplaceOnlyIfShorter =>
                 Length[index[i].traj] < Length[index[index[i].replacementOf].traj]
      BY <2>7 DEF ReplacementChains
    <3>2. index[i].replacementOf # NoId => index[i].replacementOf # old
      BY <2>3, <2>7, <3>1
    <3>3. QED  BY <2>1, <2>2, <2>3, <2>4, <2>7, <3>1, <3>2
  <2>8. CASE i \in Ids /\ i # old
    <3>1. index'[i] = index[i]  BY <2>1, <2>8
    <3>2. index[i].replacementOf # NoId => index[i].replacementOf # old
      BY <2>3, <2>5, <2>8 DEF ReplacementChains
    <3>3. index[i].status = "REPLACED" <=> index[i].replacedBy # NoId
      BY <2>8 DEF ReplacementChains
    <3>4. index[i].replacedBy # NoId =>
            /\ index[i].replacedBy \in Ids
            /\ index[i].replacedBy > i
            /\ index[index[i].replacedBy].replacementOf = i
      BY <2>8 DEF ReplacementChains
    <3>5. index[i].replacementOf # NoId =>
            /\ index[i].replacementOf \in Ids
            /\ index[i].replacementOf < i
            /\ index[index[i].replacementOf].replacedBy = i
            /\ ReplaceOnlyIfShorter =>
                 Length[index[i].traj] < Length[index[index[i].replacementOf].traj]
      BY <2>8 DEF ReplacementChains
    <3>6. QED  BY <2>1, <2>4, <3>1, <3>2, <3>3, <3>4, <3>5
  <2>9. QED  BY <2>1, <2>6, <2>7, <2>8
<1>3. QED  BY <1>1, <1>2, PoolStep

\* Replacement records form chains for any number of memories, tasks and processes,
\* although last_read_result outlives the replacement it triggered.
THEOREM ChainsHold == Spec => []ReplacementChains
<1>1. Init => ReplacementChains  BY DEF Init, ReplacementChains
<1>2. TypeOK /\ InService /\ ReplacementChains /\ [Next]_vars => ReplacementChains'
  BY ChainStep
<1>3. QED  BY <1>1, <1>2, ServiceInvariant, PTL DEF Spec

-----------------------------------------------------------------------------
(***************************************************************************)
(* The refinement: the index, seen as a pool of memories, lives as         *)
(* MemoryLifecycle says.                                                   *)
(***************************************************************************)
View == [i \in Ids |-> [status |-> index[i].status,
                        successor |-> index[i].replacedBy]]

\* The view of an index is a pool of the same size.
LEMMA ViewIsSeq ==
  ASSUME TypeOK
  PROVE  /\ Len(index) \in Nat
         /\ Ids = 1..Len(index)
         /\ View \in Seq([status : Status, successor : Nat])
         /\ Len(View) = Len(index)
         /\ DOMAIN View = Ids
<1>1. Ids = 1..Len(index) /\ Len(index) \in Nat  BY DEF TypeOK
<1>2. \A i \in Ids : index[i].status \in Status /\ index[i].replacedBy \in Nat
  BY RecordOfIndex DEF Record
<1>3. View \in [1..Len(index) -> [status : Status, successor : Nat]]
  BY <1>1, <1>2 DEF View
<1>4. QED  BY <1>1, <1>3 DEF View

\* A sequence that agrees with another and has one more element.
LEMMA AppendFromValues ==
  ASSUME NEW T, NEW s \in Seq(T), NEW e \in T, NEW t \in [1..(Len(s) + 1) -> T],
         \A i \in 1..Len(s) : t[i] = s[i], t[Len(s) + 1] = e
  PROVE  t = Append(s, e)
<1>1. t \in Seq(T) /\ Len(t) = Len(s) + 1
  OBVIOUS
<1>2. Append(s, e) \in Seq(T) /\ Len(Append(s, e)) = Len(s) + 1
  BY AppendProperties
<1>3. \A i \in 1..Len(t) : t[i] = Append(s, e)[i]
  BY <1>1, AppendProperties
<1>4. QED  BY <1>1, <1>2, <1>3, SeqEqual

\* Memories leaving the service are one step of the pool.
LEMMA RetireSimulated ==
  ASSUME TypeOK, NEW S, NEW why, Retired(S, why)
  PROVE  Pool!Retire(S, why)
<1>1. /\ Ids' = Ids /\ S \subseteq Active
      /\ \A i \in Ids :
           /\ index'[i].replacedBy = index[i].replacedBy
           /\ index'[i].status = IF i \in S THEN why ELSE index[i].status
  BY DEF Retired, SameLinks
<1>2. \A i \in S : View[i].status = "ACTIVE"  BY <1>1 DEF View, Active
<1>3. View' = [i \in DOMAIN View |->
                 IF i \in S THEN [View[i] EXCEPT !.status = why] ELSE View[i]]
  <2>1. View' = [i \in Ids |-> [status |-> index'[i].status,
                                successor |-> index'[i].replacedBy]]
    BY <1>1 DEF View
  <2>2. \A i \in Ids :
          [status |-> index'[i].status, successor |-> index'[i].replacedBy] =
            IF i \in S THEN [View[i] EXCEPT !.status = why] ELSE View[i]
    BY <1>1 DEF View
  <2>3. DOMAIN View = Ids  BY DEF View
  <2>4. QED  BY <2>1, <2>2, <2>3
<1>4. QED  BY <1>2, <1>3 DEF Pool!Retire, View

\* So is filing a new memory, which supersedes at most one.
LEMMA LearnSimulated ==
  ASSUME TypeOK, TypeOK', NEW old \in Ids \cup {NoId}, Learned(old)
  PROVE  IF old = NoId THEN Pool!Learn ELSE Pool!Supersede(old)
<1> DEFINE n == Len(index) + 1
           Row == [status : Status, successor : Nat]
           fresh == [status |-> "ACTIVE", successor |-> 0]
<1>1. /\ n \in Nat \ {0} /\ n \notin Ids /\ Ids' = Ids \cup {n}
      /\ index'[n].status = "ACTIVE" /\ index'[n].replacedBy = NoId
      /\ \A i \in Ids \ {old} : index'[i] = index[i]
      /\ old # NoId =>
           /\ old \in Ids
           /\ index[old].status \in {"ACTIVE", "PRUNED"}
           /\ index'[old].status = "REPLACED"
           /\ index'[old].replacedBy = n
  BY DEF Learned
<1>2. /\ View \in Seq(Row)
      /\ Len(View) = Len(index) /\ DOMAIN View = Ids /\ Ids = 1..Len(index)
      /\ Len(index) \in Nat
  BY ViewIsSeq
<1>3. View' = [i \in Ids \cup {n} |-> [status |-> index'[i].status,
                                       successor |-> index'[i].replacedBy]]
  BY <1>1 DEF View
<1>4. View'[n] = fresh
  BY <1>1, <1>3
<1>5. \A i \in Ids \ {old} : View'[i] = View[i]
  BY <1>1, <1>3 DEF View
<1>6. View' \in [1..(Len(index) + 1) -> Row]
  <2>1. \A i \in Ids' : index'[i].status \in Status /\ index'[i].replacedBy \in Nat
    <3>1. \A i \in Ids' : index'[i] \in Record  BY DEF TypeOK
    <3>2. QED  BY <3>1 DEF Record
  <2>2. Ids' = 1..(Len(index) + 1)  BY <1>1, <1>2
  <2>3. QED  BY <1>1, <1>3, <2>1, <2>2
<1>7. fresh \in Row  BY DEF Status
<1> HIDE DEF Row
<1>8. CASE old = NoId
  <2>1. old \notin Ids  BY <1>2, <1>8
  <2>2. View' = Append(View, fresh)
    <3>1. View' \in [1..(Len(View) + 1) -> Row]  BY <1>2, <1>6
    <3>2. \A i \in 1..Len(View) : View'[i] = View[i]  BY <1>2, <1>5, <2>1
    <3>3. View'[Len(View) + 1] = fresh  BY <1>2, <1>4
    <3>4. QED  BY <1>2, <1>7, <3>1, <3>2, <3>3, AppendFromValues
  <2>3. QED  BY <1>8, <2>2 DEF Pool!Learn, Pool!NewMemory, Pool!None, View
<1>9. CASE old # NoId
  <2> DEFINE gone == [status |-> "REPLACED", successor |-> n]
             rest == [View EXCEPT ![old] = gone]
  <2>1. View'[old] = gone  BY <1>1, <1>3, <1>9
  <2>2. rest \in Seq(Row) /\ Len(rest) = Len(index)
    <3>1. gone \in Row  BY <1>1 DEF Status, Row
    <3>2. QED  BY <1>1, <1>2, <1>9, <3>1, ExceptSeq
  <2>3. \A i \in Ids : rest[i] = View'[i]
    BY <1>2, <1>5, <2>1
  <2>4. View' = Append(rest, fresh)
    <3> HIDE DEF rest, gone
    <3>1. View' \in [1..(Len(rest) + 1) -> Row]  BY <1>2, <1>6, <2>2
    <3>2. \A i \in 1..Len(rest) : View'[i] = rest[i]  BY <1>2, <2>2, <2>3
    <3>3. View'[Len(rest) + 1] = fresh  BY <1>2, <1>4, <2>2
    <3>4. QED  BY <1>7, <2>2, <3>1, <3>2, <3>3, AppendFromValues
  <2>5. View[old].status \in {"ACTIVE", "PRUNED"}
    BY <1>1, <1>9 DEF View
  <2>6. QED
    BY <1>2, <1>9, <2>4, <2>5 DEF Pool!Supersede, Pool!NewMemory, Pool!None, View
<1>10. QED  BY <1>8, <1>9

\* The index lives as MemoryLifecycle says, whatever the number of memories and
\* processes: nobody deletes a memory, revives one, or supersedes one twice.
THEOREM LifecycleImplemented == Spec => LifecycleSpec
<1>1. Init => Pool!Init
  <2> SUFFICES ASSUME Init
               PROVE  Pool!Init
    OBVIOUS
  <2>1. View = << >>  BY DEF Init, View
  <2>2. View \in Seq([status : Pool!Status, successor : {Pool!None}])
    BY <2>1
  <2>3. QED  BY <2>2 DEF Pool!Init, View
<1>2. ASSUME TypeOK, TypeOK', InService, [Next]_vars
      PROVE  Pool!Next \/ UNCHANGED View
  <2>1. CASE Retired({}, "PRUNED")
    <3>1. \A i \in Ids : /\ index'[i].status = index[i].status
                         /\ index'[i].replacedBy = index[i].replacedBy
      BY <2>1 DEF Retired, SameLinks
    <3>2. Ids' = Ids  BY <2>1 DEF Retired
    <3>3. QED  BY <3>1, <3>2 DEF View
  <2>2. ASSUME NEW i \in Active, Retired({i}, "PRUNED")
        PROVE  Pool!Next
    <3>1. Pool!Retire({i}, "PRUNED")  BY <1>2, <2>2, RetireSimulated
    <3>2. i \in DOMAIN View  BY DEF View, Active
    <3>3. QED  BY <3>1, <3>2 DEF Pool!Next, View
  <2>3. ASSUME NEW S \in SUBSET Active, Retired(S, "RISKY")
        PROVE  Pool!Next
    <3>1. Pool!Retire(S, "RISKY")  BY <1>2, <2>3, RetireSimulated
    <3>2. S \in SUBSET DOMAIN View  BY DEF View, Active
    <3>3. QED  BY <3>1, <3>2 DEF Pool!Next, View
  <2>4. ASSUME NEW old \in Ids \cup {NoId}, Learned(old)
        PROVE  Pool!Next
    <3>1. IF old = NoId THEN Pool!Learn ELSE Pool!Supersede(old)
      BY <1>2, <2>4, LearnSimulated
    <3>2. old # NoId => old \in DOMAIN View  BY DEF View
    <3>3. QED  BY <3>1, <3>2 DEF Pool!Next, View
  <2>5. QED  BY <1>2, <2>1, <2>2, <2>3, <2>4, PoolStep
<1>3. TypeOK /\ TypeOK' /\ InService /\ [Next]_vars => [Pool!Next]_View
  BY <1>2
<1>4. QED
  BY <1>1, <1>3, ServiceInvariant, PTL DEF Spec, LifecycleSpec, Pool!Spec, View

-----------------------------------------------------------------------------
(***************************************************************************)
(* Blame.  Each failed task may charge a memory once, each subtask event   *)
(* of the "bool" shape once; a memory still pending in finalize_task has   *)
(* not been charged for the task that is being finalized.                  *)
(***************************************************************************)
Events(r, now) == IF "bool" \in EventKinds THEN now - r.born ELSE 0

Accounted(r, tasks, now) ==
  r.strike <= r.failure /\ r.failure <= tasks + Events(r, now)

BlameOpen ==
  /\ \A i \in Ids : index[i].born <= clock
                    /\ Accounted(index[i], failedTasks, clock)
  /\ \A i \in pending : Accounted(index[i], failedTasks - 1, clock)
  /\ phase # "blaming" => pending = {}

\* What each update does to the counters of a record.
LEMMA UpdatesOfCounters ==
  ASSUME NEW r \in Record
  PROVE  /\ \A status : /\ Marked(r, status).failure = r.failure
                        /\ Marked(r, status).strike = r.strike
         /\ \A by : /\ Superseded(r, by).failure = r.failure
                    /\ Superseded(r, by).strike = r.strike
         /\ Blamed(r).failure = r.failure + 1
         /\ Blamed(r).strike = r.strike + 1
         /\ \A outcome :
              /\ Feedback(r, outcome).failure =
                   IF outcome = "failure" THEN r.failure + 1 ELSE r.failure
              /\ Feedback(r, outcome).strike =
                   IF outcome = "success" THEN Max({0, r.strike - 1})
                   ELSE IF outcome = "failure" THEN r.strike + 1 ELSE r.strike
  BY DEF Marked, Feedback, Blamed, Superseded, Record

\* Feedback on an event moves the counters by at most that event's share.
LEMMA FeedbackAccounted ==
  ASSUME NEW r \in Record, NEW tasks \in Nat, NEW now \in Nat, r.born <= now,
         Accounted(r, tasks, now),
         NEW kind \in EventKinds, NEW verified \in BOOLEAN
  PROVE  Accounted(Feedback(r, ExtractEventSuccess(kind, verified)), tasks, now + 1)
<1> DEFINE outcome == ExtractEventSuccess(kind, verified)
           q == Feedback(r, outcome)
<1>1. r.strike \in Nat /\ r.failure \in Nat /\ r.born \in Nat  BY DEF Record
<1>2. q.born = r.born  BY UpdatesKeepOrigin DEF SameOrigin
<1>3. outcome \in {"success", "failure"} => "bool" \in EventKinds
  BY MemoryConfig DEF ExtractEventSuccess
<1>4. outcome = "failure" => q.failure = r.failure + 1 /\ q.strike = r.strike + 1
  BY UpdatesOfCounters
<1>5. outcome # "failure" => q.failure = r.failure  BY UpdatesOfCounters
<1>6. outcome # "failure" => q.strike <= r.strike
  <2>1. CASE outcome = "success"
    <3>1. q.strike = Max({0, r.strike - 1})  BY <2>1, UpdatesOfCounters
    <3>2. Max({0, r.strike - 1}) <= r.strike  BY <1>1, StrikeOff
    <3>3. QED  BY <3>1, <3>2
  <2>2. CASE outcome # "success"
    <3>1. outcome # "failure" => q.strike = r.strike
      BY <2>2, UpdatesOfCounters
    <3>2. QED  BY <1>1, <3>1
  <2>3. QED  BY <2>1, <2>2
<1>7. Accounted(r, tasks, now)  OBVIOUS
<1>8. q.strike \in Int
  <2>1. q \in Record  BY FeedbackTyped
  <2>2. QED  BY <2>1 DEF Record
<1> HIDE DEF q, outcome
<1>9. Accounted(q, tasks, now + 1)
  BY <1>1, <1>2, <1>3, <1>4, <1>5, <1>6, <1>7, <1>8 DEF Accounted, Events
<1>10. QED  BY <1>9 DEF q, outcome

\* No step charges a memory beyond its account.
LEMMA BlameStep ==
  ASSUME TypeOK, BlameOpen, [Next]_vars
  PROVE  BlameOpen'
<1> USE DEF providerVars, history
<1>1. \A i \in Ids : /\ index[i].strike \in Nat /\ index[i].failure \in Nat
                     /\ index[i].born \in Nat
  BY RecordOfIndex DEF Record
<1>2. failedTasks \in Nat /\ clock \in Nat  BY DEF TypeOK
<1>3. ASSUME Ids' = Ids,
             \A i \in Ids : /\ index'[i].born = index[i].born
                            /\ index'[i].strike = index[i].strike
                            /\ index'[i].failure = index[i].failure,
             pending' = {} \/ (pending' = pending /\ (phase' = "blaming" \/ phase' = phase)),
             UNCHANGED <<clock, failedTasks>>
      PROVE  BlameOpen'
  BY <1>3 DEF BlameOpen, Accounted, Events, TypeOK
<1>4. ASSUME UNCHANGED <<index, clock, failedTasks>>,
             pending' = {} \/ (pending' = pending /\ (phase' = "blaming" \/ phase' = phase))
      PROVE  BlameOpen'
  BY <1>3, <1>4
<1>5. phase # "blaming" => pending = {}  BY DEF BlameOpen
<1>6. ASSUME NEW risky, NEW id, NEW mutate, BuildActorMemory(risky, id, mutate),
             phase \in {"ready", "acting"}
      PROVE  BlameOpen'
  <2>1. Ids' = Ids  BY <1>6 DEF BuildActorMemory
  <2>2. \A i \in Ids : /\ index'[i].born = index[i].born
                       /\ index'[i].strike = index[i].strike
                       /\ index'[i].failure = index[i].failure
    <3> TAKE i \in Ids
    <3>1. index'[i] = IF i \in risky THEN Marked(index[i], "RISKY") ELSE index[i]
      BY <1>6 DEF BuildActorMemory
    <3>2. index[i] \in Record /\ "RISKY" \in Status  BY RecordOfIndex DEF Status
    <3>3. SameOrigin(index[i], Marked(index[i], "RISKY"))
      BY <3>2, UpdatesKeepOrigin
    <3>4. /\ Marked(index[i], "RISKY").failure = index[i].failure
          /\ Marked(index[i], "RISKY").strike = index[i].strike
      BY <3>2, UpdatesOfCounters
    <3>5. QED  BY <3>1, <3>3, <3>4 DEF SameOrigin
  <2>3. pending' = {}  BY <1>5, <1>6 DEF BuildActorMemory
  <2>4. QED  BY <1>3, <1>6, <2>1, <2>2, <2>3 DEF BuildActorMemory
<1>7. CASE ReadForSubtask \/ ReadForRetry
  BY <1>6, <1>7 DEF ReadForSubtask, ReadForRetry
<1>8. ASSUME NEW kind \in EventKinds, NEW verified \in BOOLEAN,
             RecordSubtaskEvent(kind, verified)
      PROVE  BlameOpen'
  <2>1. clock' = clock + 1 /\ failedTasks' = failedTasks /\ pending' = {}
    BY <1>5, <1>8 DEF RecordSubtaskEvent
  <2> DEFINE r == Feedback(index[eventId], ExtractEventSuccess(kind, verified))
  <2>2. \A i \in Ids : Accounted(index[i], failedTasks, clock')
    BY <1>1, <1>2, <2>1 DEF BlameOpen, Accounted, Events
  <2>3. eventId \in Ids => Accounted(r, failedTasks, clock')
                           /\ r.born = index[eventId].born
    <3> SUFFICES ASSUME eventId \in Ids
                 PROVE  /\ Accounted(r, failedTasks, clock + 1)
                        /\ r.born = index[eventId].born
      BY <2>1
    <3>1. index[eventId] \in Record  BY RecordOfIndex
    <3>2. QED
      BY <1>2, <3>1, FeedbackAccounted, UpdatesKeepOrigin DEF BlameOpen, SameOrigin
  <2>4. index' = IF eventId \in Ids THEN [index EXCEPT ![eventId] = r] ELSE index
    BY <1>8 DEF RecordSubtaskEvent
  <2> HIDE DEF r
  <2>5. Ids' = Ids
        /\ \A i \in Ids : index'[i] = IF i = eventId THEN r ELSE index[i]
    BY <2>4
  <2>6. \A i \in Ids : index'[i].born <= clock'
                       /\ Accounted(index'[i], failedTasks, clock')
    <3> TAKE i \in Ids
    <3>1. index[i].born <= clock  BY DEF BlameOpen
    <3>2. CASE i = eventId  BY <1>1, <1>2, <2>1, <2>3, <2>5, <3>1, <3>2
    <3>3. CASE i # eventId  BY <1>1, <1>2, <2>1, <2>2, <2>5, <3>1, <3>3
    <3>4. QED  BY <3>2, <3>3
  <2>7. QED  BY <2>1, <2>5, <2>6 DEF BlameOpen
<1>9. ASSUME NEW t \in Trajectories, AddMemory(t) \/ ReplaceMemory(t)
      PROVE  BlameOpen'
  <2>1. /\ pending' = {} /\ UNCHANGED <<clock, failedTasks>>
    BY <1>5, <1>9 DEF AddMemory, ReplaceMemory, StoreDone
  <2>2. \A i \in Ids : /\ i \in Ids' /\ index'[i].born = index[i].born
                       /\ index'[i].strike = index[i].strike
                       /\ index'[i].failure = index[i].failure
    <3>1. CASE AddMemory(t)
      BY <3>1 DEF AddMemory, TypeOK
    <3>2. CASE ReplaceMemory(t)
      <4> DEFINE q == Superseded(index[lastRead.id], Len(index) + 1)
                 retired == [index EXCEPT ![lastRead.id] = q]
      <4>1. lastRead.id \in Ids  BY <3>2 DEF ReplaceMemory, Replaces
      <4>2. q \in Record  BY <4>1, RecordOfIndex, SupersededTyped DEF TypeOK
      <4>3. /\ q.failure = index[lastRead.id].failure
            /\ q.strike = index[lastRead.id].strike
            /\ q.born = index[lastRead.id].born
        BY <4>1, RecordOfIndex, UpdatesOfCounters, UpdatesKeepOrigin DEF SameOrigin
      <4>4. index' = Append(retired, NewRecord(t, lastRead.id))
        BY <3>2 DEF ReplaceMemory
      <4> HIDE DEF q
      <4>5. retired \in Seq(Record) /\ Len(retired) = Len(index) /\ DOMAIN retired = Ids
        BY <4>1, <4>2, ExceptSeq DEF TypeOK
      <4>6. \A i \in Ids : retired[i] = IF i = lastRead.id THEN q ELSE index[i]
        OBVIOUS
      <4> HIDE DEF retired
      <4>7. \A i \in Ids : i \in Ids' /\ index'[i] = retired[i]
        BY <4>4, <4>5 DEF TypeOK
      <4>8. QED  BY <4>3, <4>6, <4>7
    <3>3. QED  BY <1>9, <3>1, <3>2
  <2>3. \A i \in Ids' \ Ids : /\ index'[i].born = clock /\ index'[i].strike = 0
                              /\ index'[i].failure = 0
    <3>1. CASE AddMemory(t)
      BY <3>1 DEF AddMemory, NewRecord, TypeOK
    <3>2. CASE ReplaceMemory(t)
      <4> DEFINE r == NewRecord(t, lastRead.id)
                 q == Superseded(index[lastRead.id], Len(index) + 1)
                 retired == [index EXCEPT ![lastRead.id] = q]
      <4>1. lastRead.id \in Ids  BY <3>2 DEF ReplaceMemory, Replaces
      <4>2. q \in Record  BY <4>1, RecordOfIndex, SupersededTyped DEF TypeOK
      <4>3. r.born = clock /\ r.strike = 0 /\ r.failure = 0  BY DEF NewRecord
      <4>4. index' = Append(retired, r)  BY <3>2 DEF ReplaceMemory
      <4> HIDE DEF q, r
      <4>5. retired \in Seq(Record) /\ Len(retired) = Len(index) /\ DOMAIN retired = Ids
        BY <4>1, <4>2, ExceptSeq DEF TypeOK
      <4> HIDE DEF retired
      <4>6. \A i \in Ids' \ Ids : index'[i] = r  BY <4>4, <4>5 DEF TypeOK
      <4>7. QED  BY <4>3, <4>6
    <3>3. QED  BY <1>9, <3>1, <3>2
  <2>4. \A i \in Ids' : index'[i].born <= clock
                        /\ Accounted(index'[i], failedTasks, clock)
    <3> TAKE i \in Ids'
    <3>1. CASE i \in Ids  BY <2>2, <3>1 DEF BlameOpen, Accounted, Events
    <3>2. CASE i \notin Ids  BY <1>2, <2>3, <3>2 DEF Accounted, Events
    <3>3. QED  BY <3>1, <3>2
  <2>5. QED  BY <2>1, <2>4 DEF BlameOpen
<1>10. ASSUME NEW success \in BOOLEAN, EndTask(success)
       PROVE  BlameOpen'
  <2>1. CASE success
    BY <1>4, <1>10, <2>1 DEF EndTask
  <2>2. CASE ~success
    <3>1. /\ UNCHANGED <<index, clock>> /\ failedTasks' = failedTasks + 1
          /\ pending' = activeIds /\ phase' = "blaming"
      BY <1>10, <2>2 DEF EndTask
    <3>2. \A i \in Ids : /\ Accounted(index[i], failedTasks', clock)
                         /\ Accounted(index[i], failedTasks' - 1, clock)
      BY <1>1, <1>2, <3>1 DEF BlameOpen, Accounted, Events
    <3>3. activeIds \subseteq Ids  BY DEF TypeOK
    <3>4. QED  BY <3>1, <3>2, <3>3 DEF BlameOpen
  <2>3. QED  BY <2>1, <2>2
<1>11. ASSUME NEW i \in pending, BlameMemory(i)
       PROVE  BlameOpen'
  <2>1. i \in Ids /\ pending \subseteq Ids  BY DEF TypeOK
  <2>2. /\ index' = [index EXCEPT ![i] = Blamed(index[i])]
        /\ pending' = pending \ {i} /\ phase' = "blaming"
        /\ UNCHANGED <<clock, failedTasks>>
    BY <1>11 DEF BlameMemory
  <2>3. /\ Blamed(index[i]).failure = index[i].failure + 1
        /\ Blamed(index[i]).strike = index[i].strike + 1
        /\ Blamed(index[i]).born = index[i].born
    BY <2>1, RecordOfIndex, UpdatesOfCounters, UpdatesKeepOrigin DEF SameOrigin
  <2>4. Ids' = Ids
        /\ \A j \in Ids : index'[j] = IF j = i THEN Blamed(index[i]) ELSE index[j]
    BY <2>2
  <2>5. Accounted(index[i], failedTasks - 1, clock) /\ index[i].born <= clock
    BY <2>1 DEF BlameOpen
  <2>6. Accounted(Blamed(index[i]), failedTasks, clock)
    BY <1>1, <1>2, <2>1, <2>3, <2>5 DEF Accounted, Events
  <2>7. \A j \in Ids : index'[j].born <= clock /\ Accounted(index'[j], failedTasks, clock)
    BY <2>3, <2>4, <2>5, <2>6 DEF BlameOpen
  <2>8. \A j \in pending' : Accounted(index'[j], failedTasks - 1, clock)
    BY <2>1, <2>2, <2>4 DEF BlameOpen
  <2>9. QED  BY <2>2, <2>4, <2>7, <2>8 DEF BlameOpen
<1>12. CASE ForgetTask
  BY <1>4, <1>12 DEF ForgetTask
<1>13. ASSUME NEW i \in victims, PruneMark(i)
       PROVE  BlameOpen'
  <2>1. i \in Ids  BY DEF TypeOK
  <2>2. index' = [index EXCEPT ![i] = Marked(index[i], "PRUNED")]
    BY <1>13 DEF PruneMark
  <2>3. /\ SameOrigin(index[i], Marked(index[i], "PRUNED"))
        /\ Marked(index[i], "PRUNED").strike = index[i].strike
        /\ Marked(index[i], "PRUNED").failure = index[i].failure
    <3>1. index[i] \in Record /\ "PRUNED" \in Status
      BY <2>1, RecordOfIndex DEF Status
    <3>2. SameOrigin(index[i], Marked(index[i], "PRUNED"))
      BY <3>1, UpdatesKeepOrigin
    <3>3. /\ Marked(index[i], "PRUNED").strike = index[i].strike
          /\ Marked(index[i], "PRUNED").failure = index[i].failure
      BY <3>1, UpdatesOfCounters
    <3>4. QED  BY <3>2, <3>3
  <2>4. /\ Ids' = Ids
        /\ \A j \in Ids : /\ index'[j].born = index[j].born
                          /\ index'[j].strike = index[j].strike
                          /\ index'[j].failure = index[j].failure
    BY <2>1, <2>2, <2>3 DEF SameOrigin
  <2>5. QED  BY <1>3, <1>13, <2>4 DEF PruneMark
<1>14. CASE PruneNotDue \/ PruneSelect \/ PruneDone
  <2>1. pending' = {}
    BY <1>5, <1>14 DEF PruneNotDue, PruneSelect, PruneDone, CallReturns
  <2>2. QED
    BY <1>4, <1>14, <2>1 DEF PruneNotDue, PruneSelect, PruneDone, CallReturns
<1>15. CASE StartTask \/ SkipTrajectory \/ AbortTask
  <2>1. pending' = {}
    BY <1>5, <1>15 DEF StartTask, SkipTrajectory, StoreDone, AbortTask
  <2>2. QED
    BY <1>4, <1>15, <2>1 DEF StartTask, SkipTrajectory, StoreDone, AbortTask
<1>16. CASE RestartProcess
  BY <1>4, <1>16 DEF RestartProcess
<1>17. CASE UNCHANGED vars
  BY <1>4, <1>17 DEF vars
<1>18. QED
  BY <1>7, <1>8, <1>9, <1>10, <1>11, <1>12, <1>13, <1>14, <1>15, <1>16, <1>17
  DEF Next, ProviderStep

\* A memory is charged at most once for each failed task and, with boolean events,
\* once for each event since it was learned, for any number of reads, tasks and
\* crashes; its strikes never exceed its failures.
THEOREM BlameIsBounded == Spec => []BlameBounded
<1>1. Init => BlameOpen  BY DEF Init, BlameOpen
<1>2. TypeOK /\ BlameOpen /\ [Next]_vars => BlameOpen'  BY BlameStep
<1>3. BlameOpen => BlameBounded
  BY DEF BlameOpen, BlameBounded, Accounted, Events
<1>4. QED  BY <1>1, <1>2, <1>3, TypeCorrect, PTL DEF Spec

-----------------------------------------------------------------------------
(***************************************************************************)
(* Who is charged.  The memory an event names is in use until the event is *)
(* recorded, and the memories to be blamed were all read in this task.     *)
(***************************************************************************)
ReadersKnown ==
  /\ MemoryInUse
  /\ activeIds \subseteq readers
  /\ pending \subseteq readers
  /\ phase # "blaming" => pending = {}

\* A read selects a memory in use and notes it; no later step of the subtask takes
\* it out of use.
LEMMA ReadersStep ==
  ASSUME TypeOK, ReadersKnown, [Next]_vars
  PROVE  ReadersKnown'
<1> USE DEF providerVars, history
<1>1. ASSUME NEW risky \in SUBSET {i \in Active : Risky(index[i])},
             NEW id \in {i \in Active : ~Risky(index[i])} \cup {NoId}, NEW mutate,
             BuildActorMemory(risky, id, mutate)
      PROVE  /\ activeIds \subseteq activeIds'
             /\ activeIds' \subseteq readers' /\ pending' \subseteq readers'
             /\ lastRead'.id # NoId => lastRead'.id \in activeIds'
             /\ id # NoId => id \in activeIds'
             /\ phase # "blaming" => pending' = {}
             /\ \A i \in Ids \ risky : index'[i] = index[i]
             /\ id # NoId => id \in Ids \ risky /\ index[id].status = "ACTIVE"
                             /\ ~Risky(index[id])
  <2>1. activeIds' = WithRead(activeIds, id) /\ readers' = readers \cup ({id} \ {NoId})
    BY <1>1 DEF BuildActorMemory
  <2>2. lastRead'.id = id /\ pending' = pending
    BY <1>1 DEF BuildActorMemory, ReadResult
  <2>3. \A i \in Ids \ risky : index'[i] = index[i]
    BY <1>1 DEF BuildActorMemory
  <2>4. id # NoId => id \in Ids \ risky /\ index[id].status = "ACTIVE"
                     /\ ~Risky(index[id])
    BY DEF Active
  <2>5. QED  BY <2>1, <2>2, <2>3, <2>4 DEF ReadersKnown, WithRead
<1>2. CASE ReadForSubtask
  <2> PICK risky \in SUBSET {i \in Active : Risky(index[i])},
           id \in {i \in Active : ~Risky(index[i])} \cup {NoId} :
         \E mutate \in MutationChoices(id) :
           BuildActorMemory(risky, id, mutate) /\ eventId' = id
    BY <1>2 DEF ReadForSubtask
  <2> PICK mutate \in MutationChoices(id) :
         BuildActorMemory(risky, id, mutate) /\ eventId' = id
    OBVIOUS
  <2>1. eventId' # NoId => /\ eventId' \in activeIds'
                           /\ index'[eventId'].status = "ACTIVE"
                           /\ ~Risky(index'[eventId'])
    <3>1. id # NoId => /\ id \in activeIds'
                       /\ index'[id] = index[id]
                       /\ index[id].status = "ACTIVE"
                       /\ ~Risky(index[id])
      BY <1>1
    <3>2. QED  BY <3>1
  <2>2. phase # "blaming"  BY <1>2 DEF ReadForSubtask
  <2>3. pending' = {}  BY <1>1, <2>2
  <2>4. /\ activeIds' \subseteq readers'
        /\ lastRead'.id # NoId => lastRead'.id \in activeIds'
    BY <1>1
  <2>5. MemoryInUse'  BY <2>1, <2>4 DEF MemoryInUse, Risky
  <2>6. QED  BY <2>3, <2>4, <2>5 DEF ReadersKnown
<1>3. CASE ReadForRetry
  <2> PICK risky \in SUBSET {i \in Active : Risky(index[i])},
           id \in {i \in Active : ~Risky(index[i])} \cup {NoId} :
         \E mutate \in MutationChoices(id) : BuildActorMemory(risky, id, mutate)
    BY <1>3 DEF ReadForRetry
  <2> PICK mutate \in MutationChoices(id) : BuildActorMemory(risky, id, mutate)
    OBVIOUS
  <2>1. eventId' = eventId /\ phase = "acting"  BY <1>3 DEF ReadForRetry
  <2>2. eventId # NoId => /\ eventId \in activeIds /\ eventId \in Ids \ risky
                          /\ index[eventId].status = "ACTIVE"
                          /\ ~Risky(index[eventId])
    BY <2>1 DEF ReadersKnown, MemoryInUse, TypeOK
  <2>3. eventId # NoId => index'[eventId] = index[eventId] /\ eventId \in activeIds'
    BY <1>1, <2>2
  <2>4. pending' = {}  BY <1>1, <2>1
  <2>5. QED  BY <1>1, <2>1, <2>2, <2>3, <2>4 DEF ReadersKnown, MemoryInUse, Risky
<1>4. CASE /\ phase' \notin {"acting", "retrying"}
           /\ UNCHANGED <<activeIds, lastRead, readers>>
           /\ pending' \subseteq pending \cup activeIds
           /\ \/ phase' = "blaming"
              \/ phase # "blaming" /\ pending' = pending
  <2>1. activeIds' \subseteq readers' /\ pending' \subseteq readers'
    BY <1>4 DEF ReadersKnown
  <2>2. phase' # "blaming" => pending' = {}
    BY <1>4 DEF ReadersKnown
  <2>3. lastRead'.id # NoId => lastRead'.id \in activeIds'
    BY <1>4 DEF ReadersKnown, MemoryInUse
  <2>4. MemoryInUse'  BY <1>4, <2>3 DEF MemoryInUse
  <2>5. QED  BY <2>1, <2>2, <2>4 DEF ReadersKnown
<1>5. CASE StartTask \/ ForgetTask \/ RestartProcess
  <2>1. /\ phase' \in {"ready", "check", "idle"}
        /\ lastRead' = NoRead
        /\ activeIds' = {}
        /\ pending' = {}
    BY <1>5 DEF StartTask, ForgetTask, RestartProcess, ReadersKnown
  <2>2. QED  BY <2>1 DEF NoRead, ReadersKnown, MemoryInUse
<1>6. CASE UNCHANGED vars
  BY <1>6 DEF vars, ReadersKnown, MemoryInUse, Risky
<1>7. ASSUME \/ \E kind \in EventKinds, verified \in BOOLEAN :
                   RecordSubtaskEvent(kind, verified)
             \/ \E t \in Trajectories : AddMemory(t) \/ ReplaceMemory(t)
             \/ SkipTrajectory \/ (\E success \in BOOLEAN : EndTask(success))
             \/ (\E i \in pending : BlameMemory(i)) \/ PruneNotDue \/ PruneSelect
             \/ (\E i \in victims : PruneMark(i)) \/ PruneDone \/ AbortTask
      PROVE  /\ phase' \notin {"acting", "retrying"}
             /\ UNCHANGED <<activeIds, lastRead, readers>>
             /\ pending' \subseteq pending \cup activeIds
             /\ \/ phase' = "blaming"
                \/ phase # "blaming" /\ pending' = pending
  BY <1>7
  DEF RecordSubtaskEvent, AddMemory, ReplaceMemory, SkipTrajectory, StoreDone,
      EndTask, BlameMemory, PruneNotDue, PruneSelect, PruneMark, PruneDone,
      CallReturns, AbortTask, TypeOK
<1>8. QED  BY <1>2, <1>3, <1>4, <1>5, <1>6, <1>7 DEF Next, ProviderStep

\* Hence, in every reachable state.
LEMMA ReadersInvariant == Spec => [](TypeOK /\ ReadersKnown)
<1>1. Init => ReadersKnown
  BY DEF Init, NoRead, ReadersKnown, MemoryInUse
<1>2. TypeOK /\ ReadersKnown /\ [Next]_vars => ReadersKnown'  BY ReadersStep
<1>3. QED  BY <1>1, <1>2, TypeCorrect, PTL DEF Spec

\* The memory an event is credited to is in service and not risky until the event
\* is recorded, also across the second read of a retry.
THEOREM InUseUntilRecorded == Spec => []MemoryInUse
<1>1. ReadersKnown => MemoryInUse  BY DEF ReadersKnown
<1>2. QED  BY <1>1, ReadersInvariant, PTL

\* Only memories read in the current task are ever charged, one failure at a time.
THEOREM ReadersAloneBlamed == Spec => BlameReadersOnly
<1> USE DEF providerVars, history
<1>1. ASSUME TypeOK, ReadersKnown, [Next]_vars, NEW i \in Ids,
             index'[i].failure # index[i].failure
      PROVE  i \in readers /\ index'[i].failure = index[i].failure + 1
  <2>1. ASSUME NEW j \in Ids, NEW r, index' = [index EXCEPT ![j] = r]
        PROVE  index'[i] = IF i = j THEN r ELSE index[i]
    <3>1. i \in DOMAIN index  BY <1>1, RecordOfIndex
    <3>2. QED  BY <2>1, <3>1
  <2>2. index[i] \in Record  BY <1>1, RecordOfIndex
  <2>3. CASE ReadForSubtask \/ ReadForRetry
    <3>1. PICK risky : index' = [k \in Ids |-> IF k \in risky
                                                THEN Marked(index[k], "RISKY")
                                                ELSE index[k]]
      BY <2>3 DEF ReadForSubtask, ReadForRetry, BuildActorMemory
    <3>2. index'[i] = Marked(index[i], "RISKY") \/ index'[i] = index[i]  BY <3>1
    <3>3. Marked(index[i], "RISKY").failure = index[i].failure
      BY <2>2, UpdatesOfCounters
    <3>4. QED  BY <1>1, <3>2, <3>3
  <2>4. ASSUME NEW kind \in EventKinds, NEW verified \in BOOLEAN,
               RecordSubtaskEvent(kind, verified)
        PROVE  i \in readers /\ index'[i].failure = index[i].failure + 1
    <3> DEFINE r == Feedback(index[eventId], ExtractEventSuccess(kind, verified))
    <3>1. eventId \in Ids  BY <1>1, <2>4 DEF RecordSubtaskEvent
    <3>2. index' = [index EXCEPT ![eventId] = r]
      BY <2>4, <3>1 DEF RecordSubtaskEvent
    <3>3. r.failure = index[eventId].failure \/ r.failure = index[eventId].failure + 1
      BY <1>1, <3>1, RecordOfIndex, UpdatesOfCounters
    <3>4. eventId \in readers
      <4>1. eventId # NoId /\ phase \in {"acting", "retrying"}
        BY <1>1, <2>4, <3>1, RecordOfIndex DEF RecordSubtaskEvent
      <4>2. QED  BY <1>1, <4>1 DEF ReadersKnown, MemoryInUse
    <3> HIDE DEF r
    <3>5. QED  BY <1>1, <2>1, <3>1, <3>2, <3>3, <3>4
  <2>5. ASSUME NEW j \in pending, BlameMemory(j)
        PROVE  i \in readers /\ index'[i].failure = index[i].failure + 1
    <3>1. j \in Ids /\ j \in readers  BY <1>1 DEF TypeOK, ReadersKnown
    <3>2. index' = [index EXCEPT ![j] = Blamed(index[j])]
      BY <2>5 DEF BlameMemory
    <3>3. Blamed(index[j]).failure = index[j].failure + 1
      BY <1>1, <3>1, RecordOfIndex, UpdatesOfCounters
    <3>4. QED  BY <1>1, <2>1, <3>1, <3>2, <3>3
  <2>6. ASSUME NEW j \in victims, PruneMark(j)
        PROVE  FALSE
    <3>1. j \in Ids  BY <1>1 DEF TypeOK
    <3>2. index' = [index EXCEPT ![j] = Marked(index[j], "PRUNED")]
      BY <2>6 DEF PruneMark
    <3>3. Marked(index[j], "PRUNED").failure = index[j].failure
      BY <1>1, <3>1, RecordOfIndex, UpdatesOfCounters
    <3>4. QED  BY <1>1, <2>1, <3>1, <3>2, <3>3
  <2>7. ASSUME NEW t \in Trajectories, AddMemory(t)
        PROVE  FALSE
    BY <1>1, <2>7 DEF AddMemory, TypeOK
  <2>8. ASSUME NEW t \in Trajectories, ReplaceMemory(t)
        PROVE  FALSE
    <3> DEFINE q == Superseded(index[lastRead.id], Len(index) + 1)
               retired == [index EXCEPT ![lastRead.id] = q]
    <3>1. lastRead.id \in Ids  BY <2>8 DEF ReplaceMemory, Replaces
    <3>2. q \in Record  BY <1>1, <3>1, RecordOfIndex, SupersededTyped DEF TypeOK
    <3>3. q.failure = index[lastRead.id].failure
      BY <1>1, <3>1, RecordOfIndex, UpdatesOfCounters
    <3>4. index' = Append(retired, NewRecord(t, lastRead.id))
      BY <2>8 DEF ReplaceMemory
    <3> HIDE DEF q
    <3>5. retired \in Seq(Record) /\ DOMAIN retired = Ids
      BY <1>1, <3>1, <3>2, ExceptSeq DEF TypeOK
    <3>6. retired[i] = IF i = lastRead.id THEN q ELSE index[i]  OBVIOUS
    <3> HIDE DEF retired
    <3>7. index'[i] = retired[i]  BY <3>4, <3>5
    <3>8. QED  BY <1>1, <3>3, <3>6, <3>7
  <2>9. StartTask \/ SkipTrajectory \/ (\E success \in BOOLEAN : EndTask(success))
          \/ ForgetTask \/ PruneNotDue \/ PruneSelect \/ PruneDone \/ AbortTask
          \/ RestartProcess \/ UNCHANGED vars
        => UNCHANGED index
    BY DEF StartTask, SkipTrajectory, StoreDone, EndTask, ForgetTask, PruneNotDue,
           PruneSelect, PruneDone, CallReturns, AbortTask, RestartProcess, vars
  <2>10. QED
    BY <1>1, <2>3, <2>4, <2>5, <2>6, <2>7, <2>8, <2>9 DEF Next, ProviderStep
<1>2. TypeOK /\ ReadersKnown /\ [Next]_vars =>
        [\A i \in Ids : index'[i].failure # index[i].failure =>
           i \in readers /\ index'[i].failure = index[i].failure + 1]_vars
  BY <1>1
<1>3. QED  BY <1>2, ReadersInvariant, PTL DEF Spec, BlameReadersOnly

-----------------------------------------------------------------------------
(***************************************************************************)
(* How long a call is.  Between two decisions of the runner the thread is  *)
(* inside finalize_task or the pruning check that ends record().           *)
(***************************************************************************)
InCall == phase \in {"blaming", "check", "pruning"}

\* The steps the call under way can still take: a memory to blame each, then the
\* check, then at most one mark for every record on file.
StepsLeft ==
  IF phase = "blaming" THEN Cardinality(pending) + Len(index) + 3
  ELSE IF phase = "check" THEN Len(index) + 2
  ELSE IF phase = "pruning" THEN Cardinality(victims) + 1
  ELSE 0

\* A set of ids of the index has at most as many members as the index, and one
\* fewer when one is taken out.
LEMMA IdsCounted ==
  ASSUME TypeOK, NEW S \in SUBSET Ids
  PROVE  /\ Cardinality(S) \in Nat
         /\ Cardinality(S) <= Len(index)
         /\ \A i \in S : Cardinality(S \ {i}) = Cardinality(S) - 1
<1>1. Len(index) \in Nat /\ Ids = 1..Len(index)  BY DEF TypeOK
<1>2. IsFiniteSet(Ids) /\ Cardinality(Ids) = Len(index)  BY <1>1, FS_Interval
<1>3. IsFiniteSet(S) /\ Cardinality(S) <= Cardinality(Ids)  BY <1>2, FS_Subset
<1>4. QED  BY <1>2, <1>3, FS_CardinalityType, FS_RemoveElement

\* Rewriting a record in place leaves the index as long as it was.
LEMMA RewriteKeepsLength ==
  ASSUME TypeOK, TypeOK', DOMAIN index' = DOMAIN index
  PROVE  Len(index') = Len(index) /\ Len(index) \in Nat
  BY DEF TypeOK

\* Inside a call the thread takes the call's next step, which leaves fewer, or the
\* process dies.
LEMMA StepInCall ==
  ASSUME TypeOK, [Next]_vars, InCall
  PROVE  \/ RestartProcess
         \/ UNCHANGED vars
         \/ StepsLeft \in Nat /\ StepsLeft' \in Nat
            /\ StepsLeft' < StepsLeft /\ StepsLeft <= 2 * Len(index) + 3
<1>1. TypeOK'  BY NextTyped
<1>2. Len(index) \in Nat  BY DEF TypeOK
<1>3. /\ Cardinality(pending) \in Nat /\ Cardinality(pending) <= Len(index)
      /\ Cardinality(victims) \in Nat /\ Cardinality(victims) <= Len(index)
  BY IdsCounted DEF TypeOK
<1>4. StepsLeft \in Nat /\ StepsLeft <= 2 * Len(index) + 3
  BY <1>2, <1>3 DEF StepsLeft
<1>5. ProviderStep \/ RestartProcess \/ UNCHANGED vars
  BY DEF InCall, Next, StartTask, ReadForSubtask, ReadForRetry, RecordSubtaskEvent,
         AddMemory, ReplaceMemory, SkipTrajectory, EndTask, AbortTask
<1>6. ASSUME NEW i \in pending, BlameMemory(i)
      PROVE  StepsLeft' \in Nat /\ StepsLeft' < StepsLeft
  <2>1. DOMAIN index' = DOMAIN index /\ pending' = pending \ {i}
        /\ phase = "blaming" /\ phase' = "blaming"
    BY <1>6 DEF BlameMemory
  <2>2. Len(index') = Len(index)  BY <1>1, <2>1, RewriteKeepsLength
  <2>3. Cardinality(pending') = Cardinality(pending) - 1
    BY <2>1, IdsCounted DEF TypeOK
  <2>4. Cardinality(pending') \in Nat
    <3>1. pending' \in SUBSET Ids  BY <2>1 DEF TypeOK
    <3>2. QED  BY <3>1, IdsCounted
  <2>5. QED  BY <1>2, <1>3, <2>1, <2>2, <2>3, <2>4 DEF StepsLeft
<1>7. ASSUME ForgetTask
      PROVE  StepsLeft' \in Nat /\ StepsLeft' < StepsLeft
  BY <1>2, <1>3, <1>7 DEF ForgetTask, StepsLeft
<1>8. ASSUME PruneNotDue \/ PruneDone
      PROVE  StepsLeft' \in Nat /\ StepsLeft' < StepsLeft
  <2>1. phase \in {"check", "pruning"} /\ phase' \in {"idle", "ready", "store"}
    BY <1>8 DEF PruneNotDue, PruneDone, CallReturns, TypeOK
  <2>2. QED  BY <1>2, <1>3, <2>1 DEF StepsLeft
<1>9. ASSUME PruneSelect
      PROVE  StepsLeft' \in Nat /\ StepsLeft' < StepsLeft
  <2>1. phase = "check" /\ phase' = "pruning" /\ index' = index
    BY <1>9 DEF PruneSelect
  <2>2. victims' \in SUBSET Ids  BY <1>1, <2>1 DEF TypeOK
  <2>3. Cardinality(victims') \in Nat /\ Cardinality(victims') <= Len(index)
    BY <2>2, IdsCounted
  <2>4. QED  BY <1>2, <2>1, <2>3 DEF StepsLeft
<1>10. ASSUME NEW i \in victims, PruneMark(i)
       PROVE  StepsLeft' \in Nat /\ StepsLeft' < StepsLeft
  <2>1. victims' = victims \ {i} /\ phase = "pruning" /\ phase' = "pruning"
    BY <1>10 DEF PruneMark
  <2>2. Cardinality(victims') = Cardinality(victims) - 1
    BY <2>1, IdsCounted DEF TypeOK
  <2>3. victims' \in SUBSET Ids  BY <2>1 DEF TypeOK
  <2>4. Cardinality(victims') \in Nat  BY <2>3, IdsCounted
  <2>5. QED  BY <1>3, <2>1, <2>2, <2>4 DEF StepsLeft
<1>11. QED
  BY <1>4, <1>5, <1>6, <1>7, <1>8, <1>9, <1>10 DEF ProviderStep

\* A call of the provider is short: whatever the pool, it takes at most 2n + 3 steps
\* on n records, and no step of another call comes between; only the death of the
\* process can cut it.  This is what OperationsReturn needs beyond fairness.
THEOREM CallsAreShort ==
  Spec => [][InCall /\ ~RestartProcess =>
               StepsLeft \in Nat /\ StepsLeft' \in Nat
               /\ StepsLeft' < StepsLeft /\ StepsLeft <= 2 * Len(index) + 3]_vars
<1>1. TypeOK /\ [Next]_vars =>
        [InCall /\ ~RestartProcess =>
               StepsLeft \in Nat /\ StepsLeft' \in Nat
               /\ StepsLeft' < StepsLeft /\ StepsLeft <= 2 * Len(index) + 3]_vars
  BY StepInCall
<1>2. QED  BY <1>1, TypeCorrect, PTL DEF Spec

-----------------------------------------------------------------------------
(***************************************************************************)
(* Where the findings on the provider come from.                           *)
(***************************************************************************)

\* With the runner's dictionaries an event says neither success nor failure.
LEMMA DictionarySaysNothing ==
  ASSUME NEW kind, NEW verified, NEW r \in Record, kind = "dict"
  PROVE  Feedback(r, ExtractEventSuccess(kind, verified)) = r
<1>1. ExtractEventSuccess(kind, verified) = "unknown"
  BY DEF ExtractEventSuccess
<1>2. QED  BY <1>1 DEF Feedback, Record

\* A memory's statistics are those it was filed with, but for the failures of whole
\* tasks.
OnlyTasksCount ==
  \A i \in Ids : index[i].success = 1 /\ index[i].strike = index[i].failure

\* The success counter of a record: only feedback moves it, and only on a success.
LEMMA UpdatesOfSuccess ==
  ASSUME NEW r \in Record
  PROVE  /\ \A status : Marked(r, status).success = r.success
         /\ \A by : Superseded(r, by).success = r.success
         /\ Blamed(r).success = r.success
         /\ \A outcome : Feedback(r, outcome).success =
                          IF outcome = "success" THEN r.success + 1 ELSE r.success
  BY DEF Marked, Feedback, Blamed, Superseded, Record

\* With dictionaries only, no step moves the success counter, and strikes move with
\* failures.
LEMMA DictionaryStep ==
  ASSUME EventKinds \subseteq {"dict"}, TypeOK, OnlyTasksCount, [Next]_vars
  PROVE  OnlyTasksCount'
<1> USE DEF providerVars, history
<1>1. ASSUME NEW i \in Ids, NEW r, index' = [index EXCEPT ![i] = r],
             r.success = index[i].success, r.strike = r.failure
      PROVE  OnlyTasksCount'
  <2>1. \A j \in Ids : index'[j] = IF j = i THEN r ELSE index[j]  BY <1>1
  <2>2. DOMAIN index' = Ids  BY <1>1
  <2>3. QED  BY <1>1, <2>1, <2>2 DEF OnlyTasksCount
<1>2. ASSUME UNCHANGED index
      PROVE  OnlyTasksCount'
  BY <1>2 DEF OnlyTasksCount
<1>3. CASE ReadForSubtask \/ ReadForRetry
  <2>1. PICK risky : index' = [k \in Ids |-> IF k \in risky
                                              THEN Marked(index[k], "RISKY")
                                              ELSE index[k]]
    BY <1>3 DEF ReadForSubtask, ReadForRetry, BuildActorMemory
  <2>2. ASSUME NEW i \in Ids
        PROVE  /\ index'[i].success = index[i].success
               /\ index'[i].failure = index[i].failure
               /\ index'[i].strike = index[i].strike
    <3>1. index[i] \in Record  BY RecordOfIndex
    <3>2. index'[i] = Marked(index[i], "RISKY") \/ index'[i] = index[i]  BY <2>1
    <3>3. Marked(index[i], "RISKY").success = index[i].success
      BY <3>1, UpdatesOfSuccess
    <3>4. /\ Marked(index[i], "RISKY").failure = index[i].failure
          /\ Marked(index[i], "RISKY").strike = index[i].strike
      BY <3>1, UpdatesOfCounters
    <3>5. QED  BY <3>2, <3>3, <3>4
  <2>3. DOMAIN index' = Ids  BY <2>1
  <2>4. QED  BY <2>2, <2>3 DEF OnlyTasksCount
<1>4. ASSUME NEW kind \in EventKinds, NEW verified \in BOOLEAN,
             RecordSubtaskEvent(kind, verified)
      PROVE  UNCHANGED index
  <2>1. CASE eventId \notin Ids
    BY <1>4, <2>1 DEF RecordSubtaskEvent
  <2>2. CASE eventId \in Ids
    <3>1. Feedback(index[eventId], ExtractEventSuccess(kind, verified)) = index[eventId]
      BY <2>2, RecordOfIndex, DictionarySaysNothing
    <3>2. index' = [index EXCEPT ![eventId] = index[eventId]]
      BY <1>4, <2>2, <3>1 DEF RecordSubtaskEvent
    <3>3. QED  BY <2>2, <3>2 DEF TypeOK
  <2>3. QED  BY <2>1, <2>2
<1>5. ASSUME NEW t \in Trajectories, AddMemory(t)
      PROVE  OnlyTasksCount'
  BY <1>5 DEF AddMemory, NewRecord, TypeOK, OnlyTasksCount
<1>6. ASSUME NEW t \in Trajectories, ReplaceMemory(t)
      PROVE  OnlyTasksCount'
  <2> DEFINE r == NewRecord(t, lastRead.id)
             q == Superseded(index[lastRead.id], Len(index) + 1)
             retired == [index EXCEPT ![lastRead.id] = q]
  <2>1. lastRead.id \in Ids  BY <1>6 DEF ReplaceMemory, Replaces
  <2>2. q \in Record  BY <2>1, RecordOfIndex, SupersededTyped DEF TypeOK
  <2>3. q.success = 1 /\ q.strike = q.failure
    <3>1. index[lastRead.id] \in Record  BY <2>1, RecordOfIndex
    <3>2. q.success = index[lastRead.id].success  BY <3>1, UpdatesOfSuccess
    <3>3. /\ q.failure = index[lastRead.id].failure
          /\ q.strike = index[lastRead.id].strike
      BY <3>1, UpdatesOfCounters
    <3> HIDE DEF q
    <3>4. QED  BY <2>1, <3>2, <3>3 DEF OnlyTasksCount
  <2>4. r.success = 1 /\ r.strike = r.failure  BY DEF NewRecord
  <2>5. index' = Append(retired, r)  BY <1>6 DEF ReplaceMemory
  <2> HIDE DEF q, r
  <2>6. retired \in Seq(Record) /\ Len(retired) = Len(index) /\ DOMAIN retired = Ids
    BY <2>1, <2>2, ExceptSeq DEF TypeOK
  <2>7. \A i \in Ids : retired[i] = IF i = lastRead.id THEN q ELSE index[i]
    OBVIOUS
  <2> HIDE DEF retired
  <2>8. \A i \in Ids' : index'[i] = IF i \in Ids THEN retired[i] ELSE r
    BY <2>5, <2>6 DEF TypeOK
  <2>9. QED  BY <2>3, <2>4, <2>7, <2>8 DEF OnlyTasksCount
<1>7. ASSUME NEW i \in pending, BlameMemory(i)
      PROVE  OnlyTasksCount'
  <2>1. i \in Ids /\ index[i] \in Record  BY RecordOfIndex DEF TypeOK
  <2>2. index' = [index EXCEPT ![i] = Blamed(index[i])]  BY <1>7 DEF BlameMemory
  <2>3. Blamed(index[i]).success = index[i].success
        /\ Blamed(index[i]).strike = Blamed(index[i]).failure
    <3>1. Blamed(index[i]).success = index[i].success
      BY <2>1, UpdatesOfSuccess
    <3>2. /\ Blamed(index[i]).strike = index[i].strike + 1
          /\ Blamed(index[i]).failure = index[i].failure + 1
      BY <2>1, UpdatesOfCounters
    <3>3. QED  BY <2>1, <3>1, <3>2 DEF OnlyTasksCount
  <2>4. QED  BY <1>1, <2>1, <2>2, <2>3
<1>8. ASSUME NEW i \in victims, PruneMark(i)
      PROVE  OnlyTasksCount'
  <2>1. i \in Ids /\ index[i] \in Record  BY RecordOfIndex DEF TypeOK
  <2>2. index' = [index EXCEPT ![i] = Marked(index[i], "PRUNED")]
    BY <1>8 DEF PruneMark
  <2>3. Marked(index[i], "PRUNED").success = index[i].success
        /\ Marked(index[i], "PRUNED").strike = Marked(index[i], "PRUNED").failure
    <3>1. Marked(index[i], "PRUNED").success = index[i].success
      BY <2>1, UpdatesOfSuccess
    <3>2. /\ Marked(index[i], "PRUNED").strike = index[i].strike
          /\ Marked(index[i], "PRUNED").failure = index[i].failure
      BY <2>1, UpdatesOfCounters
    <3>3. QED  BY <2>1, <3>1, <3>2 DEF OnlyTasksCount
  <2>4. QED  BY <1>1, <2>1, <2>2, <2>3
<1>9. StartTask \/ SkipTrajectory \/ (\E success \in BOOLEAN : EndTask(success))
        \/ ForgetTask \/ PruneNotDue \/ PruneSelect \/ PruneDone \/ AbortTask
        \/ RestartProcess \/ UNCHANGED vars
      => UNCHANGED index
  BY DEF StartTask, SkipTrajectory, StoreDone, EndTask, ForgetTask, PruneNotDue,
         PruneSelect, PruneDone, CallReturns, AbortTask, RestartProcess, vars
<1>10. QED
  BY <1>2, <1>3, <1>4, <1>5, <1>6, <1>7, <1>8, <1>9 DEF Next, ProviderStep

\* With the events the task runner sends, no memory is ever credited with a success
\* after the one it was filed with, and it is struck once for each failed task it
\* was blamed for and never relieved: no number of verified subtasks lowers its
\* risk.  This is what the violated SuccessReachesMemory comes to.
THEOREM DictionariesNeverCredit ==
  EventKinds \subseteq {"dict"} => (Spec => []OnlyTasksCount)
<1> SUFFICES ASSUME EventKinds \subseteq {"dict"}
             PROVE  Spec => []OnlyTasksCount
  OBVIOUS
<1>1. Init => OnlyTasksCount  BY DEF Init, OnlyTasksCount
<1>2. TypeOK /\ OnlyTasksCount /\ [Next]_vars => OnlyTasksCount'
  BY DictionaryStep
<1>3. QED  BY <1>1, <1>2, TypeCorrect, PTL DEF Spec

\* And the dictionaries are its only cause: with the plain booleans of the unit
\* tests, every verified subtask is a success of the memory it used.
THEOREM BooleansReachMemory ==
  EventKinds \subseteq {"bool"} => (Spec => SuccessReachesMemory)
<1> SUFFICES ASSUME EventKinds \subseteq {"bool"}
             PROVE  Spec => SuccessReachesMemory
  OBVIOUS
<1>1. ASSUME TypeOK, [Next]_vars, phase \in {"acting", "retrying"},
             phase' = "check", resume' = "store", eventId \in Ids
      PROVE  index'[eventId].success = index[eventId].success + 1
  <2>1. PICK kind \in EventKinds, verified \in BOOLEAN :
          RecordSubtaskEvent(kind, verified)
    BY <1>1 DEF Next, ProviderStep, vars, providerVars, StartTask, ReadForSubtask,
         ReadForRetry, AddMemory, ReplaceMemory, SkipTrajectory, StoreDone, EndTask,
         BlameMemory, ForgetTask, PruneNotDue, PruneSelect, PruneMark, PruneDone,
         CallReturns, AbortTask, RestartProcess
  <2>2. verified  BY <1>1, <2>1 DEF RecordSubtaskEvent
  <2>3. ExtractEventSuccess(kind, verified) = "success"
    BY <2>1, <2>2 DEF ExtractEventSuccess
  <2>4. index[eventId] \in Record  BY <1>1, RecordOfIndex
  <2>5. index' = [index EXCEPT ![eventId] = Feedback(index[eventId], "success")]
    BY <1>1, <2>1, <2>3 DEF RecordSubtaskEvent
  <2>6. Feedback(index[eventId], "success").success = index[eventId].success + 1
    BY <2>4, UpdatesOfSuccess
  <2>7. QED  BY <1>1, <2>5, <2>6 DEF TypeOK
<1>2. TypeOK /\ [Next]_vars =>
        [(/\ phase \in {"acting", "retrying"}
          /\ phase' = "check"
          /\ resume' = "store"
          /\ eventId \in Ids)
         => index'[eventId].success = index[eventId].success + 1]_vars
  BY <1>1
<1>3. QED  BY <1>2, TypeCorrect, PTL DEF Spec, SuccessReachesMemory

-----------------------------------------------------------------------------
\* Runs in which the provider's clock never falls back: no process that has
\* recorded an event is replaced by a new one.
UnbrokenSpec == Init /\ [][Next /\ logicalStep' >= logicalStep]_vars

\* Then the ages the pruner computes are the true ones.
AgesExact ==
  /\ logicalStep = clock
  /\ \A i \in Ids : index[i].created = index[i].born

\* A step that does not set the logical step back keeps them true.
LEMMA UnbrokenStep ==
  ASSUME TypeOK, AgesExact, [Next /\ logicalStep' >= logicalStep]_vars
  PROVE  AgesExact'
<1> USE DEF providerVars, history
<1>1. OldRecordsKept /\ NewRecordsFresh  BY IndexStep
<1>2. \/ UNCHANGED <<logicalStep, clock>>
      \/ logicalStep' = logicalStep + 1 /\ clock' = clock + 1
      \/ logicalStep' = 0 /\ logicalStep' >= logicalStep /\ UNCHANGED clock
  BY DEF Next, ProviderStep, vars, StartTask, ReadForSubtask, ReadForRetry,
         BuildActorMemory, RecordSubtaskEvent, AddMemory, ReplaceMemory,
         SkipTrajectory, StoreDone, EndTask, BlameMemory, ForgetTask, PruneNotDue,
         PruneSelect, PruneMark, PruneDone, CallReturns, AbortTask, RestartProcess
<1>3. logicalStep' = clock'
  BY <1>2 DEF AgesExact, TypeOK
<1>4. \A i \in Ids : i \in Ids' /\ index'[i].created = index'[i].born
  BY <1>1 DEF OldRecordsKept, SameOrigin, AgesExact
<1>5. \A i \in Ids' \ Ids : index'[i].created = index'[i].born
  BY <1>1 DEF NewRecordsFresh, AgesExact
<1>6. QED  BY <1>3, <1>4, <1>5 DEF AgesExact

\* The restarted clock is all that lets a condemned memory linger: as long as the
\* logical step is not set back, a memory at strike_limit that is no longer recent
\* in subtask events does not outlive a pruning pass.
THEOREM OnlyRestartsLinger == UnbrokenSpec => []StruckOutDoNotLinger
<1>1. UnbrokenSpec => Spec
  <2>1. [Next /\ logicalStep' >= logicalStep]_vars => [Next]_vars  OBVIOUS
  <2>2. QED  BY <2>1, PTL DEF UnbrokenSpec, Spec
<1>2. Init => AgesExact  BY DEF Init, AgesExact
<1>3. TypeOK /\ AgesExact /\ [Next /\ logicalStep' >= logicalStep]_vars => AgesExact'
  BY UnbrokenStep
<1>4. AgesExact /\ StruckOutPruned => StruckOutDoNotLinger
  BY DEF AgesExact, StruckOutPruned, StruckOutDoNotLinger, Aged, Active
<1>5. QED
  BY <1>1, <1>2, <1>3, <1>4, TypeCorrect, StruckOutLeave, PTL DEF UnbrokenSpec
=============================================================================
