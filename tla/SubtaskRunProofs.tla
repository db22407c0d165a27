-------------------------- MODULE SubtaskRunProofs --------------------------
(***************************************************************************)
(* What holds of one subtask for every device, every set of goals and      *)
(* answers and every step limit, proved from SubtaskConfig.                *)
(***************************************************************************)
EXTENDS SubtaskRun, TLAPS

-----------------------------------------------------------------------------
(***************************************************************************)
(* Screens and answers.                                                    *)
(***************************************************************************)
LEMMA IndicesNatural ==
  ASSUME NEW n \in Screens
  PROVE  /\ Indices(Look[n]) \subseteq Nat \ {0}
         /\ Editable(Look[n]) \subseteq Indices(Look[n])
<1>1. Look[n].ui \in Seq(Element)
  BY SubtaskConfig DEF Screens, Screen
<1>2. DOMAIN Look[n].ui = 1 .. Len(Look[n].ui) /\ Len(Look[n].ui) \in Nat
  BY <1>1
<1>3. QED  BY <1>2 DEF Indices, Editable

\* A screen the runner distrusts is one the actor must not declare complete on:
\* the two rules are written in two files.
LEMMA DistrustedIsDegraded ==
  ASSUME NEW s, Distrusted(s) PROVE Degraded(s)
  BY DEF Distrusted, Degraded, OnlySystemUI, Warned

\* Answers that point to an element, and to a point.
ToElement(a, i) == [a EXCEPT !.index = i, !.odd = "no"]
ToPlace(a, i) == [a EXCEPT !.index = 0, !.odd = "no", !.point = i]

\* Correcting the target of an answer leaves all but its target alone.
LEMMA CorrectedTarget ==
  ASSUME NEW a, NEW g, NEW s, NEW fits
  PROVE  \/ Corrected(a, g, s, fits) = a
         \/ \E i : Corrected(a, g, s, fits) = ToElement(a, i)
         \/ \E i : Corrected(a, g, s, fits) = ToPlace(a, i)
<1> DEFINE token == TargetToken(a, g, s)
           matching == {i \in Indices(s) : Matches(s.ui[i], token)}
           fitting == matching \cap fits
           exact == {i \in matching : s.ui[i].label = token
                                      /\ (a.type = "input_text" => i \in fits)}
           one(set) == CHOOSE i \in set : TRUE
           asksToggle == g.toggle \/ a.toggling
           viaControl == /\ a.type \in Pointing
                         /\ a.index \in Indices(s) \ matching
                         /\ ControlLike(s.ui[a.index])
                         /\ asksToggle
           onExact == /\ fitting = {}
                      /\ Cardinality(exact) = 1
                      /\ ~(ControlLike(s.ui[one(exact)]) /\ asksToggle)
           absent == a.index = 0 /\ a.odd = "no"
           keep == a.index \in fits /\ (token = NoText \/ a.index \in matching)
           only == Cardinality(fitting) = 1
           single == Cardinality(matching) = 1
<1>1. Corrected(a, g, s, fits) =
        IF absent THEN a
        ELSE IF keep THEN a
        ELSE IF only THEN ToElement(a, one(fitting))
        ELSE IF viaControl THEN ToPlace(a, a.index)
        ELSE IF single THEN ToPlace(a, one(matching))
        ELSE IF onExact THEN ToPlace(a, one(exact))
        ELSE a
  BY DEF Corrected, ToElement, ToPlace
<1> HIDE DEF fitting, matching, exact, one, viaControl, onExact, absent, keep, only,
            single
<1>2. CASE absent \/ keep  BY <1>1, <1>2
<1>3. CASE ~absent /\ ~keep
  <2>1. CASE only  BY <1>1, <1>3, <2>1
  <2>2. CASE ~only /\ viaControl  BY <1>1, <1>3, <2>2
  <2>3. CASE ~only /\ ~viaControl /\ single  BY <1>1, <1>3, <2>3
  <2>4. CASE ~only /\ ~viaControl /\ ~single  BY <1>1, <1>3, <2>4
  <2>5. QED  BY <2>1, <2>2, <2>3, <2>4
<1>4. QED  BY <1>2, <1>3

LEMMA CorrectedKeepsType ==
  ASSUME NEW a, NEW g, NEW s, NEW fits,
         \A i : ToElement(a, i).type = a.type /\ ToPlace(a, i).type = a.type
  PROVE  Corrected(a, g, s, fits).type = a.type
<1>1. \/ Corrected(a, g, s, fits) = a
      \/ \E i : Corrected(a, g, s, fits) = ToElement(a, i)
      \/ \E i : Corrected(a, g, s, fits) = ToPlace(a, i)
  BY CorrectedTarget
<1>2. QED  BY <1>1

ActTypes == Statuses \cup Presses \cup Pointing \cup
            {"answer", "input_text", "scroll", "wait"}

\* What an answer may become: it is refused, or an action of a known type; and
\* completion is never accepted on a degraded screen.
LEMMA ParsedKinds ==
  ASSUME NEW answer \in Answer, NEW g, NEW s, NEW r,
         Parsed(answer, g, s, r) # Refused
  PROVE  /\ Parsed(answer, g, s, r).type \in ActTypes
         /\ answer.type = "complete" => ~Degraded(s)
         /\ Parsed(answer, g, s, r).type \in Statuses
              => Parsed(answer, g, s, r).type = answer.type
<1> DEFINE a == Normalized(answer)
<1>1. a \in Answer /\ a.type # "type"
  BY DEF Answer, Normalized
<1>2. a.type = "complete" <=> answer.type = "complete"
  BY DEF Answer, Normalized
<1>3. a.type \in Statuses => a.type = answer.type
  BY DEF Answer, Normalized, Statuses
<1>4. \A x, y, z : Acts(x, y, z).type = x  BY DEF Acts
<1>5. \A b, fits : Resolved(b, fits) = Refused \/ Resolved(b, fits).type = b.type
  BY <1>4 DEF Resolved
<1>6. a.type \in Unreadable \cup ActTypes
  BY <1>1 DEF Answer, ActTypes
<1> HIDE DEF a
<1>7. CASE a.type \in Unreadable
  <2>1. Parsed(answer, g, s, r) = Refused
    BY <1>7 DEF Parsed, a, Unreadable, Pointing
  <2>2. QED  BY <2>1
<1>8. CASE a.type = "complete"
  <2>1. CASE Degraded(s)
    <3>1. Parsed(answer, g, s, r) = Refused
      BY <1>8, <2>1 DEF Parsed, a, Unreadable, Pointing
    <3>2. QED  BY <3>1
  <2>2. CASE ~Degraded(s)
    <3>1. Parsed(answer, g, s, r) = Acts("complete", 0, 0)
      BY <1>8, <2>2 DEF Parsed, a, Unreadable, Pointing
    <3>2. QED  BY <3>1, <2>2, <1>2, <1>4, <1>8 DEF ActTypes, Statuses
  <2>3. QED  BY <2>1, <2>2
<1>9. CASE a.type \in Pointing
  <2>1. Parsed(answer, g, s, r)
          = Resolved(Corrected(a, g, s, Clickable(s)), Clickable(s))
    BY <1>9 DEF Parsed, a, Unreadable, Pointing
  <2>2. Corrected(a, g, s, Clickable(s)).type = a.type
    BY <1>1, CorrectedKeepsType DEF Answer, ToElement, ToPlace
  <2>3. Parsed(answer, g, s, r).type = a.type
    BY <2>1, <2>2, <1>5
  <2>4. QED  BY <2>3, <1>2, <1>9 DEF ActTypes, Statuses, Pointing
<1>10. CASE a.type = "input_text"
  <2> DEFINE f == Autofilled(a, g, s, r)
  <2>1. f = a \/ \E i : f = [a EXCEPT !.index = i, !.odd = "no"]
    BY DEF Autofilled
  <2>2. f.type = a.type  BY <2>1, <1>1 DEF Answer
  <2>3. \A i : ToElement(f, i).type = f.type /\ ToPlace(f, i).type = f.type
    BY <2>1, <1>1 DEF Answer, ToElement, ToPlace
  <2> HIDE DEF f
  <2>4. Corrected(f, g, s, Editable(s)).type = f.type
    BY <2>3, CorrectedKeepsType
  <2>5. Parsed(answer, g, s, r)
          = Resolved(Corrected(f, g, s, Editable(s)), Editable(s))
    BY <1>10 DEF Parsed, a, f, Unreadable, Pointing
  <2>6. QED  BY <2>2, <2>4, <2>5, <1>2, <1>5, <1>10 DEF ActTypes, Statuses
<1>11. CASE a.type = "scroll"
  BY <1>2, <1>4, <1>11 DEF Parsed, a, Unreadable, Pointing, ActTypes, Statuses
<1>12. CASE a.type \in ActTypes \ ({"complete", "input_text", "scroll"} \cup Pointing)
  <2>1. Parsed(answer, g, s, r) = Acts(a.type, 0, 0)
    BY <1>12 DEF Parsed, a, Unreadable, Pointing, ActTypes, Statuses, Presses
  <2>2. QED  BY <2>1, <1>2, <1>3, <1>4, <1>12
<1>13. QED  BY <1>6, <1>7, <1>8, <1>9, <1>10, <1>11, <1>12

\* What is not Light ends the run, so that the verifier looks at its effect.
LEMMA WeightyStops ==
  ASSUME NEW answer \in Answer, NEW g, NEW n \in Screens, NEW r,
         Parsed(answer, g, Look[n], r) # Refused,
         Parsed(answer, g, Look[n], r).type \notin Statuses,
         ~Light(Parsed(answer, g, Look[n], r), Look[n])
  PROVE  StopsForVerifier(Parsed(answer, g, Look[n], r), g, Look[n])
<1> DEFINE action == Parsed(answer, g, Look[n], r)
           s == Look[n]
<1>1. action.type \in ActTypes /\ action.type \notin Statuses /\ ~Light(action, s)
  BY ParsedKinds
<1> HIDE DEF action, s
<1>2. CASE action.type \in Presses \cup {"input_text"}
  BY <1>2 DEF StopsForVerifier, Presses, action, s
<1>3. CASE action.type \in Pointing
  <2>1. Target(action, s) \notin Editable(s)
    BY <1>1, <1>3 DEF Light, PressesField
  <2>2. QED  BY <1>3, <2>1 DEF StopsForVerifier, Pointing, action, s
<1>4. QED  BY <1>1, <1>2, <1>3 DEF ActTypes, Light

-----------------------------------------------------------------------------
(***************************************************************************)
(* Types.                                                                  *)
(***************************************************************************)
LEMMA FocusedNatural ==
  ASSUME SubtaskTypeOK, NEW action
  PROVE  Focused(action, Now) \in Nat
<1>1. Editable(Now) \subseteq Nat
  BY IndicesNatural DEF SubtaskTypeOK, Observation, Now
<1>2. QED  BY <1>1 DEF SubtaskTypeOK, Focused, PressesField

LEMMA WroteTyped ==
  ASSUME SubtaskTypeOK, NEW acted \in BOOLEAN, NEW failed \in BOOLEAN,
         NEW opened \in BOOLEAN, Wrote(acted, failed, opened)
  PROVE  history' \in [acted : BOOLEAN, failed : BOOLEAN, opened : BOOLEAN]
<1>1. history.acted \in BOOLEAN /\ history.failed \in BOOLEAN /\ history.opened \in BOOLEAN
  BY DEF SubtaskTypeOK
<1>2. QED  BY <1>1 DEF Wrote

LEMMA ActStepTyped ==
  ASSUME SubtaskTypeOK, run.steps < MaxSteps, NEW action, NEW stops \in BOOLEAN,
         ActAndLook(action, stops) \/ ActAndFail(action)
  PROVE  /\ run' \in [status : Ended \cup {"none", "running"}, steps : 0..MaxSteps,
                      obs : Observation]
         /\ executed' \in Nat /\ seen' \in Nat /\ weighty' \in Nat
<1>1. MaxSteps \in Nat \ {0}  BY SubtaskConfig
<1>2. executed' \in Nat /\ weighty' \in Nat
  <2>1. Execute(action)  BY DEF ActAndLook, ActAndFail
  <2>2. executed' = executed \/ executed' = executed + 1  BY <2>1 DEF Execute
  <2>3. weighty' = weighty \/ weighty' = weighty + (executed' - executed)
    BY <2>1 DEF Execute
  <2>4. QED  BY <2>2, <2>3 DEF SubtaskTypeOK
<1>3. CASE ActAndLook(action, stops)
  <2>1. PICK o \in Captured(executed') :
          run' = [status |-> IF stops THEN "stopped" ELSE "running",
                  steps |-> run.steps + 1, obs |-> o]
    BY <1>3 DEF ActAndLook, Stepped
  <2>2. o \in Observation  BY <1>2 DEF Captured, Observation
  <2>3. run.steps + 1 \in 0..MaxSteps  BY <1>1 DEF SubtaskTypeOK
  <2>4. QED  BY <1>2, <1>3, <2>1, <2>2, <2>3 DEF ActAndLook, Ended
<1>4. CASE ActAndFail(action)
  <2>1. run.steps + 1 \in 0..MaxSteps /\ run.obs \in Observation
    BY <1>1 DEF SubtaskTypeOK
  <2>2. QED  BY <1>2, <1>4, <2>1 DEF ActAndFail, Stepped, Ended, SubtaskTypeOK
<1>5. QED  BY <1>3, <1>4

LEMMA VerdictTyped ==
  ASSUME NEW said \in Opinions, NEW g, NEW s, NEW u, NEW h,
         NEW v \in Verdicts(said, g, s, u, h)
  PROVE  /\ v \in [status : {"success", "failure", "uncertain"}, eligible : BOOLEAN]
         /\ v.status = "success" => ~Vetoed(g, s, u, h)
  BY DEF Verdicts, Opinions

LEMMA VerdictEligible ==
  ASSUME NEW said \in Opinions, NEW g, NEW s, NEW u, NEW h,
         NEW v \in Verdicts(said, g, s, u, h)
  PROVE  v.status # "success" => v.eligible = FALSE
  BY DEF Verdicts, Opinions

LEMMA TypeInit == Init => SubtaskTypeOK
<1> SUFFICES ASSUME Init PROVE SubtaskTypeOK
  OBVIOUS
<1>1. obs \in Observation  BY DEF Init, Captured, Observation
<1>2. run \in [status : Ended \cup {"none", "running"}, steps : 0..MaxSteps,
               obs : Observation]
  BY <1>1, SubtaskConfig DEF Init
<1>3. /\ history \in [acted : BOOLEAN, failed : BOOLEAN, opened : BOOLEAN]
      /\ verdict \in [status : {"none", "success", "failure", "uncertain"},
                       eligible : BOOLEAN]
  BY DEF Init, NoSteps, NoVerdict
<1>4. QED  BY <1>1, <1>2, <1>3 DEF Init, SubtaskTypeOK

LEMMA TypeStep == SubtaskTypeOK /\ [Next]_vars => SubtaskTypeOK'
<1> SUFFICES ASSUME SubtaskTypeOK, [Next]_vars PROVE SubtaskTypeOK'
  OBVIOUS
<1>m. MaxSteps \in Nat \ {0}  BY SubtaskConfig
<1>c. \A k \in Nat : \A o \in Captured(k) : o \in Observation
  BY DEF Captured, Observation
<1>1. CASE StartSubtask
  BY <1>1, <1>m DEF StartSubtask, StartRun, NoSteps, SubtaskTypeOK, device
<1>2. CASE DirectOpen
  <2>1. run.steps < MaxSteps  BY <1>2, <1>m DEF DirectOpen, OpensDirectly
  <2>2. ActAndLook(Acts("open_app", 0, 0), TRUE) \/ ActAndFail(Acts("open_app", 0, 0))
    BY <1>2 DEF DirectOpen
  <2>3. /\ run' \in [status : Ended \cup {"none", "running"}, steps : 0..MaxSteps,
                     obs : Observation]
        /\ executed' \in Nat /\ seen' \in Nat /\ weighty' \in Nat
    BY <2>1, <2>2, ActStepTyped
  <2>4. history' \in [acted : BOOLEAN, failed : BOOLEAN, opened : BOOLEAN]
    BY <1>2, WroteTyped DEF DirectOpen
  <2>5. QED  BY <1>2, <2>3, <2>4 DEF DirectOpen, SubtaskTypeOK
<1>3. ASSUME NEW answer \in Answers, RefuseAnswer(answer) PROVE SubtaskTypeOK'
  <2>1. run.steps + 1 \in 0..MaxSteps
    BY <1>3, <1>m DEF RefuseAnswer, MayAsk, SubtaskTypeOK
  <2>2. history' \in [acted : BOOLEAN, failed : BOOLEAN, opened : BOOLEAN]
    BY <1>3, WroteTyped DEF RefuseAnswer
  <2>3. QED
    BY <1>3, <2>1, <2>2 DEF RefuseAnswer, Stepped, Ended, SubtaskTypeOK, device
<1>4. ASSUME NEW answer \in Answers, Declare(answer) PROVE SubtaskTypeOK'
  <2>1. run.steps + 1 \in 0..MaxSteps
    BY <1>4, <1>m DEF Declare, MayAsk, SubtaskTypeOK
  <2>2. history' \in [acted : BOOLEAN, failed : BOOLEAN, opened : BOOLEAN]
    BY <1>4, WroteTyped DEF Declare
  <2>3. QED
    BY <1>4, <2>1, <2>2 DEF Declare, Stepped, Ended, SubtaskTypeOK, device
<1>5. ASSUME NEW answer \in Answers, TakeAction(answer) PROVE SubtaskTypeOK'
  <2> DEFINE action == ParsedHere(answer)
             stops == StopsForVerifier(action, goal, Now)
  <2>1. run.steps < MaxSteps  BY <1>5 DEF TakeAction, MayAsk
  <2>2. stops \in BOOLEAN  BY DEF StopsForVerifier
  <2>3. recent' = Focused(action, Now)  BY <1>5 DEF TakeAction
  <2>4. ActAndLook(action, stops) \/ ActAndFail(action)  BY <1>5 DEF TakeAction
  <2>5. history' \in [acted : BOOLEAN, failed : BOOLEAN, opened : BOOLEAN]
    BY <1>5, WroteTyped DEF TakeAction
  <2>6. UNCHANGED <<pc, goal, obs, before, attempt, persisted, verdict, opinion>>
    BY <1>5 DEF TakeAction
  <2> HIDE DEF action, stops
  <2>7. recent' \in Nat  BY <2>3, FocusedNatural
  <2>8. /\ run' \in [status : Ended \cup {"none", "running"}, steps : 0..MaxSteps,
                     obs : Observation]
        /\ executed' \in Nat /\ seen' \in Nat /\ weighty' \in Nat
    BY <2>1, <2>2, <2>4, ActStepTyped
  <2>9. QED  BY <2>5, <2>6, <2>7, <2>8 DEF SubtaskTypeOK
<1>6. CASE StepLimit
  BY <1>6 DEF StepLimit, Ended, SubtaskTypeOK, device
<1>7. CASE Rerun
  <2>1. PICK o \in Captured(executed) : StartRun(o)  BY <1>7 DEF Rerun
  <2>2. o \in Observation  BY <1>c DEF SubtaskTypeOK
  <2>3. QED  BY <1>7, <1>m, <2>1, <2>2 DEF Rerun, StartRun, NoSteps, SubtaskTypeOK
<1>8. CASE Settle
  BY <1>8 DEF Settle, SubtaskTypeOK, device
<1>9. CASE Refresh
  <2>1. PICK o \in Captured(executed) : run' = [run EXCEPT !.obs = o]
    BY <1>9 DEF Refresh
  <2>2. o \in Observation  BY <1>c DEF SubtaskTypeOK
  <2>3. QED  BY <1>9, <2>1, <2>2 DEF Refresh, SubtaskTypeOK
<1>10. CASE Retry
  <2>1. PICK o \in Captured(executed) : StartRun(o)  BY <1>10 DEF Retry
  <2>2. o \in Observation  BY <1>c DEF SubtaskTypeOK
  <2>3. QED  BY <1>10, <1>m, <2>1, <2>2 DEF Retry, StartRun, NoSteps, SubtaskTypeOK
<1>11. CASE SettleRetry
  BY <1>11 DEF SettleRetry, SubtaskTypeOK, device
<1>12. ASSUME NEW said \in Opinions, Judge(said) PROVE SubtaskTypeOK'
  <2>1. verdict' \in [status : {"none", "success", "failure", "uncertain"},
                      eligible : BOOLEAN]
    <3>1. PICK launchTold, onlyVisible \in BOOLEAN :
            verdict' \in Verdicts(said, goal, Look[before.screen], Now,
                                  Read(launchTold, onlyVisible))
      BY <1>12 DEF Judge
    <3>2. verdict' \in [status : {"success", "failure", "uncertain"},
                        eligible : BOOLEAN]
      BY <3>1, VerdictTyped
    <3>3. QED  BY <3>2
  <2>2. obs' \in Observation  BY <1>12 DEF Judge, SubtaskTypeOK
  <2>3. QED  BY <1>12, <2>1, <2>2 DEF Judge, SubtaskTypeOK, device
<1>13. CASE UNCHANGED vars
  BY <1>13 DEF vars, device, SubtaskTypeOK
<1>14. QED
  BY <1>1, <1>2, <1>3, <1>4, <1>5, <1>6, <1>7, <1>8, <1>9, <1>10, <1>11, <1>12,
     <1>13 DEF Next

\* The state of a subtask keeps its type; a run never takes more steps than its
\* limit (run_subtask's loop over ActorConfig.max_steps).
THEOREM SubtaskTypeCorrect == Spec => []SubtaskTypeOK
  BY TypeInit, TypeStep, PTL DEF Spec

-----------------------------------------------------------------------------
(***************************************************************************)
(* What the actor, the runner and the verifier owe each other.             *)
(***************************************************************************)
\* Ends of a run that leave nothing unseen: its last action was Light, if it acted.
Quiet == {"none", "running", "parse_error", "completed", "infeasible", "step_limit"}

NotStarted == pc = "subtask" => run.status = "none" /\ attempt = "first"
CompletedIsSound == run.status = "completed" => ~Degraded(Now)
BeforeIsHeld == pc # "judged" => before = obs
WeightyBound ==
  weighty <= (IF attempt = "retry" THEN 1 ELSE 0)
             + (IF run.status \in Quiet THEN 0 ELSE 1)

SubtaskInv == SubtaskTypeOK /\ NotStarted /\ CompletedIsSound /\ BeforeIsHeld
              /\ WeightyBound

\* A screen the runner looks at again was never declared complete on.
LEMMA UntrustedNotCompleted ==
  ASSUME SubtaskInv, run.obs.screen \in Untrusted PROVE run.status # "completed"
  BY DistrustedIsDegraded DEF SubtaskInv, CompletedIsSound, Untrusted, Now

\* A step of a run ends it, unless its action was Light.
LEMMA ActStepBounded ==
  ASSUME SubtaskInv, Running, NEW action, NEW stops \in BOOLEAN,
         ActAndLook(action, stops) \/ ActAndFail(action),
         Light(action, Now) \/ stops
  PROVE  /\ weighty' <= (IF attempt = "retry" THEN 1 ELSE 0)
                        + (IF run'.status \in Quiet THEN 0 ELSE 1)
         /\ run'.status \in {"running", "stopped", "execution_error"}
<1>1. /\ weighty \in Nat /\ executed \in Nat
      /\ weighty <= IF attempt = "retry" THEN 1 ELSE 0
  BY DEF SubtaskInv, SubtaskTypeOK, WeightyBound, Running, Quiet
<1>2. Execute(action)  BY DEF ActAndLook, ActAndFail
<1>3. \/ Light(action, Now) /\ weighty' = weighty
      \/ ~Light(action, Now) /\ weighty' \in {weighty, weighty + 1}
  <2>1. executed' = executed \/ executed' = executed + 1  BY <1>2, Zenon DEF Execute
  <2>2. CASE Light(action, Now)  BY <1>2, <2>2 DEF Execute
  <2>3. CASE ~Light(action, Now)
    <3>1. weighty' = weighty + (executed' - executed)  BY <1>2, <2>3 DEF Execute
    <3>2. CASE executed' = executed  BY <1>1, <2>3, <3>1, <3>2
    <3>3. CASE executed' = executed + 1  BY <1>1, <2>3, <3>1, <3>3
    <3>4. QED  BY <2>1, <3>2, <3>3
  <2>4. QED  BY <2>2, <2>3
<1>4. CASE ActAndLook(action, stops)
  <2>1. run'.status = IF stops THEN "stopped" ELSE "running"
    BY <1>4 DEF ActAndLook, Stepped
  <2>2. CASE stops
    BY <1>1, <1>3, <2>1, <2>2 DEF Quiet
  <2>3. CASE ~stops
    BY <1>1, <1>3, <2>1, <2>3 DEF Quiet
  <2>4. QED  BY <2>2, <2>3
<1>5. CASE ActAndFail(action)
  <2>1. run'.status = "execution_error"  BY <1>5 DEF ActAndFail, Stepped
  <2>2. QED  BY <1>1, <1>3, <2>1 DEF Quiet
<1>6. QED  BY <1>4, <1>5

LEMMA InvInit == Init => SubtaskInv
  BY TypeInit
  DEF Init, SubtaskInv, NotStarted, CompletedIsSound, BeforeIsHeld, WeightyBound, Quiet

LEMMA InvStep == SubtaskInv /\ [Next]_vars => SubtaskInv'
<1> SUFFICES ASSUME SubtaskInv, [Next]_vars PROVE SubtaskInv'
  OBVIOUS
<1> USE DEF NotStarted, CompletedIsSound, BeforeIsHeld
<1>t. SubtaskTypeOK /\ SubtaskTypeOK'  BY TypeStep DEF SubtaskInv
<1>w. weighty \in Nat  BY <1>t DEF SubtaskTypeOK
<1>r. \A o : StartRun(o) => run'.status = "running"  BY DEF StartRun
<1>s. \A status, o : Stepped(status, o) => run'.status = status /\ run'.obs = o
  BY DEF Stepped
<1>1. CASE StartSubtask
  BY <1>1, <1>t, <1>r DEF StartSubtask, SubtaskInv, WeightyBound, Quiet, device
<1>2. CASE DirectOpen
  <2>1. ActAndLook(Acts("open_app", 0, 0), TRUE) \/ ActAndFail(Acts("open_app", 0, 0))
    BY <1>2 DEF DirectOpen
  <2>2. Running /\ UNCHANGED <<pc, obs, before, attempt>>  BY <1>2 DEF DirectOpen
  <2>3. /\ weighty' <= (IF attempt = "retry" THEN 1 ELSE 0)
                       + (IF run'.status \in Quiet THEN 0 ELSE 1)
        /\ run'.status \in {"running", "stopped", "execution_error"}
    BY <2>1, <2>2, ActStepBounded
  <2>4. QED  BY <1>t, <2>2, <2>3 DEF SubtaskInv, WeightyBound, Running
<1>3. ASSUME NEW answer \in Answers, RefuseAnswer(answer) PROVE SubtaskInv'
  <2>1. /\ Running /\ run'.status = "parse_error"
        /\ UNCHANGED <<pc, obs, before, attempt, weighty>>
    BY <1>3, <1>s DEF RefuseAnswer, MayAsk, device
  <2>2. QED  BY <1>t, <1>w, <2>1 DEF SubtaskInv, WeightyBound, Quiet, Running
<1>4. ASSUME NEW answer \in Answers, Declare(answer) PROVE SubtaskInv'
  <2>1. /\ Running /\ UNCHANGED <<pc, obs, before, attempt, weighty>>
        /\ run'.status = IF answer.type = "complete" THEN "completed" ELSE "infeasible"
        /\ run'.obs = run.obs
    BY <1>4, <1>s DEF Declare, MayAsk, device
  <2>2. ASSUME answer.type = "complete" PROVE ~Degraded(Now)
    <3>1. Parsed(answer, goal, Now, recent) # Refused
      BY <1>4 DEF Declare, ParsedHere, Refused, Statuses
    <3>2. answer \in Answer  BY SubtaskConfig
    <3>3. QED  BY <2>2, <3>1, <3>2, ParsedKinds
  <2>3. CompletedIsSound'  BY <2>1, <2>2, SubtaskConfig DEF Now
  <2>4. QED  BY <1>t, <1>w, <2>1, <2>3 DEF SubtaskInv, WeightyBound, Quiet, Running
<1>5. ASSUME NEW answer \in Answers, TakeAction(answer) PROVE SubtaskInv'
  <2> DEFINE action == ParsedHere(answer)
             stops == StopsForVerifier(action, goal, Now)
  <2>1. /\ Running /\ action # Refused /\ action.type \notin Statuses
        /\ ActAndLook(action, stops) \/ ActAndFail(action)
        /\ UNCHANGED <<pc, obs, before, attempt>>
    BY <1>5 DEF TakeAction, MayAsk
  <2>2. Light(action, Now) \/ stops
    <3>1. answer \in Answer /\ run.obs.screen \in Screens
      BY <1>t, SubtaskConfig DEF SubtaskTypeOK, Observation
    <3>2. QED  BY <2>1, <3>1, WeightyStops DEF Now, ParsedHere
  <2>3. stops \in BOOLEAN  BY DEF StopsForVerifier
  <2> HIDE DEF action, stops
  <2>4. /\ weighty' <= (IF attempt = "retry" THEN 1 ELSE 0)
                       + (IF run'.status \in Quiet THEN 0 ELSE 1)
        /\ run'.status \in {"running", "stopped", "execution_error"}
    BY <2>1, <2>2, <2>3, ActStepBounded
  <2>5. QED  BY <1>t, <2>1, <2>4 DEF SubtaskInv, WeightyBound, Running
<1>6. CASE StepLimit
  <2>1. /\ Running /\ run'.status = "step_limit"
        /\ UNCHANGED <<pc, obs, before, attempt, weighty>>
    BY <1>6, <1>t DEF StepLimit, SubtaskTypeOK, device
  <2>2. QED  BY <1>t, <1>w, <2>1 DEF SubtaskInv, WeightyBound, Quiet, Running
<1>7. CASE Rerun
  <2>1. /\ run.status = "parse_error" /\ run'.status = "running"
        /\ attempt = "first" /\ attempt' = "rerun"
        /\ UNCHANGED <<pc, obs, before, weighty>> /\ pc = "acting"
    BY <1>7, <1>r DEF Rerun, RunEnded, BlindParseError
  <2>2. QED  BY <1>t, <1>w, <2>1 DEF SubtaskInv, WeightyBound, Quiet
<1>8. CASE Settle
  BY <1>8, <1>t
  DEF Settle, Recovering, RunEnded, SubtaskInv, WeightyBound, Now, device
<1>9. CASE Refresh
  <2>1. /\ pc' = "judging" /\ pc = "acting" /\ UNCHANGED <<obs, before, attempt, weighty>>
        /\ run'.status = run.status /\ run.obs.screen \in Untrusted
    BY <1>9, <1>t DEF Refresh, Recovering, RunEnded, SubtaskTypeOK
  <2>2. run.status # "completed"  BY <2>1, UntrustedNotCompleted
  <2>3. QED  BY <1>t, <2>1, <2>2 DEF SubtaskInv, WeightyBound
<1>10. CASE Retry
  <2>1. /\ run'.status = "running" /\ attempt # "retry" /\ attempt' = "retry"
        /\ pc = "acting" /\ UNCHANGED <<pc, obs, before, weighty>>
    BY <1>10, <1>r DEF Retry, Recovering, RunEnded
  <2>2. QED  BY <1>t, <1>w, <2>1 DEF SubtaskInv, WeightyBound, Quiet
<1>11. CASE SettleRetry
  BY <1>11, <1>t DEF SettleRetry, RunEnded, SubtaskInv, WeightyBound, Now, device
<1>12. ASSUME NEW said \in Opinions, Judge(said) PROVE SubtaskInv'
  BY <1>12, <1>t DEF Judge, SubtaskInv, WeightyBound, Now, device
<1>13. CASE UNCHANGED vars
  BY <1>13, <1>t DEF vars, device, SubtaskInv, WeightyBound, Now
<1>14. QED
  BY <1>1, <1>2, <1>3, <1>4, <1>5, <1>6, <1>7, <1>8, <1>9, <1>10, <1>11, <1>12,
     <1>13 DEF Next

LEMMA InvHolds == Spec => []SubtaskInv
  BY InvInit, InvStep, PTL DEF Spec

\* On any screens, icons laid over fields included: a text, an enter, a navigation,
\* or a press that is not one on a field is done at most twice before somebody judges
\* it, and once unless the retry repeats it (run_task's reruns, run_subtask's stop
\* rule).  A press by coordinates that the actor takes for one on a field, whatever
\* it hits, is not bounded by this: DeviceIsBounded bounds it with all others.
THEOREM NothingRepeatedTwice == Spec => []RepeatedAtMostOnce
<1>1. SubtaskInv => RepeatedAtMostOnce
  BY DEF SubtaskInv, SubtaskTypeOK, WeightyBound, RepeatedAtMostOnce
<1>2. QED  BY <1>1, InvHolds, PTL

\* A run that was declared complete is judged as it is: parse_actor_action refuses
\* completion on every screen run_task would distrust.
THEOREM CompletionIsKept == Spec => CompletedRunStands
<1>1. SubtaskInv /\ [Next]_vars => [run.status = "completed" => run' = run]_vars
  <2> SUFFICES ASSUME SubtaskInv, Next, run.status = "completed"
               PROVE  run' = run
    OBVIOUS
  <2>1. ~Running  BY DEF Running
  <2>2. run.obs.screen \notin Untrusted  BY UntrustedNotCompleted
  <2>3. CASE StartSubtask  BY <2>3 DEF StartSubtask, SubtaskInv, NotStarted
  <2>4. CASE Rerun  BY <2>4 DEF Rerun, BlindParseError
  <2>5. ~DirectOpen /\ ~StepLimit /\ ~Refresh /\ ~Retry
    BY <2>1, <2>2 DEF DirectOpen, StepLimit, Refresh, Retry
  <2>6. \A answer \in Answers :
          ~RefuseAnswer(answer) /\ ~Declare(answer) /\ ~TakeAction(answer)
    BY <2>1 DEF RefuseAnswer, Declare, TakeAction, MayAsk
  <2>7. CASE Settle  BY <2>7 DEF Settle
  <2>8. CASE SettleRetry  BY <2>8 DEF SettleRetry
  <2>9. CASE \E said \in Opinions : Judge(said)  BY <2>9 DEF Judge
  <2>10. QED  BY <2>3, <2>4, <2>5, <2>6, <2>7, <2>8, <2>9 DEF Next
<1>2. QED  BY <1>1, InvHolds, PTL DEF Spec, CompletedRunStands

\* A success of a subtask with progress to make, or a toggle, compares the screen
\* held at its start with its last one (_apply_local_verification_vetoes).
THEOREM SuccessMeansMoved == Spec => VerifiedMeansMoved
<1> DEFINE P == pc = "judging" /\ verdict'.status = "success" =>
                  /\ goal.progress => LooksDifferent(Look[obs.screen], Look[obs'.screen])
                  /\ goal.kind = "toggle"
                       => ToggleChanged(Look[obs.screen], Look[obs'.screen])
<1>1. SubtaskInv /\ [Next]_vars => [P]_vars
  <2> SUFFICES ASSUME SubtaskInv, Next, pc = "judging", verdict'.status = "success"
               PROVE  /\ goal.progress
                           => LooksDifferent(Look[obs.screen], Look[obs'.screen])
                      /\ goal.kind = "toggle"
                           => ToggleChanged(Look[obs.screen], Look[obs'.screen])
    OBVIOUS
  <2>1. PICK said \in Opinions : Judge(said)
    BY DEF Next, StartSubtask, DirectOpen, Running, RefuseAnswer, Declare, TakeAction,
           MayAsk, StepLimit, Rerun, Settle, Refresh, Retry, SettleRetry, RunEnded,
           Recovering
  <2>2. PICK h : verdict' \in Verdicts(said, goal, Look[before.screen], Now, h)
    BY <2>1 DEF Judge
  <2>3. ~Vetoed(goal, Look[before.screen], Now, h)
    BY <2>2, VerdictTyped
  <2>4. before = obs /\ Now = Look[obs'.screen]
    BY <2>1 DEF Judge, SubtaskInv, BeforeIsHeld, Now
  <2>5. QED  BY <2>3, <2>4 DEF Vetoed, VetoNoProgress, LooksDifferent
<1>2. QED  BY <1>1, InvHolds, PTL DEF Spec, VerifiedMeansMoved

\* A success the model claims is lost only to a veto.
LEMMA AcceptedUnlessVetoed ==
  ASSUME NEW g, NEW s, NEW t, NEW h, NEW v \in Verdicts("success", g, s, t, h),
         ~Vetoed(g, s, t, h)
  PROVE  v.status = "success"
  BY DEF Verdicts

ToggleKeptUnlessSameLook ==
  \/ VetoNoProgress(goal, Look[before.screen], Look[obs.screen])
  \/ ChangedToggleKept

\* A changed toggle the model accepts is refused for one reason only: the goal asks
\* for progress, and the two descriptions, which leave check marks out, are the same
\* (_should_veto_no_progress_success).  The other vetoes, and every rerun, refresh and
\* retry before them, let it pass.
THEOREM OnlyTheDescriptionRefuses == Spec => []ToggleKeptUnlessSameLook
<1>1. Init => ToggleKeptUnlessSameLook
  BY DEF Init, ToggleKeptUnlessSameLook, ChangedToggleKept, Judged
<1>2. ToggleKeptUnlessSameLook /\ [Next]_vars => ToggleKeptUnlessSameLook'
  <2> SUFFICES ASSUME ToggleKeptUnlessSameLook, [Next]_vars,
                      pc' = "judged", opinion' = "success", goal'.kind = "toggle",
                      ToggleChanged(Look[before.screen], Look[obs.screen])',
                      ~VetoNoProgress(goal, Look[before.screen], Look[obs.screen])'
               PROVE  verdict'.status = "success"
    BY DEF ToggleKeptUnlessSameLook, ChangedToggleKept, Judged
  <2>1. CASE UNCHANGED vars
    BY <2>1 DEF vars, ToggleKeptUnlessSameLook, ChangedToggleKept, Judged
  <2>2. CASE \E said \in Opinions : Judge(said)
    <3>1. Judge("success")  BY <2>2 DEF Judge
    <3>2. PICK h :
            verdict' \in Verdicts("success", goal, Look[before.screen], Now, h)
      BY <3>1 DEF Judge
    <3>3. UNCHANGED <<goal, before>> /\ Now = Look[obs'.screen]
      BY <3>1 DEF Judge, Now
    <3>4. ~Vetoed(goal, Look[before.screen], Now, h)
      BY <3>3 DEF Vetoed
    <3>5. QED  BY <3>2, <3>4, AcceptedUnlessVetoed
  <2>3. Next => \E said \in Opinions : Judge(said)
    BY DEF Next, StartSubtask, DirectOpen, Running, RefuseAnswer, Declare, TakeAction,
           MayAsk, StepLimit, Rerun, Settle, Refresh, Retry, SettleRetry, RunEnded,
           Recovering
  <2>4. QED  BY <2>1, <2>2, <2>3
<1>3. QED  BY <1>1, <1>2, PTL DEF Spec

-----------------------------------------------------------------------------
(***************************************************************************)
(* The refinement: each action is the runner's of the same name, the       *)
(* actor's are its ActorRuns.                                              *)
(***************************************************************************)
LEMMA KindIs ==
  ASSUME NEW n \in Screens
  PROVE  /\ Kind(n) \in Runner!Kinds
         /\ Kind(n) = "unstable" <=> n \in Unstable
         /\ Kind(n) = "usable" <=> n \notin Untrusted
  BY DEF Kind, Runner!Kinds, Unstable, Untrusted, Distrusted

LEMMA ReducedCapture ==
  ASSUME NEW k \in Nat, NEW o \in Captured(k)
  PROVE  Reduced(o) \in Runner!Captured(k)
  BY KindIs DEF Captured, Reduced, Runner!Captured

\* The run as TaskRunner has it.
RunOf(r) == [r EXCEPT !.obs = Reduced(r.obs)]

LEMMA RunOfIs ==
  ASSUME NEW r, NEW status, NEW steps, NEW o,
         r = [status |-> status, steps |-> steps, obs |-> o]
  PROVE  RunOf(r) = [status |-> status, steps |-> steps, obs |-> Reduced(o)]
  BY DEF RunOf

LEMMA RunOfTyped ==
  ASSUME SubtaskTypeOK
  PROVE  /\ RunOf(run) = [status |-> run.status, steps |-> run.steps,
                          obs |-> Reduced(run.obs)]
         /\ RunOf(run).status = run.status
         /\ RunOf(run).steps = run.steps
         /\ RunOf(run).obs = Reduced(run.obs)
         /\ Reduced(run.obs).kind = "usable" <=> run.obs.screen \notin Untrusted
         /\ Reduced(run.obs).kind = "unstable" <=> run.obs.screen \in Unstable
  BY KindIs DEF RunOf, SubtaskTypeOK, Observation, Reduced

\* A step of the actor leaves the rest of the runner alone.
LEMMA OnlyTheActor ==
  ASSUME UNCHANGED <<pc, obs, attempt, persisted, verdict>>, pc = "acting",
         Runner!ActorStep
  PROVE  Runner!RunnerStep
  BY DEF Runner!RunnerStep, Runner!ActorRuns, Runner!runnerVars, Judged

LEMMA ActIsActorStep ==
  ASSUME SubtaskTypeOK, Running, run.steps < MaxSteps, NEW action,
         NEW stops \in BOOLEAN, ActAndLook(action, stops) \/ ActAndFail(action)
  PROVE  Runner!ActorStep
<1>1. Runner!MayStep
  BY RunOfTyped DEF Runner!MayStep, Runner!Running, Running, RunOf
<1>2. CASE ActAndLook(action, stops)
  <2> DEFINE status == IF stops THEN "stopped" ELSE "running"
  <2>1. executed' = executed + 1 /\ seen' = executed'  BY <1>2 DEF ActAndLook
  <2>2. PICK o \in Captured(executed') :
          run' = [status |-> status, steps |-> run.steps + 1, obs |-> o]
    BY <1>2 DEF ActAndLook, Stepped
  <2> HIDE DEF status
  <2>3. Reduced(o) \in Runner!Captured(executed')
    BY <2>1, ReducedCapture DEF SubtaskTypeOK
  <2>4. RunOf(run') = [status |-> status, steps |-> run.steps + 1, obs |-> Reduced(o)]
    BY <2>2, RunOfIs
  <2>5. Runner!Stepped(status, Reduced(o)) = RunOf(run')
    BY <2>4, RunOfTyped DEF Runner!Stepped, RunOf
  <2>6. Runner!Act(status)
    BY <1>1, <2>1, <2>3, <2>5 DEF Runner!Act, RunOf
  <2>7. status \in {"running", "stopped"}  BY DEF status
  <2>8. QED  BY <2>6, <2>7 DEF Runner!ActorStep
<1>3. CASE ActAndFail(action)
  <2>1. executed' \in {executed, executed + 1} /\ UNCHANGED seen
    BY <1>3, Zenon DEF ActAndFail, Execute
  <2>2. run' = [status |-> "execution_error", steps |-> run.steps + 1, obs |-> run.obs]
    BY <1>3 DEF ActAndFail, Stepped
  <2>3. RunOf(run') = [status |-> "execution_error", steps |-> run.steps + 1,
                       obs |-> Reduced(run.obs)]
    BY <2>2, RunOfIs
  <2>4. Runner!Stepped("execution_error", RunOf(run).obs) = RunOf(run')
    BY <2>3, RunOfTyped DEF Runner!Stepped, RunOf
  <2>5. Runner!ExecutionError
    BY <1>1, <2>1, <2>4 DEF Runner!ExecutionError, RunOf
  <2>6. QED  BY <2>5 DEF Runner!ActorStep
<1>4. QED  BY <1>2, <1>3

LEMMA EndIsActorStep ==
  ASSUME SubtaskTypeOK, Running, run.steps < MaxSteps,
         NEW status \in {"parse_error", "completed", "infeasible"},
         Stepped(status, run.obs), UNCHANGED <<executed, seen>>
  PROVE  Runner!ActorStep
<1>1. Runner!MayStep
  BY RunOfTyped DEF Runner!MayStep, Runner!Running, Running, RunOf
<1>2. RunOf(run') = [status |-> status, steps |-> run.steps + 1,
                     obs |-> Reduced(run.obs)]
  BY RunOfIs DEF Stepped
<1>3. Runner!Stepped(status, RunOf(run).obs) = RunOf(run')
  BY <1>2, RunOfTyped DEF Runner!Stepped, RunOf
<1>4. Runner!EndWithoutAction(status)
  BY <1>1, <1>3 DEF Runner!EndWithoutAction, RunOf
<1>5. QED  BY <1>4 DEF Runner!ActorStep

\* A run started from a new capture, as TaskRunner has it.
LEMMA StartIsStart ==
  ASSUME SubtaskTypeOK, NEW o \in Captured(executed), StartRun(o), seen' = executed
  PROVE  /\ Reduced(o) \in Runner!Captured(executed)
         /\ Runner!Captures(Reduced(o))
         /\ Runner!StartRun(Reduced(o))
<1>1. Reduced(o) \in Runner!Captured(executed)
  BY ReducedCapture DEF SubtaskTypeOK
<1>2. RunOf(run') = [status |-> "running", steps |-> 0, obs |-> Reduced(o)]
  BY RunOfIs DEF StartRun
<1>3. QED  BY <1>1, <1>2 DEF Runner!Captures, Runner!StartRun, RunOf

LEMMA EndedIsEnded ==
  ASSUME SubtaskTypeOK
  PROVE  /\ RunEnded <=> Runner!RunEnded
         /\ BlindParseError <=> Runner!BlindParseError
         /\ Recovering <=> Runner!Recovering
<1>1. RunEnded <=> Runner!RunEnded
  BY RunOfTyped DEF RunEnded, Runner!RunEnded, Ended, Runner!Ended, RunOf, Judged
<1>2. BlindParseError <=> Runner!BlindParseError
  BY RunOfTyped DEF BlindParseError, Runner!BlindParseError, RunOf
<1>3. QED  BY <1>1, <1>2 DEF Recovering, Runner!Recovering

LEMMA StepRefines ==
  SubtaskInv /\ [Next]_vars => [Runner!RunnerStep]_(Runner!vars)
<1> SUFFICES ASSUME SubtaskInv, [Next]_vars
             PROVE  Runner!RunnerStep \/ UNCHANGED Runner!vars
  OBVIOUS
<1>t. SubtaskTypeOK  BY DEF SubtaskInv
<1>e. executed \in Nat  BY <1>t DEF SubtaskTypeOK
<1>1. CASE StartSubtask
  <2>1. RunOf(run') = [status |-> "running", steps |-> 0, obs |-> Reduced(obs)]
    BY <1>1, RunOfIs DEF StartSubtask, StartRun
  <2>2. Runner!StartRun(Reduced(obs))
    BY <2>1 DEF Runner!StartRun, RunOf
  <2>3. attempt = "first"  BY <1>1 DEF StartSubtask, SubtaskInv, NotStarted
  <2>4. Runner!StartSubtask
    BY <1>1, <2>2, <2>3 DEF StartSubtask, device, Runner!StartSubtask, Judged
  <2>5. QED  BY <2>4 DEF Runner!RunnerStep
<1>2. CASE DirectOpen
  <2>1. ActAndLook(Acts("open_app", 0, 0), TRUE) \/ ActAndFail(Acts("open_app", 0, 0))
    BY <1>2 DEF DirectOpen
  <2>2. Running /\ run.steps < MaxSteps
    BY <1>2, SubtaskConfig DEF DirectOpen, OpensDirectly
  <2>3. Runner!ActorStep  BY <1>t, <2>1, <2>2, ActIsActorStep
  <2>4. QED  BY <1>2, <2>2, <2>3, OnlyTheActor DEF DirectOpen, Running
<1>3. ASSUME NEW answer \in Answers, RefuseAnswer(answer) PROVE Runner!RunnerStep
  <2>1. Runner!ActorStep
    BY <1>t, <1>3, EndIsActorStep DEF RefuseAnswer, MayAsk, device
  <2>2. QED  BY <1>3, <2>1, OnlyTheActor DEF RefuseAnswer, MayAsk, Running
<1>4. ASSUME NEW answer \in Answers, Declare(answer) PROVE Runner!RunnerStep
  <2>1. PICK status \in {"parse_error", "completed", "infeasible"} :
          Stepped(status, run.obs)
    BY <1>4 DEF Declare
  <2>2. Runner!ActorStep
    BY <1>t, <1>4, <2>1, EndIsActorStep DEF Declare, MayAsk, device
  <2>3. QED  BY <1>4, <2>2, OnlyTheActor DEF Declare, MayAsk, Running
<1>5. ASSUME NEW answer \in Answers, TakeAction(answer) PROVE Runner!RunnerStep
  <2> DEFINE action == ParsedHere(answer)
             stops == StopsForVerifier(action, goal, Now)
  <2>1. /\ Running /\ run.steps < MaxSteps
        /\ ActAndLook(action, stops) \/ ActAndFail(action)
        /\ UNCHANGED <<pc, obs, attempt, persisted, verdict>>
    BY <1>5 DEF TakeAction, MayAsk
  <2>2. stops \in BOOLEAN  BY DEF StopsForVerifier
  <2> HIDE DEF action, stops
  <2>3. Runner!ActorStep  BY <1>t, <2>1, <2>2, ActIsActorStep
  <2>4. QED  BY <2>1, <2>3, OnlyTheActor DEF Running
<1>6. CASE StepLimit
  <2>1. run' = [status |-> "step_limit", steps |-> run.steps, obs |-> run.obs]
    BY <1>6, <1>t DEF StepLimit, SubtaskTypeOK
  <2>2. RunOf(run') = [status |-> "step_limit", steps |-> run.steps,
                       obs |-> Reduced(run.obs)]
    BY <2>1, RunOfIs
  <2>3. RunOf(run') = [RunOf(run) EXCEPT !.status = "step_limit"]
    BY <1>t, <2>2, RunOfTyped
  <2>4. Runner!StepLimit
    BY <1>6, <1>t, <2>3, RunOfTyped
    DEF StepLimit, Running, device, Runner!StepLimit, Runner!Running, RunOf
  <2>5. Runner!ActorStep  BY <2>4 DEF Runner!ActorStep
  <2>6. QED  BY <1>6, <2>5, OnlyTheActor DEF StepLimit, Running
<1>7. CASE Rerun
  <2>1. PICK o \in Captured(executed) : StartRun(o)  BY <1>7 DEF Rerun
  <2>2. seen' = executed  BY <1>7 DEF Rerun
  <2>3. \E r \in Runner!Captured(executed) : Runner!Captures(r) /\ Runner!StartRun(r)
    BY <1>t, <2>1, <2>2, StartIsStart
  <2>4. Runner!RunEnded /\ Runner!BlindParseError
    BY <1>7, <1>t, EndedIsEnded DEF Rerun
  <2>5. Runner!Rerun
    BY <1>7, <2>3, <2>4 DEF Rerun, RunEnded, Runner!Rerun, Judged
  <2>6. QED  BY <2>5 DEF Runner!RunnerStep
<1>8. CASE Settle
  <2>1. Runner!Recovering  BY <1>8, <1>t, EndedIsEnded DEF Settle
  <2>2. Runner!Settle
    BY <1>8, <1>t, <2>1, RunOfTyped
    DEF Settle, Recovering, RunEnded, Runner!Settle, Runner!actorVars, RunOf, Judged,
        device
  <2>3. QED  BY <2>2 DEF Runner!RunnerStep
<1>9. CASE Refresh
  <2>1. PICK o \in Captured(executed) :
          o.screen \notin Untrusted /\ run' = [run EXCEPT !.obs = o]
    BY <1>9 DEF Refresh
  <2>2. run' = [status |-> run.status, steps |-> run.steps, obs |-> o]
    BY <1>t, <2>1 DEF SubtaskTypeOK
  <2>3. RunOf(run') = [status |-> run.status, steps |-> run.steps, obs |-> Reduced(o)]
    BY <2>2, RunOfIs
  <2>4. RunOf(run') = [RunOf(run) EXCEPT !.obs = Reduced(o)]
    BY <1>t, <2>3, RunOfTyped
  <2>5. Reduced(o) \in Runner!Captured(executed) /\ Reduced(o).kind = "usable"
    BY <1>e, <2>1, ReducedCapture, KindIs DEF Reduced, Captured
  <2>6. Runner!Captures(Reduced(o))  BY <1>9, <2>5 DEF Refresh, Runner!Captures
  <2>7. Runner!Recovering  BY <1>9, <1>t, EndedIsEnded DEF Refresh
  <2>8. Runner!Refresh
    BY <1>9, <1>t, <2>4, <2>5, <2>6, <2>7, RunOfTyped
    DEF Refresh, Recovering, RunEnded, Runner!Refresh, RunOf, Judged
  <2>9. QED  BY <2>8 DEF Runner!RunnerStep
<1>10. CASE Retry
  <2>1. PICK o \in Captured(executed) : o.screen \in Untrusted /\ StartRun(o)
    BY <1>10 DEF Retry
  <2>2. seen' = executed  BY <1>10 DEF Retry
  <2>3. Reduced(o).kind # "usable"
    BY <2>1, KindIs DEF Reduced, Captured
  <2>4. \E r \in Runner!Captured(executed) :
          Runner!Captures(r) /\ r.kind # "usable" /\ Runner!StartRun(r)
    BY <1>t, <2>1, <2>2, <2>3, StartIsStart
  <2>5. Runner!Recovering  BY <1>10, <1>t, EndedIsEnded DEF Retry
  <2>6. RunOf(run).obs.kind # "usable"  BY <1>10, <1>t, RunOfTyped DEF Retry
  <2>7. Runner!Retry
    BY <1>10, <2>4, <2>5, <2>6
    DEF Retry, Recovering, RunEnded, Runner!Retry, Judged, RunOf
  <2>8. QED  BY <2>7 DEF Runner!RunnerStep
<1>11. CASE SettleRetry
  <2>1. Runner!RunEnded  BY <1>11, <1>t, EndedIsEnded DEF SettleRetry
  <2>2. persisted' = (RunOf(run).obs.kind # "usable")
    BY <1>11, <1>t, RunOfTyped DEF SettleRetry
  <2>3. Runner!SettleRetry
    BY <1>11, <2>1, <2>2
    DEF SettleRetry, RunEnded, Runner!SettleRetry, Runner!actorVars, RunOf, Judged,
        device
  <2>4. QED  BY <2>3 DEF Runner!RunnerStep
<1>12. ASSUME NEW said \in Opinions, Judge(said) PROVE Runner!RunnerStep
  <2> DEFINE j == [accepted |-> FALSE, success |-> verdict'.status = "success",
                   eligible |-> verdict'.eligible]
  <2>1. PICK h : verdict' \in Verdicts(said, goal, Look[before.screen], Now, h)
    BY <1>12 DEF Judge
  <2>2. /\ verdict'.eligible \in BOOLEAN
        /\ verdict'.status # "success" => verdict'.eligible = FALSE
    <3>1. verdict' \in [status : {"success", "failure", "uncertain"},
                        eligible : BOOLEAN]
      BY <2>1, VerdictTyped
    <3>2. verdict'.status # "success" => verdict'.eligible = FALSE
      BY <2>1, VerdictEligible
    <3>3. QED  BY <3>1, <3>2
  <2>3. j \in Runner!Judgements  BY <2>2 DEF Runner!Judgements
  <2>4. RunOf(run).steps = run.steps /\ RunOf(run).obs = Reduced(run.obs)
        /\ run.steps \in Nat
    BY <1>t, RunOfTyped DEF SubtaskTypeOK
  <2>5. Runner!Judge(j)
    BY <1>12, <2>4
    DEF Judge, Runner!Judge, Runner!Evaluated, Runner!actorVars, RunOf, Judged, device
  <2>6. QED  BY <2>3, <2>5 DEF Runner!RunnerStep
<1>13. CASE UNCHANGED vars
  BY <1>13 DEF vars, device, Runner!vars, Runner!actorVars, Runner!runnerVars, Judged
<1>14. QED
  BY <1>1, <1>2, <1>3, <1>4, <1>5, <1>6, <1>7, <1>8, <1>9, <1>10, <1>11, <1>12,
     <1>13 DEF Next

\* The subtask with its rules takes only steps run_task and run_subtask allow without
\* them: the rules choose, they never add a way to go.
THEOREM SubtaskRefinesRunner == Spec => ImplementsTaskRunner
  BY StepRefines, InvHolds, PTL DEF Spec, ImplementsTaskRunner
=============================================================================
