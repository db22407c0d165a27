------------------------------- MODULE Verdict -------------------------------
(***************************************************************************)
(* The verifier's verdict on a subtask (agents/verifier.py): the model's   *)
(* answer, and the local vetoes that turn a success into a failure when    *)
(* screens and actions speak against it.  before is the screen the subtask *)
(* started on, after the evidence.                                         *)
(*                                                                         *)
(* Of the run's steps the vetoes read: whether there was anything but      *)
(* waiting, whether one has an error, whether one speaks of launching the  *)
(* goal's app, and whether the last one's words are only that something is *)
(* visible.                                                                *)
(***************************************************************************)
EXTENDS ActorAction

History == [acted : BOOLEAN, failed : BOOLEAN, launched : BOOLEAN,
            onlyVisible : BOOLEAN]

\* What the model says: "unreadable" when no status can be parsed from it.
Opinions == {"success", "failure", "uncertain", "unreadable"}

Labels(s) ==
  {IF e.label # NoText THEN e.label ELSE e.hint : e \in {s.ui[i] : i \in Indices(s)}}
  \ {NoText}

\* _underlying_foreground_package: behind the keyboard.
Underlying(s) == IF s.foreground = "ime" THEN Dominant(s) ELSE s.foreground

\* _has_transition_progress_evidence.  The goal's stage cues count only together
\* with a new label, which is evidence already.
Moved(before, after) ==
  \/ before.activity # after.activity
  \/ Underlying(before) # Underlying(after)
  \/ Labels(after) \ Labels(before) # {}

VetoAppLaunch(g, after, h) ==
  /\ g.app # "none"
  /\ g.app \notin {after.foreground, Dominant(after)}
  /\ ~h.launched
  /\ ~h.acted /\ ~h.failed

\* _goal_target_still_only_visible.
StillOnlyVisible(g, before, after) ==
  /\ g.phrase # NoText
  /\ \E i \in Indices(before) : Matches(before.ui[i], g.phrase)
  /\ \E i \in Indices(after) : Matches(after.ui[i], g.phrase)

VetoNavigation(g, before, after, h) ==
  \/ h.failed
  \/ ~h.acted
  \/ ~Moved(before, after) /\ (h.onlyVisible \/ StillOnlyVisible(g, before, after))

\* _collect_checkable_states: by class and texts; of equal ones the last counts.
CheckStates(s) ==
  LET key(i) == <<s.ui[i].label, s.ui[i].hint>>
      checkable == {i \in Indices(s) : s.ui[i].checked # "unknown"}
      counting == {i \in checkable : \A j \in checkable : key(i) = key(j) => j <= i}
  IN  {<<key(i), s.ui[i].checked>> : i \in counting}

ToggleChanged(before, after) ==
  \E x \in CheckStates(before), y \in CheckStates(after) :
    x[1] = y[1] /\ x[2] # y[2]

\* _should_veto_no_progress_success.
VetoNoProgress(g, before, after) ==
  /\ before.foreground = after.foreground
  /\ before.activity = after.activity
  /\ Description(before) = Description(after)
  /\ g.progress

\* Wrong variant: the comparison of the screens is left to the other vetoes.
VetoedByKind(g, before, after, h) ==
  \/ g.kind = "app_launch" /\ VetoAppLaunch(g, after, h)
  \/ g.kind = "navigation" /\ VetoNavigation(g, before, after, h)
  \/ g.kind = "toggle" /\ ~ToggleChanged(before, after)

\* _apply_local_verification_vetoes.
Vetoed(g, before, after, h) ==
  \/ g.kind = "app_launch" /\ VetoAppLaunch(g, after, h)
  \/ g.kind = "navigation" /\ VetoNavigation(g, before, after, h)
  \/ g.kind = "toggle" /\ ~ToggleChanged(before, after)
  \/ VetoNoProgress(g, before, after)

\* run_verification: status, and whether the run may be remembered.
Verdicts(opinion, g, before, after, h) ==
  LET status == CASE opinion = "unreadable" -> "uncertain"
                  [] opinion = "success" /\ Vetoed(g, before, after, h) -> "failure"
                  [] OTHER -> opinion
  IN  [status : {status}, eligible : IF status = "success" THEN BOOLEAN ELSE {FALSE}]
=============================================================================
