----------------------------- MODULE ActorAction -----------------------------
(***************************************************************************)
(* From the model's answer to the action the actor executes                *)
(* (parse_actor_action in agents/android_actor.py): an input without a     *)
(* field is given one, a target that does not fit what was asked for is    *)
(* corrected to an element or a point that does, and what still does not   *)
(* fit the screen is refused.  Then the rule that ends the run after an    *)
(* action so that the verifier looks at its effect.                        *)
(*                                                                         *)
(* A goal is a subtask's text, by what the code finds in it; an answer is  *)
(* the model's reason and JSON, likewise.  Indices count from 1, 0 stands  *)
(* for "none"; a point on the screen is named by the element it is to hit. *)
(***************************************************************************)
EXTENDS Screen

NoText == ""

\* kind: the verifier's class; target: the quoted text; phrase: what the verifier
\* takes for the target; app: the application to open; entry, toggle, progress:
\* whether it has words of text entry, of toggling, of progress.
Goal == [kind : {"app_launch", "form_fill", "toggle", "navigation", "submit",
                 "qa", "other"},
         target : STRING, phrase : STRING, app : Packages \cup {"none"},
         entry : BOOLEAN, toggle : BOOLEAN, progress : BOOLEAN]

\* Answers that are no JSON, or name no known action, or lack a field.
Unreadable == {"no_json", "no_action"}
Statuses == {"complete", "infeasible"}
Presses == {"keyboard_enter", "navigate", "open_app"}
Pointing == {"click"}            \* and long_press, treated alike

\* named, toggling: what the reason quotes, and whether it speaks of toggling.
\* index is 0 without an index, and where its value is null or no number (odd).
Answer == [type : Unreadable \cup Statuses \cup Presses \cup Pointing \cup
                  {"answer", "input_text", "type", "scroll", "wait"},
           index : Nat, odd : {"no", "null", "text"}, point : Nat,
           named : STRING, toggling : BOOLEAN]

Refused == [type |-> "error", index |-> 0, point |-> 0]
Acts(type, index, point) == [type |-> type, index |-> index, point |-> point]

\* normalize_actor_action_payload: other names of an action.
Normalized(a) == IF a.type = "type" THEN [a EXCEPT !.type = "input_text"] ELSE a

\* _maybe_autofill_input_text_payload: the field that has the focus, else the one
\* clicked last, if there still is a field of that index, else the only one.
Autofilled(a, g, s, recent) ==
  LET focused == {i \in Editable(s) : s.ui[i].focused}
      field == CASE Cardinality(focused) = 1 -> CHOOSE i \in focused : TRUE
                 [] Cardinality(focused) # 1 /\ recent \in Editable(s) -> recent
                 [] OTHER -> IF Cardinality(Editable(s)) = 1
                             THEN CHOOSE i \in Editable(s) : TRUE ELSE 0
  IN  IF a.index = 0 /\ a.odd # "text" /\ g.entry /\ field # 0
      THEN [a EXCEPT !.index = field, !.odd = "no"] ELSE a

\* _is_control_like_target: AndroidWorld gives every element a check state, so on a
\* device this holds of all of them.
ControlLike(e) == e.control \/ e.checked # "unknown"

Matches(e, token) == token # NoText /\ token \in {e.label, e.hint}

\* _extract_target_token: quoted in the goal, else in the reason, else the label
\* of the element pointed at.
TargetToken(a, g, s) ==
  IF g.target # NoText THEN g.target
  ELSE IF a.named # NoText THEN a.named
  ELSE IF a.index \in Indices(s) THEN s.ui[a.index].label ELSE NoText

\* _maybe_correct_pointing_payload: fits says whether an element is clickable, or
\* editable for an input.
Corrected(a, g, s, fits) ==
  LET token == TargetToken(a, g, s)
      matching == {i \in Indices(s) : Matches(s.ui[i], token)}
      fitting == matching \cap fits
      exact == {i \in matching : s.ui[i].label = token
                                 /\ (a.type = "input_text" => i \in fits)}
      asksToggle == g.toggle \/ a.toggling
      viaControl == /\ a.type \in Pointing
                    /\ a.index \in Indices(s) \ matching
                    /\ ControlLike(s.ui[a.index])
                    /\ asksToggle
      ToIndex(i) == [a EXCEPT !.index = i, !.odd = "no"]
      ToPoint(i) == [a EXCEPT !.index = 0, !.odd = "no", !.point = i]
      one(set) == CHOOSE i \in set : TRUE
  IN  IF a.index = 0 /\ a.odd = "no" THEN a
      ELSE IF a.index \in fits /\ (token = NoText \/ a.index \in matching) THEN a
      ELSE IF Cardinality(fitting) = 1 THEN ToIndex(one(fitting))
      ELSE IF viaControl THEN ToPoint(a.index)
      ELSE IF Cardinality(matching) = 1 THEN ToPoint(one(matching))
      ELSE IF /\ fitting = {}
              /\ Cardinality(exact) = 1
              /\ ~(ControlLike(s.ui[one(exact)]) /\ asksToggle)
           THEN ToPoint(one(exact))
      ELSE a

\* _resolve_pointing_target and _validate_index: a fitting element of the screen, or
\* a point to press on, but not both.
Resolved(a, fits) ==
  IF \/ a.index \in fits /\ (a.point = 0 \/ a.type \notin Pointing)
     \/ a.index = 0 /\ a.odd # "text" /\ a.point # 0 /\ a.type \in Pointing
  THEN Acts(a.type, a.index, a.point)
  ELSE Refused

\* parse_actor_action, with the JSON parsing before it.
Parsed(answer, g, s, recent) ==
  LET a == Normalized(answer)
  IN  CASE a.type \in Unreadable -> Refused
        [] a.type = "complete" ->
             IF Degraded(s) THEN Refused ELSE Acts("complete", 0, 0)
        [] a.type \in Pointing ->
             Resolved(Corrected(a, g, s, Clickable(s)), Clickable(s))
        [] a.type = "input_text" ->
             LET filled == Autofilled(a, g, s, recent)
             IN  Resolved(Corrected(filled, g, s, Editable(s)), Editable(s))
        [] a.type = "scroll" ->
             IF a.index \in Indices(s) \cup {0} /\ a.odd # "text"
             THEN Acts("scroll", a.index, 0) ELSE Refused
        [] OTHER -> Acts(a.type, 0, 0)

\* _resolve_action_target_element: by index, else the first element holding the
\* point, which need not be the one aimed at.
Target(action, s) ==
  IF action.index \in Indices(s) THEN action.index
  ELSE IF action.point \in Indices(s) THEN s.ui[action.point].cover
  ELSE 0

\* Wrong variant: a text or an enter key is no reason to look.
StopsForPointingOnly(action, g, s) ==
  action.type \in Pointing /\ Target(action, s) \notin Editable(s)

\* _should_stop_for_external_verification.
StopsForVerifier(action, g, s) ==
  /\ action.type \notin {"wait", "answer"}
  /\ \/ g.toggle /\ Target(action, s) # 0 /\ ControlLike(s.ui[Target(action, s)])
     \/ action.type \in Presses \cup {"input_text"}
     \/ action.type \in Pointing /\ Target(action, s) \notin Editable(s)
=============================================================================
