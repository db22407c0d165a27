------------------------------- MODULE Screen -------------------------------
(***************************************************************************)
(* What one look at the screen tells the program: the assessment of        *)
(* _capture_once (envs/android_world_adapter.py), and the three judgements *)
(* made from it later: whether to look again (the adapter), whether the    *)
(* runner trusts it (task_runner.py), and whether the actor may declare    *)
(* its subtask complete on it (android_actor.py).                          *)
(*                                                                         *)
(* A screen is a record: the package and activity in the foreground, and   *)
(* the retained UI elements in order, an element's index being its place.  *)
(* Texts are abstracted to labels; what an element is near enough to be    *)
(* taken for (part of a text, a resource name, an alias) is its hint; tab  *)
(* and control say whether its names mark it as a tab, or as a switch,     *)
(* checkbox or button.                                                     *)
(***************************************************************************)
EXTENDS Naturals, Sequences, FiniteSets

Packages == {"app", "other", "launcher", "systemui", "ime"}

Element == [package : Packages, label : STRING, hint : STRING,
            clickable : BOOLEAN, editable : BOOLEAN, focused : BOOLEAN,
            selected : BOOLEAN, checked : {"unknown", "on", "off"},
            tab : BOOLEAN, control : BOOLEAN,
            cover : Nat]   \* first element, in order, whose box holds the point
                           \* at which this one is pressed

Screen == [foreground : Packages \cup {"none"}, activity : STRING,
           ui : Seq(Element)]

Indices(s) == DOMAIN s.ui
Shown(s, p) == {i \in Indices(s) : s.ui[i].package = p}
NonSystem(s) == Indices(s) \ Shown(s, "systemui")
Clickable(s) == {i \in Indices(s) : s.ui[i].clickable}
Editable(s) == {i \in Indices(s) : s.ui[i].editable}

\* Counter.most_common(1): the most frequent package, the first seen of equals.
Dominant(s) ==
  IF Indices(s) = {} THEN "none"
  ELSE LET count(p) == Cardinality(Shown(s, p))
           most == {p \in Packages : \A q \in Packages : count(q) <= count(p)}
           shown == {i \in Indices(s) : s.ui[i].package \in most}
       IN  s.ui[CHOOSE i \in shown : \A j \in shown : i <= j].package

KeyboardActive(s) ==
  /\ s.foreground \notin {"none", "ime"}
  /\ Dominant(s) = "ime"
  /\ Editable(s) # {}

\* A foreground app that is not the system's shows nothing but system UI.
OnlySystemUI(s) ==
  s.foreground \notin {"none", "systemui"} /\ NonSystem(s) = {}

\* The foreground app is missing from what is shown.
ForegroundMissing(s) ==
  /\ s.foreground # "launcher"
  /\ NonSystem(s) # {}
  /\ Shown(s, s.foreground) \ Shown(s, "systemui") = {}

\* _assess_observation_consistency.
Consistent(s) ==
  \/ s.foreground = "none"
  \/ KeyboardActive(s)
  \/ /\ Dominant(s) = "launcher" => s.foreground = "launcher"
     /\ ~OnlySystemUI(s)
     /\ ~ForegroundMissing(s)

\* The warnings that name the foreground package.
ForegroundWarning(s) ==
  \/ ~Consistent(s)
  \/ OnlySystemUI(s)
  \/ /\ ~KeyboardActive(s)
     /\ s.foreground # "none" /\ Indices(s) # {} /\ s.foreground # Dominant(s)

\* observation_warning is not None.
Warned(s) == ForegroundWarning(s) \/ Clickable(s) = {} \/ KeyboardActive(s)

\* _needs_stability_confirmation: something on the screen is selected, or a tab.
NeedsSecondLook(s) == \E i \in Indices(s) : s.ui[i].selected \/ s.ui[i].tab

\* What _observation_signature compares: of the first elements, everything but
\* check marks and focus.
SignatureLength == 15

Signature(s) ==
  [s EXCEPT !.ui = [i \in Indices(s) \cap 1..SignatureLength |->
     [s.ui[i] EXCEPT !.checked = "unknown", !.focused = FALSE]]]

\* ui_description: labels, flags and boxes, but no check mark, focus, selection or
\* package.
Description(s) ==
  [i \in Indices(s) |->
     <<s.ui[i].label, s.ui[i].hint, s.ui[i].clickable, s.ui[i].editable,
       s.ui[i].cover>>]

\* _is_unstable_observation of the runner: it looks again before it goes on.
Distrusted(s) ==
  \/ ~Consistent(s)
  \/ OnlySystemUI(s)
  \/ /\ ~KeyboardActive(s)
     /\ s.foreground \notin {"none", "systemui"}
     /\ Clickable(s) = {}
     /\ ForegroundWarning(s)

\* Wrong variant: the keyboard, which the runner trusts, is no warning, and
\* neither is a screen without anything to click.
DegradedIfInconsistent(s) ==
  ~Consistent(s) \/ (NonSystem(s) = {} /\ s.foreground # "systemui")

\* _observation_is_degraded of the actor: it must not declare completion.
Degraded(s) ==
  \/ ~Consistent(s)
  \/ NonSystem(s) = {} /\ s.foreground # "systemui"
  \/ Warned(s)
=============================================================================
