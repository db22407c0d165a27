---------------------------- MODULE MCSubtaskRun ----------------------------
(***************************************************************************)
(* SubtaskRun for TLC, on the device of MCScreens.                         *)
(***************************************************************************)
EXTENDS SubtaskRun, MCScreens

MCLook ==
  [n \in DOMAIN Device \ {"favorites", "recents", "dial", "near", "far"} |-> Device[n]]
MCGoals == {OpenSettings, ReachWifi, TurnOffWifi, FillName, TypeName, SaveForm}
MCAnswers ==
  Plainly({"no_json", "complete", "infeasible", "keyboard_enter", "wait", "scroll",
           "open_app", "input_text"})
  \cup {Says("click", i, 0, NoText, FALSE) : i \in {1, 2, 3}}
  \cup {Says("type", 2, 0, "Name", FALSE), Says("click", 2, 0, "Wi-Fi", TRUE),
         Says("click", 0, 1, NoText, FALSE), Says("click", 0, 4, NoText, FALSE),
         Says("click", 0, 9, NoText, FALSE)}
  \cup {Oddly("click", "text", 0, "Wi-Fi"), Oddly("click", "null", 1, NoText),
         Oddly("type", "null", 0, NoText), Oddly("scroll", "text", 0, NoText)}

ToggleLook == [n \in {"list", "off", "on"} |-> Device[n]]
ToggleGoals == {TurnOffWifi}
ToggleAnswers == Plainly({"complete", "wait"}) \cup
                 {Says("click", 2, 0, NoText, TRUE)}
=============================================================================
