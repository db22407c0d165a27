----------------------------- MODULE MCScreens -----------------------------
(***************************************************************************)
(* A small device for TLC: an app with a list of settings, a switch, and a *)
(* form, with the ways its screens are captured badly.                     *)
(***************************************************************************)
EXTENDS ActorAction

Row(label, clickable, cover) ==
  [package |-> "app", label |-> label, hint |-> NoText, clickable |-> clickable,
   editable |-> FALSE, focused |-> FALSE, selected |-> FALSE, checked |-> "off",
   tab |-> FALSE, control |-> FALSE, cover |-> cover]
Field(label, focused, cover) ==
  [Row(label, TRUE, cover) EXCEPT !.editable = TRUE, !.focused = focused]
Tab(label, cover) == [Row(label, TRUE, cover) EXCEPT !.tab = TRUE]
LongList(chosen) ==
  [i \in 1..SignatureLength + 2 |->
     [Row("Row", TRUE, i) EXCEPT !.selected = (i = chosen)]]
Of(package, e) == [e EXCEPT !.package = package]
Shows(foreground, activity, ui) ==
  [foreground |-> foreground, activity |-> activity, ui |-> ui]

\* off, on: behind the list's entry, a switch that is not clickable itself.
\* form: over its second field lies the icon that clears it.  typing: the form with
\* the keyboard open.  favorites, recents: a tab bar; dial: a tab bar on which
\* nothing is selected.  near, far: a long list with another element selected, both
\* below those the adapter compares.
\* stale: the app's activity over the launcher's elements.  blank: only the status
\* bar was retained.  covered: another app's overlay, with nothing to click.
Device ==
  [n \in {"list", "off", "on", "form", "typing", "favorites", "recents", "dial",
          "near", "far", "stale", "blank", "covered", "home"} |->
   CASE n = "list" ->
          Shows("app", "list", <<Row("Settings", FALSE, 1), Row("Wi-Fi", TRUE, 2)>>)
     [] n = "off" ->
          Shows("app", "detail", <<Row("Wi-Fi", FALSE, 1), Row(NoText, FALSE, 1)>>)
     [] n = "on" ->
          Shows("app", "detail", <<Row("Wi-Fi", FALSE, 1),
                                   [Row(NoText, FALSE, 1) EXCEPT !.checked = "on"]>>)
     [] n = "form" ->
          Shows("app", "form", <<Field("Name", FALSE, 1), Field("Phone", FALSE, 2),
                                 Row("Save", TRUE, 3), Row("Clear", TRUE, 2)>>)
     [] n = "typing" ->
          Shows("app", "form", <<Field("Name", TRUE, 1), Of("ime", Row("q", TRUE, 2)),
                                 Of("ime", Row("w", TRUE, 3))>>)
     [] n = "favorites" ->
          Shows("app", "tabs", <<[Tab("Favorites", 1) EXCEPT !.selected = TRUE],
                                 Tab("Recents", 2)>>)
     [] n = "recents" ->
          Shows("app", "tabs", <<Tab("Favorites", 1),
                                 [Tab("Recents", 2) EXCEPT !.selected = TRUE]>>)
     [] n = "dial" ->
          Shows("app", "tabs", <<Tab("Favorites", 1), Tab("Recents", 2)>>)
     [] n = "near" -> Shows("app", "rows", LongList(SignatureLength + 1))
     [] n = "far" -> Shows("app", "rows", LongList(SignatureLength + 2))
     [] n = "stale" ->
          Shows("app", "list", <<Of("launcher", Row("Settings", TRUE, 1))>>)
     [] n = "blank" ->
          Shows("app", "list", <<Of("systemui", Row("Clock", FALSE, 1))>>)
     [] n = "covered" ->
          Shows("app", "list", <<Of("other", Row("Loading", FALSE, 1)),
                                 Of("other", Row("Wait", FALSE, 2)),
                                 Row("Settings", FALSE, 3)>>)
     [] n = "home" ->
          Shows("launcher", "home", <<Of("launcher", Row("Settings", TRUE, 1))>>)]

Plain == [kind |-> "other", target |-> NoText, phrase |-> NoText, app |-> "none",
          entry |-> FALSE, toggle |-> FALSE, progress |-> FALSE]

OpenSettings == [Plain EXCEPT !.kind = "app_launch", !.app = "app", !.progress = TRUE]
ReachWifi == [Plain EXCEPT !.kind = "navigation", !.target = "Wi-Fi",
                           !.phrase = "Wi-Fi", !.progress = TRUE]
TurnOffWifi == [Plain EXCEPT !.kind = "toggle", !.toggle = TRUE, !.progress = TRUE]
FillName == [Plain EXCEPT !.kind = "form_fill", !.target = "Name", !.entry = TRUE]
TypeName == [FillName EXCEPT !.target = NoText]
SaveForm == [Plain EXCEPT !.kind = "submit", !.target = "Save", !.progress = TRUE]

Says(type, index, point, named, toggling) ==
  [type |-> type, index |-> index, odd |-> "no", point |-> point, named |-> named,
   toggling |-> toggling]
Oddly(type, odd, point, named) ==
  [Says(type, 0, point, named, FALSE) EXCEPT !.odd = odd]
Plainly(types) == {Says(t, 0, 0, NoText, FALSE) : t \in types}
=============================================================================
