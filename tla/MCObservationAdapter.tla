------------------------ MODULE MCObservationAdapter ------------------------
(***************************************************************************)
(* ObservationAdapter for TLC on the device of MCScreens: which looks are  *)
(* inconsistent, which need a second one, and which agree, is what module  *)
(* Screen makes of them.                                                   *)
(***************************************************************************)
EXTENDS ObservationAdapter, MCScreens

MCScreensShown == DOMAIN Device \ {"on", "covered", "home"}
MCInconsistent == {n \in MCScreensShown : ~Consistent(Device[n])}
MCNeedsConfirmation == {n \in MCScreensShown : NeedsSecondLook(Device[n])}

\* Each signature by the name of one screen that has it.
MCSign ==
  LET alike == {{m \in MCScreensShown : Signature(Device[m]) = Signature(Device[n])} :
                n \in MCScreensShown}
      name(n) == CHOOSE m \in CHOOSE class \in alike : n \in class : TRUE
  IN  [n \in MCScreensShown |-> name(n)]
=============================================================================
