SPECIFICATION Spec
CONSTANTS
  Screens <- MCScreensShown
  NoScreen = "none"
  Inconsistent <- MCInconsistent
  NeedsConfirmation <- MCNeedsConfirmation
  Sign <- MCSign
  MaxResample = 2
INVARIANTS
  DisagreementIsReported
CHECK_DEADLOCK FALSE
