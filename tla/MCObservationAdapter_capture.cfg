SPECIFICATION FairSpec
CONSTANTS
  Screens <- MCScreensShown
  NoScreen = "none"
  Inconsistent <- MCInconsistent
  NeedsConfirmation <- MCNeedsConfirmation
  Sign <- MCSign
  MaxResample = 4
INVARIANTS
  EarlyReturnIsConfirmed
  UnstableIsLastResort
PROPERTIES
  CaptureReturns
CHECK_DEADLOCK FALSE
