SPECIFICATION Spec
CONSTANTS
  MaxSteps = 2
  MaxRounds = 2
  MaxTotal = 3
  MaxSubtasks = 2
  Stop = TRUE
  HasVerifier = TRUE
INVARIANTS
  PlansOnCurrentScreen
