SPECIFICATION Spec
CONSTANTS
  Look <- ToggleLook
  Goals <- ToggleGoals
  Answers <- ToggleAnswers
  MaxSteps = 2
INVARIANTS
  ChangedToggleKept
CHECK_DEADLOCK FALSE
