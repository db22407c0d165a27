SPECIFICATION MCSpec
CONSTANTS
  MaxSteps = 2
  MaxRounds = 2
  MaxTotal = 3
  MaxSubtasks = 2
  Stop = TRUE
  HasVerifier = TRUE
INVARIANTS
  RunnerTypeOK
  CompletedMeansAccepted
  StepBudget
  WorkIsBounded
  DeviceIsBounded
  NewestCaptureUsed
PROPERTIES
  ScriptsStopOnAcceptance
  NextSubtaskOnUsableScreen
  MemoryCallsInOrder
  TaskEnds
