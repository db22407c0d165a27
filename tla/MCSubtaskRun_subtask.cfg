SPECIFICATION Spec
CONSTANTS
  Look <- MCLook
  Goals <- MCGoals
  Answers <- MCAnswers
  MaxSteps = 2
INVARIANTS
  SubtaskTypeOK
  RepeatedAtMostOnce
PROPERTIES
  VerifiedMeansMoved
  CompletedRunStands
  ImplementsTaskRunner
CHECK_DEADLOCK FALSE
