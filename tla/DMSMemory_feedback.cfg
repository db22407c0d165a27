SPECIFICATION Spec
CONSTANTS
  PruneInterval = 2
  CapacityMax = 2
  ExpandStep = 1
  AllowExpansion = TRUE
  StrikeLimit = 2
  MinSurvival = 0
  ProtectRecent = 1
  UseElbow = FALSE
  ElbowMinRecords = 3
  RatioPct = 20
  MaxPrunePerRun = 0
  Trajectories = {"long", "mid", "short", "tap"}
  Length <- MCLength
  MinTrajectoryLen = 2
  TopK = 2
  RiskPct = 60
  EnableMutation = TRUE
  ReplaceOnlyIfShorter = TRUE
  InitialCapacity = 1
  SurvivalValues = {1, 2}
  EventKinds = {"dict"}
  MaxRecords = 3
  MaxClock = 4
  MaxFailures = 2
PROPERTIES
  SuccessReachesMemory
