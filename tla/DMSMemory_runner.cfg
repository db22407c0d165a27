SPECIFICATION FairSpec
CONSTANTS
  PruneInterval = 3
  CapacityMax = 2
  ExpandStep = 1
  AllowExpansion = TRUE
  StrikeLimit = 2
  MinSurvival = 0
  ProtectRecent = 1
  UseElbow = FALSE
  ElbowMinRecords = 3
  RatioPct = 20
  MaxPrunePerRun = 0
  Trajectories = {"long", "mid", "short", "tap"}
  Length <- MCLength
  MinTrajectoryLen = 2
  TopK = 2
  RiskPct = 60
  EnableMutation = TRUE
  ReplaceOnlyIfShorter = TRUE
  InitialCapacity = 1
  SurvivalValues = {1, 2}
  EventKinds = {"dict", "bool"}
  MaxRecords = 3
  MaxClock = 3
  MaxFailures = 2
INVARIANTS
  TypeOK
  ReplacementChains
  NoTwinTrajectories
  MemoryInUse
  BlameBounded
  StruckOutPruned
  CapacityRestored
PROPERTIES
  BlameReadersOnly
  YoungSurvivePruning
  LifecycleSpec
  OperationsReturn
