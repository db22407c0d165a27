SPECIFICATION Spec
CONSTANTS
  PruneInterval = 10
  CapacityMax = 150
  ExpandStep = 50
  AllowExpansion = TRUE
  StrikeLimit = 3
  MinSurvival = 0
  ProtectRecent = 3
  UseElbow = TRUE
  ElbowMinRecords = 8
  RatioPct = 20
  MaxPrunePerRun = 50
  PoolSize = 9
  Capacities = {8}
  Survivals = {1, 2, 4}
  Created = {0}
  Strikes = {0}
  Step = 20
INVARIANTS
  LowestValueFirst
CHECK_DEADLOCK FALSE
