SPECIFICATION Spec
CONSTANTS
  PruneInterval = 10
  CapacityMax = 3
  ExpandStep = 2
  AllowExpansion = TRUE
  StrikeLimit = 3
  MinSurvival = 2
  ProtectRecent = 3
  UseElbow = TRUE
  ElbowMinRecords = 3
  RatioPct = 80
  MaxPrunePerRun = 3
  PoolSize = 4
  Capacities = {1, 2, 4}
  Survivals = {1, 2, 4, 5}
  Created = {5, 6}
  Strikes = {2, 3}
  Step = 9
INVARIANTS
  ExactlyTheExcess
  BudgetSpentOnLowest
  RatioTakesLowest
PROPERTIES
  ExpansionIsBounded
CHECK_DEADLOCK FALSE
