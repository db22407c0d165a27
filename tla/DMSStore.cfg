SPECIFICATION FairSpec
CONSTANTS
  Ids = {m1, m2}
  Clients = {t1, t2}
  Marks = {"PRUNED", "RISKY"}
  Nobody = Nobody
  MaxCalls = 4
  MaxCrashes = 1
INVARIANTS
  StoreTypeOK
  IndexedHasTrajectory
  AuditMatchesIndex
  AuditLossIsBounded
PROPERTIES
  AtomicIndex
  LockReleased
CHECK_DEADLOCK FALSE
