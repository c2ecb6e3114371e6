SPECIFICATION Spec
CONSTANTS
  Addr = {a, b}
  NetRate = 1
  ClientTimeout = 2
  MaliciousTimeout = 2
  Retries = 2
  BezierPeriod = 1
  DestroyPeriod = 1
  MayMeet = TRUE
  MaxListed = 4
INVARIANTS TypeOK NoOrphans ListedAreOut WithinCapacity
PROPERTIES OnlySilentTimeOut VanishedAreForgotten ListedAreForgiven
CHECK_DEADLOCK FALSE
