SPECIFICATION Spec
CONSTANTS
  Addr = {a, b}
  NetRate = 2
  ClientTimeout = 2
  MaliciousTimeout = 2
  Retries = 3
  BezierPeriod = 1
  DestroyPeriod = 2
  MayMeet = FALSE
  MaxListed = 5
INVARIANT OwnSnakeExists
CHECK_DEADLOCK FALSE
