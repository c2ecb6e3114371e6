SPECIFICATION Spec
CONSTANTS
  H = 32
  SimRate = 2
  NetRate = 1
  Retries = 3
  MaxPlayers = 2
  ClientStart = 59
  ServerStart = 62
  MaxLoops = 8
INVARIANT NeverImplausible
PROPERTY StartsAhead
CHECK_DEADLOCK FALSE
