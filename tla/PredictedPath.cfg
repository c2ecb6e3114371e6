SPECIFICATION Spec
CONSTANTS
  Places = 4
  Heads <- MCHeads
  Spawn = 0
  Cmd = {1, 2}
  Step <- MCStep
  MayPass = FALSE
  MaxPending = 3
  MaxPoints = 6
INVARIANTS TypeOK EnoughPoints Faithful PredictsServer
CHECK_DEADLOCK FALSE
