SPECIFICATION Spec
CONSTANTS
  H = 8
  AngleRange = 8
  SpeedRange = 4
  AngleCodes = 4
  SpeedCodes = 4
  ActionBits = 2
  Cmd <- MCCmd
  DefaultCmd <- MCDefaultCmd
  Wishes <- MCWishes
  Start = 13
  MaxLead = 2
  Chunk = 9
  MaxPending = 4
  MaxFrames = 4
INVARIANTS TypeOK QueueAgrees QueueIsDue AckIsServers
PROPERTY RollbackIsJustified
CHECK_DEADLOCK FALSE
