SPECIFICATION Spec
CONSTANTS
  Granularity = 3
  Window = 20
  DiffLimit = 10
  Parts = 10
  Delays = {1, 6, 12}
  Stalls = {3, 20}
  MaxAge = 24
  MaxChanges = 1
  MaxLead = 24
INVARIANTS TypeOK LeadIsBounded SlowingLeavesBuffer
PROPERTY Settles
