SPECIFICATION RingSpec
CONSTANTS
  Elem = {x, y}
  Garbage = garbage
  MinSlots = 2
  MaxSlots = 8
INVARIANT RingTypeOK
PROPERTY ImplementsDeque
