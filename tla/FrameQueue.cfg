SPECIFICATION Spec
CONSTANTS
  H = 3
  Cmd = {left, right}
  DefaultCmd = left
  MaxFrame = 9
INVARIANTS TypeOK FirstIsStamp FindForetellsTake
PROPERTY ImplementsMap
