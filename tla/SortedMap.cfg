SPECIFICATION Spec
CONSTANTS
  Key = {1, 2, 3, 4, 5}
  Value = {v, w}
  MinCapacity = 2
  ValueSize = 4
  Header = 2
  Sizes = 64
  KeysCanFail = FALSE
SYMMETRY Symmetry
INVARIANTS SearchIsExact WithinBuffers
PROPERTY ImplementsSortedDictionary
