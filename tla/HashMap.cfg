SPECIFICATION Spec
CONSTANTS
  Key = {i, j, k, l}
  Value = {v, w}
  Hashes = {0, 3, 5}
  UpdateCanFail = FALSE
  MinCapacity = 4
  RehashAtPercent = 70
INVARIANTS TypeOK EntriesAreFound ProbingIsComplete
PROPERTY ImplementsDictionary
SYMMETRY Symmetry
CHECK_DEADLOCK FALSE
