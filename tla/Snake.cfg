SPECIFICATION Spec
CONSTANTS
  H = 3
  Places = 3
  Heads <- MCHeads
  Spawn <- MCSpawn
  Cmd <- MCCmd
  DefaultCmd <- MCDefaultCmd
  Step <- MCStep
  Place <- MCPlace
  MinFit = 2
  MayPass = FALSE
  MaxPending = 2
  MaxPoints = 4
INVARIANTS TypeOK SegmentsAgree BoxesCover AckOnBody
PROPERTY ImplementsPath
