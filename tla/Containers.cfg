SPECIFICATION Spec
CONSTANTS
  Elem = {a, b}
  Moved = Moved
  VectorMax = 4
  ShrinkAbove = 2
  Limits = {0, 2, 3}
  NewLimits = {0, 2, 3}
  MaxBatch = 2
  Clients = {{"one", "upto", "partial", "all", "swap"}, {"all", "swap"}}
  MinKey <- mcMinKey
  MaxKey = 4
  Values = {d, one}
  Default = d
  NewChunkValue = one
  RangesMayStartInGap = FALSE
  Nodes = {1, 2, 3, 4, 5, 6}
  Marks = {0, 1}
CHECK_DEADLOCK FALSE
INVARIANTS BufferConsistent ArrayConsistent TreesConsistent
PROPERTIES ElementsConserved ImplementsFifo ArrayIsMap
