\* A partial send of what was buffered.
CONSTANTS
  Moved = Moved
  VectorMax = 3
  ShrinkAbove = 2
  MaxBytes = 3
  MaxRequest = 2
  ChunkSize = 2
  ReadLimits = {0}
  Readers = {{"all"}}
SPECIFICATION Spec
INVARIANT NothingLostSending
CHECK_DEADLOCK FALSE
