\* A range that begins behind the end of one chunk and reaches into the next.
SPECIFICATION ArraySpec
CONSTANTS
  MinKey = 0
  MaxKey = 6
  Values = {d, one}
  Default = d
  NewChunkValue = one
  RangesMayStartInGap = TRUE
INVARIANT RangeIsUnstored
CHECK_DEADLOCK FALSE
