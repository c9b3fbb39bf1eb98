\* Two producers and two consumers in the programs that register in time.
CONSTANTS
  Producers = {p1, p2}
  Consumers = {c1, c2}
  Moved = Moved
  VectorMax = 4
  ShrinkAbove = 2
  Limit = 2
  MaxSent = 2
  MaxBatch = 2
  Usages <- Careful
SPECIFICATION FairSpec
INVARIANTS Consistent NoLostWakeup HandedOutOnceInOrder EndOfStreamIsComplete
PROPERTIES AtEndIsFinalOnceRegistered BlockedCallsReturn
