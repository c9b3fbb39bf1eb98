\* Two clients log and close, the limit is lowered below a batch.
CONSTANTS
  Clients = {t1, t2}
  Limit = 2
  NewLimits = {0, 1, 2}
  MaxLogged = 3
  MaxBatch = 2
SPECIFICATION FairSpec
CHECK_DEADLOCK FALSE
INVARIANTS Consistent WrittenInOrder FirstCloseWaits
PROPERTIES CallsReturn
