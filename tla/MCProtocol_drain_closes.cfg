SPECIFICATION Spec
CONSTANTS
  MaxSubs = 1
  Iter <- NoneIter
  Timed <- NoneTimed
  Maxes <- NoLimit
  MaxFlushes = 0
  PendingLimit = 2
  MaxPubs = 0
  MaxMsgs = 0
  MaxUnsubs = 0
  MaxEpochs = 2
INVARIANTS DrainedMeansClosed
CHECK_DEADLOCK FALSE
