SPECIFICATION Spec
CONSTANTS
  MaxSubs = 2
  Iter <- FirstIter
  Timed <- AllTimed
  Maxes <- Limits
  MaxFlushes = 2
  PendingLimit = 2
  MaxPubs = 2
  MaxMsgs = 3
  MaxUnsubs = 1
  MaxEpochs = 3
INVARIANTS FlushBarrier NothingStranded InterestInSync
PROPERTIES LimitRespected DrainLosesNothing
CONSTRAINT SomeWorkload
CHECK_DEADLOCK FALSE
