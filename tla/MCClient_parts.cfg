SPECIFICATION MCSpec
CONSTANTS
  Streams <- SmallStreams
  SplitInfo = FALSE
  MaxOut = 2
  LagCap = 4
  HbUses <- ThreeConnections
  Monitoring <- OneEndpoint
  Handled <- OneHandler
  Iterated <- OneIterator
  Uses <- ServiceUses
  Stored = 2
  PushUses <- Subscriptions
  Entries = {1, 2, 3, 4, 5, 6}
  Kvs = {1, 2, 5}
  PageLimit = 2
  Managers = {m1, m2}
  ApiUses <- ApiCalls
  FetchUses <- Fetches
  Names <- NameTexts
  Texts <- ValueTexts
  Statuses <- TwoStatuses
  MaxEdits = 3
  MAX_SIZE = 6
  MIN_READ = 2
  MaxArray = 2
  MaxHeld = 3
  base = 2
  seqLen = 2
  minInc = 1
  maxInc = 3
  MaxDrawn = 4
INVARIANTS FramesDispatched AcksAreTrue PublishOnce PagesComplete DeletedStaysDeleted HeadersSurvive BuffersAreQueues
PROPERTIES StaleLeft StopIsGraceful StreamConsumed FetchReturns NuidsDistinct
CHECK_DEADLOCK FALSE
