SPECIFICATION MCSpec
CONSTANTS
  Scenarios <- AllScenarios
  DefaultBatch = 2
  Messages = 2
  MsgBytes = 2
  MaxFaults = 1
  First = 1
  Ordered = 3
  OrderedUses <- AllUses
  MaxFetches = 4
  MaxWire = 2
  PushGen = 5
  PushFaults = 2
INVARIANTS EndsBehindMessages
PROPERTIES Consumes FetchEnds PullIsOrdered SourceRestored PushIsOrdered
CHECK_DEADLOCK FALSE
