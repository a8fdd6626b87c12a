SPECIFICATION MCSpec
CONSTANTS
  Scenarios = {}
  DefaultBatch = 2
  Messages = 2
  MsgBytes = 2
  MaxFaults = 1
  First = 1
  Ordered = 3
  OrderedUses <- Overlapping
  MaxFetches = 4
  MaxWire = 2
  PushGen = 5
  PushFaults = 2
PROPERTIES PullIsOrdered
CHECK_DEADLOCK FALSE
