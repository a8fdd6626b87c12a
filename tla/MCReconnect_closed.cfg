SPECIFICATION Spec
CONSTANTS
  A = A
  B = B
  C = C
  Listens <- Two
  Configured <- Two
  Options <- CloseOptions
  Alts = 1
  CountCap = 2
INVARIANTS ClosedForGood
CHECK_DEADLOCK FALSE
