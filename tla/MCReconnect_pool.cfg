SPECIFICATION Spec
CONSTANTS
  A = A
  B = B
  C = C
  Listens <- Three
  Configured <- Two
  Options <- PoolOptions
  Alts = 1
  CountCap = 3
INVARIANTS PoolWellFormed
PROPERTIES GivesUpOnlyWhenExhausted ExpiryAbortsOnlyInARow
CHECK_DEADLOCK FALSE
