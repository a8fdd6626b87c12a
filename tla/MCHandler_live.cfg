SPECIFICATION MCSpec
CONSTANTS
  a = a
  c = c
  A = A
  B = B
  C = C
PROPERTIES CallsSettle Settles LoopEnds NoServerStarves
CHECK_DEADLOCK FALSE
