SPECIFICATION FairSpec
CONSTANTS
  a = a
  c = c
  d = d
  n = n
  One <- None
  Many = {}
  NoMux = {n}
  Strategy <- NoStrategy
  MaxMessages <- NoMessages
  Subject <- SubjectOf
  MaxFrames = 1
  MaxEpochs = 1
PROPERTIES NoMuxSettles
CHECK_DEADLOCK FALSE
