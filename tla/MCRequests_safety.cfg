SPECIFICATION Spec
CONSTANTS
  a = a
  c = c
  d = d
  n = n
  One <- JustOne
  Many = {c, d}
  NoMux = {n}
  Strategy <- CountCD
  MaxMessages <- MessagesCD
  Subject <- SubjectOf
  MaxFrames = 3
  MaxEpochs = 2
INVARIANTS NoLeak Answerable ReaderWillEnd ErrorSurfaces CountRespected
CONSTRAINT TwoRequests
CHECK_DEADLOCK FALSE
