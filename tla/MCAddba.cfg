CONSTANTS
  f1 = f1
  f2 = f2
  f3 = f3
  s1 = s1
  s2 = s2
  Frames <- MCFrames
  Senders <- MCSenders
  MaxAttempts = 2
  Loads <- MCLoads
SPECIFICATION FairSpec
INVARIANTS SessionSound PausesPairUp
PROPERTIES ExchangeEnds BufferIsDrained
CHECK_DEADLOCK FALSE
