SPECIFICATION Spec
CONSTANTS
  Retries = 1
  Loads <- MCLoads
INVARIANTS HonestReport
PROPERTIES Answered DisconnectEnds AttemptEnds
CHECK_DEADLOCK FALSE
