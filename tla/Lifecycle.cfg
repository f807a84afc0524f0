SPECIFICATION LifecycleFairSpec
CONSTANTS
  k1 = k1
  k2 = k2
  None = None
  Codes = {k1, k2}
  Overflow = 2
  AnswersLost = TRUE
  NotJson = TRUE
  PowerLoss = TRUE
CHECK_DEADLOCK FALSE
INVARIANTS
  RefusedCodeIsSpent
  SessionIsWhole
PROPERTIES
  StopStops
  Reconnects
  RevocationNoticed
