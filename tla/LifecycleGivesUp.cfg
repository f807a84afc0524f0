SPECIFICATION LifecycleSpec
CONSTANTS
  k1 = k1
  None = None
  Codes = {k1}
  Overflow = 2
  AnswersLost = FALSE
  NotJson = TRUE
  PowerLoss = FALSE
CHECK_DEADLOCK FALSE
INVARIANT NeverGivesUp
