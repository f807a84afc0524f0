SPECIFICATION Spec
CONSTANTS
  r1 = r1
  Refreshers = {r1}
  Window = 2
  MaxTime = 6
  HaRestarts = TRUE
  AnswersEarly = TRUE
  TurnOffFails = FALSE
  HelperChanges = FALSE
  OmitsStamp = FALSE
INVARIANTS
  OpenWindowBound
