SPECIFICATION Spec
CONSTANTS
  r1 = r1
  Refreshers = {r1}
  Window = 2
  MaxTime = 6
  HaRestarts = TRUE
  AnswersEarly = FALSE
  TurnOffFails = TRUE
  HelperChanges = FALSE
  OmitsStamp = FALSE
INVARIANTS
  KnownWindowBound
