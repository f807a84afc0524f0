SPECIFICATION Spec
CONSTANTS
  r1 = r1
  r2 = r2
  Refreshers = {r1, r2}
  Window = 2
  MaxTime = 3
  HaRestarts = TRUE
  AnswersEarly = TRUE
  TurnOffFails = TRUE
  HelperChanges = TRUE
  OmitsStamp = FALSE
PROPERTIES
  NeverExtended
