SPECIFICATION Spec
CONSTANTS
  r1 = r1
  Refreshers = {r1}
  Window = 2
  MaxTime = 6
  HaRestarts = FALSE
  AnswersEarly = FALSE
  TurnOffFails = FALSE
  HelperChanges = TRUE
  OmitsStamp = FALSE
INVARIANTS
  OptionWindowBound
