SPECIFICATION FairSpec
CONSTANTS
  r1 = r1
  r2 = r2
  Refreshers = {r1, r2}
  Window = 1
  MaxTime = 3
  HaRestarts = FALSE
  AnswersEarly = FALSE
  TurnOffFails = TRUE
  HelperChanges = FALSE
  OmitsStamp = FALSE
INVARIANTS
  ActiveIsBacked
  NoLongerThanGiven
PROPERTIES
  ExpiredWindowCloses
  WithdrawalNoticed
  IsALease
