SPECIFICATION MaintenanceFairSpec
CONSTANTS
  c1 = c1
  c2 = c2
  loop = loop
  Nobody = Nobody
  Loop = loop
  Commands = {c1, c2}
  Refreshers = {c1, c2, loop}
  Guarded = {c2}
  Own = {c2}
  SelfInfoFails = FALSE
  Window = 1
  MaxTime = 1
  HaRestarts = FALSE
  AnswersEarly = FALSE
  TurnOffFails = TRUE
  HelperChanges = FALSE
  OmitsStamp = FALSE
INVARIANTS
  OneExecutes
  AnswersAreTrue
PROPERTIES
  WithdrawalStopsCommands
  EveryCommandEnds
