SPECIFICATION MaintenanceFairSpec
CONSTANTS
  c1 = c1
  loop = loop
  Nobody = Nobody
  Loop = loop
  Commands = {c1}
  Refreshers = {c1, loop}
  Guarded = {c1}
  Own = {}
  SelfInfoFails = FALSE
  Window = 1
  MaxTime = 1
  HaRestarts = FALSE
  AnswersEarly = FALSE
  TurnOffFails = FALSE
  HelperChanges = FALSE
  OmitsStamp = FALSE
PROPERTIES
  NoJobWithoutConsent
