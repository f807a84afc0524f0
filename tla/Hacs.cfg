SPECIFICATION HacsSpec
CONSTANTS
  v1 = v1
  v2 = v2
  v3 = v3
  None = None
  Versions = {v1, v2, v3}
  Expected = v2
CHECK_DEADLOCK FALSE
INVARIANTS
  InstallIsCovered
  VerifiedMeansRestarted
  HacsAnswersTrue
