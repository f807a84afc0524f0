SPECIFICATION ReportsFairSpec
CONSTANTS
  v1 = v1
  r1 = r1
  Nothing = Nothing
  Order <- InOrder
  HacsAt = 4
  Values = {v1}
  Repos = {r1}
PROPERTIES
  FailureKeepsHacs
