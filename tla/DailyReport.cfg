SPECIFICATION ReportSpec
CONSTANTS
  c1 = c1
  None = None
  Call <- Calls
  Row <- SomeRows
  Request = {r}
  Alphabet <- Names
  Offsets <- Zones
  MaxTime = 8
  Milli = 1
  Day = 3
  ReportTime = 1
  Drift = 1
  Lag = 1
INVARIANTS ReportTypeOK BatchOnItsDay NoDaySkipped SectionsAgree
CHECK_DEADLOCK FALSE
