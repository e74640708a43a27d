SPECIFICATION FairSpec
CONSTANTS
  N = 2
  PageSize = 1
  Call = {c1, c2}
  Filters = {"all", "unraised"}
  Fickle = {2}
  Shared = {1}
  Absent = Absent
INVARIANTS TypeOK OneSaveAtATime
PROPERTIES SavesEnd
