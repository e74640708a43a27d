SPECIFICATION FairSpec
CONSTANTS
  Request = {r1, r2}
  Catalogs <- BothCatalogs
  Reasonings <- SomeReasonings
  Query <- SomeQueries
  MaxCrashes = 1
  Absent = Absent
  MaxLimit = 2
  NoLiteral = NoLiteral
INVARIANTS
  TypeOK
  CallsAreRequested
  TraceTellsCalls
  TracesReleased
  AnswersAreAudited
PROPERTIES
  EveryRunEnds
  ContractSpec
CHECK_DEADLOCK FALSE
