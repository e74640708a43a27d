SPECIFICATION Spec
CONSTANTS
  r1 = r1
  r2 = r2
  Run <- Runs
  Questions <- Asked
  NoTrace = NoTrace
INVARIANTS TypeOK OnlyIntendedCalls AuditIsTrue
CHECK_DEADLOCK FALSE
