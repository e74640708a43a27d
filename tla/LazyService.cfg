SPECIFICATION Spec
CONSTANTS
  Thread = {t1, t2}
  MaxFailures = 3
  MaxCloses = 2
  None = None
INVARIANTS
  TypeOK
  ServedByOpenEngine
  EnginesBounded
CHECK_DEADLOCK FALSE
