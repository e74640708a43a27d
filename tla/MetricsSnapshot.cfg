SPECIFICATION Spec
CONSTANTS
  c1 = c1
  c2 = c2
  None = None
  Call <- Calls
  Row <- SomeRows
  MaxTime = 9
  Milli = 2
  Drift = 1
  Interval = 3
  MaxStarts = 2
SYMMETRY Symmetry
INVARIANTS TypeOK WindowsFollow CountedOnce
CHECK_DEADLOCK FALSE
