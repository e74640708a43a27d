SPECIFICATION Spec
CONSTANTS
  Request = {q1, q2, q3}
  Visitor = {v1}
  Message = {m1}
  Reason = {slow}
  Comment = {text}
  Parallel = 2
  Eager = FALSE
  Faults = TRUE
  Absent = Absent
CHECK_DEADLOCK FALSE
INVARIANTS TypeOK OneActiveRow
PROPERTIES RegisterSpec
