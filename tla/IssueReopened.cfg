SPECIFICATION Spec
CONSTANTS
  Feedback = {f1}
  Issue = {i1}
  Admin = {a1, a2}
  Edit <- FewEdits
  Exclusive = FALSE
  Faults = FALSE
  Absent = Absent
PROPERTIES ClosedIsFrozen
