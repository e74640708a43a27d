SPECIFICATION Spec
CONSTANTS
  Feedback = {f1}
  Issue = {i1, i2}
  Admin = {a1, a2}
  Edit <- ManyEdits
  Exclusive = TRUE
  Faults = TRUE
  Absent = Absent
INVARIANTS TypeOK OneIssuePerFeedback
PROPERTIES LifecycleSpec
SYMMETRY Symmetry
