\* Four processes, any of which may die inside a call.
SPECIFICATION Spec
CONSTANTS
  None = none
  Proc = {p1, p2, p3, p4}
  Faults = TRUE
SYMMETRY Processes
INVARIANTS WriterExcludes CountExact NobodyStuck
CHECK_DEADLOCK FALSE
