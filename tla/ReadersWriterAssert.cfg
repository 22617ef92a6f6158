\* Two readers leave in the order they came.
SPECIFICATION Spec
CONSTANTS
  None = none
  Proc = {p1, p2}
  Faults = FALSE
SYMMETRY Processes
INVARIANTS LocksWellUsed
CHECK_DEADLOCK FALSE
