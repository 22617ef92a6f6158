\* A process is killed by an exception and waited for.
SPECIFICATION Spec
CONSTANTS
  Main = main
  Proc = {main, p1, p2}
  Code <- Codes
INVARIANTS KilledWaitsMinusOne
CHECK_DEADLOCK FALSE
