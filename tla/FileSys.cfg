\* A disk of three sectors beside the system's own, two names, two processes.
CONSTANTS
  Process = {p, q}
  Name = {a, b}
  Sector <- MCSector
  Entry <- MCEntry
  Fd <- MCFd
  Size <- MCSize
  MaxOpen = 2
  None = None
SPECIFICATION Spec
INVARIANTS TypeOK EntriesSound  OpenersCounted
SYMMETRY Symmetry
CHECK_DEADLOCK FALSE
