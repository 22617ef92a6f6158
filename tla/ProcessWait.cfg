\* The main thread and two processes.
SPECIFICATION FairSpec
CONSTANTS
  Main = main
  Proc = {main, p1, p2}
  Code <- Codes
INVARIANTS TypeOK NoUseAfterFree ChildrenHeld
PROPERTIES   WaitServed ReapedIsFreed
CHECK_DEADLOCK FALSE
