\* With aging nobody starves, sleepers come back.
SPECIFICATION FairSpec
CONSTANTS
  Thread = {main, idle, t1}
  Main = main
  Idle = idle
  None = none
  Sema = {s}
  IntrSema = {s}
  PriMax = 2
  TimeSlice = 2
  MaxSleep = 1
  MaxValue = 1
  Aging = TRUE
PROPERTIES ReadyRuns SleeperRuns
