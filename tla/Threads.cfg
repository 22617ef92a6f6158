\* Main and two workers share one semaphore; ready threads age.
SPECIFICATION Spec
CONSTANTS
  Thread = {main, idle, t1, t2}
  Main = main
  Idle = idle
  None = none
  Sema = {s}
  IntrSema = {s}
  PriMax = 1
  TimeSlice = 2
  MaxSleep = 2
  MaxValue = 2
  Aging = TRUE
SYMMETRY Workers
INVARIANTS TypeOK ListsExclusive NoLostWakeup QueuesOrdered
PROPERTIES PriorityScheduling NoOvertaking 
