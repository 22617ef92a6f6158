\* Three threads read the keyboard, or print.
SPECIFICATION FairSpec
CONSTANTS
  None = none
  Thread = {t1, t2, t3}
  Byte = {a, b}
  Size = 4
INVARIANTS SleepersJustified
PROPERTIES ImplementsFifo 
CHECK_DEADLOCK FALSE
