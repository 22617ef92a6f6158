\* One or two processes, growing stacks, two swap slots.
CONSTANTS
  First = p
  Second = q
  CodePage = code
  DataPage = data
  StackPage = stack
  Process = {p, q}
  Code = {code}
  Data = {data}
  Top = top
  Programs <- MCPrograms
  Grown = {stack}
  Frame <- MCFrame
  Slot <- MCSlot
  Page = {g1, g2, g3, g4, g5, g6, g7}
  Value = {x}
  Initial = initial
  ListHead = lhead
  ListTail = ltail
  Wild = wild
  None = None
SPECIFICATION FairSpec
INVARIANTS TypeOK   SlotsExact
PROPERTY FaultServed
CHECK_DEADLOCK FALSE
