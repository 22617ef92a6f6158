\* One process frees the last page of the list.
CONSTANTS
  First = p
  Second = q
  CodePage = code
  DataPage = data
  StackPage = stack
  Process = {p}
  Code = {code}
  Data = {data}
  Top = top
  Programs <- MCOneProgram
  Grown = {}
  Frame <- MCFrame
  Slot <- MCSlot
  Page = {g1, g2, g3, g4}
  Value = {x}
  Initial = initial
  ListHead = lhead
  ListTail = ltail
  Wild = wild
  None = None
SPECIFICATION Spec
INVARIANT HandInList
CHECK_DEADLOCK FALSE
