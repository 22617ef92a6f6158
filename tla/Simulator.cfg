\* Sessions of four commands; sources of up to three lines, and text records of
\* seven bytes.
SPECIFICATION SimFair
CONSTANTS
  None = "!"
  Symbols <- MCSymbols
  HexValue <- MCHexValue
  CXValue <- MCCXValue
  TextBytes = 7
  StackWord = 100000
  Sources <- MCSources
  Continued <- MCContinued
  Longest = 3
  Objects <- MCObjects
  LoadLists <- MCLoadLists
  Addresses = {0, 8, 32}
  Cells = {22, 23}
  Values = {255}
  MaxCommands = 4
  MaxX = 8
INVARIANTS  OperandsResolve
PROPERTIES  RunEnds
CHECK_DEADLOCK FALSE
