SPECIFICATION Spec
CONSTANTS
  Lines <- MCLines
  Shout = TRUE
  Capacity = 1
  MaxLines = 2
  MaxCells = 2
CHECK_DEADLOCK FALSE
INVARIANTS
  LogIsWhatWasSaid
  ReaderWhole
  AtMostOneLine
PROPERTIES
  AllLogged
  RunOnceSettles
