SPECIFICATION Spec
CONSTANTS
  Name <- MCName
  Fstabs <- MCFstabs
  Links <- MCLinks
  Others <- MCOthers
  MaxOthers = 0
CHECK_DEADLOCK FALSE
INVARIANT UuidIsFound
