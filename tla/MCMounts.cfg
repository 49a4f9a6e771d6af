SPECIFICATION Spec
CONSTANTS
  Name <- MCName
  Fstabs <- MCFstabs
  Links <- MCLinks
  Others <- MCOthers
  MaxOthers = 3
CHECK_DEADLOCK FALSE
INVARIANTS
  TypeOK
  RootMountedOnce
  SweepDetaches
  SpecialStay
  ForeignMountsStay
