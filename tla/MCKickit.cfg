SPECIFICATION Spec
CONSTANTS
  NumServices = 2
  Configs <- MCConfigs
  Sockets = {"Power"}
  Requests = {r1, r2}
  Workers = 5
SYMMETRY RequestSymmetry
CHECK_DEADLOCK FALSE
INVARIANTS
  TypeOK
  EmergencyShellOnce
  KilledNotFatal
  SingleSweep
  SweepReachesAll
  SupervisedIsWhole
  PublishedIsComplete
  RefusedOnlyIfHalfUp
