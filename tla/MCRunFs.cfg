SPECIFICATION Spec
CONSTANTS
  Instances = {a, b}
  Sockets = {"Core", "Power"}
  NumServices = 1
  Configs <- MCConfigs
  Pids = {70000}
SYMMETRY InstanceSymmetry
CHECK_DEADLOCK FALSE
INVARIANTS
  TypeOK
  MarkedByOwner
  ContentIsOwners
PROPERTIES
  ListingIsWhole
  RowsTrue
