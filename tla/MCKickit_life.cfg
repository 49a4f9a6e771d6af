SPECIFICATION MixedSpec
CONSTANTS
  NumServices = 2
  Configs <- MCAnyStart
  Sockets = {"Power"}
  Requests = {r1}
  Workers = 5
CHECK_DEADLOCK FALSE
INVARIANTS
  OwnedWhenUsed
  FatalHandOverCause
PROPERTIES
  ImplementsLife
  OwnershipKept
  StartupSettles
