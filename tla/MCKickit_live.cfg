SPECIFICATION FairSpec
CONSTANTS
  NumServices = 1
  Configs <- MCConfigs
  Sockets = {"Power", "Log"}
  Requests = {r1, r2}
  Workers = 6
CHECK_DEADLOCK FALSE
PROPERTIES
  DeathNoticed
  PowerRequestSettles
