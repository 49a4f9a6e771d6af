SPECIFICATION FairSpec
CONSTANTS
  NumServices = 2
  Configs <- MCDaemons
  Sockets = {"Power"}
  Requests = {r1}
  Workers = 2
CHECK_DEADLOCK FALSE
PROPERTY EventuallyMonitored
