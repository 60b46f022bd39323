SPECIFICATION FairSpec
CONSTANTS
  Clients = {a}
  Numbers = {1}
  Hops = 4
  MaxCells = 2
  MayDie = {1, 2, 3, 4}
  Timeouts = TRUE
  None = None
INVARIANT TypeOK
PROPERTIES
  ImplementsPath
  FailureReachesClient
CHECK_DEADLOCK FALSE
