SPECIFICATION FairSpec
CONSTANTS
  Clients = {a}
  Numbers = {1, 2}
  Hops = 3
  MaxCells = 2
  MayDie = {}
  Timeouts = FALSE
  None = None
INVARIANTS
  EstablishedWhenReady
  NeverBreaksByItself
CHECK_DEADLOCK FALSE
PROPERTY BuildsSucceed
