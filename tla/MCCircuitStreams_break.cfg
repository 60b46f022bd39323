SPECIFICATION FairSpec
CONSTANTS
  Streams = {s1}
  MaxReq = 2
  MaxResp = 2
  Breakable = TRUE
CHECK_DEADLOCK FALSE
INVARIANT TypeOK
INVARIANT RoutedWhileOpen
PROPERTY ImplementsPipes
PROPERTY HandlersReturn
PROPERTY DestinationReleased
