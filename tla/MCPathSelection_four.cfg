SPECIFICATION MCSpec
CONSTANTS
  Middles = {1, 2, 3}
  Entries = {4, 5}
  Exits = {6}
  Ips = {0, 1, 2}
  Loopback = {0}
  Ops = {1, 2}
  NoOp = 0
  AllowSameIp = FALSE
  Requested = 4
  NoNode = NoNode
  Numbers = 2
  Hops = 3
  MaxStarts = 2
  MaxPayload = 2
  Bytes = {0, 1}
  CircuitIds = {1}
  Sent = {0, 18}
  MaxCells = 2
  Limit = 8
  MaxNodes = 3
  Relays = {"e1", "x1"}
  AddressOf <- MCAddressOf
  TypeOf <- MCTypeOf
  Capacity = 3
  Window = 2
  PageLimit = 3
  MaxEvents = 4
  MaxCalls = 2
  Recent = 2
  MaxRelayEvents = 4
  MaxHops = 10
INVARIANTS
  TypeOK
  CircuitIsSound
  ErrorIsJustified
  TypesOK
  KeysAgree
  ReadsWhatWasWritten
  FairShare
  FeedFaithful
  CountersAccount
  PanelFaithful
  AcceptedStarts
  FormConsistent
CHECK_DEADLOCK FALSE
