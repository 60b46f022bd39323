SPECIFICATION FairSpec
CONSTANTS
  Relays = {r1, r2}
  Addrs = {a1, a2}
  StaleTimeout = 4
  BeatInterval = 2
  MaxRtt = 1
  MaxStall = 1
INVARIANTS
  TypeOK
  AddressesUnique
PROPERTIES
  NoRevival
  DroppedOnlyByEviction
  DeadStayDropped
