SPECIFICATION FairSpec
CONSTANTS
  Handlers = {h1, h2}
  PoolSize = 1
  MaxAttempts = 2
  MaxId = 2
  NoCircuit = NoCircuit
INVARIANTS
  TypeOK
  ReadyIsAged
PROPERTIES
  NeverDropsReady
  AgedStepDown
  ClosedLeave
