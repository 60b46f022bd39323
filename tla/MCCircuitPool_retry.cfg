SPECIFICATION FairSpec
CONSTANTS
  Handlers = {h1}
  PoolSize = 1
  MaxAttempts = 3
  MaxId = 3
  NoCircuit = NoCircuit
PROPERTY RetriedUntilBudget
