SPECIFICATION Spec
CONSTANTS
  Clients = {a, b}
  Numbers = {1}
  Hops = 3
  MaxCells = 1
  MayDie = {}
  Timeouts = FALSE
  None = None
INVARIANT NoInterference
SYMMETRY ClientSymmetry
CHECK_DEADLOCK FALSE
