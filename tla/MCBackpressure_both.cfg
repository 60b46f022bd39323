SPECIFICATION Spec
CONSTANTS
  a = a
  b = b
  Circuits = {a}
  Streams = {s1}
  Hops = 3
  Cap = 1
  Uploads <- BothUp
  Downloads <- BothDown
INVARIANT NoDeadlock
CHECK_DEADLOCK FALSE
