SPECIFICATION Spec
CONSTANTS
  Streams = {s1}
  MaxReq = 1
  MaxResp = 2
  Breakable = FALSE
CHECK_DEADLOCK FALSE
INVARIANT NoFalseTamperAlarm
