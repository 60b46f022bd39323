SPECIFICATION Spec
CONSTANTS
  Streams = {s1, s2}
  MaxReq = 1
  MaxResp = 1
  Breakable = FALSE
SYMMETRY StreamSymmetry
CHECK_DEADLOCK FALSE
INVARIANT ForwardInSync
INVARIANT BackwardAccounted
INVARIANT OnlyEndsOvertaken
INVARIANT AnswerComesFirst
