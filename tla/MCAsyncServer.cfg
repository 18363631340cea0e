SPECIFICATION Spec
CONSTANTS
  c1 = c1
  c2 = c2
  Session <- MCSession
  Rounds = 3
  Plan <- MCPlan
  HEAD_TOTAL_LEN = 2
  MAX_LENGTH = 4
  BodyLen = {1}
  Short <- MCShort
  MAX_SENDQUE = 1
  Pieces = 2
INVARIANT
  SplitStarves
PROPERTIES
  RequestReplySpec
  RequestIsAnswered
  GoneIsReleased
CHECK_DEADLOCK FALSE
