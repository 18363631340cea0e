SPECIFICATION Spec
CONSTANTS
  s1 = s1
  Session <- MCSession
  HEAD_TOTAL_LEN <- MCHead
  MAX_LENGTH <- MCMaxLength
  BodyLen <- MCBodyLen
  Short <- MCShort
  MaxFrames <- MCMaxFrames
INVARIANTS
  PostedIsFrame
CHECK_DEADLOCK FALSE
