SPECIFICATION Spec
CONSTANTS
  s1 = s1
  n1 = n1
  n2 = n2
  n3 = n3
  n4 = n4
  Session <- MCSession
  Node <- MCNode
  MAX_SENDQUE <- MCMAX_SENDQUE
  Pieces <- MCPieces
INVARIANTS
  Safe
  WireInOrder
PROPERTIES
  AcceptedIsSent
CHECK_DEADLOCK FALSE
