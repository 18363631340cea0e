SPECIFICATION Spec
CONSTANTS
  m1 = m1
  m2 = m2
  m3 = m3
  m4 = m4
  LogicNode <- MCLogicNode
  Registered <- MCRegistered
INVARIANTS
  Safe
PROPERTIES
  JoinReturns
  MailboxSpec
CHECK_DEADLOCK FALSE
