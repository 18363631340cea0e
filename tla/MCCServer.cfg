SPECIFICATION Spec
CONSTANTS
  s1 = s1
  s2 = s2
  t1 = t1
  t2 = t2
  NoSession = NoSession
  Session <- MCSession
  Thread <- MCThread
  Pool <- MCPool
INVARIANTS
  Safe
PROPERTIES
  GoneIsErased
  GoneIsErasedUnlessEarly
CHECK_DEADLOCK FALSE
