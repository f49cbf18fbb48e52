SPECIFICATION FairSpec
CONSTANTS
  Waiters = {w1, w2}
  None = None
CHECK_DEADLOCK FALSE
PROPERTIES
  LostConnectionEndsWait
  ConstructorReturns
