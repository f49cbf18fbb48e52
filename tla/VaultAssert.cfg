SPECIFICATION Spec
CONSTANTS
  Waiters = {w1}
  None = None
CHECK_DEADLOCK FALSE
INVARIANT
  ResponseFindsCallback
