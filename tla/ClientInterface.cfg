SPECIFICATION FairSpec
CONSTANTS
  r1 = r1
  r2 = r2
  r3 = r3
  l1 = l1
  l2 = l2
  Requests = {r1, r2, r3}
  Labels = {l1, l2}
  LabelOf <- MCLabelOf
  None = None
CHECK_DEADLOCK FALSE
INVARIANTS
  OngoingUnresolved
  SoleRequestFindable
PROPERTIES
  OutcomeSetOnce
  FuturesReady
  ConstructorReturns
