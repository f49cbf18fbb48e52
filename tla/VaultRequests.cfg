SPECIFICATION RequestsSpec
CONSTANTS
  r1 = r1
  r2 = r2
  l1 = l1
  l2 = l2
  Requests = {r1, r2}
  Labels = {l1, l2}
  LabelOf <- MCLabelOf
  Starting = {r1}
  None = None
CHECK_DEADLOCK FALSE
INVARIANT
  StartAnswered
PROPERTY
  ImplementsClient
