SPECIFICATION Spec
CONSTANTS
  Labels = {l1, l2, l3}
  Keys = {k1, k2}
  MaxStarts = 3
CHECK_DEADLOCK FALSE
INVARIANT
  RestartsListedVaults
