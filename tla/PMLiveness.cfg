SPECIFICATION FairSpec
CONSTANTS
  Labels = {l1}
  Dirs = {d1, d2}
  Pmids = {m1}
  Owners = {o1}
  Pids = {p1, p2}
  Conns = {c1}
  MaxVaultRestarts = 1
  MaxRequests = 1
  None = None
CHECK_DEADLOCK FALSE
PROPERTIES
  TransitionEnds
  DeadVaultNoticed
  ShutdownDrains
