SPECIFICATION Spec
CONSTANTS
  Labels = {l1, l2}
  Dirs = {d1, d2}
  Pmids = {m1, m2}
  Owners = {o1}
  Pids = {p1, p2}
  Conns = {c1, c2}
  MaxVaultRestarts = 1
  MaxRequests = 2
  None = None
SYMMETRY Symmetry
CHECK_DEADLOCK FALSE
INVARIANTS
  TypeOK
  NoConflict
  PidsOurs
  NoOrphans
  WaitNeverBlocks
  EveryVaultWatched
PROPERTY
  ImplementsSupervisor
