SPECIFICATION FairSpec
CONSTANTS
  Conns = {c1, c2}
CHECK_DEADLOCK FALSE
INVARIANTS
  TablesDisjoint
  ClosedForgotten
  UnidentifiedWatched
  ShutdownClosesAll
  StableClientsTold
PROPERTIES
  EventuallyIdentified
  TablesEmptied
  ImplementsLifecycle
