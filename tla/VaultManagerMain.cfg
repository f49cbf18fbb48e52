SPECIFICATION MainSpec
CONSTANTS
  Labels = {l1, l2}
  Keys = {k1, k2}
  MaxStarts = 3
  PortOptions = {1024, 1025, 65535, 65536}
CHECK_DEADLOCK FALSE
INVARIANT
  ZeroMeansStopped
PROPERTIES
  KeyKept
  AskedManagerStops
