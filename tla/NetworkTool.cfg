SPECIFICATION Spec
CONSTANTS
  Lines <- MCLines
  MaxLaunches = 2
INVARIANTS
  ScriptInSync
  FirstTwoServed
  StableMeansComplete
  PortUsable
PROPERTIES
  StartsOnEmptyRoot
  StartNetworkEnds
  ScriptNeedsNobody
CHECK_DEADLOCK FALSE
