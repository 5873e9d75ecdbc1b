SPECIFICATION FairSpec
CONSTANTS
  N = 1
  Max = 2
INVARIANTS
  SocketsWithinLimit
PROPERTIES
  PlacesFreed
CHECK_DEADLOCK FALSE
