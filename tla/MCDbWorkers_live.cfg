CONSTANTS
  a = a
  b = b
  c = c
  N = 2
  Asks = {a, c}
  Limited = {a}
  Fire = {c}
  Tokened = {a}
  MaxKeeps = 0
  Limit = 2
SPECIFICATION FairSpec
PROPERTIES
  TakenAreServed
  ShutdownEnds
CHECK_DEADLOCK FALSE
