CONSTANTS
  a = a
  b = b
  c = c
  N = 2
  Asks = {a, b}
  Limited = {a, b}
  Fire = {b}
  Tokened = {a}
  MaxKeeps = 1
  Limit = 1
SPECIFICATION Spec
INVARIANTS
  CountExact
  LimitHolds
  StopDrains
PROPERTIES
  ImplementsQueues
CHECK_DEADLOCK FALSE
