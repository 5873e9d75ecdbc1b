CONSTANTS
  CellWidth = 2
  Cells = 2
  MaxDiff = 1
  QueueSize = 1
  Strides <- MCStrides
  MaxSteps = 4
  MaxVisits = 2
SPECIFICATION FairSpec
INVARIANTS
  FewCorrections
  Agreement
  ClientExpects
PROPERTIES
  OnlyCurrentMoves
  CatchesUp
CHECK_DEADLOCK FALSE
