CONSTANTS
  s1 = s1
  s2 = s2
  a1 = a1
  c1 = c1
  none = none
  nobody = nobody
  Sessions = {s1, s2}
  Accounts = {a1}
  Chars = {c1}
  Owner <- MCOwner
  NoAccount = none
  Nobody = nobody
  MaxAsks = 3
  MaxMoves = 1
  MaxQueue = 0
  MaxProgress = 2
SPECIFICATION SavesSpec
INVARIANTS
  NoProgressLost
CONSTRAINT NoOverlap
CHECK_DEADLOCK FALSE
