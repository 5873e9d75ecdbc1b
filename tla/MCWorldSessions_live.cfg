CONSTANTS
  s1 = s1
  s2 = s2
  s3 = s3
  a1 = a1
  a2 = a2
  c1 = c1
  c2 = c2
  none = none
  nobody = nobody
  Sessions = {s1, s2}
  Accounts = {a1}
  Chars = {c1}
  Owner <- MCOwnerOne
  NoAccount = none
  Nobody = nobody
  MaxAsks = 2
  MaxMoves = 0
  MaxQueue = 0
SPECIFICATION FairSpec
PROPERTIES
  LostPlayerLeaves
  RequestsAnswered
CHECK_DEADLOCK FALSE
