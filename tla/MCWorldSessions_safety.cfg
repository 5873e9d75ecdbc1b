CONSTANTS
  s1 = s1
  s2 = s2
  s3 = s3
  a1 = a1
  a2 = a2
  c1 = c1
  c2 = c2
  none = none
  nobody = nobody
  Sessions = {s1, s2}
  Accounts = {a1, a2}
  Chars = {c1, c2}
  Owner <- MCOwnerEach
  NoAccount = none
  Nobody = nobody
  MaxAsks = 2
  MaxMoves = 1
  MaxQueue = 1
SPECIFICATION Spec
SYMMETRY MCSymmetry
INVARIANTS
  TypeOK
  IndexesAgree
  NoOrphanedPlayer
  InWorldHasPlayer
  PacketsOfThisStay
  OneSessionPerAccount
  RegistrySound
  PlayerOfOwnAccount
PROPERTIES
  ImplementsPresence
CHECK_DEADLOCK FALSE
