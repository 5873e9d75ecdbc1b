CONSTANTS
  l1 = l1
  a1 = a1
  none = none
  Logins = {l1}
  Accounts = {a1}
  AccountOf <- MCAccountOf
  NoLogin = none
  MaxRealms = 1
  RealmCounts = {1, 2}
  LoginWorkers = 2
  MaxVisits = 3
SPECIFICATION FairSpec
INVARIANTS
  InStep
  UsesBounded
PROPERTIES
  ClosedForGood
  SocketsReleased
CHECK_DEADLOCK FALSE
