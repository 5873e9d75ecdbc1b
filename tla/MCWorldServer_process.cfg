CONSTANTS
  i1 = i1
  i2 = i2
  N = 2
  MaxConns = 3
  IPs = {i1, i2}
  IPOf <- MCIPOf
  AsioThreads = 2
  MaxClients = 1
  SpamPrevention = TRUE
  MaxAttempts = 1
  MapMax = 1
  MaxOutages = 1
SPECIFICATION FairSpec
INVARIANTS
  SocketsCounted
  AdmissionsBounded
  ShutdownOrdered
PROPERTIES
  ArrivalsHandled
  ConnectionsHeal
CHECK_DEADLOCK FALSE
