SPECIFICATION FairSpec
CONSTANTS
  GreetLen = 2
  Lens = {2, 3}
  MaxPacket = 3
  BufSize = 4
  BufMax = 6
  StreamSize = 3
  MaxPackets = 2
  Prefixes = {1, 2}
INVARIANTS
  HonestAccepted
  IVOnce
PROPERTIES
  AllDelivered
CHECK_DEADLOCK FALSE
