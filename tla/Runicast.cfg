SPECIFICATION FairSpec
CONSTANTS
  n1 = n1
  n2 = n2
  c1 = c1
  c2 = c2
  m1 = m1
  m2 = m2
  m3 = m3
  NULL = NULL
  Node = {n1, n2}
  Channel = {c1, c2}
  Sender <- MCSender
  Packet = {m1, m2, m3}
  NumBufs = 2
  Ids = 2
  Attempts = {2}
  MaxInAir = 2
  Hasty <- MCHasty
  Reopens = FALSE
INVARIANTS SendsOwnPacket PoolExact
PROPERTIES ImplementsTransfer EveryPacketConcluded
CHECK_DEADLOCK FALSE
