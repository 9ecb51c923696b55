SPECIFICATION FairSpec
CONSTANTS
  p1 = p1
  p2 = p2
  NoAddr = NoAddr
  NoDatagram = NoDatagram
  Peers <- MCPeers
  Lengths <- MCLengths
  MaxEnqueues = 4
INVARIANTS
  TypeOK
  BufferFits
  PeerKnown
  HeldInOrder
PROPERTY Drains
CHECK_DEADLOCK FALSE
