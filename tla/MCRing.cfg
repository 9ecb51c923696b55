SPECIFICATION Spec
CONSTANTS
  r1 = r1
  r2 = r2
  r3 = r3
  NoAddr = NoAddr
  NoDatagram = NoDatagram
  Freed = Freed
  Out = Out
  Peer = Peer
  App = App
  OutRemote = NoAddr
  Config <- MCThree
  Track = 1
  SeqLimit = 2
  InboundLens <- MCLens
  RelayedInputs <- MCShort
  MaxInbound = 2
  MaxRelayed = 0
  Signals <- MCSignals
INVARIANTS
  TypeOK
  RingOfSurvivors
  CursorOnLiveRelays
  EveryRelayServed
CHECK_DEADLOCK FALSE
