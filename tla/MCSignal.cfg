SPECIFICATION FairSpec
CONSTANTS
  r1 = r1
  r2 = r2
  r3 = r3
  NoAddr = NoAddr
  NoDatagram = NoDatagram
  Freed = Freed
  Out = Out
  Peer = Peer
  App = App
  OutRemote = NoAddr
  Config <- MCTwo
  Track = 2
  SeqLimit = 3
  InboundLens <- MCLens
  RelayedInputs <- MCInputs
  MaxInbound = 0
  MaxRelayed = 0
  Signals <- MCSignals
PROPERTY SignalTerminates
CHECK_DEADLOCK FALSE
