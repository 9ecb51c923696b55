SPECIFICATION WritableSpec
CONSTANTS
  r1 = r1
  r2 = r2
  r3 = r3
  NoAddr = NoAddr
  NoDatagram = NoDatagram
  Freed = Freed
  Out = Out
  Peer = Peer
  App = App
  OutRemote = NoAddr
  Config <- MCTwo
  Track = 2
  SeqLimit = 3
  InboundLens <- MCLens
  RelayedInputs <- MCShort
  MaxInbound = 1
  MaxRelayed = 1
  Signals <- MCSignals
PROPERTIES
  SignalTerminates
  BacklogDrains
CHECK_DEADLOCK FALSE
