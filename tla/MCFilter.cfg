SPECIFICATION Spec
CONSTANTS
  r1 = r1
  r2 = r2
  r3 = r3
  NoAddr = NoAddr
  NoDatagram = NoDatagram
  Freed = Freed
  Out = Out
  Peer = Peer
  App = App
  OutRemote = NoAddr
  Config <- MCTwo
  Track = 1
  SeqLimit = 3
  InboundLens <- MCLens
  RelayedInputs <- MCInputs
  MaxInbound = 1
  MaxRelayed = 3
  Signals <- MCNone
INVARIANTS
  RingOfSurvivors
  NothingLeftBehind
  DuplicatesFiltered
PROPERTY ImplementsDispatcher
CHECK_DEADLOCK FALSE
