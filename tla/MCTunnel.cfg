SPECIFICATION Spec
CONSTANTS
  a = a
  b = b
  r1 = r1
  r2 = r2
  Nodes <- MCNodes
  Relays <- MCRelays
  Track = 1
  SeqLimit = 3
  MaxSent <- MCSent
  MaxAccepted <- MCAccepted
  MaxRestarts = 1
  MayLose <- MCMayLose
INVARIANTS
  TypeOK
  RepeatsExplained
  RefusalsExplained
  RestartLossBounded
CHECK_DEADLOCK FALSE
