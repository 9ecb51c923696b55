SPECIFICATION FairSpec
CONSTANTS
  a = a
  b = b
  c = c
  d = d
  Items <- MCItems
  NULL = NULL
  Wild = Wild
INVARIANTS
  Linked
  TokenAlive
PROPERTIES
  LoopEnds
  ImplementsRing
