SPECIFICATION TreeSpec
CONSTANTS
  MaxItems = 16
  MaxWalked = 10
INVARIANTS
  Balanced
  HoldsMembers
  SearchExact
  TraversalsExact
  AssertionsHold
