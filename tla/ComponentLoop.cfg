SPECIFICATION FairSpec
CONSTANTS
  c1 = c1
  c2 = c2
  c3 = c3
  None = None
  Order <- MCOrder3
  Requesters <- MCOne
  Failing <- MCOne
  Resettable <- MCOne
  MaxOps = 1
INVARIANTS
  TypeOK
  PartitionMatchesState
  NoLostRequest
PROPERTIES
  EachRunsOnce
  RequestsAreServed
