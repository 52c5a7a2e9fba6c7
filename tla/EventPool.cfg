SPECIFICATION FairSpec
CONSTANTS
  POOL_SIZE = 2
  Q_SIZE = 3
  DropRange = 3
  None = nullptr
  HeapMayFail = TRUE
  Releasers = {"sink"}
INVARIANTS
  TypeOK
  EveryEventAccounted
PROPERTIES
  EveryEventReturns
