SPECIFICATION NotifyingFairSpec
CONSTANTS
  a = a
  b = b
  task = task
  nullptr = nullptr
  SIZE = 4
  T <- MCT
  Producers <- MCProducers
  None = nullptr
  DropRange = 3
INVARIANTS
  NoSlotRace
PROPERTIES
  ImplementsFairFifo
