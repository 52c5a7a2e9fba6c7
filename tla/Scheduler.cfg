SPECIFICATION FairSpec
CONSTANTS
  i1 = i1
  i2 = i2
  named = named
  self = self
  comp = comp
  None = None
  Items <- MCItems
  Keys <- MCKeys
  Anonymous = {}
  Parallel = {self}
  Components <- MCComponents
  Owner <- MCOwner
  Delays = {0, 1}
  MaxTime = 1
  MaxDeleted = 1
  MaxOffset = 5000
  Builds = {TRUE, FALSE}
INVARIANTS
  TypeOK
  EveryItemInOnePlace
  OneLivePerKey
  CountersAreExact
  ExecutedStaysOnTop
PROPERTIES
  RevokedNeverRuns
  DeferIsFifo
  AllAreServed
