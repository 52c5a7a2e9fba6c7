SPECIFICATION FairSpec
CONSTANTS
  None = None
  Programs <- MCPrograms
  MaxId = 4
INVARIANTS
  TypeOK
  CountsAreExact
  RunLimits
  QueueOrderIsKept
  WaitOrderIsKept
  StoppedNeverPlays
PROPERTIES
  EveryoneGoesOn
