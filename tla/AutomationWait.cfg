SPECIFICATION Spec
CONSTANTS
  None = None
  Programs <- MCWait
  MaxId = 3
INVARIANTS
  PopsWhatItPlayed
