SPECIFICATION Spec
CONSTANTS
  None = None
  Programs <- MCWhile
  MaxId = 3
INVARIANTS
  CountsAreExact
