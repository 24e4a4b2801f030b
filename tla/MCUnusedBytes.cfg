SPECIFICATION Spec
CONSTANTS
  LongSize = 4
  paddingSize = 4
  Size <- MCSize
INVARIANTS
  UnusedIsCounted
