SPECIFICATION Spec
CONSTANTS
  LongSize = 4
  paddingSize = 4
  Size <- MCSize
CHECK_DEADLOCK FALSE
INVARIANTS
  TypeOK
  GuardsIntact
  FreshIsMarked
  UnusedIsUnused
PROPERTIES
  ReallocKeepsContents
  DamageCaught
