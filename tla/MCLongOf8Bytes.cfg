SPECIFICATION Spec
CONSTANTS
  LongSize = 8
  paddingSize = 4
  Size <- LargeSize
INVARIANTS
  FillStaysInside
