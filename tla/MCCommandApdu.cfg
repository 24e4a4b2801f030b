SPECIFICATION Spec
CONSTANTS
  capdu = capdu
  Obj = {capdu}
  Addr = {a1, a2}
  Byte <- MCByte
  Garbage = Garbage
  MaxSize = 300
  NULL = NULL
  Caller = Caller
  Free = Free
  Dead = Dead
  Header <- MCHeader
  Data <- MCData
  Le <- MCLe
  Character <- MCCharacter
  Text <- MCText
  Dump <- MCDump
CHECK_DEADLOCK FALSE
INVARIANTS
  CommandTypeOK
  LengthTells
  ThrowingIsExact
  FreedOnce
PROPERTIES
  ConstructionEnds
