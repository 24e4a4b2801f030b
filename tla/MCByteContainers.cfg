SPECIFICATION Spec
CONSTANTS
  Obj = {o1, o2}
  Addr = {a1, a2, a3}
  Byte = {0, 1}
  Garbage = Garbage
  MaxSize = 2
  NULL = NULL
  Caller = Caller
  Free = Free
  Dead = Dead
  Chunk <- MCChunk
SYMMETRY Symmetry
CHECK_DEADLOCK FALSE
INVARIANTS
  TypeOK
  OwnsBlocks
  ThrowingIsSafe
PROPERTIES
  ImplementsValues
