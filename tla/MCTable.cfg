SPECIFICATION Spec
CONSTANTS
  a1 = a1
  a2 = a2
  a3 = a3
  k1 = k1
  k2 = k2
  Addr <- MCAddr
  Index = {0}
  HashIndex <- OneBucket
  Block = {k1}
  BlockSize = 3
  Size = {1, 2}
  Padding = 1
  StatMod = 3
  Line = {Unknown}
  Unknown = Unknown
  NULL = NULL
  NoRequest = NoRequest
SYMMETRY AddrSymmetry
INVARIANTS
  StatsExact
PROPERTIES
  ImplementsTable
