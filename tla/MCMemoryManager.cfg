SPECIFICATION Spec
CONSTANTS
  a1 = a1
  a2 = a2
  a3 = a3
  k1 = k1
  k2 = k2
  Addr <- MCAddr
  Index = {0, 1}
  HashIndex <- MCHashIndex
  Block <- MCBlock
  BlockSize = 2
  Size = {1}
  Padding = 1
  StatMod = 1
  Line = {l1}
  Unknown = Unknown
  NULL = NULL
  NoRequest = NoRequest
SYMMETRY Symmetry
INVARIANTS
  TypeOK
  LookupExact
  WalksEnd
  ChainsCountTracked
  NoDanglingUnits
PROPERTIES
  UnitsLostOnlyByFailure
  RetryKeepsOwner
