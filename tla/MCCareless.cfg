SPECIFICATION Spec
CONSTANTS
  Reader = {r1}
  Card = {k1}
  Context = {x1}
  Handle = {h1, h2}
  Conn = {c1, c2}
  Impl = {i1, i2}
  NoCard = NoCard
  Closed = Closed
  Null = Null
  NoHandle = NoHandle
  NoContext = NoContext
  NoCall = NoCall
  NoPoll = NoPoll
  EmptyAtr = EmptyAtr
  GarbageAtr = GarbageAtr
  StatusReliable = TRUE
  Careful = FALSE
  ServiceMayStop = TRUE
SYMMETRY Symmetry
PROPERTIES
  StaleStaysConnected
  SessionLostOnlyByHolder
