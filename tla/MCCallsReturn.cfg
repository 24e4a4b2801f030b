SPECIFICATION Spec
CONSTANTS
  Reader = {r1, r2}
  Card = {k1}
  Context = {x1}
  Handle = {h1}
  Conn = {c1, c2}
  Impl = {i1}
  NoCard = NoCard
  Closed = Closed
  Null = Null
  NoHandle = NoHandle
  NoContext = NoContext
  NoCall = NoCall
  NoPoll = NoPoll
  EmptyAtr = EmptyAtr
  GarbageAtr = GarbageAtr
  StatusReliable = FALSE
  Careful = TRUE
  ServiceMayStop = TRUE
PROPERTIES
  CallsReturn
