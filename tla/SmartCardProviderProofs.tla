----------------------- MODULE SmartCardProviderProofs -----------------------
(***************************************************************************)
(* Proofs about SmartCardProvider, for any sets of readers, cards,         *)
(* handles, connections and objects.                                       *)
(***************************************************************************)
EXTENDS SmartCardProvider, FiniteSetTheorems, TLAPS

LEMMA ListingsAreSequences == Listings \subseteq Seq(Reader)
  <1> SUFFICES ASSUME NEW s \in Listings
               PROVE  s \in Seq(Reader)
    OBVIOUS
  <1>1. Cardinality(Reader) \in Nat
    BY FS_CardinalityType, PCSCAssumption
  <1>2. PICK n \in 0..Cardinality(Reader) : s \in [1..n -> Reader]
    BY DEF Listings
  <1> QED BY <1>1, <1>2

(* What a live object and a present provider are, given TypeOK. *)
LEMMA ObjectTypes ==
  ASSUME TypeOK
  PROVE  /\ \A i \in Impl : impl[i] # Null => impl[i] \in CardConnectionImpl
         /\ provider # Null => provider \in ProviderImpl
         /\ polling # NoPoll => polling \in Polling
         /\ \A h \in Handle : session[h] # Closed => session[h] \in Session
  BY DEF TypeOK, PCSCTypeOK, ConnectionTypeOK

(* The PC/SC calls keep the types of their state. *)
LEMMA DetachedType ==
  ASSUME PCSCTypeOK, NEW r \in Reader
  PROVE  Detached(r) \in [Handle -> Session \cup {Closed}]
  BY DEF PCSCTypeOK, Detached, IsOpen, Session

LEMMA PCSCTypes ==
  ASSUME PCSCTypeOK
  PROVE  /\ \A x : SCardEstablishContext(x) => PCSCTypeOK'
         /\ \A x : SCardReleaseContext(x) => PCSCTypeOK'
         /\ \A x \in Context, r \in Reader, h \in Handle, p \in Protocol :
              SCardConnect(x, r, h, p) => PCSCTypeOK'
         /\ \A h : \A p \in Protocol : SCardReconnect(h, p) => PCSCTypeOK'
         /\ \A h : SCardDisconnect(h) => PCSCTypeOK'
         /\ \A r \in Reader, k \in Card : InsertCard(r, k) => PCSCTypeOK'
         /\ \A r \in Reader : RemoveCard(r) => PCSCTypeOK'
         /\ \A r \in Reader : ResetByOther(r) => PCSCTypeOK'
         /\ StopService => PCSCTypeOK'
  <1> USE DEF PCSCTypeOK
  <1>1. ASSUME NEW x, SCardEstablishContext(x) PROVE PCSCTypeOK'
    BY <1>1 DEF SCardEstablishContext
  <1>2. ASSUME NEW x, SCardReleaseContext(x) PROVE PCSCTypeOK'
    BY <1>2 DEF SCardReleaseContext
  <1>3. ASSUME NEW x \in Context, NEW r \in Reader, NEW h \in Handle,
               NEW p \in Protocol, SCardConnect(x, r, h, p)
        PROVE  PCSCTypeOK'
    <2>1. [context |-> x, reader |-> r, card |-> card[r], protocol |-> p]
            \in Session
      BY DEF Session
    <2> QED BY <1>3, <2>1 DEF SCardConnect
  <1>4. ASSUME NEW h, NEW p \in Protocol, SCardReconnect(h, p)
        PROVE  PCSCTypeOK'
    <2>1. h \in Handle /\ session[h] \in Session
      BY <1>4 DEF SCardReconnect, IsOpen
    <2> DEFINE r == session[h].reader
    <2>2. r \in Reader
      BY <2>1 DEF Session
    <2>3. Detached(r) \in [Handle -> Session \cup {Closed}]
      BY <2>2, DetachedType
    <2>4. Detached(r)[h] = [session[h] EXCEPT !.card = NoCard]
      BY <2>1, <1>4 DEF Detached, SCardReconnect, IsOpen
    <2>5. [Detached(r)[h] EXCEPT !.card = card[r], !.protocol = p] \in Session
      BY <2>1, <2>2, <2>4 DEF Session
    <2> QED BY <1>4, <2>3, <2>5 DEF SCardReconnect
  <1>5. ASSUME NEW h, SCardDisconnect(h) PROVE PCSCTypeOK'
    BY <1>5 DEF SCardDisconnect
  <1>6. ASSUME NEW r \in Reader, NEW k \in Card, InsertCard(r, k)
        PROVE  PCSCTypeOK'
    BY <1>6 DEF InsertCard
  <1>7. ASSUME NEW r \in Reader, RemoveCard(r) PROVE PCSCTypeOK'
    BY <1>7, DetachedType DEF RemoveCard
  <1>8. ASSUME NEW r \in Reader, ResetByOther(r) PROVE PCSCTypeOK'
    BY <1>8, DetachedType DEF ResetByOther
  <1>9. ASSUME StopService PROVE PCSCTypeOK'
    BY <1>9 DEF StopService
  <1> QED BY <1>1, <1>2, <1>3, <1>4, <1>5, <1>6, <1>7, <1>8, <1>9
-----------------------------------------------------------------------------
TypeInv == TypeOK /\ CallsHaveObjects

LEMMA NewObjectType ==
  ASSUME NEW x \in Context \cup {NoContext}, NEW r \in Reader
  PROVE  [context |-> x, terminal |-> r, card_handle |-> NoHandle,
          protocol |-> "none", is_connected |-> FALSE, atr_bytes |-> EmptyAtr]
           \in CardConnectionImpl
  BY DEF CardConnectionImpl, CommunicationProtocol, Atr

LEMMA TypeInit == Init => TypeInv
  BY DEF Init, PCSCInit, ConnectionInit, TypeInv, TypeOK, PCSCTypeOK,
         ConnectionTypeOK, CallsHaveObjects

(* The outcomes of the ATR request are ATRs. *)
LEMMA OutcomesAreAtrs ==
  ASSUME PCSCTypeOK, NEW o \in CardConnectionImpl
  PROVE  AtrOutcomes(o) \subseteq Atr
  <1> DEFINE k == IF card[o.terminal] = NoCard THEN EmptyAtr
                                               ELSE card[o.terminal]
  <1>1. o.terminal \in Reader /\ o.atr_bytes \in Atr
    BY DEF CardConnectionImpl
  <1>2. k \in Atr /\ GarbageAtr \in Atr
    BY <1>1 DEF PCSCTypeOK, Atr
  <1>3. AtrOutcomes(o) \subseteq {k, o.atr_bytes, GarbageAtr}
    BY ConnectionAssumption DEF AtrOutcomes
  <1> QED BY <1>1, <1>2, <1>3

LEMMA TypeStep == TypeInv /\ [Next]_vars => TypeInv'
  <1> SUFFICES ASSUME TypeInv, [Next]_vars PROVE TypeInv'
    OBVIOUS
  <1> USE ProviderAssumption, ConnectionAssumption, PCSCAssumption
  <1>t. PCSCTypeOK /\ ConnectionTypeOK /\ TypeOK /\ CallsHaveObjects
    BY DEF TypeInv, TypeOK
  <1>o. /\ \A i \in Impl : impl[i] # Null => impl[i] \in CardConnectionImpl
        /\ provider # Null => provider \in ProviderImpl
        /\ polling # NoPoll => polling \in Polling
    BY <1>t, ObjectTypes
  <1> USE DEF TypeInv, TypeOK, CallsHaveObjects, vars, providerVars
  <1>1. CASE UNCHANGED vars
    BY <1>1 DEF pcscVars, connectionVars, PCSCTypeOK, ConnectionTypeOK, Live
  <1>2. CASE NewProvider
    BY <1>2 DEF NewProvider, pcscVars, connectionVars, PCSCTypeOK,
         ConnectionTypeOK, Live, ProviderImpl
  <1>3. CASE DeleteProvider
    BY <1>3 DEF DeleteProvider, Available, pcscVars, connectionVars,
         PCSCTypeOK, ConnectionTypeOK, Live
  <1>4. CASE InitializeProvider
    <2>1. PICK x \in Context : /\ SCardEstablishContext(x)
                               /\ provider' = [provider EXCEPT !.context = x]
      BY <1>4 DEF InitializeProvider
    <2>2. provider' \in ProviderImpl /\ provider' # Null
      BY <1>4, <1>o, <2>1 DEF InitializeProvider, Available, ProviderImpl
    <2>3. PCSCTypeOK'
      BY <1>t, <2>1, PCSCTypes
    <2> QED BY <1>4, <2>2, <2>3 DEF InitializeProvider, Available,
              connectionVars, ConnectionTypeOK, Live
  <1>5. CASE CleanupProvider
    <2>1. PCSCTypeOK'
      BY <1>t, <1>5, PCSCTypes DEF CleanupProvider
    <2> QED BY <1>5, <2>1 DEF CleanupProvider, connectionVars,
              ConnectionTypeOK, Live
  <1>6. CASE Refresh
    <2>0. <<>> \in Seq(Reader)
      OBVIOUS
    <2>1. PICK s \in Seq(Reader) : provider' = [provider EXCEPT !.terminals = s]
      BY <1>6, <2>0, ListingsAreSequences DEF Refresh
    <2>2. provider' \in ProviderImpl /\ provider' # Null
      BY <1>6, <1>o, <2>1 DEF Refresh, Available, ProviderImpl
    <2> QED BY <1>6, <2>2 DEF Refresh, Available, pcscVars, connectionVars,
              PCSCTypeOK, ConnectionTypeOK, Live
  <1>7. ASSUME NEW c \in Conn, CreateCardConnection(c)
        PROVE  TypeInv'
    <2>1. polling' \in Polling
      BY <1>7, <1>o DEF CreateCardConnection, Available, ProviderImpl, Polling
    <2> QED BY <1>7, <2>1 DEF CreateCardConnection, Available, pcscVars,
              connectionVars, PCSCTypeOK, ConnectionTypeOK, Live
  <1>8. CASE PollReturns
    <2> DEFINE t == Head(polling.todo)
    <2>1. provider.context \in Context \cup {NoContext} /\ t \in Reader
      BY <1>8, <1>t, <1>o DEF PollReturns, ProviderImpl, Polling
    <2>2. CASE UNCHANGED connectionVars
      BY <1>8, <2>2 DEF PollReturns, pcscVars, connectionVars, PCSCTypeOK,
           ConnectionTypeOK, Live
    <2>3. ASSUME NEW i \in Impl, Initialize(polling.conn, i, provider.context, t)
          PROVE  TypeInv'
      <3>1. ConnectionTypeOK'
        BY <2>1, <2>3, NewObjectType DEF Initialize, ConnectionTypeOK
      <3>2. \A c \in Conn : active'[c] # NoCall => Live(m_impl[c])
                                                /\ m_impl'[c] = m_impl[c]
        BY <2>3, <1>o DEF Initialize, Live, ConnectionTypeOK
      <3>3. \A j \in Impl : impl[j] # Null => impl'[j] # Null
        BY <2>3, NewObjectType, <2>1 DEF Initialize, ConnectionTypeOK
      <3>4. \A c \in Conn : active'[c] # NoCall => Live(m_impl[c])'
        BY <3>2, <3>3 DEF Live
      <3> QED BY <1>8, <3>1, <3>4 DEF PollReturns, pcscVars, PCSCTypeOK
    <2> QED BY <1>8, <2>2, <2>3 DEF PollReturns
  <1>9. CASE PollNext
    <2>1. polling' \in Polling
      BY <1>9, <1>o DEF PollNext, Polling
    <2> QED BY <1>9, <2>1 DEF PollNext, pcscVars, connectionVars, PCSCTypeOK,
              ConnectionTypeOK, Live
  <1>10. CASE PollEnds
    BY <1>10 DEF PollEnds, pcscVars, connectionVars, PCSCTypeOK,
         ConnectionTypeOK, Live
  <1>11. ASSUME NEW c \in Conn, Cleanup(c), PCSCTypeOK', UNCHANGED providerVars
         PROVE  TypeInv'
    BY <1>11 DEF Cleanup, Callable, Quiet, ConnectionTypeOK, Live
  <1>12. ASSUME NEW c \in Conn, DestroyCardConnection(c) PROVE TypeInv'
    <2>1. PCSCTypeOK'
      BY <1>12, <1>t, PCSCTypes DEF DestroyCardConnection, PCSCTypeOK, pcscVars
    <2> QED BY <1>11, <1>12, <2>1 DEF DestroyCardConnection
  <1>13. ASSUME NEW c \in Conn, ConnectionCall(c) PROVE TypeInv'
    <2>1. ASSUME NEW h \in Handle, NEW p \in Protocol, Connect(c, h, p)
          PROVE  TypeInv'
      <3>1. Self(c) \in CardConnectionImpl /\ m_impl[c] \in Impl
        BY <2>1, <1>o DEF Connect, Callable, Live, Self
      <3>2. Self(c).context \in Context /\ Self(c).terminal \in Reader
        BY <1>t, <2>1, <3>1 DEF Connect, SCardConnect, CardConnectionImpl,
             PCSCTypeOK
      <3>3. PCSCTypeOK'
        BY <1>t, <2>1, <3>2, PCSCTypes DEF Connect
      <3>4. [Self(c) EXCEPT !.card_handle = h, !.is_connected = TRUE]
              \in CardConnectionImpl
        BY <3>1 DEF CardConnectionImpl
      <3>5. ConnectionTypeOK'
        BY <2>1, <3>1, <3>4 DEF Connect, ConnectionTypeOK, Self
      <3>6. \A d \in Conn : active'[d] # NoCall => Live(m_impl[d])'
        BY <2>1, <3>1, <3>4 DEF Connect, Callable, ConnectionTypeOK, Live, Self
      <3> QED BY <1>13, <3>3, <3>5, <3>6 DEF ConnectionCall
    <2>2. ASSUME NEW p \in Protocol, Reconnect(c, p) PROVE TypeInv'
      <3>1. PCSCTypeOK'
        BY <1>t, <2>2, PCSCTypes DEF Reconnect
      <3> QED BY <1>13, <2>2, <3>1 DEF ConnectionCall, Reconnect, Callable,
                ConnectionTypeOK, Live
    <2>3. CASE Disconnect(c)
      <3>1. Self(c) \in CardConnectionImpl /\ m_impl[c] \in Impl
        BY <2>3, <1>o DEF Disconnect, Callable, Live, Self
      <3>2. PCSCTypeOK'
        BY <1>t, <2>3, PCSCTypes DEF Disconnect
      <3>3. [Self(c) EXCEPT !.is_connected = FALSE] \in CardConnectionImpl
        BY <3>1 DEF CardConnectionImpl
      <3>4. ConnectionTypeOK'
        BY <2>3, <3>1, <3>3 DEF Disconnect, ConnectionTypeOK, Self
      <3>5. \A d \in Conn : active'[d] # NoCall => Live(m_impl[d])'
        BY <2>3, <3>1, <3>3 DEF Disconnect, ConnectionTypeOK, Live, Self
      <3> QED BY <1>13, <3>2, <3>4, <3>5 DEF ConnectionCall
    <2>4. ASSUME NEW d \in Conn, Swap(c, d) PROVE TypeInv'
      BY <1>13, <2>4 DEF ConnectionCall, Swap, Callable, Quiet, Live, pcscVars,
           PCSCTypeOK, ConnectionTypeOK
    <2> QED BY <1>13, <2>1, <2>2, <2>3, <2>4 DEF ConnectionCall
  <1>14. ASSUME NEW c \in Conn, CarelessCall(c) PROVE TypeInv'
    <2>1. CASE Cleanup(c) /\ UNCHANGED pcscVars
      BY <1>11, <1>14, <2>1 DEF CarelessCall, pcscVars, PCSCTypeOK
    <2>2. ASSUME NEW d \in Conn, Assign(c, d) PROVE TypeInv'
      BY <1>14, <2>2 DEF CarelessCall, Assign, Live, pcscVars, PCSCTypeOK,
           ConnectionTypeOK
    <2> QED BY <1>14, <2>1, <2>2 DEF CarelessCall
  <1>15. ASSUME NEW c \in Conn, Complete(c) PROVE TypeInv'
    <2>1. Self(c) \in CardConnectionImpl /\ m_impl[c] \in Impl
      BY <1>15, <1>o DEF Complete, FinishCall, Live, Self
    <2>2. PICK atr \in Atr :
            impl' = [impl EXCEPT ![m_impl[c]] = [@ EXCEPT !.atr_bytes = atr,
                                                          !.protocol = active[c]]]
      BY <1>t, <1>15, <2>1, OutcomesAreAtrs DEF Complete, FinishCall
    <2>3. [Self(c) EXCEPT !.atr_bytes = atr, !.protocol = active[c]]
            \in CardConnectionImpl
      BY <1>15, <2>1 DEF CardConnectionImpl, CommunicationProtocol, Complete,
           FinishCall, ConnectionTypeOK
    <2>4. ConnectionTypeOK'
      BY <1>15, <2>1, <2>2, <2>3 DEF Complete, FinishCall, ConnectionTypeOK, Self
    <2>5. \A d \in Conn : active'[d] # NoCall => Live(m_impl[d])'
      BY <1>15, <2>1, <2>2, <2>3 DEF Complete, FinishCall, ConnectionTypeOK,
           Live, Self
    <2> QED BY <1>15, <2>4, <2>5 DEF Complete, FinishCall, pcscVars, PCSCTypeOK
  <1>16. CASE Environment
    <2>1. PCSCTypeOK'
      BY <1>t, <1>16, PCSCTypes DEF Environment
    <2> QED BY <1>16, <2>1 DEF Environment, connectionVars, ConnectionTypeOK,
              Live
  <1> QED
    BY <1>1, <1>2, <1>3, <1>4, <1>5, <1>6, <1>7, <1>8, <1>9, <1>10, <1>12,
       <1>13, <1>14, <1>15, <1>16
    DEF Next, ProviderCall, Poll

(* Every variable of the library keeps its type, for the careful and the
   careless client. *)
THEOREM TypeCorrect == Spec => []TypeOK
  <1>1. TypeInv => TypeOK
    BY DEF TypeInv
  <1> QED BY <1>1, TypeInit, TypeStep, PTL DEF Spec
-----------------------------------------------------------------------------
(* The careful client, while the service runs. *)

(* The conjuncts of CarefulInv that are not about types. *)
SessionInv ==
  /\ ContextsAccounted
  /\ ConnectedHandleIsOpen
  /\ HandlesNotShared
  /\ CallsInProgress
  /\ AttachedToCard
  /\ ProtocolMatchesSession
  /\ AtrMatchesCard

LEMMA CarefulInit == Init => CarefulInv
  <1> SUFFICES ASSUME Init PROVE CarefulInv
    OBVIOUS
  <1>1. TypeInv
    BY TypeInit
  <1>2. ConnectionsOwnImpls
    BY DEF Init, ConnectionInit, ConnectionsOwnImpls, Live
  <1>3. SessionInv
    BY DEF Init, PCSCInit, ConnectionInit, SessionInv, ContextsAccounted,
       ConnectedHandleIsOpen, HandlesNotShared, CallsInProgress,
       AttachedToCard, ProtocolMatchesSession, AtrMatchesCard, Live, Connected,
       Attached, IsOpen
  <1> QED BY <1>1, <1>2, <1>3 DEF CarefulInv, TypeInv, SessionInv

(* A step that leaves the library alone and, of each session, changes at most
   the card, and only to detach it. *)
LEMMA DetachingStep ==
  ASSUME SessionInv,
         UNCHANGED <<connectionVars, providerVars, contexts>>,
         \A h \in Handle :
           /\ IsOpen(h)' <=> IsOpen(h)
           /\ IsOpen(h) => /\ session'[h].reader = session[h].reader
                           /\ session'[h].context = session[h].context
                           /\ session'[h].protocol = session[h].protocol
           /\ Attached(h)' => /\ Attached(h)
                              /\ session'[h].card = session[h].card
                              /\ session[h].card = card'[session[h].reader]
  PROVE  SessionInv'
  <1> USE DEF connectionVars, providerVars
  <1>1. \A i \in Impl : /\ Live(i)' = Live(i)
                        /\ Connected(i)' = Connected(i)
                        /\ Quiet(i)' = Quiet(i)
    BY DEF Live, Connected, Quiet
  <1>2. ContextsAccounted'
    BY <1>1 DEF SessionInv, ContextsAccounted
  <1>3. ConnectedHandleIsOpen'
    BY <1>1 DEF SessionInv, ConnectedHandleIsOpen, HandleIsOpen, IsOpen
  <1>4. HandlesNotShared'
    BY <1>1 DEF SessionInv, HandlesNotShared
  <1>5. CallsInProgress'
    BY DEF SessionInv, CallsInProgress, Connected, Live, Self, IsOpen
  <1>6. AttachedToCard'
    BY DEF SessionInv, AttachedToCard, Attached
  <1>7. ProtocolMatchesSession'
    BY <1>1 DEF SessionInv, ProtocolMatchesSession, IsOpen
  <1>8. AtrMatchesCard'
    BY <1>1 DEF SessionInv, AtrMatchesCard, Attached, IsOpen
  <1> QED BY <1>2, <1>3, <1>4, <1>5, <1>6, <1>7, <1>8 DEF SessionInv

(* What Detached does to each session. *)
LEMMA DetachedSessions ==
  ASSUME PCSCTypeOK, NEW r \in Reader, NEW h \in Handle
  PROVE  /\ session[h] = Closed => Detached(r)[h] = Closed
         /\ session[h] # Closed =>
              /\ Detached(r)[h] # Closed
              /\ Detached(r)[h].reader = session[h].reader
              /\ Detached(r)[h].context = session[h].context
              /\ Detached(r)[h].protocol = session[h].protocol
              /\ Detached(r)[h].card = IF session[h].reader = r
                                        THEN NoCard ELSE session[h].card
  <1>1. CASE session[h] = Closed
    BY <1>1 DEF Detached, IsOpen
  <1>2. CASE session[h] # Closed /\ session[h].reader # r
    BY <1>2 DEF Detached, IsOpen
  <1>3. CASE session[h] # Closed /\ session[h].reader = r
    <2>1. Detached(r)[h] = [session[h] EXCEPT !.card = NoCard]
      BY <1>3 DEF Detached, IsOpen
    <2>2. session[h] \in Session
      BY <1>3 DEF PCSCTypeOK
    <2>3. [session[h] EXCEPT !.card = NoCard] \in Session
      BY <2>2 DEF Session
    <2> QED BY <1>3, <2>1, <2>2, <2>3, PCSCAssumption DEF Session
  <1> QED BY <1>1, <1>2, <1>3

LEMMA EnvironmentStep ==
  ASSUME TypeOK, SessionInv, ~ ServiceMayStop, Environment
  PROVE  SessionInv'
  <1> USE DEF TypeOK, Environment
  <1>1. ASSUME NEW r \in Reader, NEW k \in Card, InsertCard(r, k)
        PROVE  SessionInv'
    <2>1. \A h \in Handle : Attached(h) =>
            /\ session[h].reader # r
            /\ session[h].card = card'[session[h].reader]
      BY <1>1 DEF InsertCard, SessionInv, AttachedToCard, PCSCTypeOK, Attached,
           IsOpen, Session
    <2> QED BY <1>1, <2>1, DetachingStep DEF InsertCard, Attached, IsOpen
  <1>2. ASSUME NEW r \in Reader,
               session' = Detached(r), UNCHANGED contexts,
               \A q \in Reader \ {r} : card'[q] = card[q]
        PROVE  SessionInv'
    <2>1. \A h \in Handle :
           /\ IsOpen(h)' <=> IsOpen(h)
           /\ IsOpen(h) => /\ session'[h].reader = session[h].reader
                           /\ session'[h].context = session[h].context
                           /\ session'[h].protocol = session[h].protocol
           /\ Attached(h)' => /\ Attached(h)
                              /\ session'[h].card = session[h].card
                              /\ session[h].card = card'[session[h].reader]
      <3> TAKE h \in Handle
      <3>1. session[h] # Closed => session[h].reader \in Reader
        BY DEF PCSCTypeOK, Session
      <3> QED BY <1>2, <3>1, DetachedSessions DEF IsOpen, Attached, SessionInv,
                AttachedToCard
    <2> QED BY <1>2, <2>1, DetachingStep
  <1>3. ASSUME NEW r \in Reader, RemoveCard(r) PROVE SessionInv'
    BY <1>2, <1>3 DEF RemoveCard, PCSCTypeOK
  <1>4. ASSUME NEW r \in Reader, ResetByOther(r) PROVE SessionInv'
    BY <1>2, <1>4 DEF ResetByOther
  <1> QED BY <1>1, <1>3, <1>4

(* A step that touches neither the connections nor the sessions. *)
LEMMA ProviderStep ==
  ASSUME SessionInv, UNCHANGED <<connectionVars, card, session>>,
         ContextsAccounted'
  PROVE  SessionInv'
  <1> USE DEF connectionVars
  <1>1. \A i \in Impl : /\ Live(i)' = Live(i)
                        /\ Connected(i)' = Connected(i)
                        /\ Quiet(i)' = Quiet(i)
    BY DEF Live, Connected, Quiet
  <1>2. \A h : IsOpen(h)' = IsOpen(h) /\ Attached(h)' = Attached(h)
    BY DEF IsOpen, Attached
  <1> QED
    BY <1>1, <1>2 DEF SessionInv, ConnectedHandleIsOpen, HandleIsOpen,
       HandlesNotShared, CallsInProgress, Self, Connected, Live,
       AttachedToCard, ProtocolMatchesSession, AtrMatchesCard

(* create_card_connection stores a fresh, unconnected object. *)
LEMMA InitializeStep ==
  ASSUME TypeInv, ConnectionsOwnImpls, SessionInv,
         NEW c \in Conn, NEW i \in Impl, NEW r \in Reader,
         Initialize(c, i, provider.context, r),
         provider.context \in contexts,
         UNCHANGED <<pcscVars, provider>>
  PROVE  ConnectionsOwnImpls' /\ SessionInv'
  <1> USE DEF pcscVars, TypeInv, TypeOK, PCSCTypeOK, ConnectionTypeOK
  <1> DEFINE new == [context |-> provider.context, terminal |-> r,
                     card_handle |-> NoHandle, protocol |-> "none",
                     is_connected |-> FALSE, atr_bytes |-> EmptyAtr]
  <1>1. new # Null
    BY NewObjectType, ConnectionAssumption
  <1>2. /\ m_impl[c] = Null /\ impl[i] = Null
        /\ m_impl' = [m_impl EXCEPT ![c] = i]
        /\ impl' = [impl EXCEPT ![i] = new]
        /\ active' = active
    BY DEF Initialize
  <1>3. /\ Live(i)' /\ ~ Connected(i)'
        /\ \A j \in Impl : j # i => /\ impl'[j] = impl[j]
                                   /\ Live(j)' = Live(j)
                                   /\ Connected(j)' = Connected(j)
    BY <1>1, <1>2 DEF Live, Connected
  <1>4. \A d \in Conn : d # c => m_impl'[d] = m_impl[d] /\ m_impl[d] # i
    BY <1>2, ConnectionAssumption DEF ConnectionsOwnImpls, Live
  <1>5. \A j \in Impl : j # i => Quiet(j)' = Quiet(j)
    BY <1>2, <1>4, ConnectionAssumption DEF Quiet
  <1>6. ConnectionsOwnImpls'
    BY <1>2, <1>3, <1>4, ConnectionAssumption DEF ConnectionsOwnImpls
  <1>7. \A h : IsOpen(h)' = IsOpen(h) /\ Attached(h)' = Attached(h)
    BY DEF IsOpen, Attached
  <1>8. ContextsAccounted'
    BY <1>2, <1>3 DEF SessionInv, ContextsAccounted
  <1>9. ConnectedHandleIsOpen' /\ HandlesNotShared' /\ AttachedToCard'
    BY <1>3, <1>7 DEF SessionInv, ConnectedHandleIsOpen, HandleIsOpen,
       HandlesNotShared, AttachedToCard
  <1>10. CallsInProgress'
    <2> SUFFICES ASSUME NEW d \in Conn, active[d] # NoCall
                 PROVE  /\ Connected(m_impl[d])'
                        /\ IsOpen(Self(d).card_handle)'
                        /\ session[Self(d).card_handle].protocol' = active[d]
      BY <1>2 DEF CallsInProgress
    <2>1. d # c /\ m_impl[d] \in Impl
      BY <1>2, ConnectionAssumption DEF CallsHaveObjects, Live
    <2> QED BY <1>3, <1>4, <1>7, <2>1 DEF SessionInv, CallsInProgress, Self
  <1>11. ProtocolMatchesSession' /\ AtrMatchesCard'
    BY <1>3, <1>5, <1>7 DEF SessionInv, ProtocolMatchesSession, AtrMatchesCard
  <1> QED BY <1>6, <1>8, <1>9, <1>10, <1>11 DEF SessionInv

(* An object is freed; its session, if it is connected, may be closed. *)
LEMMA DestroyStep ==
  ASSUME TypeInv, ConnectionsOwnImpls, SessionInv,
         NEW c \in Conn, DestroyCardConnection(c)
  PROVE  ConnectionsOwnImpls' /\ SessionInv'
  <1>i. PICK i \in Impl : i = m_impl[c] /\ Live(i)
    BY DEF DestroyCardConnection, Cleanup, Callable, Live
  <1>0. /\ Callable(c)
        /\ impl' = [impl EXCEPT ![i] = Null]
        /\ m_impl' = [m_impl EXCEPT ![c] = Null]
        /\ active' = active /\ UNCHANGED providerVars
        /\ \/ Self(c).is_connected /\ SCardDisconnect(Self(c).card_handle)
           \/ UNCHANGED pcscVars
    BY <1>i DEF DestroyCardConnection, Cleanup
  <1>t. ConnectionTypeOK /\ PCSCTypeOK /\ Quiet(i)
    BY <1>0, <1>i DEF Callable, TypeInv, TypeOK
  <1>1. /\ contexts' = contexts /\ card' = card
        /\ \A h \in Handle : session'[h] = session[h] \/ session'[h] = Closed
        /\ \A h \in Handle : session'[h] # session[h]
              => Connected(i) /\ impl[i].card_handle = h
    BY <1>0, <1>i, <1>t DEF SCardDisconnect, Self, Connected, pcscVars, PCSCTypeOK
  <1>2. /\ ~ Live(i)' /\ ~ Connected(i)'
        /\ \A j \in Impl : j # i => /\ impl'[j] = impl[j]
                                   /\ Live(j)' = Live(j)
                                   /\ Connected(j)' = Connected(j)
    BY <1>0, <1>i, <1>t DEF Live, Connected, ConnectionTypeOK
  <1>3. \A d \in Conn : d # c => m_impl'[d] = m_impl[d] /\ m_impl[d] # i
    BY <1>0, <1>i, <1>t, ConnectionAssumption DEF ConnectionsOwnImpls, ConnectionTypeOK
  <1>4. m_impl'[c] = Null
    BY <1>0, <1>i, <1>t DEF ConnectionTypeOK
  <1>5. \A j \in Impl : j # i => Quiet(j)' = Quiet(j)
    BY <1>0, <1>i, <1>3, <1>4, ConnectionAssumption DEF Quiet
  <1>6. ConnectionsOwnImpls'
    <2>1. \A d \in Conn : m_impl'[d] # Null => Live(m_impl[d])'
      BY <1>2, <1>3, <1>4 DEF ConnectionsOwnImpls, Live
    <2>2. \A d, e \in Conn : m_impl'[d] = m_impl'[e] /\ m_impl'[d] # Null => d = e
      BY <1>3, <1>4 DEF ConnectionsOwnImpls
    <2>3. \A j \in Impl : Live(j)' => j # i /\ \E d \in Conn : m_impl[d] = j
      BY <1>2 DEF ConnectionsOwnImpls
    <2>4. \A j \in Impl : Live(j)' => \E d \in Conn : m_impl'[d] = j
      BY <1>i, <1>3, <2>3
    <2> QED BY <2>1, <2>2, <2>4 DEF ConnectionsOwnImpls
  <1>8. ContextsAccounted'
    <2>1. provider' = provider
      BY <1>0 DEF providerVars
    <2> QED BY <1>1, <1>2, <2>1 DEF SessionInv, ContextsAccounted
  <1>9. \A j \in Impl : Connected(j)' =>
          /\ j # i /\ Connected(j) /\ impl'[j] = impl[j]
          /\ impl[j].card_handle \in Handle
          /\ session'[impl[j].card_handle] = session[impl[j].card_handle]
    <2> SUFFICES ASSUME NEW j \in Impl, Connected(j)'
                 PROVE  /\ j # i /\ Connected(j) /\ impl'[j] = impl[j]
                        /\ impl[j].card_handle \in Handle
                        /\ session'[impl[j].card_handle]
                             = session[impl[j].card_handle]
      OBVIOUS
    <2>1. j # i /\ Connected(j) /\ impl'[j] = impl[j]
      BY <1>2
    <2>2. impl[j].card_handle \in Handle
      BY <2>1 DEF SessionInv, ConnectedHandleIsOpen, HandleIsOpen, IsOpen
    <2> QED BY <1>1, <1>i, <2>1, <2>2 DEF SessionInv, HandlesNotShared
  <1>11. ConnectedHandleIsOpen'
    BY <1>9 DEF SessionInv, ConnectedHandleIsOpen, HandleIsOpen, IsOpen
  <1>12. HandlesNotShared'
    BY <1>9 DEF SessionInv, HandlesNotShared
  <1>13. CallsInProgress'
    <2> SUFFICES ASSUME NEW d \in Conn, active[d] # NoCall
                 PROVE  /\ Connected(m_impl[d])'
                        /\ IsOpen(Self(d).card_handle)'
                        /\ session[Self(d).card_handle].protocol' = active[d]
      BY <1>0 DEF CallsInProgress
    <2>1. d # c /\ m_impl[d] \in Impl
      BY <1>i, <1>t DEF TypeInv, CallsHaveObjects, Live, Quiet
    <2>2. m_impl'[d] = m_impl[d] /\ Connected(m_impl[d])'
      BY <1>2, <1>3, <2>1 DEF SessionInv, CallsInProgress
    <2> QED BY <1>9, <2>1, <2>2 DEF SessionInv, CallsInProgress, Self, IsOpen
  <1>14. AttachedToCard'
    BY <1>1 DEF SessionInv, AttachedToCard, Attached, IsOpen
  <1>15. ProtocolMatchesSession'
    BY <1>5, <1>9 DEF SessionInv, ProtocolMatchesSession, IsOpen
  <1>16. AtrMatchesCard'
    BY <1>5, <1>9 DEF SessionInv, AtrMatchesCard, IsOpen, Attached
  <1> QED BY <1>6, <1>8, <1>11, <1>12, <1>13, <1>14, <1>15, <1>16 DEF SessionInv

LEMMA SwapStep ==
  ASSUME TypeInv, ConnectionsOwnImpls, SessionInv,
         NEW c \in Conn, NEW d \in Conn, Swap(c, d), UNCHANGED providerVars
  PROVE  ConnectionsOwnImpls' /\ SessionInv'
  <1> USE DEF pcscVars, TypeInv, TypeOK, PCSCTypeOK, ConnectionTypeOK, Swap,
              providerVars
  <1>1. /\ m_impl[c] \in Impl /\ m_impl[d] \in Impl
        /\ active[c] = NoCall /\ active[d] = NoCall
    BY DEF Callable, Live, Quiet
  <1>2. \A i \in Impl : Live(i)' = Live(i) /\ Connected(i)' = Connected(i)
    BY DEF Live, Connected
  <1>3. \A i \in Impl : Quiet(i)' => Quiet(i)
    BY <1>1 DEF Quiet
  <1>4. \A h : IsOpen(h)' = IsOpen(h) /\ Attached(h)' = Attached(h)
    BY DEF IsOpen, Attached
  <1>5. ConnectionsOwnImpls'
    <2>1. \A e \in Conn : m_impl'[e] = IF e = c THEN m_impl[d]
                                       ELSE IF e = d THEN m_impl[c]
                                       ELSE m_impl[e]
      OBVIOUS
    <2>2. \A e \in Conn : m_impl'[e] # Null => Live(m_impl[e])'
      BY <1>2, <2>1 DEF ConnectionsOwnImpls, Live
    <2>3. \A e, f \in Conn : m_impl'[e] = m_impl'[f] /\ m_impl'[e] # Null => e = f
      BY <2>1 DEF ConnectionsOwnImpls
    <2>4. \A e \in Conn : \E f \in Conn : m_impl[e] = m_impl'[f]
      BY <2>1
    <2>5. \A i \in Impl : Live(i)' => \E f \in Conn : m_impl'[f] = i
      BY <1>2, <2>4 DEF ConnectionsOwnImpls
    <2> QED BY <2>2, <2>3, <2>5 DEF ConnectionsOwnImpls
  <1>6. CallsInProgress'
    BY <1>1, <1>2, <1>4 DEF SessionInv, CallsInProgress, Self, Connected, Live
  <1>7. ContextsAccounted'
    BY <1>2 DEF SessionInv, ContextsAccounted
  <1>8. ConnectedHandleIsOpen' /\ HandlesNotShared' /\ AttachedToCard'
    BY <1>2, <1>4 DEF SessionInv, ConnectedHandleIsOpen, HandleIsOpen,
       HandlesNotShared, AttachedToCard
  <1>9. ProtocolMatchesSession' /\ AtrMatchesCard'
    BY <1>2, <1>3, <1>4 DEF SessionInv, ProtocolMatchesSession, AtrMatchesCard
  <1> QED BY <1>5, <1>6, <1>7, <1>8, <1>9 DEF SessionInv

(* A step that writes one object i and leaves who owns what alone. *)
LEMMA OwnershipKept ==
  ASSUME ConnectionsOwnImpls, m_impl' = m_impl,
         \A j \in Impl : Live(j)' <=> Live(j)
  PROVE  ConnectionsOwnImpls'
  <1>1. \A c \in Conn : m_impl'[c] # Null => Live(m_impl[c])'
    BY DEF ConnectionsOwnImpls, Live
  <1> QED BY <1>1 DEF ConnectionsOwnImpls

(* The handle of a connected object is a handle. *)
LEMMA ConnectedHandle ==
  ASSUME TypeOK, SessionInv, NEW j \in Impl, Connected(j)
  PROVE  /\ impl[j] \in CardConnectionImpl
         /\ impl[j].card_handle \in Handle
         /\ session[impl[j].card_handle] # Closed
         /\ session[impl[j].card_handle] \in Session
  BY DEF TypeOK, ConnectionTypeOK, PCSCTypeOK, SessionInv,
     ConnectedHandleIsOpen, HandleIsOpen, IsOpen, Connected, Live

LEMMA ConnectStep ==
  ASSUME TypeInv, ConnectionsOwnImpls, SessionInv,
         NEW c \in Conn, NEW h \in Handle, NEW p \in Protocol,
         Connect(c, h, p), UNCHANGED providerVars
  PROVE  ConnectionsOwnImpls' /\ SessionInv'
  <1>i. PICK i \in Impl : i = m_impl[c] /\ Live(i)
    BY DEF Connect, Callable, Live
  <1> DEFINE new == [context |-> impl[i].context, reader |-> impl[i].terminal,
                     card |-> card[impl[i].terminal], protocol |-> p]
  <1>0. /\ Quiet(i) /\ ~ impl[i].is_connected
        /\ session[h] = Closed /\ card[impl[i].terminal] # NoCard
        /\ session' = [session EXCEPT ![h] = new]
        /\ impl' = [impl EXCEPT ![i] = [@ EXCEPT !.card_handle = h,
                                                 !.is_connected = TRUE]]
        /\ active' = [active EXCEPT ![c] = p]
        /\ m_impl' = m_impl /\ contexts' = contexts /\ card' = card
        /\ provider' = provider /\ polling' = polling
    BY <1>i DEF Connect, Callable, Self, SCardConnect, providerVars
  <1>t. ConnectionTypeOK /\ PCSCTypeOK /\ impl[i] \in CardConnectionImpl
    BY <1>i DEF TypeInv, TypeOK, ConnectionTypeOK, Live
  <1>1. /\ session'[h] = new /\ new \in Session /\ new # Closed
        /\ \A g \in Handle : g # h => session'[g] = session[g]
    <2>1. impl[i].terminal \in Reader /\ impl[i].context \in Context
      BY <1>i, <1>t DEF CardConnectionImpl, SessionInv, ContextsAccounted,
         PCSCTypeOK
    <2>2. new \in Session
      BY <1>t, <2>1 DEF Session, PCSCTypeOK
    <2> QED BY <1>0, <1>t, <2>2, PCSCAssumption DEF PCSCTypeOK
  <1>2. /\ impl'[i] = [impl[i] EXCEPT !.card_handle = h, !.is_connected = TRUE]
        /\ impl'[i] \in CardConnectionImpl
        /\ \A j \in Impl : j # i => impl'[j] = impl[j]
    BY <1>0, <1>t DEF ConnectionTypeOK, CardConnectionImpl
  <1>3. /\ impl'[i].card_handle = h /\ Connected(i)'
        /\ impl'[i].context = impl[i].context
        /\ impl'[i].terminal = impl[i].terminal
    BY <1>t, <1>2, ConnectionAssumption DEF Connected, Live, CardConnectionImpl
  <1>4. \A j \in Impl : /\ Live(j)' <=> Live(j)
                        /\ j # i => (Connected(j)' <=> Connected(j))
    BY <1>i, <1>2, ConnectionAssumption DEF Live, Connected
  <1>5. \A j \in Impl : Connected(j)' /\ j # i =>
          /\ Connected(j) /\ impl'[j] = impl[j]
          /\ impl[j].card_handle \in Handle
          /\ impl[j].card_handle # h
          /\ session'[impl[j].card_handle] = session[impl[j].card_handle]
    BY <1>0, <1>1, <1>2, <1>4, ConnectedHandle DEF TypeInv
  <1>6. \A d \in Conn : m_impl[d] = i => d = c
    BY <1>i, ConnectionAssumption DEF ConnectionsOwnImpls
  <1>7. /\ ~ Quiet(i)'
        /\ \A j \in Impl : j # i => (Quiet(j)' <=> Quiet(j))
    <2>1. active'[c] = p /\ p # NoCall
      BY <1>0, <1>t, ConnectionAssumption DEF ConnectionTypeOK
    <2>2. \A d \in Conn : d # c => active'[d] = active[d]
      BY <1>0, <1>t DEF ConnectionTypeOK
    <2> QED BY <1>0, <1>i, <2>1, <2>2 DEF Quiet
  <1>8. ConnectionsOwnImpls'
    BY <1>0, <1>4, OwnershipKept
  <1>9. ContextsAccounted'
    BY <1>0, <1>2, <1>3, <1>4 DEF SessionInv, ContextsAccounted
  <1>10. ConnectedHandleIsOpen'
    BY <1>1, <1>3, <1>5 DEF SessionInv, ConnectedHandleIsOpen, HandleIsOpen,
       IsOpen
  <1>11. HandlesNotShared'
    BY <1>3, <1>5 DEF SessionInv, HandlesNotShared
  <1>12. CallsInProgress'
    <2> SUFFICES ASSUME NEW d \in Conn, active'[d] # NoCall
                 PROVE  /\ Connected(m_impl[d])'
                        /\ IsOpen(Self(d).card_handle)'
                        /\ session[Self(d).card_handle].protocol' = active'[d]
      BY DEF CallsInProgress
    <2>1. CASE d = c
      <3>1. Self(d)' = impl'[i] /\ m_impl'[d] = i
        BY <1>0, <1>i, <2>1 DEF Self
      <3>2. active'[d] = p
        BY <1>0, <1>t, <2>1 DEF ConnectionTypeOK
      <3> QED BY <1>1, <1>3, <3>1, <3>2 DEF IsOpen
    <2>2. CASE d # c
      <3>1. active'[d] = active[d] /\ m_impl'[d] = m_impl[d]
        BY <1>0, <1>t, <2>2 DEF ConnectionTypeOK
      <3>2. m_impl[d] \in Impl /\ m_impl[d] # i /\ Connected(m_impl[d])
        BY <1>6, <2>2, <3>1 DEF SessionInv, CallsInProgress, Connected, Live
      <3> QED BY <1>0, <1>4, <1>5, <3>1, <3>2 DEF SessionInv, CallsInProgress,
                Self, IsOpen
    <2> QED BY <2>1, <2>2
  <1>13. AttachedToCard'
    BY <1>0, <1>1 DEF SessionInv, AttachedToCard, Attached, IsOpen
  <1>14. ProtocolMatchesSession'
    BY <1>5, <1>7 DEF SessionInv, ProtocolMatchesSession, IsOpen
  <1>15. AtrMatchesCard'
    BY <1>5, <1>7 DEF SessionInv, AtrMatchesCard, Attached, IsOpen
  <1> QED BY <1>8, <1>9, <1>10, <1>11, <1>12, <1>13, <1>14, <1>15 DEF SessionInv

LEMMA DisconnectStep ==
  ASSUME TypeInv, ConnectionsOwnImpls, SessionInv,
         NEW c \in Conn, Self(c).is_connected, Disconnect(c),
         UNCHANGED providerVars
  PROVE  ConnectionsOwnImpls' /\ SessionInv'
  <1>i. PICK i \in Impl : i = m_impl[c] /\ Live(i)
    BY DEF Disconnect, Callable, Live
  <1> DEFINE h == impl[i].card_handle
  <1>0. /\ Quiet(i) /\ Connected(i)
        /\ session' = [session EXCEPT ![h] = Closed]
        /\ impl' = [impl EXCEPT ![i] = [@ EXCEPT !.is_connected = FALSE]]
        /\ m_impl' = m_impl /\ active' = active
        /\ contexts' = contexts /\ card' = card
        /\ provider' = provider /\ polling' = polling
    BY <1>i DEF Disconnect, Callable, Self, SCardDisconnect, providerVars,
       Connected
  <1>t. ConnectionTypeOK /\ PCSCTypeOK /\ impl[i] \in CardConnectionImpl
    BY <1>i DEF TypeInv, TypeOK, ConnectionTypeOK, Live
  <1>1. \A g \in Handle : session'[g] = IF g = h THEN Closed ELSE session[g]
    BY <1>0, <1>t DEF PCSCTypeOK
  <1>2. /\ impl'[i] = [impl[i] EXCEPT !.is_connected = FALSE]
        /\ impl'[i] \in CardConnectionImpl
        /\ \A j \in Impl : j # i => impl'[j] = impl[j]
    BY <1>0, <1>t DEF ConnectionTypeOK, CardConnectionImpl
  <1>3. ~ Connected(i)' /\ impl'[i].context = impl[i].context
    BY <1>t, <1>2 DEF Connected, CardConnectionImpl
  <1>4. \A j \in Impl : /\ Live(j)' <=> Live(j)
                        /\ j # i => (Connected(j)' <=> Connected(j))
    BY <1>i, <1>2, ConnectionAssumption DEF Live, Connected
  <1>5. \A j \in Impl : Connected(j)' =>
          /\ j # i /\ Connected(j) /\ impl'[j] = impl[j]
          /\ impl[j].card_handle \in Handle
          /\ session'[impl[j].card_handle] = session[impl[j].card_handle]
    BY <1>0, <1>1, <1>2, <1>3, <1>4, ConnectedHandle
    DEF TypeInv, SessionInv, HandlesNotShared
  <1>6. \A j \in Impl : Quiet(j)' <=> Quiet(j)
    BY <1>0 DEF Quiet
  <1>7. ConnectionsOwnImpls'
    BY <1>0, <1>4, OwnershipKept
  <1>8. ContextsAccounted'
    BY <1>0, <1>2, <1>3, <1>4 DEF SessionInv, ContextsAccounted
  <1>9. ConnectedHandleIsOpen'
    BY <1>5 DEF SessionInv, ConnectedHandleIsOpen, HandleIsOpen, IsOpen
  <1>10. HandlesNotShared'
    BY <1>5 DEF SessionInv, HandlesNotShared
  <1>11. CallsInProgress'
    <2> SUFFICES ASSUME NEW d \in Conn, active[d] # NoCall
                 PROVE  /\ Connected(m_impl[d])'
                        /\ IsOpen(Self(d).card_handle)'
                        /\ session[Self(d).card_handle].protocol' = active[d]
      BY <1>0 DEF CallsInProgress
    <2>1. m_impl[d] \in Impl /\ m_impl[d] # i /\ Connected(m_impl[d])
      BY <1>0 DEF SessionInv, CallsInProgress, Connected, Live, Quiet
    <2> QED BY <1>0, <1>4, <1>5, <2>1 DEF SessionInv, CallsInProgress, Self,
              IsOpen
  <1>12. AttachedToCard'
    BY <1>0, <1>1 DEF SessionInv, AttachedToCard, Attached, IsOpen
  <1>13. ProtocolMatchesSession'
    BY <1>5, <1>6 DEF SessionInv, ProtocolMatchesSession, IsOpen
  <1>14. AtrMatchesCard'
    BY <1>5, <1>6 DEF SessionInv, AtrMatchesCard, Attached, IsOpen
  <1> QED BY <1>7, <1>8, <1>9, <1>10, <1>11, <1>12, <1>13, <1>14 DEF SessionInv

LEMMA ReconnectStep ==
  ASSUME TypeInv, ConnectionsOwnImpls, SessionInv,
         NEW c \in Conn, NEW p \in Protocol,
         Self(c).is_connected, Reconnect(c, p), UNCHANGED providerVars
  PROVE  ConnectionsOwnImpls' /\ SessionInv'
  <1>i. PICK i \in Impl : i = m_impl[c] /\ Live(i)
    BY DEF Reconnect, Callable, Live
  <1> DEFINE h == impl[i].card_handle
             r == session[h].reader
  <1>0. /\ Quiet(i) /\ Connected(i) /\ card[r] # NoCard
        /\ session' = [Detached(r) EXCEPT ![h] = [@ EXCEPT !.card = card[r],
                                                          !.protocol = p]]
        /\ active' = [active EXCEPT ![c] = p]
        /\ m_impl' = m_impl /\ impl' = impl
        /\ contexts' = contexts /\ card' = card
        /\ provider' = provider /\ polling' = polling
    BY <1>i DEF Reconnect, Callable, Self, SCardReconnect, providerVars,
       Connected
  <1>t. /\ ConnectionTypeOK /\ PCSCTypeOK
        /\ h \in Handle /\ session[h] \in Session /\ session[h] # Closed
        /\ r \in Reader /\ card[r] \in Card
    BY <1>0, ConnectedHandle DEF TypeInv, TypeOK, Session, PCSCTypeOK
  <1>f. /\ m_impl' = m_impl /\ impl' = impl /\ card' = card
        /\ contexts' = contexts /\ provider' = provider
        /\ Connected(i)
    BY <1>0
  <1>1. /\ session'[h] # Closed
        /\ session'[h].reader = r
        /\ session'[h].context = session[h].context
        /\ session'[h].card = card[r]
        /\ session'[h].protocol = p
    <2>1. Detached(r) \in [Handle -> Session \cup {Closed}]
      BY <1>t, DetachedType
    <2>2. /\ Detached(r)[h] \in Session
          /\ Detached(r)[h].reader = r
          /\ Detached(r)[h].context = session[h].context
      BY <1>t, <2>1, DetachedSessions
    <2>3. session'[h] = [Detached(r)[h] EXCEPT !.card = card[r], !.protocol = p]
      BY <1>0, <1>t, <2>1
    <2>4. session'[h] \in Session
      BY <1>t, <2>2, <2>3 DEF Session
    <2> QED BY <2>2, <2>3, <2>4, PCSCAssumption DEF Session
  <1>2. \A g \in Handle : g # h =>
          /\ session[g] = Closed => session'[g] = Closed
          /\ session[g] # Closed =>
               /\ session'[g] # Closed
               /\ session'[g].reader = session[g].reader
               /\ session'[g].context = session[g].context
               /\ session'[g].protocol = session[g].protocol
               /\ session'[g].card = IF session[g].reader = r
                                     THEN NoCard ELSE session[g].card
    <2>1. \A g \in Handle : g # h => session'[g] = Detached(r)[g]
      BY <1>0, <1>t, DetachedType
    <2> QED BY <1>t, <2>1, DetachedSessions
  <1>3. \A j \in Impl : /\ Live(j)' <=> Live(j)
                        /\ Connected(j)' <=> Connected(j)
    BY <1>0 DEF Live, Connected
  <1>4. \A j \in Impl : Connected(j) =>
          /\ impl[j].card_handle \in Handle
          /\ session[impl[j].card_handle] # Closed
          /\ j # i => impl[j].card_handle # h
    BY <1>0, ConnectedHandle DEF TypeInv, SessionInv, HandlesNotShared
  <1>5. \A d \in Conn : m_impl[d] = i => d = c
    BY <1>i, ConnectionAssumption DEF ConnectionsOwnImpls
  <1>6. /\ active'[c] = p /\ p # NoCall
        /\ \A d \in Conn : d # c => active'[d] = active[d]
    BY <1>0, <1>t, ConnectionAssumption DEF ConnectionTypeOK
  <1>7. /\ ~ Quiet(i)'
        /\ \A j \in Impl : j # i => (Quiet(j)' <=> Quiet(j))
    BY <1>0, <1>i, <1>6 DEF Quiet
  <1>8. ConnectionsOwnImpls'
    BY <1>f, <1>3, OwnershipKept
  <1>9. ContextsAccounted'
    BY <1>f, <1>3 DEF SessionInv, ContextsAccounted
  <1>10. ConnectedHandleIsOpen'
    <2> SUFFICES ASSUME NEW j \in Impl, Connected(j)
                 PROVE  HandleIsOpen(j)'
      BY <1>3 DEF ConnectedHandleIsOpen
    <2>1. HandleIsOpen(j)
      BY DEF SessionInv, ConnectedHandleIsOpen
    <2>2. CASE j = i
      BY <1>f, <1>t, <1>1, <2>1, <2>2 DEF HandleIsOpen, IsOpen
    <2>3. CASE j # i
      BY <1>f, <1>2, <1>4, <2>1, <2>3 DEF HandleIsOpen, IsOpen
    <2> QED BY <2>2, <2>3
  <1>11. HandlesNotShared'
    BY <1>f, <1>3 DEF SessionInv, HandlesNotShared
  <1>12. CallsInProgress'
    <2> SUFFICES ASSUME NEW d \in Conn, active'[d] # NoCall
                 PROVE  /\ Connected(m_impl[d])'
                        /\ IsOpen(Self(d).card_handle)'
                        /\ session[Self(d).card_handle].protocol' = active'[d]
      BY DEF CallsInProgress
    <2>1. CASE d = c
      BY <1>f, <1>i, <1>t, <1>1, <1>3, <1>6, <2>1 DEF Self, IsOpen
    <2>2. CASE d # c
      <3>1. m_impl[d] \in Impl /\ m_impl[d] # i /\ Connected(m_impl[d])
        BY <1>5, <1>6, <2>2 DEF SessionInv, CallsInProgress, Connected, Live
      <3>2. /\ session[impl[m_impl[d]].card_handle].protocol = active[d]
            /\ active'[d] = active[d]
        BY <1>6, <2>2 DEF SessionInv, CallsInProgress, Self
      <3> QED BY <1>f, <1>2, <1>3, <1>4, <3>1, <3>2 DEF Self, IsOpen
    <2> QED BY <2>1, <2>2
  <1>13. AttachedToCard'
    <2> SUFFICES ASSUME NEW g \in Handle, Attached(g)'
                 PROVE  session'[g].card = card[session'[g].reader]
      BY <1>f DEF AttachedToCard
    <2>1. CASE g = h
      BY <1>1, <2>1
    <2>2. CASE g # h
      BY <1>2, <2>2 DEF SessionInv, AttachedToCard, Attached, IsOpen
    <2> QED BY <2>1, <2>2
  <1>14. ProtocolMatchesSession'
    BY <1>f, <1>2, <1>3, <1>4, <1>7 DEF SessionInv, ProtocolMatchesSession,
       IsOpen
  <1>15. AtrMatchesCard'
    BY <1>f, <1>2, <1>3, <1>4, <1>7 DEF SessionInv, AtrMatchesCard, Attached,
       IsOpen
  <1> QED BY <1>8, <1>9, <1>10, <1>11, <1>12, <1>13, <1>14, <1>15 DEF SessionInv

LEMMA CompleteStep ==
  ASSUME TypeInv, ConnectionsOwnImpls, SessionInv, NEW c \in Conn, Complete(c)
  PROVE  ConnectionsOwnImpls' /\ SessionInv'
  <1>i. PICK i \in Impl : i = m_impl[c] /\ Live(i)
    BY DEF Complete, FinishCall, TypeInv, CallsHaveObjects, Live
  <1> DEFINE o == impl[i]
             h == o.card_handle
  <1>t. /\ ConnectionTypeOK /\ PCSCTypeOK /\ o \in CardConnectionImpl
        /\ active[c] \in Protocol
    BY <1>i DEF Complete, FinishCall, TypeInv, TypeOK, ConnectionTypeOK, Live
  <1>0. PICK atr \in AtrOutcomes(o) :
          impl' = [impl EXCEPT ![i] = [@ EXCEPT !.atr_bytes = atr,
                                                !.protocol = active[c]]]
    BY <1>i DEF Complete, FinishCall, Self
  <1>1. /\ active' = [active EXCEPT ![c] = NoCall] /\ m_impl' = m_impl
        /\ contexts' = contexts /\ card' = card /\ session' = session
        /\ provider' = provider /\ polling' = polling
    BY DEF Complete, FinishCall, pcscVars, providerVars
  <1>2. /\ impl'[i] = [o EXCEPT !.atr_bytes = atr, !.protocol = active[c]]
        /\ \A j \in Impl : j # i => impl'[j] = impl[j]
    BY <1>0, <1>t DEF ConnectionTypeOK
  <1>3. /\ impl'[i].card_handle = h /\ impl'[i].atr_bytes = atr
        /\ impl'[i].protocol = active[c] /\ impl'[i].context = o.context
        /\ impl'[i].terminal = o.terminal
        /\ impl'[i].is_connected = o.is_connected /\ impl'[i] # Null
    <2>1. impl'[i] \in CardConnectionImpl
      BY <1>t, <1>2, OutcomesAreAtrs DEF CardConnectionImpl,
         CommunicationProtocol
    <2> QED BY <1>t, <1>2, <2>1, ConnectionAssumption DEF CardConnectionImpl
  <1>4. \A j \in Impl : /\ Live(j)' <=> Live(j)
                        /\ Connected(j)' <=> Connected(j)
                        /\ impl'[j].card_handle = impl[j].card_handle
                        /\ impl'[j].context = impl[j].context
                        /\ impl'[j].terminal = impl[j].terminal
    BY <1>i, <1>2, <1>3 DEF Live, Connected
  <1>5. /\ Connected(i) /\ h \in Handle /\ session[h].protocol = active[c]
        /\ session[h].reader = o.terminal /\ o.context \in contexts
    BY <1>i DEF Complete, FinishCall, SessionInv, CallsInProgress, Self, IsOpen,
       ConnectedHandleIsOpen, HandleIsOpen, ContextsAccounted
  <1>6. \A d \in Conn : /\ m_impl[d] = i => d = c
                        /\ d # c => active'[d] = active[d]
    BY <1>i, <1>1, <1>t, ConnectionAssumption DEF ConnectionsOwnImpls,
       ConnectionTypeOK
  <1>7. \A j \in Impl : j # i => (Quiet(j)' <=> Quiet(j))
    BY <1>i, <1>1, <1>6 DEF Quiet
  <1>8. ConnectionsOwnImpls'
    BY <1>1, <1>4, OwnershipKept
  <1>9. ContextsAccounted'
    BY <1>1, <1>4 DEF SessionInv, ContextsAccounted
  <1>10. ConnectedHandleIsOpen'
    BY <1>1, <1>4 DEF SessionInv, ConnectedHandleIsOpen, HandleIsOpen, IsOpen
  <1>11. HandlesNotShared'
    BY <1>4 DEF SessionInv, HandlesNotShared
  <1>12. CallsInProgress'
    <2> SUFFICES ASSUME NEW d \in Conn, active'[d] # NoCall
                 PROVE  /\ Connected(m_impl[d])'
                        /\ IsOpen(Self(d).card_handle)'
                        /\ session[Self(d).card_handle].protocol' = active'[d]
      BY DEF CallsInProgress
    <2>1. d # c
      BY <1>1, <1>t DEF ConnectionTypeOK
    <2>2. m_impl[d] \in Impl /\ m_impl[d] # i /\ Connected(m_impl[d])
      BY <1>6, <2>1 DEF SessionInv, CallsInProgress, Connected, Live
    <2> QED BY <1>1, <1>2, <1>4, <1>6, <2>1, <2>2 DEF SessionInv,
              CallsInProgress, Self, IsOpen
  <1>13. AttachedToCard'
    BY <1>1 DEF SessionInv, AttachedToCard, Attached, IsOpen
  <1>14. ProtocolMatchesSession'
    BY <1>1, <1>2, <1>3, <1>4, <1>5, <1>7 DEF SessionInv,
       ProtocolMatchesSession, IsOpen
  <1>15. AtrMatchesCard'
    <2>1. ASSUME StatusReliable, Attached(h)
          PROVE  atr = session[h].card
      <3>1. session[h].card = card[o.terminal] /\ card[o.terminal] # NoCard
        BY <1>5, <2>1 DEF SessionInv, AttachedToCard, Attached
      <3>2. AtrOutcomes(o) = {card[o.terminal]}
        BY <1>5, <2>1, <3>1 DEF AtrOutcomes
      <3> QED BY <1>0, <3>1, <3>2
    <2>2. ASSUME StatusReliable, NEW j \in Impl, Connected(j)', Quiet(j)',
                 Attached(impl[j].card_handle)'
          PROVE  impl'[j].atr_bytes = session'[impl'[j].card_handle].card
      <3>1. Connected(j) /\ Attached(impl[j].card_handle)
        BY <1>1, <1>4, <2>2 DEF Attached, IsOpen
      <3>2. CASE j = i
        BY <1>1, <1>3, <2>1, <2>2, <3>1, <3>2
      <3>3. CASE j # i
        <4>1. Quiet(j) /\ impl'[j] = impl[j]
          BY <1>2, <1>7, <2>2, <3>3
        <4>2. impl[j].atr_bytes = session[impl[j].card_handle].card
          BY <2>2, <3>1, <4>1 DEF SessionInv, AtrMatchesCard
        <4> QED BY <1>1, <4>1, <4>2
      <3> QED BY <3>2, <3>3
    <2> QED BY <2>2 DEF AtrMatchesCard
  <1> QED BY <1>8, <1>9, <1>10, <1>11, <1>12, <1>13, <1>14, <1>15 DEF SessionInv

(* Releasing the context, when no object is left. *)
LEMMA CleanupProviderStep ==
  ASSUME TypeInv, ConnectionsOwnImpls, SessionInv, NoObjects, CleanupProvider
  PROVE  ConnectionsOwnImpls' /\ SessionInv'
  <1>1. /\ contexts' = contexts \ {provider.context} /\ card' = card
        /\ \A h \in Handle : session'[h] = session[h] \/ session'[h] = Closed
        /\ UNCHANGED <<m_impl, impl, active, provider, polling>>
    BY DEF CleanupProvider, SCardReleaseContext, connectionVars, providerVars
  <1>2. \A i \in Impl : ~ Live(i) /\ ~ Live(i)' /\ ~ Connected(i)'
    BY <1>1 DEF NoObjects, Live, Connected
  <1>3. \A c \in Conn : active'[c] = NoCall
    BY <1>1, <1>2 DEF TypeInv, CallsHaveObjects, Live
  <1>4. ConnectionsOwnImpls'
    BY <1>1, <1>2, OwnershipKept
  <1>5. ContextsAccounted'
    BY <1>1, <1>2 DEF SessionInv, ContextsAccounted
  <1>6. AttachedToCard'
    BY <1>1 DEF SessionInv, AttachedToCard, Attached, IsOpen
  <1> QED
    BY <1>2, <1>3, <1>4, <1>5, <1>6 DEF SessionInv, ConnectedHandleIsOpen,
       HandlesNotShared, CallsInProgress, ProtocolMatchesSession, AtrMatchesCard
-----------------------------------------------------------------------------
LEMMA CarefulStep ==
  ASSUME Careful, ~ ServiceMayStop, CarefulInv, [Next]_vars
  PROVE  CarefulInv'
  <1>1. TypeInv /\ TypeOK /\ ConnectionsOwnImpls /\ SessionInv
    BY DEF CarefulInv, TypeInv, SessionInv
  <1>2. SUFFICES ConnectionsOwnImpls' /\ SessionInv'
    BY <1>1, TypeStep DEF CarefulInv, TypeInv, SessionInv
  <1> USE DEF vars
  <1>3. ASSUME UNCHANGED <<connectionVars, card, session>>, ContextsAccounted'
        PROVE  ConnectionsOwnImpls' /\ SessionInv'
    <2>1. UNCHANGED connectionVars /\ m_impl' = m_impl /\ impl' = impl
      BY <1>3 DEF connectionVars
    <2>2. ConnectionsOwnImpls'
      BY <1>1, <2>1, OwnershipKept DEF Live
    <2> QED BY <1>1, <1>3, <2>2, ProviderStep
  <1>4. ASSUME UNCHANGED <<pcscVars, connectionVars>>,
               contexts # {} => provider' # Null
                                /\ provider'.context = provider.context
        PROVE  ConnectionsOwnImpls' /\ SessionInv'
    <2>1. ContextsAccounted'
      BY <1>1, <1>4 DEF SessionInv, ContextsAccounted, pcscVars,
         connectionVars, Live
    <2> QED BY <1>3, <1>4, <2>1 DEF pcscVars
  <1>5. CASE UNCHANGED vars
    BY <1>1, <1>4, <1>5 DEF providerVars, SessionInv, ContextsAccounted
  <1>6. CASE NewProvider
    BY <1>1, <1>4, <1>6 DEF NewProvider, SessionInv, ContextsAccounted
  <1>7. CASE DeleteProvider
    <2>1. contexts = {}
      BY <1>1, <1>7 DEF DeleteProvider, SessionInv, ContextsAccounted
    <2> QED BY <1>4, <1>7, <2>1 DEF DeleteProvider
  <1>8. CASE InitializeProvider
    <2>1. PICK x \in Context : /\ SCardEstablishContext(x)
                               /\ provider' = [provider EXCEPT !.context = x]
      BY <1>8 DEF InitializeProvider
    <2>2. provider' # Null /\ provider'.context = x
      BY <1>1, <1>8, <2>1, ProviderAssumption DEF InitializeProvider,
         Available, TypeOK, ProviderImpl
    <2>3. contexts = {} /\ contexts' = {x}
      BY <1>1, <1>8, <2>1 DEF InitializeProvider, SessionInv,
         ContextsAccounted, SCardEstablishContext
    <2>4. ContextsAccounted'
      BY <1>1, <1>8, <2>2, <2>3 DEF InitializeProvider, SessionInv,
         ContextsAccounted, Live, connectionVars
    <2> QED BY <1>3, <1>8, <2>1, <2>4 DEF InitializeProvider,
              SCardEstablishContext
  <1>9. CASE CleanupProvider
    BY <1>1, <1>9, CleanupProviderStep DEF CleanupProvider
  <1>10. CASE Refresh
    <2>0. <<>> \in Seq(Reader)
      OBVIOUS
    <2>1. PICK s \in Seq(Reader) : provider' = [provider EXCEPT !.terminals = s]
      BY <1>10, <2>0, ListingsAreSequences DEF Refresh
    <2>2. provider' # Null /\ provider'.context = provider.context
      BY <1>1, <1>10, <2>1, ProviderAssumption DEF Refresh, Available, TypeOK,
         ProviderImpl
    <2> QED BY <1>4, <1>10, <2>2 DEF Refresh
  <1>11. ASSUME NEW c \in Conn, CreateCardConnection(c)
         PROVE  ConnectionsOwnImpls' /\ SessionInv'
    BY <1>1, <1>4, <1>11 DEF CreateCardConnection, Available
  <1>12. ASSUME NEW c \in Conn, DestroyCardConnection(c)
         PROVE  ConnectionsOwnImpls' /\ SessionInv'
    BY <1>1, <1>12, DestroyStep
  <1>13. CASE PollReturns
    <2>1. CASE UNCHANGED connectionVars
      BY <1>1, <1>4, <1>13, <2>1 DEF PollReturns, SessionInv, ContextsAccounted
    <2>2. CASE \E i \in Impl : Initialize(polling.conn, i, provider.context,
                                          Head(polling.todo))
      <3>1. polling.conn \in Conn /\ Head(polling.todo) \in Reader
        BY <1>1, <1>13 DEF PollReturns, TypeOK, Polling
      <3> QED BY <1>1, <1>13, <2>2, <3>1, InitializeStep DEF PollReturns,
                CardFound
    <2> QED BY <1>13, <2>1, <2>2 DEF PollReturns
  <1>14. CASE PollNext \/ PollEnds
    BY <1>1, <1>4, <1>14 DEF PollNext, PollEnds, SessionInv, ContextsAccounted
  <1>15. ASSUME NEW c \in Conn, ConnectionCall(c)
         PROVE  ConnectionsOwnImpls' /\ SessionInv'
    BY <1>1, <1>15, ConnectStep, ReconnectStep, DisconnectStep, SwapStep
    DEF ConnectionCall
  <1>16. ASSUME NEW c \in Conn, Complete(c)
         PROVE  ConnectionsOwnImpls' /\ SessionInv'
    BY <1>1, <1>16, CompleteStep
  <1>17. CASE Environment
    <2>1. SessionInv'
      BY <1>1, <1>17, EnvironmentStep
    <2> QED BY <1>1, <1>17, <2>1, OwnershipKept DEF Environment,
              connectionVars, Live
  <1> QED
    BY <1>5, <1>6, <1>7, <1>8, <1>9, <1>10, <1>11, <1>12, <1>13, <1>14, <1>15,
       <1>16, <1>17
    DEF Next, ProviderCall, Poll, CarelessCall

(* The careful client, while the service runs: CarefulInv in every reachable
   state, for any number of connections, handles, readers and cards. *)
THEOREM CarefulCorrect ==
  ASSUME Careful, ~ ServiceMayStop
  PROVE  Spec => []CarefulInv
  <1>1. Init => CarefulInv
    BY CarefulInit
  <1>2. CarefulInv /\ [Next]_vars => CarefulInv'
    BY CarefulStep
  <1> QED BY <1>1, <1>2, PTL DEF Spec

(* No sequence of create, destroy and swap calls, with any interleaving of
   polling and PC/SC events, leaks an implementation object, frees it twice or
   shares it between two connections. *)
THEOREM OwnershipCorrect ==
  ASSUME Careful, ~ ServiceMayStop
  PROVE  Spec => []ConnectionsOwnImpls
  <1>1. CarefulInv => ConnectionsOwnImpls
    BY DEF CarefulInv
  <1> QED BY <1>1, CarefulCorrect, PTL

(* is_connected is true only over a handle that is open, for this terminal and
   this context, whoever pulls out or resets the card. *)
THEOREM HandleCorrect ==
  ASSUME Careful, ~ ServiceMayStop
  PROVE  Spec => []ConnectedHandleIsOpen
  <1>1. CarefulInv => ConnectedHandleIsOpen
    BY DEF CarefulInv
  <1> QED BY <1>1, CarefulCorrect, PTL

(* Handle values that the resource manager gives out again never end up in two
   connected connections. *)
THEOREM NoSharedHandle ==
  ASSUME Careful, ~ ServiceMayStop
  PROVE  Spec => []HandlesNotShared
  <1>1. CarefulInv => HandlesNotShared
    BY DEF CarefulInv
  <1> QED BY <1>1, CarefulCorrect, PTL

(* Between calls get_atr returns the ATR of the card that the session is
   attached to, although connect and reconnect fetch it with a second request. *)
THEOREM AtrCorrect ==
  ASSUME Careful, ~ ServiceMayStop
  PROVE  Spec => []AtrMatchesCard
  <1>1. CarefulInv => AtrMatchesCard
    BY DEF CarefulInv
  <1> QED BY <1>1, CarefulCorrect, PTL

(* Between calls transmit uses the protocol that the session negotiated last. *)
THEOREM ProtocolCorrect ==
  ASSUME Careful, ~ ServiceMayStop
  PROVE  Spec => []ProtocolMatchesSession
  <1>1. CarefulInv => ProtocolMatchesSession
    BY DEF CarefulInv
  <1> QED BY <1>1, CarefulCorrect, PTL

(* The established context is the one the provider holds, and no connection
   outlives it. *)
THEOREM ContextCorrect ==
  ASSUME Careful, ~ ServiceMayStop
  PROVE  Spec => []ContextsAccounted
  <1>1. CarefulInv => ContextsAccounted
    BY DEF CarefulInv
  <1> QED BY <1>1, CarefulCorrect, PTL
-----------------------------------------------------------------------------
(* Any client: what steps do to connections that are connected. *)

(* What a step can do to an object that is connected: it is freed, or keeps
   its handle and stays connected, or its session is closed with it. *)
LEMMA ConnectedStep ==
  ASSUME TypeInv, [Next]_vars, NEW i \in Impl, Connected(i)
  PROVE  \/ impl'[i] = Null
         \/ /\ impl'[i] # Null /\ impl'[i].card_handle = impl[i].card_handle
            /\ \/ impl'[i].is_connected
               \/ IsOpen(impl[i].card_handle) /\ session'[impl[i].card_handle] = Closed
  <1> USE ConnectionAssumption DEF Live
  <1> DEFINE Kept ==
        /\ impl'[i] # Null /\ impl'[i].card_handle = impl[i].card_handle
        /\ impl'[i].is_connected
  <1>1. /\ TypeOK /\ CallsHaveObjects /\ impl \in [Impl -> CardConnectionImpl \cup {Null}]
        /\ impl[i] \in CardConnectionImpl /\ impl[i].is_connected /\ impl[i] # Null
    BY DEF TypeInv, TypeOK, ConnectionTypeOK, Connected
  <1>2. impl'[i] = impl[i] => Kept
    BY <1>1
  <1>3. ASSUME NEW c \in Conn, ConnectionCall(c)
        PROVE  Kept \/ (/\ impl'[i] # Null /\ impl'[i].card_handle = impl[i].card_handle
                        /\ IsOpen(impl[i].card_handle)
                        /\ session'[impl[i].card_handle] = Closed)
    <2>1. ASSUME NEW h \in Handle, NEW p \in Protocol, Connect(c, h, p) PROVE Kept
      <3>1. m_impl[c] # i /\ impl'[i] = impl[i]
        BY <1>1, <2>1 DEF Connect, Self
      <3> QED
        BY <1>2, <3>1
    <2>2. ASSUME NEW p \in Protocol, Reconnect(c, p) PROVE Kept
      BY <1>2, <2>2 DEF Reconnect
    <2>3. CASE Disconnect(c)
      <3>1. CASE m_impl[c] = i
        <4>1. PICK o : o = [impl[i] EXCEPT !.is_connected = FALSE]
          OBVIOUS
        <4>2. o \in CardConnectionImpl /\ o.card_handle = impl[i].card_handle
          BY <1>1, <4>1 DEF CardConnectionImpl
        <4>3. impl'[i] = o
          BY <1>1, <2>3, <3>1, <4>1 DEF Disconnect
        <4>4. /\ IsOpen(impl[i].card_handle)
              /\ session' = [session EXCEPT ![impl[i].card_handle] = Closed]
          BY <2>3, <3>1 DEF Disconnect, SCardDisconnect, Self
        <4>5. session'[impl[i].card_handle] = Closed
          BY <1>1, <4>4 DEF TypeOK, PCSCTypeOK, IsOpen
        <4> QED
          BY <4>2, <4>3, <4>4, <4>5
      <3>2. CASE m_impl[c] # i
        BY <1>1, <1>2, <2>3, <3>2 DEF Disconnect
      <3> QED
        BY <3>1, <3>2
    <2>4. ASSUME NEW d \in Conn, Swap(c, d) PROVE Kept
      BY <1>2, <2>4 DEF Swap
    <2> QED
      BY <1>3, <2>1, <2>2, <2>3, <2>4 DEF ConnectionCall
  <1>4. ASSUME NEW c \in Conn, Complete(c) PROVE Kept
    <2>1. PICK atr \in AtrOutcomes(Self(c)) :
            impl' = [impl EXCEPT ![m_impl[c]] = [@ EXCEPT !.atr_bytes = atr,
                                                          !.protocol = active[c]]]
      BY <1>4 DEF Complete, FinishCall
    <2>2. CASE m_impl[c] = i
      <3>1. PICK o : o = [impl[i] EXCEPT !.atr_bytes = atr, !.protocol = active[c]]
        OBVIOUS
      <3>2. atr \in Atr
        BY <1>1, <2>1, <2>2, OutcomesAreAtrs DEF Self, TypeOK
      <3>3. active[c] \in CommunicationProtocol
        BY <1>1, <1>4 DEF Complete, FinishCall, TypeOK, ConnectionTypeOK, CommunicationProtocol
      <3>4. o \in CardConnectionImpl /\ o.card_handle = impl[i].card_handle /\ o.is_connected
        BY <1>1, <3>1, <3>2, <3>3 DEF CardConnectionImpl
      <3>5. impl'[i] = o
        BY <1>1, <2>1, <2>2, <3>1
      <3> QED
        BY <3>4, <3>5
    <2>3. CASE m_impl[c] # i
      BY <1>1, <1>2, <2>1, <2>3
    <2> QED
      BY <2>2, <2>3
  <1>5. CASE PollReturns
    <2>1. CASE UNCHANGED connectionVars
      BY <1>2, <2>1 DEF connectionVars
    <2>2. ASSUME NEW j \in Impl, NEW x, NEW r, Initialize(polling.conn, j, x, r) PROVE Kept
      <3>1. i # j /\ impl'[i] = impl[i]
        BY <1>1, <2>2 DEF Initialize
      <3> QED
        BY <1>2, <3>1
    <2> QED
      BY <1>5, <2>1, <2>2 DEF PollReturns
  <1>6. ASSUME NEW c \in Conn, Cleanup(c) PROVE Kept \/ impl'[i] = Null
    BY <1>1, <1>2, <1>6 DEF Cleanup
  <1>7. ASSUME NEW c \in Conn, CarelessCall(c) PROVE Kept \/ impl'[i] = Null
    BY <1>2, <1>6, <1>7 DEF CarelessCall, Assign
  <1>8. CASE ProviderCall
    BY <1>2, <1>6, <1>8
    DEF ProviderCall, NewProvider, DeleteProvider, InitializeProvider, CleanupProvider, Refresh,
        CreateCardConnection, DestroyCardConnection, connectionVars
  <1>9. CASE PollNext \/ PollEnds \/ Environment \/ UNCHANGED vars
    BY <1>2, <1>9 DEF PollNext, PollEnds, Environment, vars, connectionVars
  <1> QED
    BY <1>3, <1>4, <1>5, <1>7, <1>8, <1>9 DEF Next, Poll

(* Who closes a session. *)
LEMMA ClosedBy ==
  ASSUME TypeInv, [Next]_vars, NEW h \in Handle, IsOpen(h), session'[h] = Closed
  PROVE  \/ contexts' # contexts
         \/ \E j \in Impl : /\ Live(j) /\ impl[j].card_handle = h
                            /\ impl'[j] = Null \/ ~ impl'[j].is_connected
  <1> DEFINE Closes == \E j \in Impl : /\ Live(j) /\ impl[j].card_handle = h
                                       /\ impl'[j] = Null \/ ~ impl'[j].is_connected
  <1>1. /\ session[h] # Closed /\ session \in [Handle -> Session \cup {Closed}]
        /\ session # session' /\ PCSCTypeOK
        /\ impl \in [Impl -> CardConnectionImpl \cup {Null}]
    BY DEF TypeInv, TypeOK, PCSCTypeOK, ConnectionTypeOK, IsOpen
  <1>2. \A r \in Reader : Detached(r)[h] # Closed
    BY <1>1, DetachedSessions
  <1>3. ASSUME NEW c \in Conn, SCardDisconnect(Self(c).card_handle), Callable(c)
        PROVE  m_impl[c] \in Impl /\ Live(m_impl[c]) /\ impl[m_impl[c]].card_handle = h
    BY <1>1, <1>3 DEF SCardDisconnect, Self, Callable, Live
  <1>4. ASSUME NEW c \in Conn, DestroyCardConnection(c) PROVE Closes
    <2>1. SCardDisconnect(Self(c).card_handle) /\ Callable(c)
      BY <1>1, <1>4 DEF DestroyCardConnection, Cleanup, pcscVars
    <2>2. impl' = [impl EXCEPT ![m_impl[c]] = Null]
      BY <1>4 DEF DestroyCardConnection, Cleanup
    <2> QED
      BY <1>1, <1>3, <2>1, <2>2
  <1>5. ASSUME NEW c \in Conn, ConnectionCall(c) PROVE Closes
    <2>1. ASSUME NEW k \in Handle, NEW p \in Protocol, Connect(c, k, p) PROVE FALSE
      BY <1>1, <2>1 DEF Connect, SCardConnect
    <2>2. ASSUME NEW p \in Protocol, Reconnect(c, p) PROVE FALSE
      <3>1. PICK k, r : /\ k \in Handle /\ k = Self(c).card_handle
                         /\ r = session[k].reader /\ session[k] # Closed
        BY <2>2 DEF Reconnect, SCardReconnect, IsOpen
      <3>2. r \in Reader
        BY <1>1, <3>1 DEF Session
      <3>3. session' = [Detached(r) EXCEPT ![k] = [@ EXCEPT !.card = card[r], !.protocol = p]]
        BY <2>2, <3>1 DEF Reconnect, SCardReconnect
      <3>4. Detached(r) \in [Handle -> Session \cup {Closed}]
        BY <1>1, <3>2, DetachedType
      <3>5. h # k
        <4>1. PICK o : o = [Detached(r)[k] EXCEPT !.card = card[r], !.protocol = p]
          OBVIOUS
        <4>2. session'[k] = o
          BY <3>1, <3>3, <3>4, <4>1
        <4>3. Detached(r)[k] \in Session
          BY <1>1, <3>1, <3>2, <3>4, DetachedSessions
        <4>4. card[r] \in Card \cup {NoCard}
          BY <1>1, <3>2 DEF PCSCTypeOK
        <4>5. o \in Session
          BY <4>1, <4>3, <4>4 DEF Session
        <4> QED
          BY <4>2, <4>5, PCSCAssumption
      <3> QED
        BY <1>2, <3>2, <3>3, <3>4, <3>5
    <2>3. CASE Disconnect(c)
      <3>1. SCardDisconnect(Self(c).card_handle) /\ Callable(c)
        BY <2>3 DEF Disconnect
      <3>2. PICK j \in Impl : j = m_impl[c] /\ Live(j) /\ impl[j].card_handle = h
        BY <1>3, <3>1
      <3>3. impl[j] \in CardConnectionImpl
        BY <1>1, <3>2 DEF Live
      <3>4. impl'[j] = [impl[j] EXCEPT !.is_connected = FALSE]
        BY <1>1, <2>3, <3>2 DEF Disconnect
      <3>5. ~ impl'[j].is_connected
        BY <3>3, <3>4 DEF CardConnectionImpl
      <3> QED
        BY <3>2, <3>5
    <2>4. ASSUME NEW d \in Conn, Swap(c, d) PROVE FALSE
      BY <1>1, <2>4 DEF Swap, pcscVars
    <2> QED
      BY <1>5, <2>1, <2>2, <2>3, <2>4 DEF ConnectionCall
  <1>6. CASE Environment
    <2>1. ASSUME NEW r \in Reader, RemoveCard(r) \/ ResetByOther(r) PROVE FALSE
      BY <1>2, <2>1 DEF RemoveCard, ResetByOther
    <2>2. ASSUME NEW r \in Reader, NEW k \in Card, InsertCard(r, k) PROVE FALSE
      BY <1>1, <2>2 DEF InsertCard
    <2>3. CASE StopService
      BY <2>3 DEF StopService
    <2> QED
      BY <1>6, <2>1, <2>2, <2>3 DEF Environment
  <1>7. CASE CleanupProvider
    BY <1>7 DEF CleanupProvider, SCardReleaseContext
  <1>8. CASE NewProvider \/ DeleteProvider \/ InitializeProvider \/ Refresh
    BY <1>1, <1>8 DEF NewProvider, DeleteProvider, InitializeProvider, Refresh, pcscVars,
                      SCardEstablishContext
  <1>9. ASSUME NEW c \in Conn, CreateCardConnection(c) \/ CarelessCall(c) \/ Complete(c)
        PROVE  FALSE
    BY <1>1, <1>9 DEF CreateCardConnection, CarelessCall, Assign, Complete, FinishCall, pcscVars
  <1>10. CASE Poll \/ UNCHANGED vars
    BY <1>1, <1>10 DEF Poll, PollReturns, PollNext, PollEnds, vars, pcscVars
  <1> QED
    BY <1>4, <1>5, <1>6, <1>7, <1>8, <1>9, <1>10 DEF Next, ProviderCall

LEMMA TypesInvariant == Spec => []TypeInv
  BY TypeInit, TypeStep, PTL DEF Spec

(* Whatever calls the client makes, careful or not, and whether or not the
   service stops: an open session that a connection holds stays in the hands of
   a connection, unless the object is freed (destroy_card_connection goes on to
   cleanup after a disconnect that failed). *)
THEOREM OrphanedByDestroyOnly == Spec => OrphanOnlyByDestroy
  <1> DEFINE Orphans ==
        \A h \in Handle :
          IsOpen(h) /\ IsOpen(h)' /\ (\E i \in Impl : Holds(i, h))
            => \/ \E i \in Impl : Holds(i, h)'
               \/ \E i \in Impl : Holds(i, h) /\ impl'[i] = Null
  <1>1. TypeInv /\ [Next]_vars => Orphans
    <2> SUFFICES ASSUME TypeInv, [Next]_vars, NEW h \in Handle, IsOpen(h), IsOpen(h)',
                        NEW i \in Impl, Holds(i, h), impl'[i] # Null
                 PROVE  Holds(i, h)'
      OBVIOUS
    <2>1. Connected(i) /\ impl[i].card_handle = h
      BY DEF Holds
    <2>2. impl'[i].card_handle = h /\ impl'[i].is_connected
      BY <2>1, ConnectedStep DEF IsOpen
    <2> QED
      BY <2>2 DEF Holds, Connected, Live
  <1>2. TypeInv /\ [Next]_vars => [Orphans]_vars
    BY <1>1
  <1> QED
    BY <1>2, TypesInvariant, PTL DEF Spec, OrphanOnlyByDestroy

(* disconnect is the only operation that resets is_connected, and only after it
   closed a session: a connection whose handle died stays connected, for any
   client. *)
THEOREM StaleStays == Spec => StaleStaysConnected
  <1> DEFINE Stays ==
        \A i \in Impl :
          Connected(i) /\ impl'[i] # Null /\ ~ impl'[i].is_connected
            => LET h == impl[i].card_handle
               IN  IsOpen(h) /\ ~ IsOpen(h)'
  <1>1. TypeInv /\ [Next]_vars => Stays
    <2> SUFFICES ASSUME TypeInv, [Next]_vars, NEW i \in Impl, Connected(i),
                        impl'[i] # Null, ~ impl'[i].is_connected
                 PROVE  IsOpen(impl[i].card_handle) /\ ~ IsOpen(impl[i].card_handle)'
      OBVIOUS
    <2>1. /\ impl'[i].card_handle = impl[i].card_handle
          /\ IsOpen(impl[i].card_handle) /\ session'[impl[i].card_handle] = Closed
      BY ConnectedStep
    <2> QED
      BY <2>1 DEF IsOpen
  <1>2. TypeInv /\ [Next]_vars => [Stays]_vars
    BY <1>1
  <1> QED
    BY <1>2, TypesInvariant, PTL DEF Spec, StaleStaysConnected

(* A connection that stays connected loses its session only with the context or
   the service, or by a call on another object that holds the same handle value,
   for any client. *)
THEOREM SessionsLostByHolders == Spec => SessionLostOnlyByHolder
  <1> DEFINE Lost ==
        \A i \in Impl :
          Connected(i) /\ IsOpen(impl[i].card_handle)
          /\ Connected(i)' /\ ~ IsOpen(impl[i].card_handle)'
            => \/ contexts' # contexts
               \/ \E j \in Impl \ {i} :
                    Live(j) /\ impl[j].card_handle = impl[i].card_handle
  <1>1. TypeInv /\ [Next]_vars => Lost
    <2> SUFFICES ASSUME TypeInv, [Next]_vars, NEW i \in Impl, Connected(i),
                        IsOpen(impl[i].card_handle), Connected(i)',
                        ~ IsOpen(impl[i].card_handle)', contexts' = contexts
                 PROVE  \E j \in Impl \ {i} :
                          Live(j) /\ impl[j].card_handle = impl[i].card_handle
      OBVIOUS
    <2>1. PICK h \in Handle : h = impl[i].card_handle
      BY DEF IsOpen
    <2>2. impl'[i] # Null /\ impl'[i].is_connected
      BY DEF Connected, Live
    <2>3. impl'[i].card_handle = h
      BY <2>1, <2>2, ConnectedStep
    <2>4. IsOpen(h) /\ session'[h] = Closed
      BY <2>1, <2>3 DEF IsOpen
    <2>5. PICK j \in Impl : /\ Live(j) /\ impl[j].card_handle = h
                            /\ impl'[j] = Null \/ ~ impl'[j].is_connected
      BY <2>4, ClosedBy
    <2> QED
      BY <2>1, <2>2, <2>5
  <1>2. TypeInv /\ [Next]_vars => [Lost]_vars
    BY <1>1
  <1> QED
    BY <1>2, TypesInvariant, PTL DEF Spec, SessionLostOnlyByHolder

(* A step of another thread, of the user or of the service neither begins a call
   on a connection that is between its two requests, nor sends create_card_connection
   back to a terminal it has polled: the first is undisturbed until FinishCall ends
   it, and every step of the loop ends it or leaves fewer terminals. *)
CallsAdvance ==
  /\ \A c \in Conn :
       active[c] # NoCall =>
         /\ active'[c] \in {active[c], NoCall}
         /\ Complete(c) => active'[c] = NoCall
  /\ polling # NoPoll =>
       \/ polling' = NoPoll
       \/ polling' = polling /\ ~ Poll
       \/ /\ polling'.conn = polling.conn
          /\ Len(polling'.todo) \in Nat /\ Len(polling'.todo) < Len(polling.todo)

LEMMA CallStep ==
  ASSUME TypeInv, Next, NEW c \in Conn, active[c] # NoCall
  PROVE  /\ active'[c] \in {active[c], NoCall}
         /\ Complete(c) => active'[c] = NoCall
  <1>1. active \in [Conn -> Protocol \cup {NoCall}]
    BY DEF TypeInv, TypeOK, ConnectionTypeOK
  <1>2. Complete(c) => active'[c] = NoCall
    BY <1>1 DEF Complete, FinishCall
  <1>3. ASSUME NEW d \in Conn, Complete(d) PROVE active'[c] \in {active[c], NoCall}
    BY <1>1, <1>3 DEF Complete, FinishCall
  <1>4. ASSUME NEW d \in Conn, ConnectionCall(d) PROVE active'[c] = active[c]
    <2>1. ASSUME NEW p \in Protocol, Callable(d), active' = [active EXCEPT ![d] = p]
          PROVE  active'[c] = active[c]
      BY <1>1, <2>1 DEF Callable, Quiet
    <2>2. \/ \E p \in Protocol : Callable(d) /\ active' = [active EXCEPT ![d] = p]
          \/ active' = active
      BY <1>4 DEF ConnectionCall, Connect, Reconnect, Disconnect, Swap
    <2> QED
      BY <2>1, <2>2
  <1>5. CASE ProviderCall \/ Poll \/ Environment \/ \E d \in Conn : CarelessCall(d)
    <2>1. active' = active
      BY <1>5 DEF ProviderCall, NewProvider, DeleteProvider, InitializeProvider,
                  CleanupProvider, Refresh, CreateCardConnection, DestroyCardConnection,
                  Cleanup, Poll, PollReturns, PollNext, PollEnds, Initialize, Environment,
                  CarelessCall, Assign, connectionVars
    <2> QED
      BY <1>2, <2>1
  <1> QED
    BY <1>2, <1>3, <1>4, <1>5 DEF Next

LEMMA PollStep ==
  ASSUME TypeInv, Next, polling # NoPoll
  PROVE  \/ polling' = NoPoll
         \/ polling' = polling /\ ~ Poll
         \/ /\ polling'.conn = polling.conn
            /\ Len(polling'.todo) \in Nat /\ Len(polling'.todo) < Len(polling.todo)
  <1>1. polling \in Polling
    BY DEF TypeInv, TypeOK
  <1>2. CASE PollReturns \/ PollEnds
    BY <1>2 DEF PollReturns, PollEnds
  <1>3. CASE PollNext
    <2>1. PICK s : s = polling.todo
      OBVIOUS
    <2>2. s \in Seq(Reader) /\ s # <<>>
      BY <1>1, <1>3, <2>1 DEF PollNext, Polling
    <2>3. Len(Tail(s)) \in Nat /\ Len(Tail(s)) < Len(s)
      BY <2>2
    <2>4. polling' = [polling EXCEPT !.todo = Tail(s)]
      BY <1>3, <2>1 DEF PollNext
    <2>5. polling'.conn = polling.conn /\ polling'.todo = Tail(s)
      BY <1>1, <2>4 DEF Polling
    <2> QED
      BY <2>1, <2>3, <2>5
  <1>4. CASE ~ Poll
    <2>1. polling' = polling
      BY <1>4 DEF Next, ProviderCall, NewProvider, DeleteProvider, InitializeProvider,
                  CleanupProvider, Refresh, CreateCardConnection, DestroyCardConnection,
                  ConnectionCall, CarelessCall, Complete, Environment, Available,
                  providerVars
    <2> QED
      BY <1>4, <2>1
  <1> QED
    BY <1>2, <1>3, <1>4 DEF Poll

(* The steps behind CallsReturn, for any client, service and list of terminals:
   what is in progress is brought nearer to its end by its own steps, and by no
   other step farther away. *)
THEOREM CallsComeNearer == Spec => [][CallsAdvance]_vars
  <1>1. TypeInv /\ [Next]_vars => [CallsAdvance]_vars
    BY CallStep, PollStep DEF CallsAdvance
  <1> QED
    BY <1>1, TypesInvariant, PTL DEF Spec
=============================================================================
