-------------------------- MODULE SmartCardProvider --------------------------
(***************************************************************************)
(* The whole smartcard library in the hands of a client: SmartCardProvider *)
(* (smartcard_provider_winscard.cpp) over CardConnection over PCSC.        *)
(*                                                                         *)
(* The client may use several threads, but never two in one object: one    *)
(* call at a time on a connection, one at a time on the provider.          *)
(* create_card_connection polls the listed terminals one after the other,  *)
(* waiting up to two seconds for each; everything else happens in between. *)
(*                                                                         *)
(* Careful = TRUE is the client the library is written for: what           *)
(* destroy_card_connection asks before it disconnects, this client asks    *)
(* too; it does not copy connections and releases the context last.        *)
(* Careful = FALSE is a client that calls any operation whenever the       *)
(* operation can be called at all.                                         *)
(***************************************************************************)
EXTENDS CardConnection, Sequences

CONSTANTS
  Careful,          \* does the client keep to the discipline above?
  ServiceMayStop,   \* can the smart card service stop and be started again?
  NoPoll            \* polling when no create_card_connection is in progress

ASSUME ProviderAssumption ==
  /\ Careful \in BOOLEAN
  /\ ServiceMayStop \in BOOLEAN
  /\ Null \notin [context : Context \cup {NoContext}, terminals : Seq(Reader)]
  /\ NoPoll \notin [conn : Conn, todo : Seq(Reader)]

VARIABLES
  provider,   \* the provider's ProviderImpl, Null while there is no provider
  polling     \* the create_card_connection in progress

providerVars == <<provider, polling>>

vars == <<pcscVars, connectionVars, providerVars>>

ProviderImpl == [context : Context \cup {NoContext}, terminals : Seq(Reader)]

Polling == [conn : Conn, todo : Seq(Reader)]

TypeOK ==
  /\ PCSCTypeOK
  /\ ConnectionTypeOK
  /\ provider \in ProviderImpl \cup {Null}
  /\ polling \in Polling \cup {NoPoll}

Init ==
  /\ PCSCInit
  /\ ConnectionInit
  /\ provider = Null
  /\ polling = NoPoll
-----------------------------------------------------------------------------
(* The provider exists and no other thread is inside it. *)
Available == provider # Null /\ polling = NoPoll

NoObjects == \A i \in Impl : impl[i] = Null

(* What SCardListReaders may report: some of the readers, in some order. *)
Listings ==
  {s \in UNION {[1..n -> Reader] : n \in 0..Cardinality(Reader)} :
     \A m, n \in DOMAIN s : s[m] = s[n] => m = n}
-----------------------------------------------------------------------------
(* The provider's operations. *)

(* TSG_ALLOC is taken to succeed: its answer is not looked at, and a program
   that gets nullptr constructs ProviderImpl there and does not go on. *)
NewProvider ==
  /\ provider = Null
  /\ provider' = [context |-> NoContext, terminals |-> <<>>]
  /\ UNCHANGED <<pcscVars, connectionVars, polling>>

(* The destructor; it does not release the context. *)
DeleteProvider ==
  /\ Available
  /\ Careful => provider.context \notin contexts
  /\ provider' = Null
  /\ UNCHANGED <<pcscVars, connectionVars, polling>>

(* Mutant: the new context is not kept. *)
InitializeProvider_Forgets ==
  /\ Available
  /\ Careful => provider.context \notin contexts
  /\ \E x \in Context : SCardEstablishContext(x)
  /\ UNCHANGED <<connectionVars, providerVars>>

InitializeProvider ==
  /\ Available
  /\ Careful => provider.context \notin contexts
  /\ \E x \in Context :
       /\ SCardEstablishContext(x)
       /\ provider' = [provider EXCEPT !.context = x]
  /\ UNCHANGED <<connectionVars, polling>>

(* The stale value of context is kept. *)
CleanupProvider ==
  /\ Available
  /\ Careful => NoObjects
  /\ SCardReleaseContext(provider.context)
  /\ UNCHANGED <<connectionVars, providerVars>>

(* The list is cleared first: a failing SCardListReaders leaves it empty. *)
Refresh ==
  /\ Available
  /\ \E s \in (IF provider.context \in contexts THEN Listings ELSE {<<>>}) :
       provider' = [provider EXCEPT !.terminals = s]
  /\ UNCHANGED <<pcscVars, connectionVars, polling>>

(* create_card_connection, whose result the client keeps in c. *)
CreateCardConnection(c) ==
  /\ Available
  /\ m_impl[c] = Null
  /\ polling' = [conn |-> c, todo |-> provider.terminals]
  /\ UNCHANGED <<pcscVars, connectionVars, provider>>

(* One turn of the loop, on the terminal t = Head(polling.todo).  A card is
   found only if SCardGetStatusChange answers (reader_state is {}, so a failed
   call reads as no card); the connection is returned even when initialize
   could not allocate its object. *)
CardFound ==
  /\ provider.context \in contexts
  /\ card[Head(polling.todo)] # NoCard

PollReturns ==
  /\ polling # NoPoll /\ polling.todo # <<>>
  /\ CardFound
  /\ \/ \E i \in Impl :
          Initialize(polling.conn, i, provider.context, Head(polling.todo))
     \/ UNCHANGED connectionVars      \* initialize returned -1
  /\ polling' = NoPoll
  /\ UNCHANGED <<pcscVars, provider>>

(* Mutant: the loop does not move on from a terminal without a card. *)
PollNext_SameTerminal ==
  /\ polling # NoPoll /\ polling.todo # <<>>
  /\ ~ (CardFound /\ StatusReliable)
  /\ UNCHANGED vars

PollNext ==
  /\ polling # NoPoll /\ polling.todo # <<>>
  /\ ~ (CardFound /\ StatusReliable)
  /\ polling' = [polling EXCEPT !.todo = Tail(@)]
  /\ UNCHANGED <<pcscVars, connectionVars, provider>>

(* No terminal has a card: an empty connection is returned. *)
PollEnds ==
  /\ polling # NoPoll /\ polling.todo = <<>>
  /\ polling' = NoPoll
  /\ UNCHANGED <<pcscVars, connectionVars, provider>>

(* destroy_card_connection: cleanup follows whether or not the disconnect
   worked. *)
DestroyCardConnection(c) ==
  /\ Available
  /\ Cleanup(c)
  /\ \/ Self(c).is_connected /\ SCardDisconnect(Self(c).card_handle)
     \/ UNCHANGED pcscVars
  /\ UNCHANGED providerVars
-----------------------------------------------------------------------------
(* The client's calls on its connections. *)

ConnectionCall(c) ==
  /\ \/ \E h \in Handle, p \in Protocol : Connect(c, h, p)
     \/ /\ \E p \in Protocol : Reconnect(c, p)
        /\ Careful => Self(c).is_connected
     \/ /\ Disconnect(c)
        /\ Careful => Self(c).is_connected
     \/ \E d \in Conn : Swap(c, d)
  /\ UNCHANGED providerVars

(* What only the careless client does. *)
CarelessCall(c) ==
  /\ ~ Careful
  /\ \/ Cleanup(c) /\ UNCHANGED pcscVars
     \/ /\ polling # NoPoll => polling.conn # c
        /\ \E d \in Conn : Assign(c, d)
  /\ UNCHANGED providerVars

Complete(c) == FinishCall(c) /\ UNCHANGED providerVars

Poll == PollReturns \/ PollNext \/ PollEnds

Environment ==
  /\ \/ \E r \in Reader, k \in Card : InsertCard(r, k)
     \/ \E r \in Reader : RemoveCard(r) \/ ResetByOther(r)
     \/ ServiceMayStop /\ StopService
  /\ UNCHANGED <<connectionVars, providerVars>>

ProviderCall ==
  \/ NewProvider \/ DeleteProvider \/ InitializeProvider
  \/ CleanupProvider \/ Refresh
  \/ \E c \in Conn : CreateCardConnection(c) \/ DestroyCardConnection(c)

Next ==
  \/ ProviderCall
  \/ Poll
  \/ \E c \in Conn : ConnectionCall(c) \/ CarelessCall(c) \/ Complete(c)
  \/ Environment

(* A call that has begun goes on: SCardGetStatusChange is given 2000 ms, and
   nothing in the library waits for anything else. *)
Fairness == WF_vars(Poll) /\ \A c \in Conn : WF_vars(Complete(c))

Spec == Init /\ [][Next]_vars /\ Fairness
-----------------------------------------------------------------------------
(* A call in progress has an object to work on: no other thread of the client
   frees it, and nobody deletes the provider that is polling. *)
CallsHaveObjects ==
  /\ \A c \in Conn : active[c] # NoCall => Live(m_impl[c])
  /\ polling # NoPoll => provider # Null

(* What holds for the careful client while the service runs. *)

(* Every implementation object belongs to exactly one connection, and every
   connection points to an object that exists: swap, a create that fails half
   way and destroy neither leak an object, nor free it twice, nor share it. *)
ConnectionsOwnImpls ==
  /\ \A c \in Conn : m_impl[c] # Null => Live(m_impl[c])
  /\ \A c, d \in Conn : m_impl[c] = m_impl[d] /\ m_impl[c] # Null => c = d
  /\ \A i \in Impl : Live(i) => \E c \in Conn : m_impl[c] = i

(* The only context that can be established is the provider's: initialize and
   cleanup, in whatever order the client calls them, lose none, and an object
   never holds another one. *)
ContextsAccounted ==
  /\ contexts # {} => provider # Null /\ contexts = {provider.context}
  /\ \A i \in Impl : Live(i) => impl[i].context \in contexts

(* is_connected promises an open handle: of this connection's terminal, under
   its context. *)
HandleIsOpen(i) ==
  LET h == impl[i].card_handle
  IN  /\ IsOpen(h)
      /\ session[h].reader = impl[i].terminal
      /\ session[h].context = impl[i].context

ConnectedHandleIsOpen == \A i \in Impl : Connected(i) => HandleIsOpen(i)

(* Two connected connections never hold the same handle, although handle
   values are reused and disconnect leaves the old value in the object. *)
HandlesNotShared ==
  \A i, j \in Impl :
    Connected(i) /\ Connected(j) /\ impl[i].card_handle = impl[j].card_handle
      => i = j

(* Between calls, the ATR a connected connection reports is that of the card
   its session is attached to, whatever happened between SCardConnect (or
   SCardReconnect) and the second request that fetched the ATR, provided that
   request was answered. *)
AtrMatchesCard ==
  StatusReliable =>
    \A i \in Impl :
      Connected(i) /\ Quiet(i) /\ Attached(impl[i].card_handle)
        => impl[i].atr_bytes = session[impl[i].card_handle].card

(* Between calls, the protocol of a connected connection (hence the send_pci
   transmit uses) is the one its session negotiated last. *)
ProtocolMatchesSession ==
  \A i \in Impl :
    Connected(i) /\ Quiet(i) /\ IsOpen(impl[i].card_handle)
      => impl[i].protocol = session[impl[i].card_handle].protocol

Holds(i, h) == Connected(i) /\ impl[i].card_handle = h

(* A call that is between its two requests belongs to a connected connection,
   and its active_protocol is what the session negotiated. *)
CallsInProgress ==
  \A c \in Conn :
    active[c] # NoCall
      => /\ Connected(m_impl[c])
         /\ IsOpen(Self(c).card_handle)
         /\ session[Self(c).card_handle].protocol = active[c]

(* A session is attached only to the card that is in its reader. *)
AttachedToCard ==
  \A h \in Handle :
    Attached(h) => session[h].card = card[session[h].reader]

(* Together they are inductive. *)
CarefulInv ==
  /\ TypeOK
  /\ CallsHaveObjects
  /\ ConnectionsOwnImpls
  /\ ContextsAccounted
  /\ ConnectedHandleIsOpen
  /\ HandlesNotShared
  /\ CallsInProgress
  /\ AttachedToCard
  /\ ProtocolMatchesSession
  /\ AtrMatchesCard

(* A session that is open stays in some connection's hands; it is orphaned
   only when destroy_card_connection frees the object after a disconnect that
   failed. *)
OrphanOnlyByDestroy ==
  [][\A h \in Handle :
       IsOpen(h) /\ IsOpen(h)' /\ (\E i \in Impl : Holds(i, h))
         => \/ \E i \in Impl : Holds(i, h)'
            \/ \E i \in Impl : Holds(i, h) /\ impl'[i] = Null]_vars

(* Every call returns: one that has begun on a connection, and a
   create_card_connection that polls the terminals. *)
CallsReturn ==
  /\ \A c \in Conn : active[c] # NoCall ~> active[c] = NoCall
  /\ polling # NoPoll ~> polling = NoPoll
-----------------------------------------------------------------------------
(* What still holds when the service may stop, or the client is careless. *)

(* A connected connection whose handle died with the service can never be
   disconnected: disconnect fails and is_connected stays true until the
   connection is destroyed.  The exception is a handle value that has been
   given out again: the disconnect then closes the session of another one. *)
StaleStaysConnected ==
  [][\A i \in Impl :
       Connected(i) /\ impl'[i] # Null /\ ~ impl'[i].is_connected
         => LET h == impl[i].card_handle
            IN  IsOpen(h) /\ ~ IsOpen(h)']_vars

(* A connection, connected over an open handle, loses its session while it
   still says it is connected only if the service stopped or the context was
   released under it, or another object holds the same handle value: a copy
   from before a disconnect, a leftover of an earlier connection. *)
SessionLostOnlyByHolder ==
  [][\A i \in Impl :
       Connected(i) /\ IsOpen(impl[i].card_handle)
       /\ Connected(i)' /\ ~ IsOpen(impl[i].card_handle)'
         => \/ contexts' # contexts
            \/ \E j \in Impl \ {i} :
                 Live(j) /\ impl[j].card_handle = impl[i].card_handle]_vars
=============================================================================
