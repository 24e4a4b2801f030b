--------------------------- MODULE CardConnection ---------------------------
(***************************************************************************)
(* CardConnection and CardConnectionImpl (card_connection_winscard.cpp):   *)
(* the client's connection objects, the implementation objects they point  *)
(* to, and the calls connect, reconnect, disconnect, cleanup, swap.        *)
(*                                                                         *)
(* connect and reconnect are not atomic: after SCardConnect or             *)
(* SCardReconnect they ask the resource manager again, for the ATR.        *)
(* active[c] is the local active_protocol of the call that is between the  *)
(* two.  Other connections, other applications and the user who pulls out  *)
(* cards act in between.                                                   *)
(*                                                                         *)
(* A call that returns an error before it has assigned anything leaves the *)
(* state alone: it is a stuttering step and has no action.                 *)
(***************************************************************************)
EXTENDS PCSC

CONSTANTS
  Conn,           \* the client's CardConnection objects
  Impl,           \* the addresses a CardConnectionImpl can have
  Null,           \* nullptr, and the content of an address that is not allocated
  NoHandle,       \* card_handle before the first connect
  NoContext,      \* a provider's context before the first initialize
  NoCall,         \* active[c] when no call is in progress on c
  EmptyAtr,       \* the ATR of size 0
  GarbageAtr,     \* an ATR copied from the uninitialised reader_state
  StatusReliable  \* does the SCardGetStatusChange of line 44 always answer?

VARIABLES
  m_impl,   \* CardConnection::m_impl, of each connection
  impl,     \* the CardConnectionImpl at each address
  active    \* the call in progress on each connection

connectionVars == <<m_impl, impl, active>>

CommunicationProtocol == Protocol \cup {"none"}

Atr == Card \cup {EmptyAtr, GarbageAtr}

CardConnectionImpl ==
  [context      : Context \cup {NoContext},
   terminal     : Reader,
   card_handle  : Handle \cup {NoHandle},
   protocol     : CommunicationProtocol,
   is_connected : BOOLEAN,
   atr_bytes    : Atr]

ASSUME ConnectionAssumption ==
  /\ Null \notin Impl
  /\ Null \notin CardConnectionImpl
  /\ NoHandle \notin Handle
  /\ NoContext \notin Context
  /\ NoCall \notin Protocol
  /\ StatusReliable \in BOOLEAN

ConnectionTypeOK ==
  /\ m_impl \in [Conn -> Impl \cup {Null}]
  /\ impl \in [Impl -> CardConnectionImpl \cup {Null}]
  /\ active \in [Conn -> Protocol \cup {NoCall}]

ConnectionInit ==
  /\ m_impl = [c \in Conn |-> Null]
  /\ impl = [i \in Impl |-> Null]
  /\ active = [c \in Conn |-> NoCall]
-----------------------------------------------------------------------------
Live(i) == i \in Impl /\ impl[i] # Null

Connected(i) == Live(i) /\ impl[i].is_connected

(* No call is in progress on any connection that points to i. *)
Quiet(i) == \A c \in Conn : m_impl[c] = i => active[c] = NoCall

(* c may be called: it is valid, its object still exists, and no other
   thread is inside it. *)
Callable(c) == Live(m_impl[c]) /\ Quiet(m_impl[c])

Self(c) == impl[m_impl[c]]

(* What impl_update_atr_bytes can leave in atr_bytes.  A status call that
   fails, or times out after 2000 ms, keeps the old bytes; reader_state is
   not initialised, and a state in it that tells the resource manager to
   ignore the reader brings back what was in it. *)
AtrOutcomes(o) ==
  LET present == IF card[o.terminal] = NoCard THEN EmptyAtr
                                              ELSE card[o.terminal]
  IN  CASE o.context \notin contexts -> {o.atr_bytes}
        [] o.context \in contexts /\ StatusReliable -> {present}
        [] OTHER -> {present, o.atr_bytes, GarbageAtr}
-----------------------------------------------------------------------------
(* initialize on a connection that has no object yet.  What it does to one that
   has an object, in lines 146-148 alone, no program gets to see: CardConnectCI
   is private to the library, and create_card_connection, the only caller,
   always initializes a connection it has just constructed. *)
Initialize(c, i, x, r) ==
  /\ m_impl[c] = Null
  /\ impl[i] = Null
  /\ m_impl' = [m_impl EXCEPT ![c] = i]
  /\ impl' = [impl EXCEPT ![i] = [context |-> x, terminal |-> r,
                                  card_handle |-> NoHandle, protocol |-> "none",
                                  is_connected |-> FALSE, atr_bytes |-> EmptyAtr]]
  /\ UNCHANGED active

(* Mutant: the pointer to the freed object is kept. *)
Cleanup_KeepsPointer(c) ==
  /\ Callable(c)
  /\ impl' = [impl EXCEPT ![m_impl[c]] = Null]
  /\ UNCHANGED <<m_impl, active>>

Cleanup(c) ==
  /\ Callable(c)
  /\ impl' = [impl EXCEPT ![m_impl[c]] = Null]
  /\ m_impl' = [m_impl EXCEPT ![c] = Null]
  /\ UNCHANGED active

Swap(c, d) ==
  /\ Callable(c) /\ Callable(d)
  /\ m_impl' = [m_impl EXCEPT ![c] = m_impl[d], ![d] = m_impl[c]]
  /\ UNCHANGED <<impl, active, pcscVars>>

(* The implicit copy assignment c = d, also with a d that is empty: the object
   c pointed to is not freed (~CardConnection does nothing). *)
Assign(c, d) ==
  /\ active[c] = NoCall /\ active[d] = NoCall
  /\ m_impl' = [m_impl EXCEPT ![c] = m_impl[d]]
  /\ UNCHANGED <<impl, active, pcscVars>>

(* Mutant: is_connected is left to somebody else. *)
Connect_WithoutFlag(c, h, p) ==
  /\ Callable(c)
  /\ ~ Self(c).is_connected
  /\ SCardConnect(Self(c).context, Self(c).terminal, h, p)
  /\ impl' = [impl EXCEPT ![m_impl[c]].card_handle = h]
  /\ active' = [active EXCEPT ![c] = p]
  /\ UNCHANGED m_impl

(* connect, as far as the assignment of is_connected. *)
Connect(c, h, p) ==
  /\ Callable(c)
  /\ ~ Self(c).is_connected
  /\ SCardConnect(Self(c).context, Self(c).terminal, h, p)
  /\ impl' = [impl EXCEPT ![m_impl[c]] = [@ EXCEPT !.card_handle = h,
                                                   !.is_connected = TRUE]]
  /\ active' = [active EXCEPT ![c] = p]
  /\ UNCHANGED m_impl

(* reconnect, as far as SCardReconnect.  is_connected is not asked. *)
Reconnect(c, p) ==
  /\ Callable(c)
  /\ SCardReconnect(Self(c).card_handle, p)
  /\ active' = [active EXCEPT ![c] = p]
  /\ UNCHANGED <<m_impl, impl>>

(* Mutants of the end of connect and reconnect: without the ATR, without the
   protocol, and with the local variable reset before it is used. *)
FinishCall_KeepsAtr(c) ==
  /\ active[c] # NoCall
  /\ impl' = [impl EXCEPT ![m_impl[c]].protocol = active[c]]
  /\ active' = [active EXCEPT ![c] = NoCall]
  /\ UNCHANGED <<m_impl, pcscVars>>

FinishCall_KeepsProtocol(c) ==
  /\ active[c] # NoCall
  /\ \E atr \in AtrOutcomes(Self(c)) :
       impl' = [impl EXCEPT ![m_impl[c]].atr_bytes = atr]
  /\ active' = [active EXCEPT ![c] = NoCall]
  /\ UNCHANGED <<m_impl, pcscVars>>

FinishCall_ResetsFirst(c) ==
  /\ active[c] # NoCall
  /\ active' = [active EXCEPT ![c] = NoCall]
  /\ \E atr \in AtrOutcomes(Self(c)) :
       impl' = [impl EXCEPT ![m_impl[c]] = [@ EXCEPT !.atr_bytes = atr,
                                                     !.protocol = active'[c]]]
  /\ UNCHANGED <<m_impl, pcscVars>>

(* The rest of connect and of reconnect: impl_update_atr_bytes and
   impl_update_send_pci; what either returns is ignored. *)
FinishCall(c) ==
  /\ active[c] # NoCall
  /\ \E atr \in AtrOutcomes(Self(c)) :
       impl' = [impl EXCEPT ![m_impl[c]] = [@ EXCEPT !.atr_bytes = atr,
                                                     !.protocol = active[c]]]
  /\ active' = [active EXCEPT ![c] = NoCall]
  /\ UNCHANGED <<m_impl, pcscVars>>

(* Mutants: is_connected stays true, or becomes false even when
   SCardDisconnect fails. *)
Disconnect_KeepsFlag(c) ==
  /\ Callable(c)
  /\ SCardDisconnect(Self(c).card_handle)
  /\ UNCHANGED connectionVars

Disconnect_Always(c) ==
  /\ Callable(c)
  /\ SCardDisconnect(Self(c).card_handle) \/ UNCHANGED pcscVars
  /\ impl' = [impl EXCEPT ![m_impl[c]].is_connected = FALSE]
  /\ UNCHANGED <<m_impl, active>>

(* disconnect; when SCardDisconnect fails is_connected stays true. *)
Disconnect(c) ==
  /\ Callable(c)
  /\ SCardDisconnect(Self(c).card_handle)
  /\ impl' = [impl EXCEPT ![m_impl[c]] = [@ EXCEPT !.is_connected = FALSE]]
  /\ UNCHANGED <<m_impl, active>>
=============================================================================
