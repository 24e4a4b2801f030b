-------------------------------- MODULE PCSC --------------------------------
(***************************************************************************)
(* The PC/SC resource manager (WinSCard), the readers and the cards, as    *)
(* the smartcard library uses them.  None of it is code of the repository: *)
(* each operator is one WinSCard call in the case where it SUCCEEDS, and   *)
(* the environment actions are what happens between two calls of the       *)
(* library.  A call that fails leaves this state alone, so a failure is a  *)
(* matter for the caller.                                                  *)
(*                                                                         *)
(* A session is what the resource manager keeps for an open card handle.   *)
(* Its card is NoCard once the session is detached, that is once the card  *)
(* was pulled out or was reset by somebody else: every call through the    *)
(* handle then fails until SCardReconnect.  Handle values are reused after *)
(* they are closed.                                                        *)
(***************************************************************************)
EXTENDS Integers, FiniteSets

CONSTANTS
  Reader,     \* the card readers (terminals)
  Card,       \* the cards; a card stands for its ATR too
  Context,    \* the SCARDCONTEXT values
  Handle,     \* the SCARDHANDLE values
  NoCard,     \* no card in the reader, or a detached session
  Closed      \* a handle value that names no session

Protocol == {"T0", "T1"}

Session == [context : Context, reader : Reader,
            card : Card \cup {NoCard}, protocol : Protocol]

ASSUME PCSCAssumption ==
  /\ IsFiniteSet(Reader)
  /\ NoCard \notin Card
  /\ Closed \notin Session

VARIABLES
  contexts,   \* the contexts that are established
  card,       \* the card in each reader
  session     \* the session of each handle, or Closed

pcscVars == <<contexts, card, session>>

PCSCTypeOK ==
  /\ contexts \subseteq Context
  /\ card \in [Reader -> Card \cup {NoCard}]
  /\ session \in [Handle -> Session \cup {Closed}]

PCSCInit ==
  /\ contexts = {}
  /\ card = [r \in Reader |-> NoCard]
  /\ session = [h \in Handle |-> Closed]

IsOpen(h) == h \in Handle /\ session[h] # Closed

Attached(h) == IsOpen(h) /\ session[h].card # NoCard

(* The sessions on reader r lose their card. *)
Detached(r) ==
  [h \in Handle |-> IF IsOpen(h) /\ session[h].reader = r
                    THEN [session[h] EXCEPT !.card = NoCard]
                    ELSE session[h]]
-----------------------------------------------------------------------------
(* The WinSCard calls. *)

SCardEstablishContext(x) ==
  /\ x \in Context \ contexts
  /\ contexts' = contexts \cup {x}
  /\ UNCHANGED <<card, session>>

(* Releasing a context closes the handles that were opened under it. *)
SCardReleaseContext(x) ==
  /\ x \in contexts
  /\ contexts' = contexts \ {x}
  /\ session' = [h \in Handle |->
                   IF IsOpen(h) /\ session[h].context = x
                   THEN Closed ELSE session[h]]
  /\ UNCHANGED card

(* SCARD_SHARE_SHARED: any number of sessions on one card. *)
SCardConnect(x, r, h, p) ==
  /\ x \in contexts
  /\ card[r] # NoCard
  /\ session[h] = Closed
  /\ session' = [session EXCEPT ![h] = [context |-> x, reader |-> r,
                                         card |-> card[r], protocol |-> p]]
  /\ UNCHANGED <<contexts, card>>

(* Resets whatever card is in the reader now and attaches h to it; the other
   sessions on that reader see a card reset by somebody else. *)
SCardReconnect(h, p) ==
  /\ IsOpen(h)
  /\ LET r == session[h].reader IN
       /\ card[r] # NoCard
       /\ session' = [Detached(r) EXCEPT ![h] = [@ EXCEPT !.card = card[r],
                                                          !.protocol = p]]
  /\ UNCHANGED <<contexts, card>>

SCardDisconnect(h) ==
  /\ IsOpen(h)
  /\ session' = [session EXCEPT ![h] = Closed]
  /\ UNCHANGED <<contexts, card>>
-----------------------------------------------------------------------------
(* What happens to the readers and the service on their own. *)

InsertCard(r, k) ==
  /\ card[r] = NoCard
  /\ \A q \in Reader : card[q] # k
  /\ card' = [card EXCEPT ![r] = k]
  /\ UNCHANGED <<contexts, session>>

RemoveCard(r) ==
  /\ card[r] # NoCard
  /\ card' = [card EXCEPT ![r] = NoCard]
  /\ session' = Detached(r)
  /\ UNCHANGED contexts

(* Another application that shares the card resets it. *)
ResetByOther(r) ==
  /\ \E h \in Handle : Attached(h) /\ session[h].reader = r
  /\ session' = Detached(r)
  /\ UNCHANGED <<contexts, card>>

(* The smart card service stops: every context and handle dies. *)
StopService ==
  /\ contexts # {}
  /\ contexts' = {}
  /\ session' = [h \in Handle |-> Closed]
  /\ UNCHANGED card
=============================================================================
