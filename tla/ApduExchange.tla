---------------------------- MODULE ApduExchange ----------------------------
(***************************************************************************)
(* CardConnection::transmit (card_connection_winscard.cpp): a command goes *)
(* to the card, and a second one follows when the status word of the       *)
(* response says that Le was wrong (6Cxx) or that more bytes wait (61xx).  *)
(* Connections share a card, so other callers' commands may reach it       *)
(* between the two.                                                        *)
(*                                                                         *)
(* The card is external: Exchange and GetResponse are all it may answer.   *)
(* A response is what ResponseAPDU keeps of it: its length, its status     *)
(* word, and the request whose data it carries.  A CommandAPDU is its      *)
(* bytes but the last, and the last: an Le, or a byte of the header or the *)
(* data when the command has no Le.                                        *)
(***************************************************************************)
EXTENDS Integers

CONSTANTS
  Caller,      \* the connections that share the card
  Body,        \* the commands up to the last byte
  Amount,      \* the values of Le, and of SW2 when it tells an Le
  Length,      \* the lengths of the responses that carry data
  Nothing

SW1 == {"response_bytes_still_available", "wrong_length_le", "other"}

k_max_rapdu_length == 256

(* "own" is a byte that is no Le, "overwritten" what transmit makes of it. *)
LastByte == Amount \cup {"own", "overwritten"}

CommandAPDU == [body : Body, back : LastByte]

(* What the card executes: the command its caller asked for, or the one that
   came of it when the last byte was overwritten, which nobody did. *)
Request == [caller : Caller, body : Body, asked : BOOLEAN]

RequestOf(c, cmd) ==
  [caller |-> c, body |-> cmd.body, asked |-> cmd.back # "overwritten"]

ResponseAPDU ==
  [length : Length \cup {0, 2}, sw1 : SW1, sw2 : Amount \cup {Nothing},
   of : Request \cup {Nothing}]

(* Bytes that wait for GET RESPONSE, and the Le to fetch them with. *)
Rest == [of : Request, amount : Amount]

ASSUME ApduAssumption ==
  /\ Length \subseteq 2..2048          \* the buffer of impl_transmit
  /\ {"own", "overwritten"} \cap Amount = {}
  /\ Nothing \notin Request \cup CommandAPDU \cup ResponseAPDU \cup Rest

VARIABLES
  right,     \* the Le that the card now wants of each command
  waiting,   \* the bytes it keeps
  command,   \* the CommandAPDU object of each caller
  rapdu,     \* transmit's rapdu, and its result once it has returned
  second,    \* the second command transmit is about to send, if any
  executed,  \* how often the card executed the command in the latest call
  met,       \* for a call between its exchanges, history: the last request of
             \* another caller that was executed,
  fetched    \* and whether another's GET RESPONSE changed what waits

vars == <<right, waiting, command, rapdu, second, executed, met, fetched>>

TypeOK ==
  /\ right \in [Body -> Amount]
  /\ waiting \in Rest \cup {Nothing}
  /\ command \in [Caller -> CommandAPDU \cup {Nothing}]
  /\ rapdu \in [Caller -> ResponseAPDU \cup {Nothing}]
  /\ second \in [Caller -> {"none", "retry", "get_response"}]
  /\ executed \in [Caller -> 0..2]
  /\ met \in [Caller -> Request \cup {Nothing}]
  /\ fetched \in [Caller -> BOOLEAN]

Init ==
  /\ right \in [Body -> Amount]
  /\ waiting = Nothing
  /\ command = [c \in Caller |-> Nothing]
  /\ rapdu = [c \in Caller |-> Nothing]
  /\ second = [c \in Caller |-> "none"]
  /\ executed = [c \in Caller |-> 0]
  /\ met = [c \in Caller |-> Nothing]
  /\ fetched = [c \in Caller |-> FALSE]
-----------------------------------------------------------------------------
(* The response of a failed SCardTransmit. *)
Empty == [length |-> 0, sw1 |-> "other", sw2 |-> Nothing, of |-> Nothing]

(* Responses without data: 6Cxx, 61xx and any other. *)
WrongLe(le) ==
  [length |-> 2, sw1 |-> "wrong_length_le", sw2 |-> le, of |-> Nothing]

BytesWait(le) ==
  [length |-> 2, sw1 |-> "response_bytes_still_available", sw2 |-> le, of |-> Nothing]

Refused == [length |-> 2, sw1 |-> "other", sw2 |-> Nothing, of |-> Nothing]

(* Data of the request q, all or the rest of them; or some, and more wait, as
   many as SW2 tells, which transmit does not read then. *)
Data(n, q) == [length |-> n, sw1 |-> "other", sw2 |-> Nothing, of |-> q]

SomeData(n, q) ==
  [length |-> n, sw1 |-> "response_bytes_still_available", sw2 |-> Nothing, of |-> q]

(* Mutant: the status word is not the last two bytes (an index off by one). *)
get_sw1_OffByOne(r) == SW1

(* The status word of a response is in m_data. *)
Readable(r) == r.length \in 2..k_max_rapdu_length

(* get_sw1 is at(size() - 2): in front of m_data when the response is empty,
   past it when the response is longer than m_data, and then it may be any
   byte. *)
get_sw1(r) == IF Readable(r) THEN {r.sw1} ELSE SW1

(* get_sw2 is the Le to use if the card sent 6Cxx or 61xx; otherwise it is any
   byte. *)
get_sw2(r) ==
  IF r.length = 2 /\ r.sw1 # "other" THEN {r.sw2} ELSE Amount

(* Mutant: the command is sent again as it was. *)
WithSameBack(cmd, le) == cmd

(* capdu.back() = le *)
WithBack(cmd, le) ==
  [cmd EXCEPT !.back = IF @ \in Amount THEN le ELSE "overwritten"]
-----------------------------------------------------------------------------
(* The card. *)

Receives(c, r) == rapdu' = [rapdu EXCEPT ![c] = r]

(* The card answers the command of c, and n tells whether it executed it, which
   may change the Le it wants of any command.  It refuses nothing but a wrong or
   missing Le; a command makes it forget the bytes that waited.  An answer may
   be lost on its way back. *)
Exchange(c, n) ==
  LET cmd == command[c]
      q == RequestOf(c, cmd)
  IN  \/ /\ cmd.back # right[cmd.body] /\ n = 0
         /\ \E r \in {WrongLe(right[cmd.body]), Empty} : Receives(c, r)
         /\ waiting' = Nothing
         /\ UNCHANGED right
      \/ /\ n = 1
         /\ \/ /\ \E r \in {Data(m, q) : m \in Length} \cup {Empty} : Receives(c, r)
               /\ waiting' = Nothing
            \/ \E le \in Amount :
                 /\ \E r \in {BytesWait(le), Empty} : Receives(c, r)
                 /\ waiting' = [of |-> q, amount |-> le]
         /\ right' \in [Body -> Amount]
      \/ /\ n = 0 /\ Receives(c, Empty)
         /\ UNCHANGED <<waiting, right>>

(* It answers GET RESPONSE with the given Le, which may be wrong for the bytes
   that wait now. *)
GetResponse(c, le) ==
  /\ \/ /\ waiting # Nothing
        /\ \/ /\ \E r \in {Data(m, waiting.of) : m \in Length} \cup {Empty} :
                   Receives(c, r)
              /\ waiting' = Nothing
           \/ /\ \E r \in {SomeData(m, waiting.of) : m \in Length} \cup {Empty} :
                   Receives(c, r)
              /\ \E more \in Amount : waiting' = [waiting EXCEPT !.amount = more]
           \/ /\ le # waiting.amount
              /\ Receives(c, WrongLe(waiting.amount))
              /\ UNCHANGED waiting
     \/ waiting = Nothing /\ Receives(c, Refused) /\ UNCHANGED waiting
     \/ Receives(c, Empty) /\ UNCHANGED waiting
  /\ UNCHANGED right
-----------------------------------------------------------------------------
Idle(c) == second[c] = "none"

(* The history of the others' calls when c has sent its command, n times
   executed; its own begins or ends there. *)
OthersMeet(c, n) ==
  /\ met' = [d \in Caller |->
               IF d = c THEN Nothing
               ELSE IF n = 1 /\ ~ Idle(d) THEN RequestOf(c, command[c])
               ELSE met[d]]
  /\ fetched' = [fetched EXCEPT ![c] = FALSE]

(* The caller constructs a command, with or without Le. *)
NewCommand(c) ==
  /\ Idle(c)
  /\ \E b \in Body, last \in LastByte \ {"overwritten"} :
       command' = [command EXCEPT ![c] = [body |-> b, back |-> last]]
  /\ rapdu' = [rapdu EXCEPT ![c] = Nothing]
  /\ executed' = [executed EXCEPT ![c] = 0]
  /\ UNCHANGED <<right, waiting, second, met, fetched>>

(* transmit as far as the choice of a second command; the caller's object is
   the one that is changed for the retry. *)
Transmit(c) ==
  /\ Idle(c)
  /\ command[c] # Nothing
  /\ \E n \in 0..1 :
       /\ Exchange(c, n)
       /\ executed' = [executed EXCEPT ![c] = n]
       /\ OthersMeet(c, n)
       /\ \/ /\ "wrong_length_le" \in get_sw1(rapdu'[c])
             /\ \E le \in get_sw2(rapdu'[c]) :
                  command' = [command EXCEPT ![c] = WithBack(@, le)]
             /\ second' = [second EXCEPT ![c] = "retry"]
          \/ /\ "response_bytes_still_available" \in get_sw1(rapdu'[c])
             /\ second' = [second EXCEPT ![c] = "get_response"]
             /\ UNCHANGED command
          \/ /\ "other" \in get_sw1(rapdu'[c])
             /\ UNCHANGED <<command, second>>

(* Mutant: the command is sent again, and again. *)
RetryOnAndOn(c) ==
  /\ second[c] = "retry"
  /\ \E n \in 0..1 :
       /\ Exchange(c, n)
       /\ executed' = [executed EXCEPT ![c] = @ + n]
       /\ OthersMeet(c, n)
  /\ UNCHANGED <<command, second>>

(* Mutant: the caller's object gets its last byte back after the retry. *)
Retry_RestoresBack(c) ==
  /\ second[c] = "retry"
  /\ \E n \in 0..1 :
       /\ Exchange(c, n)
       /\ executed' = [executed EXCEPT ![c] = @ + n]
       /\ OthersMeet(c, n)
  /\ command' = [command EXCEPT ![c].back = IF @ = "overwritten" THEN "own" ELSE @]
  /\ second' = [second EXCEPT ![c] = "none"]

(* The second exchange; whatever it brings is transmit's result. *)
Retry(c) ==
  /\ second[c] = "retry"
  /\ \E n \in 0..1 :
       /\ Exchange(c, n)
       /\ executed' = [executed EXCEPT ![c] = @ + n]
       /\ OthersMeet(c, n)
  /\ second' = [second EXCEPT ![c] = "none"]
  /\ UNCHANGED command

(* GET RESPONSE with the SW2 of the first response as its Le.  A refusal of that
   Le is not repaired either. *)
FetchRest(c) ==
  /\ second[c] = "get_response"
  /\ \E le \in get_sw2(rapdu[c]) : GetResponse(c, le)
  /\ second' = [second EXCEPT ![c] = "none"]
  /\ met' = [met EXCEPT ![c] = Nothing]
  /\ fetched' = [d \in Caller |->
                   d # c /\ (fetched[d] \/ (~ Idle(d) /\ waiting' # waiting))]
  /\ UNCHANGED <<command, executed>>

Next ==
  \E c \in Caller : NewCommand(c) \/ Transmit(c) \/ Retry(c) \/ FetchRest(c)

Spec == Init /\ [][Next]_vars
-----------------------------------------------------------------------------
(* A call of transmit returns rapdu'[c]; its last exchange was a second one,
   which followed rapdu[c], unless Idle(c). *)
Returns(c) ==
  /\ Idle(c)' /\ rapdu'[c] # Nothing
  /\ ~ Idle(c) \/ rapdu'[c] # rapdu[c]

(* Data that transmit returns answers the command that the caller's object then
   is: the one it asked for, or, when a command without Le was overwritten for
   the retry, the other one, and then the object shows it.  The only way to
   other data is GET RESPONSE: to those of the last request that the card
   executed for another caller in between, or, when the first exchange failed
   and its empty response read as 61xx, to whatever waited. *)
AnswersOwnCommand ==
  [][\A c \in Caller :
       Returns(c) /\ rapdu'[c].of # Nothing
         => \/ rapdu'[c].of = RequestOf(c, command'[c])
            \/ /\ second[c] = "get_response"
               /\ rapdu'[c].of = met[c] \/ rapdu[c] = Empty]_vars

(* transmit returns a refusal for a wrong Le only when it could not repair it:
   the command had no Le, and its last byte was overwritten; or the status word
   that told the Le was not in m_data; or between the exchanges the card
   executed another caller's command, or gave it bytes that waited, so that the
   Le is no longer the right one. *)
RefusedOnlyIfBeyondRepair ==
  [][\A c \in Caller :
       Returns(c) /\ rapdu'[c].sw1 = "wrong_length_le"
         => \/ second[c] = "retry" /\ command[c].back = "overwritten"
            \/ ~ Idle(c) /\ ~ Readable(rapdu[c])
            \/ met[c] # Nothing
            \/ second[c] = "get_response" /\ fetched[c]]_vars

(* The retry does not make the card execute a command twice, unless the answer
   to the first was lost and its empty response reads as 6Cxx. *)
TwiceOnlyAfterEmpty ==
  [][\A c \in Caller :
       executed[c] < 2 /\ executed'[c] = 2 => rapdu[c] = Empty]_vars

(* No response is longer than the maximum response_apdu.hpp:17 names. *)
ResponseFits ==
  \A c \in Caller :
    rapdu[c] # Nothing => rapdu[c].length <= k_max_rapdu_length
=============================================================================
