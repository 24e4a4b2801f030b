------------------------- MODULE ApduExchangeProofs -------------------------
(***************************************************************************)
(* Proofs about ApduExchange, for any number of callers, any commands, Le  *)
(* and lengths of a response.  The invariants say what holds between the   *)
(* two exchanges of transmit, while the others go on.                      *)
(***************************************************************************)
EXTENDS ApduExchange, TLAPS

(* No card answers with more than the maximum of response_apdu.hpp:17. *)
ShortResponses == Length \subseteq 2..k_max_rapdu_length

(* About to send the second command, transmit holds the first one and the
   response to it. *)
SecondHasFirst ==
  \A c \in Caller :
    second[c] # "none" => command[c] # Nothing /\ rapdu[c] # Nothing

(* Each transmit sets executed anew, and its retry may add one. *)
ExecutedOnceBefore ==
  \A c \in Caller : second[c] = "retry" => executed[c] <= 1

TypeInv == TypeOK /\ SecondHasFirst /\ ExecutedOnceBefore

(* The bytes c is about to fetch were left by its own command or by the last one
   of another caller since then, or the first exchange of c has failed. *)
FetchesOwn ==
  \A c \in Caller :
    second[c] = "get_response" /\ waiting # Nothing
      => \/ waiting.of \in {RequestOf(c, command[c]), met[c]}
         \/ rapdu[c] = Empty

(* What may have made an Le of c wrong since it was told. *)
Disturbed(c) == met[c] # Nothing \/ ~ Readable(rapdu[c])

(* The retry has the Le that the card wants, or no Le at all. *)
RetryHasLe ==
  \A c \in Caller :
    second[c] = "retry"
      => \/ command[c].back \in {right[command[c].body], "overwritten"}
         \/ Disturbed(c)

(* GET RESPONSE has the Le for the bytes that wait. *)
FetchHasLe ==
  \A c \in Caller :
    second[c] = "get_response" /\ waiting # Nothing
      => \/ get_sw2(rapdu[c]) = {waiting.amount}
         \/ fetched[c] \/ Disturbed(c)

(* A retry follows a refusal, or the loss of the answer. *)
RetryOfUnexecuted ==
  \A c \in Caller : second[c] = "retry" => executed[c] = 0 \/ rapdu[c] = Empty
-----------------------------------------------------------------------------
LEMMA RequestIs ==
  ASSUME NEW c \in Caller, NEW cmd \in CommandAPDU
  PROVE  RequestOf(c, cmd) \in Request
  BY DEF RequestOf, Request, CommandAPDU

(* The card sends and keeps what has the types of a response and of bytes that
   wait. *)
LEMMA ExchangeTypes ==
  ASSUME TypeOK, NEW c \in Caller, command[c] # Nothing, NEW n, Exchange(c, n)
  PROVE  /\ command[c] \in CommandAPDU
         /\ right' \in [Body -> Amount]
         /\ waiting' \in Rest \cup {Nothing}
         /\ \E r \in ResponseAPDU :
              /\ r # Nothing /\ rapdu' = [rapdu EXCEPT ![c] = r]
              /\ get_sw2(r) \subseteq Amount
<1>1. PICK cmd \in CommandAPDU, q \in Request, le \in Amount :
        cmd = command[c] /\ q = RequestOf(c, cmd) /\ le = right[cmd.body]
  BY RequestIs DEF TypeOK, CommandAPDU
<1>2. /\ Empty \in ResponseAPDU
      /\ \A e \in Amount : WrongLe(e) \in ResponseAPDU /\ BytesWait(e) \in ResponseAPDU
      /\ \A m \in Length : Data(m, q) \in ResponseAPDU
  BY DEF Empty, WrongLe, BytesWait, Data, ResponseAPDU, SW1
<1>3. \A e \in Amount : [of |-> q, amount |-> e] \in Rest
  BY DEF Rest
<1>4. \A r \in ResponseAPDU : r # Nothing
  BY ApduAssumption
<1>5. /\ get_sw2(Empty) \subseteq Amount
      /\ \A e \in Amount : get_sw2(WrongLe(e)) \subseteq Amount /\ get_sw2(BytesWait(e)) \subseteq Amount
      /\ \A m \in Length : get_sw2(Data(m, q)) \subseteq Amount
  BY DEF get_sw2, Empty, WrongLe, BytesWait, Data
<1>6. /\ right' \in [Body -> Amount] /\ waiting' \in Rest \cup {Nothing}
      /\ \E r \in ResponseAPDU : Receives(c, r) /\ get_sw2(r) \subseteq Amount
  BY <1>1, <1>2, <1>3, <1>5 DEF Exchange, TypeOK
<1> QED
  BY <1>1, <1>4, <1>6 DEF Receives

LEMMA GetResponseTypes ==
  ASSUME TypeOK, NEW c \in Caller, NEW le, GetResponse(c, le)
  PROVE  /\ right' = right
         /\ waiting' \in Rest \cup {Nothing}
         /\ \E r \in ResponseAPDU : r # Nothing /\ rapdu' = [rapdu EXCEPT ![c] = r]
<1>1. \A r \in ResponseAPDU : r # Nothing
  BY ApduAssumption
<1>2. Empty \in ResponseAPDU /\ Refused \in ResponseAPDU
  BY DEF Empty, Refused, ResponseAPDU, SW1
<1>3. CASE waiting # Nothing
  <2>1. PICK w \in Rest : w = waiting
    BY <1>3 DEF TypeOK
  <2>2. /\ WrongLe(w.amount) \in ResponseAPDU
        /\ \A m \in Length :
             Data(m, w.of) \in ResponseAPDU /\ SomeData(m, w.of) \in ResponseAPDU
    BY DEF WrongLe, Data, SomeData, ResponseAPDU, SW1, Rest
  <2>3. \A e \in Amount : [w EXCEPT !.amount = e] \in Rest
    BY DEF Rest
  <2>4. /\ right' = right /\ waiting' \in Rest \cup {Nothing}
        /\ \E r \in ResponseAPDU : Receives(c, r)
    BY <1>2, <1>3, <2>1, <2>2, <2>3 DEF GetResponse
  <2> QED
    BY <1>1, <2>4 DEF Receives
<1>4. CASE waiting = Nothing
  <2>1. right' = right /\ waiting' = Nothing /\ \E r \in ResponseAPDU : Receives(c, r)
    BY <1>2, <1>4 DEF GetResponse
  <2> QED
    BY <1>1, <2>1 DEF Receives
<1> QED
  BY <1>3, <1>4

(* The retry has the body of the command; its last byte is the Le it was given
   or is no Le at all. *)
LEMMA RepairedCommand ==
  ASSUME NEW cmd \in CommandAPDU, NEW le \in Amount
  PROVE  /\ WithBack(cmd, le) \in CommandAPDU
         /\ WithBack(cmd, le).body = cmd.body
         /\ WithBack(cmd, le).back \in {le, "overwritten"}
  BY DEF WithBack, CommandAPDU, LastByte

LEMMA TypeInvKept == TypeInv /\ [Next]_vars => TypeInv'
<1> SUFFICES ASSUME TypeInv, [Next]_vars PROVE TypeInv'
  OBVIOUS
<1> USE DEF TypeInv, TypeOK, SecondHasFirst, ExecutedOnceBefore
<1>1. ASSUME NEW c \in Caller, NewCommand(c) PROVE TypeInv'
  <2>1. command' \in [Caller -> CommandAPDU \cup {Nothing}]
    BY <1>1 DEF NewCommand, CommandAPDU
  <2> QED
    BY <2>1, <1>1 DEF NewCommand, Idle
<1>2. ASSUME NEW c \in Caller, Transmit(c) PROVE TypeInv'
  <2>1. PICK n \in 0..1 :
          /\ Exchange(c, n)
          /\ executed' = [executed EXCEPT ![c] = n]
          /\ OthersMeet(c, n)
          /\ \/ /\ \E le \in get_sw2(rapdu'[c]) :
                     command' = [command EXCEPT ![c] = WithBack(@, le)]
                /\ second' = [second EXCEPT ![c] = "retry"]
             \/ /\ second' = [second EXCEPT ![c] = "get_response"]
                /\ UNCHANGED command
             \/ UNCHANGED <<command, second>>
    BY <1>2 DEF Transmit
  <2>2. command[c] # Nothing /\ second[c] = "none"
    BY <1>2 DEF Transmit, Idle
  <2>3. /\ command[c] \in CommandAPDU
        /\ right' \in [Body -> Amount] /\ waiting' \in Rest \cup {Nothing}
    BY <2>1, <2>2, ExchangeTypes
  <2>4. PICK r \in ResponseAPDU :
          /\ r # Nothing /\ rapdu' = [rapdu EXCEPT ![c] = r]
          /\ get_sw2(r) \subseteq Amount
    BY <2>1, <2>2, ExchangeTypes
  <2>5. rapdu'[c] = r /\ rapdu' \in [Caller -> ResponseAPDU \cup {Nothing}]
    BY <2>4
  <2>6. ASSUME NEW le \in get_sw2(rapdu'[c]) PROVE WithBack(command[c], le) \in CommandAPDU
    BY <2>3, <2>4, <2>5, RepairedCommand
  <2>7. /\ command' \in [Caller -> CommandAPDU \cup {Nothing}]
        /\ command'[c] # Nothing
        /\ \A d \in Caller \ {c} : command'[d] = command[d]
    BY <2>1, <2>2, <2>6, ApduAssumption
  <2>8. second' \in [Caller -> {"none", "retry", "get_response"}]
    BY <2>1
  <2>9. executed' \in [Caller -> 0..2]
    BY <2>1
  <2>10. met' \in [Caller -> Request \cup {Nothing}] /\ fetched' \in [Caller -> BOOLEAN]
    BY <2>1, <2>3, RequestIs DEF OthersMeet
  <2>11. SecondHasFirst'
    BY <2>1, <2>2, <2>4, <2>7
  <2>12. ExecutedOnceBefore'
    BY <2>1, <2>2
  <2> QED
    BY <2>3, <2>5, <2>7, <2>8, <2>9, <2>10, <2>11, <2>12
<1>3. ASSUME NEW c \in Caller, Retry(c) PROVE TypeInv'
  <2>1. PICK n \in 0..1 :
          /\ Exchange(c, n)
          /\ executed' = [executed EXCEPT ![c] = @ + n]
          /\ OthersMeet(c, n)
    BY <1>3 DEF Retry
  <2>2. /\ second[c] = "retry" /\ second' = [second EXCEPT ![c] = "none"]
        /\ UNCHANGED command /\ command[c] # Nothing /\ executed[c] \in 0..1
    BY <1>3 DEF Retry
  <2>3. /\ command[c] \in CommandAPDU
        /\ right' \in [Body -> Amount] /\ waiting' \in Rest \cup {Nothing}
    BY <2>1, <2>2, ExchangeTypes
  <2>4. PICK r \in ResponseAPDU : r # Nothing /\ rapdu' = [rapdu EXCEPT ![c] = r]
    BY <2>1, <2>2, ExchangeTypes
  <2>5. executed' \in [Caller -> 0..2]
    BY <2>1, <2>2
  <2>6. met' \in [Caller -> Request \cup {Nothing}] /\ fetched' \in [Caller -> BOOLEAN]
    BY <2>1, <2>3, RequestIs DEF OthersMeet
  <2>7. SecondHasFirst' /\ ExecutedOnceBefore'
    BY <2>1, <2>2, <2>4
  <2> QED
    BY <2>2, <2>3, <2>4, <2>5, <2>6, <2>7
<1>4. ASSUME NEW c \in Caller, FetchRest(c) PROVE TypeInv'
  <2>1. PICK le : GetResponse(c, le)
    BY <1>4 DEF FetchRest
  <2>2. /\ second' = [second EXCEPT ![c] = "none"]
        /\ met' = [met EXCEPT ![c] = Nothing] /\ fetched' \in [Caller -> BOOLEAN]
        /\ UNCHANGED <<command, executed>>
    BY <1>4 DEF FetchRest
  <2>3. right' = right /\ waiting' \in Rest \cup {Nothing}
    BY <2>1, GetResponseTypes
  <2>4. PICK r \in ResponseAPDU : r # Nothing /\ rapdu' = [rapdu EXCEPT ![c] = r]
    BY <2>1, GetResponseTypes
  <2> QED
    BY <2>2, <2>3, <2>4
<1>5. CASE UNCHANGED vars
  BY <1>5 DEF vars
<1> QED
  BY <1>1, <1>2, <1>3, <1>4, <1>5 DEF Next

LEMMA TypeInvHolds == Spec => []TypeInv
<1>1. Init => TypeInv
  BY DEF Init, TypeInv, TypeOK, SecondHasFirst, ExecutedOnceBefore
<1> QED
  BY <1>1, TypeInvKept, PTL DEF Spec

(* Every variable keeps its range: no exchange leaves the card, the command, the
   response or the count of executions of transmit in a state they may not
   have, the retry's second execution included. *)
THEOREM TypeCorrect == Spec => []TypeOK
<1>1. TypeInv => TypeOK
  BY DEF TypeInv
<1> QED
  BY <1>1, TypeInvHolds, PTL
-----------------------------------------------------------------------------
(* What the steps of a caller change for the others. *)

Step(c) == NewCommand(c) \/ Transmit(c) \/ Retry(c) \/ FetchRest(c)

LEMMA OthersKeep ==
  ASSUME TypeInv, NEW c \in Caller, Step(c), NEW d \in Caller, d # c
  PROVE  UNCHANGED <<command[d], rapdu[d], second[d], executed[d]>>
<1> USE DEF TypeInv, TypeOK
<1>1. CASE NewCommand(c)
  BY <1>1 DEF NewCommand
<1>2. CASE Transmit(c) \/ Retry(c)
  <2>1. PICK n \in 0..1 : Exchange(c, n)
    BY <1>2 DEF Transmit, Retry
  <2>2. command[c] # Nothing
    BY <1>2 DEF Transmit, Retry, SecondHasFirst
  <2>3. rapdu'[d] = rapdu[d]
    BY <2>1, <2>2, ExchangeTypes
  <2> QED
    BY <1>2, <2>3 DEF Transmit, Retry
<1>3. CASE FetchRest(c)
  <2>1. PICK le : GetResponse(c, le)
    BY <1>3 DEF FetchRest
  <2>2. rapdu'[d] = rapdu[d]
    BY <2>1, GetResponseTypes
  <2> QED
    BY <1>3, <2>2 DEF FetchRest
<1> QED
  BY <1>1, <1>2, <1>3 DEF Step

(* What an exchange leaves of the bytes that waited, and of the Le the card
   wants. *)
LEMMA ExchangeLeaves ==
  ASSUME TypeOK, NEW c \in Caller, command[c] # Nothing, NEW n \in 0..1, Exchange(c, n)
  PROVE  /\ n = 0 => right' = right /\ waiting' \in {Nothing, waiting}
         /\ n = 1 => waiting' = Nothing \/ waiting'.of = RequestOf(c, command[c])
         /\ rapdu'[c].of \in {Nothing, RequestOf(c, command[c])}
<1>1. /\ n = 0 => right' = right /\ waiting' \in {Nothing, waiting}
      /\ n = 1 => waiting' = Nothing \/ waiting'.of = RequestOf(c, command[c])
  BY DEF Exchange
<1>2. PICK q : q = RequestOf(c, command[c])
  OBVIOUS
<1>3. /\ Empty.of = Nothing /\ \A le : WrongLe(le).of = Nothing /\ BytesWait(le).of = Nothing
      /\ \A m : Data(m, q).of = q
  BY DEF WrongLe, Empty, Data, BytesWait
<1>4. PICK r : Receives(c, r) /\ r.of \in {Nothing, q}
  BY <1>2, <1>3 DEF Exchange
<1>5. rapdu'[c] = r
  BY <1>4 DEF Receives, TypeOK
<1> QED
  BY <1>1, <1>2, <1>4, <1>5

(* Between its exchanges a caller sees one of three: nothing but that what waits
   is forgotten; a command that was executed; or bytes that were fetched. *)
LEMMA OthersSee ==
  ASSUME TypeInv, NEW c \in Caller, Step(c), NEW d \in Caller, d # c, second[d] # "none"
  PROVE  \/ /\ right' = right /\ waiting' \in {Nothing, waiting}
            /\ met'[d] = met[d] /\ (fetched[d] => fetched'[d])
         \/ /\ met'[d] # Nothing
            /\ waiting' = Nothing \/ waiting'.of = met'[d]
         \/ /\ right' = right /\ met'[d] = met[d] /\ fetched'[d]
            /\ waiting' = Nothing \/ (waiting # Nothing /\ waiting'.of = waiting.of)
<1> USE DEF TypeInv, TypeOK
<1>1. CASE NewCommand(c)
  BY <1>1 DEF NewCommand
<1>2. CASE Transmit(c) \/ Retry(c)
  <2>1. PICK n \in 0..1 : Exchange(c, n) /\ OthersMeet(c, n)
    BY <1>2 DEF Transmit, Retry
  <2>2. command[c] # Nothing
    BY <1>2 DEF Transmit, Retry, SecondHasFirst
  <2>3. command[c] \in CommandAPDU
    BY <2>2
  <2>4. PICK q : q = RequestOf(c, command[c])
    OBVIOUS
  <2>5. q # Nothing
    BY <2>3, <2>4, RequestIs, ApduAssumption
  <2>6. /\ n = 0 => right' = right /\ waiting' \in {Nothing, waiting}
        /\ n = 1 => waiting' = Nothing \/ waiting'.of = q
    BY <2>1, <2>2, <2>4, ExchangeLeaves
  <2>7. fetched'[d] = fetched[d] /\ met'[d] = IF n = 1 THEN q ELSE met[d]
    BY <2>1, <2>4 DEF OthersMeet, Idle
  <2> QED
    BY <2>5, <2>6, <2>7
<1>3. CASE FetchRest(c)
  <2>1. PICK le : GetResponse(c, le)
    BY <1>3 DEF FetchRest
  <2>2. /\ met'[d] = met[d]
        /\ fetched'[d] <=> fetched[d] \/ waiting' # waiting
    BY <1>3 DEF FetchRest, Idle
  <2>3. PICK w : w = waiting
    OBVIOUS
  <2>4. /\ right' = right
        /\ \/ waiting' \in {Nothing, w}
           \/ w # Nothing /\ \E more \in Amount : waiting' = [w EXCEPT !.amount = more]
    BY <2>1, <2>3 DEF GetResponse
  <2>5. ASSUME w # Nothing, NEW more, waiting' = [w EXCEPT !.amount = more]
        PROVE  waiting'.of = w.of
    BY <2>3, <2>5 DEF Rest
  <2>6. waiting' = w \/ fetched'[d]
    BY <2>2, <2>3
  <2> QED
    BY <2>2, <2>3, <2>4, <2>5, <2>6
<1> QED
  BY <1>1, <1>2, <1>3 DEF Step

(* c is between its exchanges after a step: the step was another caller's, or
   the first exchange of its own. *)
LEMMA BetweenAfter ==
  ASSUME TypeInv, NEW c \in Caller, second'[c] # "none", NEW d \in Caller, Step(d)
  PROVE  \/ d # c /\ second[c] = second'[c]
         \/ d = c /\ Transmit(c)
<1>1. CASE d # c
  BY <1>1, OthersKeep
<1>2. CASE d = c
  BY <1>2 DEF Step, NewCommand, Retry, FetchRest, Idle, TypeInv, TypeOK
<1> QED
  BY <1>1, <1>2

(* The SW1 that a second command answers. *)
Answered(sent) ==
  CASE sent = "retry"        -> "wrong_length_le"
    [] sent = "get_response" -> "response_bytes_still_available"
    [] OTHER                 -> "other"

(* The first exchange, and what is to follow it. *)
LEMMA FirstExchange ==
  ASSUME TypeInv, NEW c \in Caller, Transmit(c)
  PROVE  /\ command[c] \in CommandAPDU
         /\ \E n \in 0..1 : Exchange(c, n) /\ executed'[c] = n
         /\ Readable(rapdu'[c]) => rapdu'[c].sw1 = Answered(second'[c])
         /\ second'[c] = "retry"
              => \E le \in get_sw2(rapdu'[c]) : command'[c] = WithBack(command[c], le)
         /\ second'[c] # "retry" => command' = command
<1> USE DEF TypeInv, TypeOK
<1>1. command[c] \in CommandAPDU /\ second[c] = "none"
  BY DEF Transmit, Idle
<1>2. PICK n \in 0..1 :
        /\ Exchange(c, n)
        /\ executed' = [executed EXCEPT ![c] = n]
        /\ \/ /\ "wrong_length_le" \in get_sw1(rapdu'[c])
              /\ \E le \in get_sw2(rapdu'[c]) :
                   command' = [command EXCEPT ![c] = WithBack(@, le)]
              /\ second' = [second EXCEPT ![c] = "retry"]
           \/ /\ "response_bytes_still_available" \in get_sw1(rapdu'[c])
              /\ second' = [second EXCEPT ![c] = "get_response"]
              /\ UNCHANGED command
           \/ /\ "other" \in get_sw1(rapdu'[c])
              /\ UNCHANGED <<command, second>>
  BY DEF Transmit
<1>3. PICK r : r = rapdu'[c]
  OBVIOUS
<1>4. \A s \in get_sw1(r) : Readable(r) => r.sw1 = s
  BY DEF get_sw1
<1>5. /\ executed'[c] = n
      /\ Answered("retry") = "wrong_length_le"
      /\ Answered("get_response") = "response_bytes_still_available"
      /\ Answered("none") = "other"
  BY <1>2 DEF Answered
<1>6. CASE /\ "wrong_length_le" \in get_sw1(r)
           /\ \E le \in get_sw2(r) :
                command' = [command EXCEPT ![c] = WithBack(@, le)]
           /\ second' = [second EXCEPT ![c] = "retry"]
  BY <1>1, <1>2, <1>3, <1>4, <1>5, <1>6
<1>7. CASE /\ "response_bytes_still_available" \in get_sw1(r)
           /\ second' = [second EXCEPT ![c] = "get_response"]
           /\ UNCHANGED command
  BY <1>1, <1>2, <1>3, <1>4, <1>5, <1>7
<1>8. CASE "other" \in get_sw1(r) /\ UNCHANGED <<command, second>>
  BY <1>1, <1>2, <1>3, <1>4, <1>5, <1>8
<1> QED
  BY <1>2, <1>3, <1>6, <1>7, <1>8
-----------------------------------------------------------------------------
LEMMA StatusRead ==
  /\ ~ Readable(Empty)
  /\ \A le : /\ Readable(WrongLe(le)) /\ WrongLe(le).sw1 = "wrong_length_le"
             /\ get_sw2(WrongLe(le)) = {le}
             /\ Readable(BytesWait(le)) /\ get_sw2(BytesWait(le)) = {le}
             /\ BytesWait(le).sw1 = "response_bytes_still_available"
  /\ \A m, q : Data(m, q).sw1 = "other"
  /\ ShortResponses => \A m \in Length : \A q : Readable(Data(m, q))
<1>1. Empty.length = 0 /\ \A m, q : Data(m, q).length = m
  BY DEF Empty, Data
<1>2. \A le : WrongLe(le).length = 2 /\ WrongLe(le).sw2 = le
              /\ WrongLe(le).sw1 = "wrong_length_le"
  BY DEF WrongLe
<1>3. \A le : BytesWait(le).length = 2 /\ BytesWait(le).sw2 = le
              /\ BytesWait(le).sw1 = "response_bytes_still_available"
  BY DEF BytesWait
<1>4. \A m, q : Data(m, q).sw1 = "other"
  BY DEF Data
<1> QED
  BY <1>1, <1>2, <1>3, <1>4 DEF Readable, k_max_rapdu_length, get_sw2, ShortResponses

(* What the card may have answered to c. *)
LEMMA AnswerIs ==
  ASSUME TypeOK, NEW c \in Caller, NEW n, Exchange(c, n)
  PROVE  \/ /\ n = 0 /\ right' = right
            /\ command[c].back # right[command[c].body]
            /\ rapdu'[c] = WrongLe(right[command[c].body])
         \/ n = 1 /\ waiting' = Nothing
            /\ \E m \in Length : rapdu'[c] = Data(m, RequestOf(c, command[c]))
         \/ n = 1 /\ \E le \in Amount : rapdu'[c] = BytesWait(le) /\ waiting'.amount = le
         \/ rapdu'[c] = Empty
<1>1. \A r : Receives(c, r) => rapdu'[c] = r
  BY DEF Receives, TypeOK
<1>2. PICK q, want : q = RequestOf(c, command[c]) /\ want = right[command[c].body]
  OBVIOUS
<1>3. CASE /\ command[c].back # want /\ n = 0
           /\ \E r \in {WrongLe(want), Empty} : Receives(c, r)
           /\ UNCHANGED right
  BY <1>1, <1>2, <1>3
<1>4. CASE /\ n = 1
           /\ \E r \in {Data(m, q) : m \in Length} \cup {Empty} : Receives(c, r)
           /\ waiting' = Nothing
  BY <1>1, <1>2, <1>4
<1>5. ASSUME n = 1, NEW le \in Amount,
             \E r \in {BytesWait(le), Empty} : Receives(c, r),
             waiting' = [of |-> q, amount |-> le]
      PROVE  rapdu'[c] = Empty \/ (rapdu'[c] = BytesWait(le) /\ waiting'.amount = le)
  BY <1>1, <1>5
<1> QED
  BY <1>1, <1>2, <1>3, <1>4, <1>5 DEF Exchange

LEMMA FetchesOwnKept == TypeInv /\ FetchesOwn /\ [Next]_vars => FetchesOwn'
<1> SUFFICES ASSUME TypeInv, FetchesOwn, [Next]_vars, NEW c \in Caller,
                    second'[c] = "get_response", waiting' # Nothing
             PROVE  \/ waiting'.of \in {RequestOf(c, command'[c]), met'[c]}
                    \/ rapdu'[c] = Empty
  BY DEF FetchesOwn, RequestOf, Empty
<1>1. CASE UNCHANGED vars
  BY <1>1 DEF vars, FetchesOwn
<1>2. ASSUME NEW d \in Caller, Step(d), d # c
      PROVE  \/ waiting'.of \in {RequestOf(c, command'[c]), met'[c]}
             \/ rapdu'[c] = Empty
  <2>1. UNCHANGED <<command[c], rapdu[c], second[c]>> /\ second[c] # "none"
    BY <1>2, OthersKeep
  <2>2. \/ waiting' = waiting /\ met'[c] = met[c]
        \/ waiting'.of = met'[c]
        \/ waiting # Nothing /\ waiting'.of = waiting.of /\ met'[c] = met[c]
    BY <1>2, <2>1, OthersSee
  <2> QED
    BY <2>1, <2>2 DEF FetchesOwn
<1>3. CASE Transmit(c)
  <2>1. PICK n \in 0..1 : Exchange(c, n)
    BY <1>3, FirstExchange
  <2>2. /\ command[c] # Nothing /\ command' = command
        /\ Readable(rapdu'[c]) => rapdu'[c].sw1 = "response_bytes_still_available"
    BY <1>3, FirstExchange DEF Transmit, Answered
  <2>3. CASE n = 1
    BY <2>1, <2>2, <2>3, ExchangeLeaves DEF TypeInv
  <2>4. CASE n = 0
    BY <2>1, <2>2, <2>4, AnswerIs, StatusRead DEF TypeInv
  <2> QED
    BY <2>3, <2>4
<1> QED
  BY <1>1, <1>2, <1>3, BetweenAfter DEF Next, Step

LEMMA FetchHasLeKept == TypeInv /\ FetchHasLe /\ [Next]_vars => FetchHasLe'
<1> SUFFICES ASSUME TypeInv, FetchHasLe, [Next]_vars, NEW c \in Caller,
                    second'[c] = "get_response", waiting' # Nothing
             PROVE  \/ get_sw2(rapdu'[c]) = {waiting'.amount}
                    \/ fetched'[c] \/ Disturbed(c)'
  BY DEF FetchHasLe, get_sw2, Disturbed, Readable
<1>1. CASE UNCHANGED vars
  BY <1>1 DEF vars, FetchHasLe, Disturbed
<1>2. ASSUME NEW d \in Caller, Step(d), d # c
      PROVE  \/ get_sw2(rapdu'[c]) = {waiting'.amount}
             \/ fetched'[c] \/ Disturbed(c)'
  <2>1. UNCHANGED <<command[c], rapdu[c], second[c]>> /\ second[c] # "none"
    BY <1>2, OthersKeep
  <2>2. \/ waiting' = waiting /\ met'[c] = met[c] /\ (fetched[c] => fetched'[c])
        \/ met'[c] # Nothing
        \/ fetched'[c]
    BY <1>2, <2>1, OthersSee
  <2> QED
    BY <2>1, <2>2 DEF FetchHasLe, Disturbed
<1>3. CASE Transmit(c)
  <2>1. PICK n \in 0..1 : Exchange(c, n)
    BY <1>3, FirstExchange
  <2>2. Readable(rapdu'[c]) => rapdu'[c].sw1 = "response_bytes_still_available"
    BY <1>3, FirstExchange DEF Answered
  <2>3. CASE n = 0 /\ rapdu'[c] = WrongLe(right[command[c].body])
    BY <2>2, <2>3, StatusRead
  <2>4. CASE waiting' = Nothing
    BY <2>4
  <2>5. ASSUME NEW le \in Amount, rapdu'[c] = BytesWait(le), waiting'.amount = le
        PROVE  get_sw2(rapdu'[c]) = {waiting'.amount}
    BY <2>5, StatusRead
  <2>6. CASE rapdu'[c] = Empty
    BY <2>6, StatusRead DEF Disturbed
  <2> QED
    BY <2>1, <2>3, <2>4, <2>5, <2>6, AnswerIs DEF TypeInv
<1> QED
  BY <1>1, <1>2, <1>3, BetweenAfter DEF Next, Step

LEMMA RetryHasLeKept == TypeInv /\ RetryHasLe /\ [Next]_vars => RetryHasLe'
<1> SUFFICES ASSUME TypeInv, RetryHasLe, [Next]_vars, NEW c \in Caller,
                    second'[c] = "retry"
             PROVE  \/ command'[c].back \in {right'[command'[c].body], "overwritten"}
                    \/ Disturbed(c)'
  BY DEF RetryHasLe, Disturbed, Readable
<1>1. CASE UNCHANGED vars
  BY <1>1 DEF vars, RetryHasLe, Disturbed
<1>2. ASSUME NEW d \in Caller, Step(d), d # c
      PROVE  \/ command'[c].back \in {right'[command'[c].body], "overwritten"}
             \/ Disturbed(c)'
  <2>1. UNCHANGED <<command[c], rapdu[c], second[c]>> /\ second[c] # "none"
    BY <1>2, OthersKeep
  <2>2. \/ right' = right /\ met'[c] = met[c]
        \/ met'[c] # Nothing
    BY <1>2, <2>1, OthersSee
  <2> QED
    BY <2>1, <2>2 DEF RetryHasLe, Disturbed
<1>3. CASE Transmit(c)
  <2>1. PICK n \in 0..1 : Exchange(c, n)
    BY <1>3, FirstExchange
  <2>2. /\ Readable(rapdu'[c]) => rapdu'[c].sw1 = "wrong_length_le"
        /\ command[c] \in CommandAPDU
        /\ \E le \in get_sw2(rapdu'[c]) : command'[c] = WithBack(command[c], le)
    BY <1>3, FirstExchange DEF Answered
  <2>3. CASE Readable(rapdu'[c])
    <3>1. PICK want : want = right[command[c].body]
      OBVIOUS
    <3>2. right' = right /\ rapdu'[c] = WrongLe(want)
      BY <2>1, <2>2, <2>3, <3>1, AnswerIs, StatusRead DEF TypeInv
    <3>3. want \in Amount /\ command'[c] = WithBack(command[c], want)
      BY <2>2, <3>1, <3>2, StatusRead DEF TypeInv, TypeOK, CommandAPDU
    <3> QED
      BY <2>2, <3>1, <3>2, <3>3, RepairedCommand
  <2>4. CASE ~ Readable(rapdu'[c])
    BY <2>4 DEF Disturbed
  <2> QED
    BY <2>3, <2>4
<1> QED
  BY <1>1, <1>2, <1>3, BetweenAfter DEF Next, Step

LEMMA RetryOfUnexecutedKept ==
  ASSUME ShortResponses
  PROVE  TypeInv /\ RetryOfUnexecuted /\ [Next]_vars => RetryOfUnexecuted'
<1> SUFFICES ASSUME TypeInv, RetryOfUnexecuted, [Next]_vars, NEW c \in Caller,
                    second'[c] = "retry"
             PROVE  executed'[c] = 0 \/ rapdu'[c] = Empty
  BY DEF RetryOfUnexecuted, Empty
<1>1. CASE UNCHANGED vars
  BY <1>1 DEF vars, RetryOfUnexecuted
<1>2. ASSUME NEW d \in Caller, Step(d), d # c
      PROVE  executed'[c] = 0 \/ rapdu'[c] = Empty
  BY <1>2, OthersKeep DEF RetryOfUnexecuted
<1>3. CASE Transmit(c)
  <2>1. PICK n \in 0..1 : Exchange(c, n) /\ executed'[c] = n
    BY <1>3, FirstExchange
  <2>2. Readable(rapdu'[c]) => rapdu'[c].sw1 = "wrong_length_le"
    BY <1>3, FirstExchange DEF Answered
  <2> QED
    BY <2>1, <2>2, AnswerIs, StatusRead DEF TypeInv
<1> QED
  BY <1>1, <1>2, <1>3, BetweenAfter DEF Next, Step
-----------------------------------------------------------------------------
(* transmit of c returns by its first exchange, or by one of the second ones. *)
LEMMA ReturnIs ==
  ASSUME TypeInv, NEW c \in Caller, [Next]_vars, Returns(c)
  PROVE  \/ Transmit(c) /\ second[c] = "none"
         \/ Retry(c) /\ second[c] = "retry"
         \/ FetchRest(c) /\ second[c] = "get_response"
<1>1. ~ UNCHANGED vars
  BY DEF vars, Returns, Idle
<1>2. PICK d \in Caller : Step(d)
  BY <1>1 DEF Next, Step
<1>3. d = c
  BY <1>2, OthersKeep DEF Returns, Idle
<1>4. ~ NewCommand(c)
  BY DEF NewCommand, Returns, TypeInv, TypeOK
<1> QED
  BY <1>2, <1>3, <1>4 DEF Step, Transmit, Retry, FetchRest, Idle

(* Data that transmit returns answers the caller's command as it asked for it,
   or as its overwritten object shows; or it is what another caller's command
   or a failed first exchange let GET RESPONSE fetch. *)
THEOREM OwnAnswer == Spec => AnswersOwnCommand
<1>1. ASSUME TypeInv, FetchesOwn, [Next]_vars, NEW c \in Caller, Returns(c),
             rapdu'[c].of # Nothing
      PROVE  \/ rapdu'[c].of = RequestOf(c, command'[c])
             \/ /\ second[c] = "get_response"
                /\ rapdu'[c].of = met[c] \/ rapdu[c] = Empty
  <2>1. CASE Transmit(c) \/ Retry(c)
    <3>1. PICK n \in 0..1 : Exchange(c, n)
      BY <2>1 DEF Transmit, Retry
    <3>2. command[c] # Nothing
      BY <1>1, <2>1 DEF Transmit, Retry, TypeInv, SecondHasFirst
    <3>3. command' = command
      BY <1>1, <2>1, FirstExchange DEF Retry, Returns, Idle
    <3> QED
      BY <1>1, <3>1, <3>2, <3>3, ExchangeLeaves DEF TypeInv
  <2>2. CASE FetchRest(c) /\ second[c] = "get_response"
    <3>1. PICK le : GetResponse(c, le)
      BY <2>2 DEF FetchRest
    <3>2. PICK r : Receives(c, r) /\ r.of \in {Nothing, waiting.of}
                   /\ (r.of # Nothing => waiting # Nothing)
      <4>1. /\ Empty.of = Nothing /\ Refused.of = Nothing
            /\ \A e : WrongLe(e).of = Nothing
            /\ \A m, q : Data(m, q).of = q /\ SomeData(m, q).of = q
        BY DEF Empty, Refused, WrongLe, Data, SomeData
      <4> QED
        BY <3>1, <4>1 DEF GetResponse
    <3>3. rapdu'[c] = r
      BY <1>1, <3>2 DEF Receives, TypeInv, TypeOK
    <3>4. waiting # Nothing /\ rapdu'[c].of = waiting.of /\ command' = command
      BY <1>1, <2>2, <3>2, <3>3 DEF FetchRest
    <3> QED
      BY <1>1, <2>2, <3>4 DEF FetchesOwn
  <2> QED
    BY <1>1, <2>1, <2>2, ReturnIs
<1>2. Init => FetchesOwn
  BY DEF Init, FetchesOwn
<1>3. TypeInv /\ FetchesOwn /\ [Next]_vars
        => [\A c \in Caller :
              Returns(c) /\ rapdu'[c].of # Nothing
                => \/ rapdu'[c].of = RequestOf(c, command'[c])
                   \/ /\ second[c] = "get_response"
                      /\ rapdu'[c].of = met[c] \/ rapdu[c] = Empty]_vars
  BY <1>1
<1> QED
  BY <1>2, <1>3, TypeInvHolds, FetchesOwnKept, PTL DEF Spec, AnswersOwnCommand

(* A refusal for a wrong Le comes back only from a command that had none and was
   overwritten, after a status word that was not in m_data, or when another
   caller's command or GET RESPONSE came between the exchanges: for cards that
   change the Le they want with any command and refuse GET RESPONSE too. *)
THEOREM RepairsLe == Spec => RefusedOnlyIfBeyondRepair
<1> DEFINE Beyond(c) ==
             \/ second[c] = "retry" /\ command[c].back = "overwritten"
             \/ ~ Idle(c) /\ ~ Readable(rapdu[c])
             \/ met[c] # Nothing
             \/ second[c] = "get_response" /\ fetched[c]
<1>1. ASSUME TypeInv, RetryHasLe, FetchHasLe, [Next]_vars, NEW c \in Caller,
             Returns(c), rapdu'[c].sw1 = "wrong_length_le"
      PROVE  Beyond(c)
  <2>1. CASE Transmit(c) /\ second[c] = "none"
    <3>1. PICK n \in 0..1 : Exchange(c, n)
      BY <2>1 DEF Transmit
    <3>2. Readable(rapdu'[c]) => rapdu'[c].sw1 = "other"
      BY <1>1, <2>1, FirstExchange DEF Returns, Idle, Answered
    <3>3. Empty.sw1 = "other"
      BY DEF Empty
    <3> QED
      BY <1>1, <3>1, <3>2, <3>3, AnswerIs, StatusRead DEF TypeInv
  <2>2. CASE Retry(c) /\ second[c] = "retry"
    <3>1. PICK n \in 0..1 : Exchange(c, n)
      BY <2>2 DEF Retry
    <3>2. Empty.sw1 = "other"
      BY DEF Empty
    <3>3. command[c].back # right[command[c].body]
      BY <1>1, <3>1, <3>2, AnswerIs, StatusRead DEF TypeInv
    <3> QED
      BY <1>1, <2>2, <3>3 DEF RetryHasLe, Disturbed, Idle
  <2>3. CASE FetchRest(c) /\ second[c] = "get_response"
    <3>1. PICK le \in get_sw2(rapdu[c]) : GetResponse(c, le)
      BY <2>3 DEF FetchRest
    <3>2. \A r : Receives(c, r) => rapdu'[c] = r
      BY <1>1 DEF Receives, TypeInv, TypeOK
    <3>3. /\ Empty.sw1 # "wrong_length_le" /\ Refused.sw1 # "wrong_length_le"
          /\ \A m, q : /\ Data(m, q).sw1 # "wrong_length_le"
                       /\ SomeData(m, q).sw1 # "wrong_length_le"
      BY DEF Empty, Refused, Data, SomeData
    <3>4. waiting # Nothing /\ le # waiting.amount
      BY <1>1, <3>1, <3>2, <3>3 DEF GetResponse
    <3> QED
      BY <1>1, <2>3, <3>1, <3>4 DEF FetchHasLe, Disturbed, Idle
  <2> QED
    BY <1>1, <2>1, <2>2, <2>3, ReturnIs
<1>2. Init => RetryHasLe /\ FetchHasLe
  BY DEF Init, RetryHasLe, FetchHasLe
<1>3. TypeInv /\ RetryHasLe /\ FetchHasLe /\ [Next]_vars
        => [\A c \in Caller :
              Returns(c) /\ rapdu'[c].sw1 = "wrong_length_le" => Beyond(c)]_vars
  BY <1>1
<1> QED
  BY <1>2, <1>3, TypeInvHolds, RetryHasLeKept, FetchHasLeKept, PTL
  DEF Spec, RefusedOnlyIfBeyondRepair

(* A card that keeps to the maximum length executes a command twice only when
   the answer to the first was lost and transmit took the empty response for
   6Cxx. *)
THEOREM ExecutesTwiceOnlyAfterEmpty ==
  ASSUME ShortResponses
  PROVE  Spec => TwiceOnlyAfterEmpty
<1>1. ASSUME TypeInv, RetryOfUnexecuted, [Next]_vars, NEW c \in Caller,
             executed[c] < 2, executed'[c] = 2
      PROVE  rapdu[c] = Empty
  <2> USE DEF TypeInv, TypeOK
  <2>1. PICK d \in Caller : Step(d)
    BY <1>1 DEF Next, Step, vars
  <2>2. d = c
    BY <1>1, <2>1, OthersKeep
  <2>3. Retry(c)
    BY <1>1, <2>1, <2>2 DEF Step, NewCommand, Transmit, FetchRest
  <2>4. second[c] = "retry" /\ executed[c] # 0
    BY <1>1, <2>3 DEF Retry
  <2> QED
    BY <1>1, <2>4 DEF RetryOfUnexecuted
<1>2. Init => RetryOfUnexecuted
  BY DEF Init, RetryOfUnexecuted
<1>3. TypeInv /\ RetryOfUnexecuted /\ [Next]_vars
        => [\A c \in Caller :
              executed[c] < 2 /\ executed'[c] = 2 => rapdu[c] = Empty]_vars
  BY <1>1
<1> QED
  BY <1>2, <1>3, TypeInvHolds, RetryOfUnexecutedKept, PTL DEF Spec, TwiceOnlyAfterEmpty
=============================================================================
