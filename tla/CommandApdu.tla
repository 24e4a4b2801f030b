----------------------------- MODULE CommandApdu -----------------------------
(***************************************************************************)
(* How a command is made: the constructors of CommandAPDU, which append to *)
(* a ByteHeapArray piece by piece, those from a hexadecimal string, and    *)
(* the GET RESPONSE command of CardConnection::transmit.  Every piece is a *)
(* step, as any of them may fail to allocate, and so is every iteration of *)
(* the loop that parses a string.                                          *)
(*                                                                         *)
(* todo is what the program still has to do, as calls with their bytes;    *)
(* the command is finished when nothing is left and the object exists.     *)
(***************************************************************************)
EXTENDS ByteHeapArray, Hex

CONSTANTS
  capdu,     \* the variable of the command
  Header,    \* the class, instruction and parameter bytes of the client
  Data,      \* its data
  Le,        \* its last bytes
  Character, \* the characters of its strings
  Text,      \* its strings
  Dump       \* bytes that are written as strings first, in both cases

ASSUME CommandAssumption ==
  /\ Obj = {capdu}
  /\ Byte = 0..255
  /\ Header \subseteq [1..4 -> Byte]
  /\ Data \subseteq Seq(Byte) /\ Dump \subseteq Seq(Byte)
  /\ Le \subseteq Byte
  /\ Text \subseteq Seq(Character)
  /\ \A i \in 1..16 : {characters_upper_case[i], characters_lower_case[i]} \subseteq Character

VARIABLES
  todo,       \* the calls that are left
  str,        \* the string that is parsed
  pos,        \* and the counter of byte_array_of
  intended    \* the bytes the client wants

commandVars == <<todo, str, pos, intended>>
vars == <<objectVars, commandVars>>

Call(name, bytes) == [name |-> name, bytes |-> bytes]

CallName ==
  {"count", "header", "push_back", "append", "resize", "parse", "cleanup", "end"}

CommandTypeOK ==
  /\ TypeOK
  /\ todo \in Seq([name : CallName, bytes : Seq(Byte)])
  /\ pos \in 0..255 /\ pos % 2 = 0
  /\ intended \in Seq(Nat)

CommandInit ==
  /\ Init
  /\ todo = <<>> /\ str = <<>> /\ pos = 0 /\ intended = <<>>

Exists == object[capdu] # Dead

Self == Begun(object[capdu])

Finished == Exists /\ todo = <<>>
-----------------------------------------------------------------------------
(* The client's calls.  The object starts as an empty array. *)

Constructor(calls, text, bytes) ==
  /\ ~ Exists /\ todo = <<>>
  /\ Ends(capdu, Begun(NoArray))
  /\ todo' = calls
  /\ str' = text /\ pos' = 0
  /\ intended' = bytes

(* Mutant: the length is not cast to a byte. *)
LcOf_Whole(data) == Len(data)

(* The length of the data is a byte of the command. *)
LcOf(data) == Len(data) % 256

WithHeader(h) == <<Call("count", <<>>), Call("header", h)>>

WithData(h, data) ==
  WithHeader(h) \o <<Call("push_back", <<LcOf(data)>>), Call("append", data)>>

FromHeader(h) == Constructor(WithHeader(h), <<>>, h)

FromData(h, data) ==
  Constructor(WithData(h, data), <<>>, h \o <<Len(data)>> \o data)

FromDataAndLe(h, data, le) ==
  Constructor(WithData(h, data) \o <<Call("push_back", <<le>>)>>,
              <<>>, h \o <<Len(data)>> \o data \o <<le>>)

Parse == <<Call("resize", <<>>), Call("parse", <<>>)>>

(* The bytes a string stands for: its pairs of digits, and no half of one. *)
Meaning(text) == [i \in 1..(Len(text) \div 2) |-> ByteAt(text, 2 * (i - 1))]

FromString(text) == Constructor(Parse, text, Meaning(text))

FromDump(bytes, upper_case) ==
  Constructor(Parse, hex_string_of(bytes, upper_case), bytes)

(* transmit asks for the response bytes, as many as sw2 says. *)
GetResponse(sw2) ==
  Constructor(Parse \o <<Call("push_back", <<sw2>>)>>,
              <<"8", "0", "C", "0", "0", "0", "0", "0">>, <<128, 192, 0, 0, sw2>>)

(* ~CommandAPDU calls the destructor of its base, which is called again. *)
Destruction == <<Call("cleanup", <<>>), Call("cleanup", <<>>), Call("end", <<>>)>>

Destructor ==
  /\ Finished
  /\ todo' = Destruction
  /\ UNCHANGED <<objectVars, str, pos, intended>>
-----------------------------------------------------------------------------
(* The program: it does what is next.  An exception leaves the constructor,
   and the object is destroyed. *)

Executes(name) == todo # <<>> /\ Head(todo).name = name

GoesOn(q) ==
  /\ Ends(capdu, q)
  /\ todo' = IF Thrown(q) THEN Destruction ELSE Tail(todo)
  /\ UNCHANGED <<str, pos, intended>>

Count ==
  /\ Executes("count")
  /\ \E q \in ArrayReallocated(Self, 4) : GoesOn(q)

(* Four calls of at, which checks nothing. *)
SetHeader ==
  /\ Executes("header")
  /\ GoesOn(Stored(Self, 0, Head(todo).bytes))

(* Mutant: the value is pushed in front of the last element. *)
PushBack_BeforeLast ==
  /\ Executes("push_back")
  /\ \E q \in ArrayReallocated(Self, Self.self.m_size + 1) :
       GoesOn(ThenStored(q, q.self.m_size - 2, Given(Head(todo).bytes)))

PushBack ==
  /\ Executes("push_back")
  /\ \E q \in ArrayReallocated(Self, Self.self.m_size + 1) :
       GoesOn(ThenStored(q, q.self.m_size - 1, Given(Head(todo).bytes)))

AppendData ==
  /\ Executes("append")
  /\ IF Head(todo).bytes = <<>> THEN GoesOn(Self)
     ELSE \E q \in ArrayAppended(Self, Given(Head(todo).bytes)) : GoesOn(q)

Resize ==
  /\ Executes("resize")
  /\ \E q \in ArrayReallocated(Self, Len(str) \div 2) : GoesOn(q)

(* An iteration of byte_array_of, and its end. *)
ParseByte ==
  /\ Executes("parse")
  /\ Continues(str, object[capdu].m_size, pos)
  /\ Ends(capdu, Stored(Self, pos \div 2, <<ByteAt(str, pos)>>))
  /\ pos' = NextPos(pos)
  /\ UNCHANGED <<todo, str, intended>>

ParseEnds ==
  /\ Executes("parse")
  /\ ~ Continues(str, object[capdu].m_size, pos)
  /\ GoesOn(Self)

Cleanup ==
  /\ Executes("cleanup")
  /\ GoesOn(CleanedUp(Self))

End ==
  /\ Executes("end")
  /\ Ends(capdu, [Self EXCEPT !.self = Dead])
  /\ todo' = <<>> /\ str' = <<>> /\ pos' = 0 /\ intended' = <<>>

Program ==
  /\ fault = "none"
  /\ \/ Count \/ SetHeader \/ PushBack \/ AppendData \/ Resize
     \/ ParseByte \/ ParseEnds \/ Cleanup \/ End

Client ==
  /\ fault = "none"
  /\ \/ \E h \in Header : FromHeader(h)
     \/ \E h \in Header, d \in Data : FromData(h, d)
     \/ \E h \in Header, d \in Data, le \in Le : FromDataAndLe(h, d, le)
     \/ \E text \in Text : FromString(text)
     \/ \E bytes \in Dump, upper_case \in BOOLEAN : FromDump(bytes, upper_case)
     \/ \E sw2 \in Le : GetResponse(sw2)
     \/ Destructor

Next == Client \/ Program

(* The program goes on with what it has begun; no call of it waits. *)
Spec == CommandInit /\ [][Next]_vars /\ WF_vars(Program)
-----------------------------------------------------------------------------
Command == Bytes(heap, object[capdu].data, 0, object[capdu].m_size)

(* The client wants a length in front of the data that no byte can hold. *)
Overlong == \E i \in DOMAIN intended : intended[i] \notin Byte

(* Whatever allocations fail, and however far the constructors go on without
   looking: a command that came out as long as it should has the bytes it
   should have, and one that did not is shorter.  The client can tell by the
   size. *)
LengthTells ==
  Finished /\ ~ Overlong =>
    \/ Command = intended
    \/ Len(Command) < Len(intended)

(* With an allocator that throws there are no such commands: what is finished
   is what was intended, the string written by hex_string_of, in either case,
   means the bytes it was made of, and nothing crashes on the way. *)
ThrowingIsExact ==
  allocatorThrows =>
    /\ fault = "none"
    /\ Finished /\ ~ Overlong => Command = intended

(* The block of a command is freed once, though its destructor runs twice and
   also runs for constructors that are left half way. *)
FreedOnce ==
  /\ \A a \in Addr : heap[a] # Free => Exists /\ object[capdu].data = a
  /\ Exists /\ object[capdu].data # NULL => heap[object[capdu].data] # Free

(* A constructor that was called ends, or crashes, if its string is shorter
   than 256 characters.  (For longer ones the counter of eight bits starts
   again at 0 for ever.) *)
ConstructionEnds ==
  (todo # <<>> /\ Len(str) < 256) ~> (todo = <<>> \/ fault # "none")
=============================================================================
