--------------------------- MODULE CommandApduProofs ---------------------------
(***************************************************************************)
(* Proofs about CommandApdu, for any header, data, length bytes and        *)
(* strings, and any failures of the allocator.                             *)
(*                                                                         *)
(* The invariant follows the program through the calls that are left.      *)
(* What the command has so far and what the calls will still append make   *)
(* up what is intended; once the memory manager has answered NULL to a     *)
(* push_back, they are too short and stay it.                              *)
(***************************************************************************)
EXTENDS CommandApdu, ByteHeapArrayProofs, SequenceTheorems

Calls == [name : CallName, bytes : Seq(Byte)]

(* The calls that append. *)
Appending ==
  {c \in [name : {"push_back", "append"}, bytes : Seq(Byte)] :
     c.name = "push_back" => Len(c.bytes) = 1}

Tails == {t \in Seq(Appending) : Len(t) <= 3}

(* What they append. *)
Part(t, i) == IF i <= Len(t) THEN t[i].bytes ELSE <<>>

Coming(t) == Part(t, 1) \o (Part(t, 2) \o Part(t, 3))

(* The bytes of the container self in the heap h. *)
Content(self, h) == IF self.data = NULL THEN <<>> ELSE h[self.data]

SoFar == Content(object[capdu], heap)

(* With c in the command, or about to be, t leads to what is intended, or the
   command will be too short. *)
Leads(c, t) == ~ Overlong => c \o Coming(t) = intended

TooShort(c, t) == ~ Overlong => Len(c) + Len(Coming(t)) < Len(intended)

(* What the client intends with data: the header h, the length, the data and
   the byte behind it, if any; and what is appended to the header. *)
Whole(h, data, x) == ((h \o <<Len(data)>>) \o data) \o x

Rest(data, x) == <<LcOf(data)>> \o (data \o x)

AreBytes(s) == \A i \in DOMAIN s : s[i] \in Byte

(* The points the program can be at. *)
Nothing == todo = <<>> /\ ~ Exists

Dying ==
  /\ Exists
  /\ \/ todo = Destruction
     \/ todo \in {Tail(Destruction), Tail(Tail(Destruction))} /\ object[capdu] = NoArray

AtCount(h, t) ==
  /\ todo = WithHeader(h) \o t
  /\ object[capdu] = NoArray
  /\ Leads(h, t)

(* An allocation gave the array the size n, or it failed and did not throw. *)
Sized(n) ==
  \/ object[capdu].data # NULL /\ object[capdu].m_size = n
  \/ object[capdu].data = NULL /\ ~ allocatorThrows

AtHeader(h, t) ==
  /\ todo = <<Call("header", h)>> \o t
  /\ Sized(4)
  /\ Leads(h, t)

AtResize(t) ==
  /\ todo = Parse \o t
  /\ object[capdu] = NoArray /\ pos = 0
  /\ Leads(Meaning(str), t)

(* The bytes in front of the counter have been parsed. *)
AtParse(t) ==
  /\ todo = <<Call("parse", <<>>)>> \o t
  /\ Sized(Len(str) \div 2)
  /\ \A i \in 1..Len(SoFar) : 2 * i <= pos => SoFar[i] = ByteAt(str, 2 * (i - 1))
  /\ Leads(Meaning(str), t)

AtTail(t) ==
  /\ todo = t
  /\ Leads(SoFar, t) \/ (~ allocatorThrows /\ TooShort(SoFar, t))

Constructing(t) ==
  \/ \E h \in Header : AtCount(h, t) \/ AtHeader(h, t)
  \/ AtResize(t) \/ AtParse(t) \/ AtTail(t)

AtSome ==
  \/ Nothing
  \/ Dying
  \/ Exists /\ \E t \in Tails : Constructing(t)

(* Only the memory manager's NULL leads to a crash, of a command that lacks
   something. *)
CrashedShort == Exists /\ ~ allocatorThrows /\ TooShort(SoFar, <<>>)

IInv ==
  /\ Owned
  /\ CommandTypeOK
  /\ str \in Seq(Character)
  /\ Exists => IsArray(capdu)
  /\ IF fault = "none" THEN AtSome ELSE CrashedShort

-----------------------------------------------------------------------------
(* Sequences. *)

LEMMA ConsIs ==
  ASSUME NEW S, NEW x \in S, NEW t \in Seq(S)
  PROVE  /\ <<x>> \o t \in Seq(S) /\ <<x>> \o t # <<>>
         /\ Head(<<x>> \o t) = x /\ Tail(<<x>> \o t) = t
<1>1. PICK u : u = <<x>> \o t
  OBVIOUS
<1>2. /\ u \in Seq(S) /\ Len(u) = Len(t) + 1 /\ u[1] = x
      /\ \A i \in 1..Len(t) : u[i + 1] = t[i]
  BY <1>1
<1>3. u # <<>> /\ Head(u) = x
  BY <1>2
<1>4. Tail(u) \in Seq(S) /\ Len(Tail(u)) = Len(t) /\ \A i \in 1..Len(t) : Tail(u)[i] = t[i]
  BY <1>2, <1>3
<1>5. Tail(u) = t
  BY <1>4
<1> QED
  BY <1>1, <1>2, <1>3, <1>5

LEMMA ConsTwo ==
  ASSUME NEW S, NEW x \in S, NEW y \in S, NEW t \in Seq(S)
  PROVE  <<x, y>> \o t = <<x>> \o (<<y>> \o t)
<1>1. <<x, y>> = <<x>> \o <<y>>
  <2>1. PICK u, v : u = <<x, y>> /\ v = <<x>> \o <<y>>
    OBVIOUS
  <2>2. u \in Seq(S) /\ Len(u) = 2 /\ u[1] = x /\ u[2] = y
    BY <2>1
  <2>3. v \in Seq(S) /\ Len(v) = 2 /\ v[1] = x /\ v[2] = y
    BY <2>1
  <2>4. u = v
    BY <2>2, <2>3, SeqEqual
  <2> QED
    BY <2>1, <2>4
<1> QED
  BY <1>1, ConcatAssociative

LEMMA WithOneMore ==
  ASSUME NEW S, NEW s \in Seq(S), NEW b \in Seq(S), Len(b) = 1,
         NEW u \in Seq(S), Len(u) = Len(s) + 1,
         \A i \in 1..Len(s) : u[i] = s[i], u[Len(s) + 1] = b[1]
  PROVE  u = s \o b
<1>1. PICK v : v = s \o b
  OBVIOUS
<1>2. PICK n \in Nat : n = Len(s)
  OBVIOUS
<1>3. /\ v \in Seq(S) /\ Len(v) = n + 1
      /\ \A i \in 1..(n + 1) : v[i] = IF i <= n THEN s[i] ELSE b[i - n]
  <2>1. /\ s \o b \in Seq(S) /\ Len(s \o b) = Len(s) + Len(b)
        /\ \A i \in 1..(Len(s) + Len(b)) :
             (s \o b)[i] = IF i <= Len(s) THEN s[i] ELSE b[i - Len(s)]
    BY ConcatProperties
  <2> QED
    BY <1>1, <1>2, <2>1
<1>4. ASSUME NEW i \in 1..(n + 1) PROVE u[i] = v[i]
  <2>1. CASE i <= n
    BY <1>2, <1>3, <2>1
  <2>2. CASE ~ (i <= n)
    <3>1. i = n + 1 /\ i - n = 1
      BY <1>2, <2>2
    <3>2. v[n + 1] = b[1]
      BY <1>3, <2>2, <3>1
    <3> QED
      BY <1>2, <3>1, <3>2
  <2> QED
    BY <2>1, <2>2
<1>5. Len(u) = Len(v) /\ \A i \in 1..Len(u) : u[i] = v[i]
  BY <1>2, <1>3, <1>4
<1> QED
  BY <1>1, <1>3, <1>5, SeqEqual

(* What a tail of calls appends. *)
LEMMA ComingIs ==
  ASSUME NEW t \in Tails
  PROVE  Coming(t) \in Seq(Byte)
<1>1. \A i \in {1, 2, 3} : Part(t, i) \in Seq(Byte)
  BY DEF Tails, Appending, Part
<1> QED
  BY <1>1 DEF Coming

LEMMA ComingOfNone == <<>> \in Tails /\ Coming(<<>>) = <<>>
  BY DEF Coming, Part, Tails

LEMMA ComingAfter ==
  ASSUME NEW t \in Tails, t # <<>>
  PROVE  /\ Head(t) \in Appending /\ Tail(t) \in Tails
         /\ Head(t).bytes \in Seq(Byte)
         /\ Coming(t) = Head(t).bytes \o Coming(Tail(t))
<1>1. t \in Seq(Appending) /\ Len(t) \in 1..3
  <2>1. t \in Seq(Appending) /\ Len(t) <= 3
    BY DEF Tails
  <2>2. \A n \in Nat \ {0} : n <= 3 => n \in 1..3
    OBVIOUS
  <2>3. Len(t) \in Nat \ {0}
    BY <2>1, EmptySeq
  <2> QED
    BY <2>1, <2>2, <2>3, Zenon
<1>2. PICK u : u = Tail(t)
  OBVIOUS
<1>3. /\ Head(t) = t[1] /\ t[1] \in Appending /\ u \in Seq(Appending) /\ Len(u) = Len(t) - 1
      /\ \A i \in 1..Len(u) : u[i] = t[i + 1]
  BY <1>1, <1>2
<1>4. Part(t, 1) = Head(t).bytes /\ Part(u, 1) = Part(t, 2) /\ Part(u, 2) = Part(t, 3)
      /\ Part(u, 3) = <<>>
  BY <1>1, <1>3 DEF Part
<1>5. \A i \in {1, 2, 3} : Part(t, i) \in Seq(Byte)
  BY <1>1 DEF Appending, Part
<1>6. Part(t, 3) \o <<>> = Part(t, 3)
  BY <1>5
<1>7. Coming(t) = Part(t, 1) \o (Part(t, 2) \o Part(t, 3))
  BY DEF Coming
<1>8. Coming(u) = Part(t, 2) \o Part(t, 3)
  BY <1>4, <1>6 DEF Coming
<1>9. u \in Tails
  BY <1>1, <1>3 DEF Tails
<1>10. Coming(t) = Head(t).bytes \o Coming(u)
  BY <1>4, <1>7, <1>8
<1> QED
  BY <1>2, <1>3, <1>4, <1>5, <1>9, <1>10
-----------------------------------------------------------------------------
(* Strings of digits. *)

LEMMA DigitIs == \A c : ascii_to_hex_map(c) \in 0..15
<1> SUFFICES ASSUME NEW c PROVE ascii_to_hex_map(c) \in 0..15
  OBVIOUS
<1>1. PICK at : at = {i \in 1..16 : c \in {characters_upper_case[i], characters_lower_case[i]}}
  OBVIOUS
<1>2. at # {} => (CHOOSE i \in at : TRUE) \in at
  OBVIOUS
<1>3. ascii_to_hex_map(c) = IF at = {} THEN 0 ELSE (CHOOSE i \in at : TRUE) - 1
  BY <1>1 DEF ascii_to_hex_map
<1> QED
  BY <1>1, <1>2, <1>3

LEMMA CharactersDiffer ==
  \A i, j \in 1..16 :
    /\ characters_upper_case[i] = characters_upper_case[j] => i = j
    /\ characters_lower_case[i] = characters_lower_case[j] => i = j
    /\ characters_upper_case[i] = characters_lower_case[j] => i = j
  BY SMTT(60) DEF characters_upper_case, characters_lower_case

LEMMA DigitOf ==
  ASSUME NEW k \in 0..15,
         NEW c \in {characters_upper_case[k + 1], characters_lower_case[k + 1]}
  PROVE  ascii_to_hex_map(c) = k
<1>1. PICK at : at = {i \in 1..16 : c \in {characters_upper_case[i], characters_lower_case[i]}}
  OBVIOUS
<1>2. k + 1 \in 1..16
  OBVIOUS
<1>3. at = {k + 1}
  BY <1>1, <1>2, CharactersDiffer
<1>4. (CHOOSE i \in at : TRUE) = k + 1
  BY <1>3
<1>5. ascii_to_hex_map(c) = IF at = {} THEN 0 ELSE (CHOOSE i \in at : TRUE) - 1
  BY <1>1 DEF ascii_to_hex_map
<1> QED
  BY <1>3, <1>4, <1>5
LEMMA ByteAtIs ==
  ASSUME NEW s, NEW p
  PROVE  ByteAt(s, p) \in 0..255
<1>1. PICK m, n : /\ m = ascii_to_hex_map(s[p + 1])
                  /\ n = IF p + 2 <= Len(s) THEN ascii_to_hex_map(s[p + 2]) ELSE 0
  OBVIOUS
<1>2. m \in 0..15 /\ n \in 0..15
  BY <1>1, DigitIs
<1>3. ByteAt(s, p) = 16 * m + n
  BY <1>1 DEF ByteAt
<1> QED
  BY <1>2, <1>3

LEMMA MeaningIs ==
  ASSUME NEW s \in Seq(Character)
  PROVE  /\ Meaning(s) \in Seq(Byte) /\ Len(Meaning(s)) = Len(s) \div 2
         /\ \A i \in 1..(Len(s) \div 2) : Meaning(s)[i] = ByteAt(s, 2 * (i - 1))
<1>1. Len(s) \div 2 \in Nat
  OBVIOUS
<1>2. Meaning(s) \in [1..(Len(s) \div 2) -> Byte]
  BY ByteAtIs, CommandAssumption DEF Meaning
<1>3. Meaning(s) \in Seq(Byte)
  BY <1>1, <1>2
<1> QED
  BY <1>1, <1>2, <1>3 DEF Meaning

LEMMA DigitsOfByte ==
  ASSUME NEW x \in 0..255
  PROVE  /\ x \div 16 \in 0..15 /\ x % 16 \in 0..15 /\ 16 * (x \div 16) + (x % 16) = x
         /\ (x \div 16) + 1 \in 1..16 /\ (x % 16) + 1 \in 1..16
  OBVIOUS

(* hex_string_of and byte_array_of of hex.hpp agree: what one writes for any
   bytes, in either case, means these bytes to the other, pair by pair. *)
THEOREM StringMeansBytes ==
  ASSUME NEW b \in Seq(Byte), NEW upper_case \in BOOLEAN
  PROVE  /\ hex_string_of(b, upper_case) \in Seq(Character)
         /\ Meaning(hex_string_of(b, upper_case)) = b
<1> DEFINE characters == IF upper_case THEN characters_upper_case
                                       ELSE characters_lower_case
           digits(x) == <<characters[(x \div 16) + 1], characters[(x % 16) + 1]>>
<1>1. PICK s : s = [i \in 1..(2 * Len(b)) |->
                      digits(b[(i + 1) \div 2])[IF i % 2 = 1 THEN 1 ELSE 2]]
  OBVIOUS
<1>2. hex_string_of(b, upper_case) = s
  BY <1>1 DEF hex_string_of
<1>3. \A i \in 1..16 : characters[i] \in Character
  BY CommandAssumption
<1>4. ASSUME NEW x \in Byte
      PROVE  /\ x \div 16 \in 0..15 /\ x % 16 \in 0..15 /\ 16 * (x \div 16) + (x % 16) = x
             /\ (x \div 16) + 1 \in 1..16 /\ (x % 16) + 1 \in 1..16
  <2>1. x \in 0..255
    BY CommandAssumption
  <2> QED
    BY <2>1, DigitsOfByte
<1>5. ASSUME NEW x \in Byte
      PROVE  /\ digits(x)[1] = characters[(x \div 16) + 1] /\ digits(x)[1] \in Character
             /\ digits(x)[2] = characters[(x % 16) + 1] /\ digits(x)[2] \in Character
  BY <1>3, <1>4
<1>6. ASSUME NEW x \in Byte
      PROVE  /\ ascii_to_hex_map(digits(x)[1]) = x \div 16
             /\ ascii_to_hex_map(digits(x)[2]) = x % 16
  <2>1. \A k \in 0..15 : characters[k + 1] \in {characters_upper_case[k + 1],
                                                characters_lower_case[k + 1]}
    OBVIOUS
  <2> HIDE DEF characters
  <2> QED
    BY <1>4, <1>5, <2>1, DigitOf
<1> HIDE DEF digits, characters
<1>7. ASSUME NEW i \in 1..(2 * Len(b)) PROVE s[i] \in Character
  <2>1. (i + 1) \div 2 \in 1..Len(b)
    OBVIOUS
  <2>2. b[(i + 1) \div 2] \in Byte
    BY <2>1
  <2> QED
    BY <1>1, <1>5, <2>2
<1>8. s \in Seq(Character) /\ Len(s) = 2 * Len(b)
  <2>1. s \in [1..(2 * Len(b)) -> Character] /\ 2 * Len(b) \in Nat
    BY <1>1, <1>7
  <2> QED
    BY <2>1
<1>9. ASSUME NEW i \in 1..Len(b) PROVE ByteAt(s, 2 * (i - 1)) = b[i]
  <2>1. PICK p : p = 2 * (i - 1)
    OBVIOUS
  <2>2. /\ p + 1 \in 1..(2 * Len(b)) /\ p + 2 \in 1..(2 * Len(b)) /\ p + 2 <= Len(s)
        /\ ((p + 1) + 1) \div 2 = i /\ ((p + 2) + 1) \div 2 = i
        /\ (p + 1) % 2 = 1 /\ (p + 2) % 2 = 0
    BY <1>8, <2>1
  <2>3. s[p + 1] = digits(b[i])[1] /\ s[p + 2] = digits(b[i])[2]
    BY <1>1, <2>2
  <2>4. PICK x : x = b[i]
    OBVIOUS
  <2>5. x \in Byte /\ s[p + 1] = digits(x)[1] /\ s[p + 2] = digits(x)[2]
    BY <2>3, <2>4
  <2>6. /\ ascii_to_hex_map(s[p + 1]) = x \div 16
        /\ ascii_to_hex_map(s[p + 2]) = x % 16
    BY <1>6, <2>5
  <2>7. ByteAt(s, p) = 16 * ascii_to_hex_map(s[p + 1]) + ascii_to_hex_map(s[p + 2])
    BY <2>2 DEF ByteAt
  <2>8. ByteAt(s, p) = 16 * (x \div 16) + (x % 16)
    BY <2>6, <2>7, Zenon
  <2> QED
    BY <1>4, <2>1, <2>4, <2>5, <2>8
<1>10. Meaning(s) = b
  <2>1. Len(s) \div 2 = Len(b)
    BY <1>8
  <2>2. Meaning(s) \in Seq(Byte) /\ Len(Meaning(s)) = Len(b)
    BY <1>8, <2>1, MeaningIs
  <2>3. \A i \in 1..Len(b) : Meaning(s)[i] = b[i]
    BY <1>8, <1>9, <2>1, MeaningIs
  <2> QED
    BY <2>2, <2>3
<1> QED
  BY <1>2, <1>8, <1>10

(* The class and the instruction of GET RESPONSE. *)
LEMMA GetResponseMeans ==
  LET s == <<"8", "0", "C", "0", "0", "0", "0", "0">>
  IN  s \in Seq(Character) /\ Meaning(s) = <<128, 192, 0, 0>>
<1>1. PICK s : s = <<"8", "0", "C", "0", "0", "0", "0", "0">>
  OBVIOUS
<1>2. s \in Seq(Character) /\ Len(s) = 8
  <2>1. /\ characters_upper_case[8 + 1] = "8" /\ characters_upper_case[0 + 1] = "0"
        /\ characters_upper_case[12 + 1] = "C"
    BY DEF characters_upper_case
  <2>2. \A k \in 0..15 : characters_upper_case[k + 1] \in Character
    BY CommandAssumption
  <2>3. "8" \in Character /\ "0" \in Character /\ "C" \in Character
    BY <2>1, <2>2
  <2> QED
    BY <1>1, <2>3
<1>3. /\ ascii_to_hex_map("8") = 8 /\ ascii_to_hex_map("0") = 0
      /\ ascii_to_hex_map("C") = 12
  <2>1. /\ characters_upper_case[8 + 1] = "8" /\ characters_upper_case[0 + 1] = "0"
        /\ characters_upper_case[12 + 1] = "C"
    BY DEF characters_upper_case
  <2>2. \A k \in 0..15 : ascii_to_hex_map(characters_upper_case[k + 1]) = k
    BY DigitOf
  <2> QED
    BY <2>1, <2>2
<1>4. /\ ByteAt(s, 0) = 128 /\ ByteAt(s, 2) = 192 /\ ByteAt(s, 4) = 0 /\ ByteAt(s, 6) = 0
  BY <1>1, <1>2, <1>3 DEF ByteAt
<1>5. Meaning(s) = <<128, 192, 0, 0>>
  <2>0. Len(s) \div 2 = 4
    BY <1>2
  <2>1. Meaning(s) \in Seq(Byte) /\ Len(Meaning(s)) = 4
    BY <1>2, <2>0, MeaningIs
  <2>2. \A i \in 1..4 : Meaning(s)[i] = ByteAt(s, 2 * (i - 1))
    BY <1>2, <2>0, MeaningIs
  <2> QED
    BY <1>4, <2>1, <2>2
<1> QED
  BY <1>1, <1>2, <1>5
-----------------------------------------------------------------------------
(* What the operations of ByteHeapArray do to the bytes of an array. *)

LEMMA BytesAreValues == \A s \in Seq(Byte) : s \in Block /\ Operand(heap, Given(s)) = s
<1>1. Byte \subseteq Value
  BY DEF Value
<1> QED
  BY <1>1, SeqMonotonic DEF Block, Operand, Given

LEMMA ContentIs ==
  ASSUME NEW rest \in SUBSET Addr, NEW r, Sound(r, rest), r.self.kind = "array"
  PROVE  /\ Content(r.self, r.heap) \in Block /\ r.self.m_size \in Nat
         /\ Len(Content(r.self, r.heap)) = r.self.m_size
<1>1. r \in Runs /\ r.heap \in Heaps /\ r.self \in Array /\ r.self.data \in Addr \cup {NULL}
  BY DEF Sound, Runs, Array, Buffer
<1>2. CASE r.self.data = NULL
  <2>1. r.self.m_size = 0 /\ Content(r.self, r.heap) = <<>>
    BY <1>2 DEF Content, Sound, Fitting
  <2> QED
    BY <2>1, EmptySeq DEF Block
<1>3. CASE r.self.data # NULL
  <2>1. /\ r.heap[r.self.data] \in Block /\ Len(r.heap[r.self.data]) = r.self.m_size
        /\ Content(r.self, r.heap) = r.heap[r.self.data]
    BY <1>1, <1>3 DEF Content, Sound, Fitting, Heaps, Capacity
  <2> QED
    BY <1>1, <2>1 DEF Array
<1> QED
  BY <1>2, <1>3

LEMMA ContentRead ==
  ASSUME NEW rest \in SUBSET Addr, NEW r, Sound(r, rest), r.self.kind = "array",
         NEW n \in Nat, n <= r.self.m_size
  PROVE  /\ Bytes(r.heap, r.self.data, 0, n) \in Block
         /\ Len(Bytes(r.heap, r.self.data, 0, n)) = n
         /\ \A i \in 1..n :
              Bytes(r.heap, r.self.data, 0, n)[i] = Content(r.self, r.heap)[i]
<1>1. r.heap \in Heaps /\ r.self.data \in Addr \cup {NULL} /\ 0 \in Nat
  BY DEF Sound, Runs, Array, Buffer
<1>2. PICK b : b = Bytes(r.heap, r.self.data, 0, n)
  OBVIOUS
<1>3. b \in Block /\ Len(b) = n
  BY <1>1, <1>2, BytesAre
<1>4. ASSUME NEW i \in 1..n PROVE b[i] = Content(r.self, r.heap)[i]
  <2>1. r.self.m_size \in Nat /\ i <= r.self.m_size /\ r.self.m_size # 0
    BY ContentIs
  <2>2. r.self.data # NULL
    BY <2>1 DEF Sound, Fitting
  <2>3. r.heap[r.self.data] # Free /\ Len(r.heap[r.self.data]) = r.self.m_size
    BY <2>2 DEF Sound, Fitting, Capacity
  <2>4. b[i] = r.heap[r.self.data][0 + i]
    BY <1>2, <2>1, <2>2, <2>3 DEF Bytes
  <2> QED
    BY <2>2, <2>4 DEF Content
<1> QED
  BY <1>2, <1>3, <1>4

LEMMA MovesContent ==
  ASSUME NEW rest \in SUBSET Addr, NEW r, Sound(r, rest), r.self.kind = "array",
         NEW s \in Block, NEW q \in ArrayMoves(r, s)
  PROVE  \/ q.failed /\ Content(q.self, q.heap) = Content(r.self, r.heap)
         \/ q.failed = r.failed /\ Content(q.self, q.heap) = s
<1>1. r \in Runs /\ r.self \in Array
  BY DEF Sound, Runs, Array, Buffer
<1>2. CASE q = Failed(r)
  <2>1. q.failed /\ q.self = r.self /\ q.heap = r.heap
    BY <1>1, <1>2 DEF Failed, Runs
  <2> QED
    BY <2>1
<1>3. ASSUME NEW p \in Moves(r, s), q = [p EXCEPT !.self.m_size = Len(s)]
      PROVE  q.failed = r.failed /\ Content(q.self, q.heap) = s
  <2>1. PICK a \in Addr :
          p = [r EXCEPT !.heap = [Released(r).heap EXCEPT ![a] = s], !.self.data = a]
    BY DEF Moves
  <2>2. PICK h : h = [Released(r).heap EXCEPT ![a] = s]
    OBVIOUS
  <2>3. Released(r).heap \in Heaps
    BY ReleasedIs
  <2>4. h[a] = s
    BY <2>2, <2>3 DEF Heaps
  <2>5. p = [r EXCEPT !.heap = h, !.self.data = a]
    BY <2>1, <2>2
  <2>6. /\ p.heap = h /\ p.failed = r.failed
        /\ p.self = [kind |-> "array", data |-> a, m_size |-> r.self.m_size]
        /\ p = [heap |-> h, self |-> p.self, failed |-> r.failed, fault |-> r.fault]
    BY <1>1, <2>5 DEF Runs, Array
  <2>7. q.heap = h /\ q.failed = r.failed /\ q.self.data = a
    BY <1>3, <2>6
  <2> QED
    BY <2>4, <2>7, ObjectsAssumption DEF Content
<1> QED
  BY <1>2, <1>3 DEF ArrayMoves

LEMMA ReallocatedContent ==
  ASSUME NEW rest \in SUBSET Addr, NEW r, Sound(r, rest), r.self.kind = "array",
         NEW n \in Nat, NEW q \in ArrayReallocated(r, n)
  PROVE  \/ q.failed /\ Content(q.self, q.heap) = Content(r.self, r.heap)
         \/ /\ q.failed = r.failed
            /\ \A i \in 1..n :
                 i <= r.self.m_size => Content(q.self, q.heap)[i] = Content(r.self, r.heap)[i]
<1>1. CASE r.self.m_size = n /\ r.self.data # NULL
  BY <1>1 DEF ArrayReallocated
<1>2. CASE ~ (r.self.m_size = n /\ r.self.data # NULL)
  <2>0. r.self.m_size \in Nat
    BY ContentIs
  <2>1. PICK m : m = Smaller(r.self.m_size, n)
    OBVIOUS
  <2>2. m \in Nat /\ m <= n /\ m <= r.self.m_size /\ (m = n \/ m = r.self.m_size)
    BY <2>0, <2>1 DEF Smaller
  <2>3. PICK kept : kept = Bytes(r.heap, r.self.data, 0, m)
    OBVIOUS
  <2>4. /\ kept \in Block /\ Len(kept) = m
        /\ \A i \in 1..m : kept[i] = Content(r.self, r.heap)[i]
    BY <2>2, <2>3, ContentRead
  <2>5. n - m \in Nat
    BY <2>2
  <2>6. PICK u : u = Unwritten(n - m)
    OBVIOUS
  <2>7. u \in Block
    BY <2>5, <2>6, UnwrittenIs
  <2>8. /\ kept \o u \in Block
        /\ \A i \in 1..m : (kept \o u)[i] = kept[i]
    BY <2>4, <2>7 DEF Block
  <2>9. q \in ArrayMoves(r, kept \o u)
    BY <1>2, <2>1, <2>3, <2>4, <2>6 DEF ArrayReallocated
  <2>10. \/ q.failed /\ Content(q.self, q.heap) = Content(r.self, r.heap)
         \/ q.failed = r.failed /\ Content(q.self, q.heap) = kept \o u
    BY <2>8, <2>9, MovesContent
  <2>11. \A i \in 1..n : i <= r.self.m_size => i \in 1..m
    BY <2>0, <2>2
  <2> QED
    BY <2>4, <2>8, <2>10, <2>11
<1> QED
  BY <1>1, <1>2

LEMMA AppendedContent ==
  ASSUME NEW rest \in SUBSET Addr, NEW r, Sound(r, rest), r.self.kind = "array",
         ~ r.failed, NEW s \in Seq(Byte), NEW q \in ArrayAppended(r, Given(s))
  PROVE  /\ q.self.kind = "array"
         /\ Thrown(q) \/ q.fault # "none"
              \/ Content(q.self, q.heap) = Content(r.self, r.heap) \o s
<1>1. PICK kept : kept = Bytes(r.heap, r.self.data, 0, r.self.m_size)
  OBVIOUS
<1>2. r.self.m_size \in Nat /\ r.self.m_size <= r.self.m_size
  BY ContentIs
<1>3. kept = Content(r.self, r.heap)
  <2>1. /\ kept \in Block /\ Len(kept) = r.self.m_size
        /\ \A i \in 1..r.self.m_size : kept[i] = Content(r.self, r.heap)[i]
    BY <1>1, <1>2, ContentRead
  <2>2. /\ Content(r.self, r.heap) \in Block
        /\ Len(Content(r.self, r.heap)) = r.self.m_size
    BY ContentIs
  <2> QED
    BY <2>1, <2>2, SeqEqual DEF Block
<1>4. Operand(Released(r).heap, Given(s)) = s
  BY DEF Operand, Given
<1>5. PICK p \in ArrayMoves(r, kept \o s) :
        q = IF p.failed /\ ~ Thrown(p) THEN Crashed(p, "null") ELSE p
  BY <1>1, <1>4 DEF ArrayAppended
<1>6. kept \o s \in Block
  <2>1. kept \in Block /\ s \in Block
    BY <1>3, ContentIs, BytesAreValues
  <2> QED
    BY <2>1 DEF Block
<1>7. Sound(p, rest) /\ p.self.kind = "array"
  BY <1>5, <1>6, ArrayMovesSound
<1>8. p.failed \/ Content(p.self, p.heap) = kept \o s
  BY <1>5, <1>6, MovesContent
<1>9. CASE p.failed /\ ~ Thrown(p)
  <2>1. q.self = p.self /\ q.fault = "null"
    BY <1>5, <1>7, <1>9 DEF Crashed, Sound, Runs
  <2> QED
    BY <1>7, <2>1
<1>10. CASE ~ (p.failed /\ ~ Thrown(p))
  BY <1>3, <1>5, <1>7, <1>8, <1>10
<1> QED
  BY <1>9, <1>10

LEMMA StoredContent ==
  ASSUME NEW rest \in SUBSET Addr, NEW r, Sound(r, rest), r.self.kind = "array",
         NEW at \in Int, NEW s \in Block, s # <<>>,
         NEW u, u = Stored(r, at, s), u.fault = "none"
  PROVE  /\ r.self.data # NULL
         /\ at >= 0 /\ at + Len(s) <= r.self.m_size
         /\ Content(u.self, u.heap) \in Block
         /\ Len(Content(u.self, u.heap)) = r.self.m_size
         /\ \A i \in 1..r.self.m_size :
              Content(u.self, u.heap)[i] =
                IF i - at \in 1..Len(s) THEN s[i - at] ELSE Content(r.self, r.heap)[i]
<1>1. /\ r \in Runs /\ r.heap \in Heaps /\ r.self \in Array
      /\ r.self.data \in Addr \cup {NULL} /\ r.fault = "none"
  BY DEF Sound, Runs, Array, Buffer
<1>2. CASE r.self.data = NULL
  <2>1. Stored(r, at, s) = [r EXCEPT !.fault = "null"]
    BY <1>2 DEF Stored, Crashed
  <2> QED
    BY <1>1, <2>1 DEF Runs
<1>3. CASE r.self.data # NULL /\ (at < 0 \/ at + Len(s) > Len(r.heap[r.self.data]))
  <2>1. Stored(r, at, s) = [r EXCEPT !.fault = "outside"]
    BY <1>3 DEF Stored, Crashed
  <2> QED
    BY <1>1, <2>1 DEF Runs
<1>4. CASE r.self.data # NULL /\ ~ (at < 0 \/ at + Len(s) > Len(r.heap[r.self.data]))
  <2>1. PICK d, b : d = r.self.data /\ b = r.heap[d]
    OBVIOUS
  <2>2. PICK n : n = [i \in DOMAIN b |-> IF i - at \in DOMAIN s THEN s[i - at] ELSE b[i]]
    OBVIOUS
  <2>3. /\ d \in Addr /\ d # NULL /\ b \in Block /\ Content(r.self, r.heap) = b
        /\ Len(b) = r.self.m_size
    BY <1>1, <1>4, <2>1 DEF Sound, Fitting, Heaps, Capacity, Content
  <2>4. Len(b) \in Nat /\ DOMAIN b = 1..Len(b) /\ DOMAIN s = 1..Len(s) /\ Len(s) \in Nat
    BY <2>3, LenProperties DEF Block
  <2>5. Stored(r, at, s) = [r EXCEPT !.heap[d] = n]
    BY <1>1, <1>4, <2>1, <2>2 DEF Stored, Runs
  <2>7. u.self = r.self /\ u.heap[d] = n
    BY <1>1, <2>3, <2>5 DEF Runs, Heaps
  <2>8. Content(u.self, u.heap) = n
    BY <2>1, <2>3, <2>7 DEF Content
  <2>9. \A i \in 1..Len(b) : n[i] = IF i - at \in 1..Len(s) THEN s[i - at] ELSE b[i]
    BY <2>2, <2>4
  <2>10. n \in Block /\ Len(n) = Len(b)
    <3>1. \A i \in 1..Len(b) : b[i] \in Value
      BY <2>3 DEF Block
    <3>2. \A i \in 1..Len(s) : s[i] \in Value
      BY DEF Block
    <3>3. n \in [1..Len(b) -> Value]
      BY <2>2, <2>4, <3>1, <3>2
    <3>4. n \in Seq(Value)
      BY <2>4, <3>3
    <3> QED
      BY <2>4, <3>3, <3>4 DEF Block
  <2>11. at >= 0 /\ at + Len(s) <= r.self.m_size
    BY <1>4, <2>1, <2>3, <2>4
  <2> QED
    BY <1>4, <2>3, <2>8, <2>9, <2>10, <2>11
<1> QED
  BY <1>1, <1>2, <1>3, <1>4

LEMMA StoredInside ==
  ASSUME NEW rest \in SUBSET Addr, NEW r, Sound(r, rest), r.self.kind = "array",
         NEW at \in Nat, NEW s \in Block, r.self.data # NULL, at + Len(s) <= r.self.m_size
  PROVE  Stored(r, at, s).fault = "none"
<1>1. r.fault = "none" /\ Len(r.heap[r.self.data]) = r.self.m_size /\ r \in Runs
  BY DEF Sound, Fitting, Capacity
<1>2. ~ (at < 0 \/ at + Len(s) > Len(r.heap[r.self.data]))
  <2>1. Len(s) \in Nat /\ r.self.m_size \in Nat
    BY ContentIs DEF Block
  <2> QED
    BY <1>1, <2>1
<1> QED
  BY <1>1, <1>2 DEF Stored, Runs

-----------------------------------------------------------------------------
(* How a step of the program ends. *)

LEMMA SelfIs ==
  ASSUME IInv, Exists
  PROVE  /\ Sound(Self, Others(capdu)) /\ Others(capdu) \in SUBSET Addr /\ capdu \in Obj
         /\ Self.self = object[capdu] /\ Self.self.kind = "array" /\ Self.heap = heap
         /\ ~ Self.failed /\ Content(Self.self, Self.heap) = SoFar
         /\ SoFar \in Block /\ Len(SoFar) = object[capdu].m_size /\ Len(SoFar) \in Nat
<1>1. Owned /\ capdu \in Obj /\ capdu \in Living /\ IsArray(capdu)
  BY CommandAssumption DEF IInv, Living, Exists
<1>2. /\ Sound(Self, Others(capdu)) /\ Others(capdu) \in SUBSET Addr
      /\ Self.self = object[capdu] /\ ~ Self.failed
  BY <1>1, BegunSound, OthersAre DEF Self
<1>3. Self.self.kind = "array" /\ Self.heap = heap
  BY <1>1 DEF Self, Begun, IsArray, IsA
<1>4. Content(Self.self, Self.heap) = SoFar
  BY <1>2, <1>3 DEF SoFar
<1> QED
  BY <1>1, <1>2, <1>3, <1>4, ContentIs

LEMMA DestructionIs ==
  /\ Destruction \in Seq(Calls)
  /\ Destruction # <<>> /\ Head(Destruction).name = "cleanup"
  /\ Tail(Destruction) # <<>> /\ Head(Tail(Destruction)).name = "cleanup"
  /\ Tail(Tail(Destruction)) # <<>> /\ Head(Tail(Tail(Destruction))).name = "end"
<1>1. PICK c, e : c = Call("cleanup", <<>>) /\ e = Call("end", <<>>)
  OBVIOUS
<1>2. <<>> \in Seq(Byte)
  BY EmptySeq
<1>3. /\ c \in Calls /\ e \in Calls
      /\ c.name = "cleanup" /\ e.name = "end"
  BY <1>1, <1>2 DEF Call, CallName, Calls
<1>4. Destruction = <<c, c, e>>
  BY <1>1 DEF Destruction
<1>5. Tail(<<c, c, e>>) = <<c, e>> /\ Tail(<<c, e>>) = <<e>>
  OBVIOUS
<1> QED
  BY <1>3, <1>4, <1>5

LEMMA EndsTo ==
  ASSUME IInv, Exists, NEW q, Done(q, Others(capdu)), q.self.kind = "array", Ends(capdu, q)
  PROVE  /\ Owned' /\ Exists' /\ IsArray(capdu)'
         /\ fault' = q.fault /\ allocatorThrows' = allocatorThrows
         /\ q.fault = "none" => object'[capdu] = q.self /\ SoFar' = Content(q.self, q.heap)
         /\ q.fault # "none" => SoFar' = SoFar /\ ~ allocatorThrows
<1>1. capdu \in Obj /\ Owned /\ object \in [Obj -> Array \cup Buffer \cup {Dead}]
  BY CommandAssumption DEF IInv, Owned, TypeOK
<1>2. Owned'
  BY <1>1, DoneEnds
<1>3. /\ fault' = q.fault /\ allocatorThrows' = allocatorThrows
      /\ q.fault = "none" => heap' = q.heap /\ object'[capdu] = q.self
      /\ q.fault # "none" => UNCHANGED <<heap, object>>
  BY <1>1 DEF Ends
<1>4. CASE q.fault = "none"
  <2>1. q.self \in Array \cup Buffer
    BY DEF Done, Runs
  <2>2. Exists' /\ IsArray(capdu)'
    BY <1>3, <1>4, <2>1, ObjectsAssumption DEF Exists, IsArray, IsA
  <2>3. SoFar' = Content(q.self, q.heap)
    BY <1>3, <1>4 DEF SoFar, Content
  <2> QED
    BY <1>2, <1>3, <1>4, <2>2, <2>3
<1>5. CASE q.fault # "none"
  <2>1. ~ allocatorThrows
    BY <1>5 DEF Done, Sound
  <2>2. SoFar' = SoFar /\ Exists' /\ IsArray(capdu)'
    BY <1>3, <1>5 DEF SoFar, Content, Exists, IsArray, IsA, IInv
  <2> QED
    BY <1>2, <1>3, <1>5, <2>1, <2>2
<1> QED
  BY <1>4, <1>5

LEMMA GoesOnTo ==
  ASSUME IInv, Exists, todo # <<>>, NEW q, Done(q, Others(capdu)), q.self.kind = "array",
         GoesOn(q)
  PROVE  /\ Owned' /\ CommandTypeOK' /\ str' \in Seq(Character)
         /\ Exists' /\ IsArray(capdu)'
         /\ fault' = q.fault /\ allocatorThrows' = allocatorThrows
         /\ UNCHANGED <<str, pos, intended>>
         /\ q.fault = "none" => object'[capdu] = q.self /\ SoFar' = Content(q.self, q.heap)
         /\ q.fault # "none" => SoFar' = SoFar /\ ~ allocatorThrows
         /\ todo' = IF Thrown(q) THEN Destruction ELSE Tail(todo)
<1>1. /\ Ends(capdu, q) /\ UNCHANGED <<str, pos, intended>>
      /\ todo' = IF Thrown(q) THEN Destruction ELSE Tail(todo)
  BY DEF GoesOn
<1>2. /\ Owned' /\ Exists' /\ IsArray(capdu)'
      /\ fault' = q.fault /\ allocatorThrows' = allocatorThrows
      /\ q.fault = "none" => object'[capdu] = q.self /\ SoFar' = Content(q.self, q.heap)
      /\ q.fault # "none" => SoFar' = SoFar /\ ~ allocatorThrows
  BY <1>1, EndsTo
<1>3. todo' \in Seq(Calls)
  BY <1>1, DestructionIs, HeadTailProperties DEF IInv, CommandTypeOK, Calls
<1>4. CommandTypeOK'
  BY <1>1, <1>2, <1>3 DEF IInv, CommandTypeOK, Owned, Calls
<1> QED
  BY <1>1, <1>2, <1>4 DEF IInv

(* It is enough to look at the steps that neither throw nor crash. *)
LEMMA GoesOnKeeps ==
  ASSUME IInv, Exists, todo # <<>>, NEW q, Done(q, Others(capdu)), q.self.kind = "array",
         GoesOn(q),
         q.fault = "none" /\ ~ Thrown(q) => AtSome',
         q.fault # "none" => TooShort(SoFar, <<>>)
  PROVE  IInv'
<1>1. /\ Owned' /\ CommandTypeOK' /\ str' \in Seq(Character)
      /\ Exists' /\ IsArray(capdu)'
      /\ fault' = q.fault /\ allocatorThrows' = allocatorThrows
      /\ UNCHANGED intended
      /\ q.fault # "none" => SoFar' = SoFar /\ ~ allocatorThrows
      /\ todo' = IF Thrown(q) THEN Destruction ELSE Tail(todo)
  BY GoesOnTo
<1>2. CASE q.fault = "none" /\ ~ Thrown(q)
  BY <1>1, <1>2 DEF IInv
<1>3. CASE q.fault = "none" /\ Thrown(q)
  <2>1. Dying'
    BY <1>1, <1>3 DEF Dying, Destruction, Call
  <2> QED
    BY <1>1, <1>3, <2>1 DEF IInv, AtSome
<1>4. CASE q.fault # "none"
  <2>1. TooShort(SoFar, <<>>)'
    BY <1>1, <1>4 DEF TooShort, Overlong, Coming, Part
  <2> QED
    BY <1>1, <1>4, <2>1 DEF IInv, CrashedShort
<1> QED
  BY <1>2, <1>3, <1>4

LEMMA Lengths ==
  ASSUME NEW S, NEW s \in Seq(S), NEW u \in Seq(S)
  PROVE  Len(s \o u) = Len(s) + Len(u) /\ Len(s) \in Nat /\ Len(u) \in Nat
  OBVIOUS

LEMMA TailsAreCalls ==
  /\ Appending \subseteq Calls
  /\ \A t \in Tails : t \in Seq(Calls)
<1>1. Appending \subseteq Calls
  BY DEF Appending, Calls, CallName
<1> QED
  BY <1>1, SeqMonotonic DEF Tails

LEMMA HeaderIs ==
  \A h \in Header : h \in Seq(Byte) /\ Len(h) = 4 /\ h # <<>>
<1> SUFFICES ASSUME NEW h \in Header PROVE h \in Seq(Byte) /\ Len(h) = 4 /\ h # <<>>
  OBVIOUS
<1>1. PICK n \in Nat : n = 4
  OBVIOUS
<1>2. h \in [1..n -> Byte]
  BY <1>1, CommandAssumption
<1>3. h \in Seq(Byte) /\ Len(h) = n
  BY <1>2
<1> QED
  BY <1>1, <1>3

(* What is executed next, and what is left then, at each point. *)
LEMMA Points ==
  ASSUME NEW t \in Tails
  PROVE  /\ \A h \in Header : AtCount(h, t) =>
              Executes("count") /\ Tail(todo) = <<Call("header", h)>> \o t
         /\ \A h \in Header : AtHeader(h, t) =>
              Executes("header") /\ Head(todo).bytes = h /\ Tail(todo) = t
         /\ AtResize(t) =>
              Executes("resize") /\ Tail(todo) = <<Call("parse", <<>>)>> \o t
         /\ AtParse(t) => Executes("parse") /\ Tail(todo) = t
         /\ AtTail(t) => todo = <<>> \/ Executes("push_back") \/ Executes("append")
<1>1. t \in Seq(Calls) /\ <<>> \in Seq(Byte)
  BY TailsAreCalls, EmptySeq
<1>2. ASSUME NEW h \in Header
      PROVE  /\ AtCount(h, t) => Executes("count") /\ Tail(todo) = <<Call("header", h)>> \o t
             /\ AtHeader(h, t) => Executes("header") /\ Head(todo).bytes = h /\ Tail(todo) = t
  <2>1. PICK c, d : c = Call("count", <<>>) /\ d = Call("header", h)
    OBVIOUS
  <2>2. c \in Calls /\ c.name = "count" /\ d \in Calls /\ d.name = "header" /\ d.bytes = h
    BY <1>1, <2>1, HeaderIs DEF Calls, Call, CallName
  <2>3. PICK u : u = <<d>> \o t
    OBVIOUS
  <2>4. u \in Seq(Calls) /\ u # <<>> /\ Head(u) = d /\ Tail(u) = t
    BY <1>1, <2>2, <2>3, ConsIs
  <2>5. PICK v : v = <<c>> \o u
    OBVIOUS
  <2>6. v # <<>> /\ Head(v) = c /\ Tail(v) = u
    BY <2>2, <2>4, <2>5, ConsIs
  <2>7. <<c, d>> \o t = v
    <3>1. c \in Calls /\ d \in Calls /\ t \in Seq(Calls)
      BY <1>1, <2>2
    <3>2. <<c, d>> \o t = <<c>> \o (<<d>> \o t)
      BY <3>1, ConsTwo
    <3> QED
      BY <2>3, <2>5, <3>2
  <2>8. AtCount(h, t) => todo = v
    BY <2>1, <2>7 DEF AtCount, WithHeader
  <2>9. AtHeader(h, t) => todo = u
    BY <2>1, <2>3 DEF AtHeader
  <2> QED
    BY <2>1, <2>2, <2>3, <2>4, <2>6, <2>8, <2>9 DEF Executes
<1>3. PICK c, d : c = Call("resize", <<>>) /\ d = Call("parse", <<>>)
  OBVIOUS
<1>4. c \in Calls /\ c.name = "resize" /\ d \in Calls /\ d.name = "parse"
  BY <1>1, <1>3 DEF Calls, Call, CallName
<1>5. PICK u : u = <<d>> \o t
  OBVIOUS
<1>6. u \in Seq(Calls) /\ u # <<>> /\ Head(u) = d /\ Tail(u) = t
  BY <1>1, <1>4, <1>5, ConsIs
<1>7. AtParse(t) => Executes("parse") /\ Tail(todo) = t
  BY <1>3, <1>4, <1>5, <1>6 DEF AtParse, Executes
<1>8. AtResize(t) => Executes("resize") /\ Tail(todo) = u
  <2>1. PICK v : v = <<c>> \o u
    OBVIOUS
  <2>2. v # <<>> /\ Head(v) = c /\ Tail(v) = u
    BY <1>4, <1>6, <2>1, ConsIs
  <2>3. <<c, d>> \o t = v
    <3>1. c \in Calls /\ d \in Calls /\ t \in Seq(Calls)
      BY <1>1, <1>4
    <3>2. <<c, d>> \o t = <<c>> \o (<<d>> \o t)
      BY <3>1, ConsTwo
    <3> QED
      BY <1>5, <2>1, <3>2
  <2>4. AtResize(t) => todo = v
    BY <1>3, <2>3 DEF AtResize, Parse
  <2> QED
    BY <1>4, <2>2, <2>4 DEF Executes
<1>9. AtTail(t) => todo = <<>> \/ Executes("push_back") \/ Executes("append")
  <2> SUFFICES ASSUME AtTail(t), todo # <<>>
               PROVE  Executes("push_back") \/ Executes("append")
    OBVIOUS
  <2>1. todo = t /\ Head(todo) \in Appending
    BY ComingAfter DEF AtTail
  <2> QED
    BY <2>1 DEF Executes, Appending
<1> QED
  BY <1>2, <1>3, <1>5, <1>7, <1>8, <1>9

LEMMA DyingPoints ==
  ASSUME Dying
  PROVE  \/ /\ Executes("cleanup")
            /\ Tail(todo) \in {Tail(Destruction), Tail(Tail(Destruction))}
         \/ Executes("end") /\ object[capdu] = NoArray
  BY DestructionIs DEF Dying, Executes

LEMMA PointOf ==
  ASSUME AtSome, todo # <<>>
  PROVE  /\ Exists
         /\ Executes("count") => \E t \in Tails, h \in Header : AtCount(h, t)
         /\ Executes("header") => \E t \in Tails, h \in Header : AtHeader(h, t)
         /\ Executes("push_back") \/ Executes("append") => \E t \in Tails : AtTail(t)
         /\ Executes("resize") => \E t \in Tails : AtResize(t)
         /\ Executes("parse") => \E t \in Tails : AtParse(t)
         /\ Executes("cleanup") \/ Executes("end") => Dying
<1>1. CASE Dying
  <2>1. Exists
    BY <1>1 DEF Dying
  <2>2. Executes("cleanup") \/ Executes("end")
    BY <1>1, DyingPoints
  <2> QED
    BY <1>1, <2>1, <2>2 DEF Executes
<1>2. CASE Exists /\ \E t \in Tails : Constructing(t)
  <2>1. PICK t \in Tails : Constructing(t)
    BY <1>2
  <2>2. CASE \E h \in Header : AtCount(h, t)
    <3>1. Executes("count")
      BY <2>2, Points
    <3> QED
      BY <1>2, <2>2, <3>1 DEF Executes
  <2>3. CASE \E h \in Header : AtHeader(h, t)
    <3>1. Executes("header")
      BY <2>3, Points
    <3> QED
      BY <1>2, <2>3, <3>1 DEF Executes
  <2>4. CASE AtResize(t)
    <3>1. Executes("resize")
      BY <2>4, Points
    <3> QED
      BY <1>2, <2>4, <3>1 DEF Executes
  <2>5. CASE AtParse(t)
    <3>1. Executes("parse")
      BY <2>5, Points
    <3> QED
      BY <1>2, <2>5, <3>1 DEF Executes
  <2>6. CASE AtTail(t)
    <3>1. Executes("push_back") \/ Executes("append")
      BY <2>6, Points
    <3> QED
      BY <1>2, <2>6, <3>1 DEF Executes
  <2> QED
    BY <2>1, <2>2, <2>3, <2>4, <2>5, <2>6 DEF Constructing
<1> QED
  BY <1>1, <1>2 DEF AtSome, Nothing

-----------------------------------------------------------------------------
(* The steps of the program preserve the invariant. *)

LEMMA CountKept ==
  ASSUME IInv, fault = "none", Count
  PROVE  IInv'
<1>1. todo # <<>> /\ AtSome
  BY DEF Count, Executes, IInv
<1>2. Exists
  BY <1>1, PointOf
<1>3. PICK t \in Tails, h \in Header : AtCount(h, t)
  BY <1>1, PointOf DEF Count
<1>4. PICK q \in ArrayReallocated(Self, 4) : GoesOn(q)
  BY DEF Count
<1>5. /\ Sound(Self, Others(capdu)) /\ Others(capdu) \in SUBSET Addr
      /\ Self.self = object[capdu] /\ Self.self.kind = "array" /\ ~ Self.failed
  BY <1>2, SelfIs
<1>6. /\ Sound(q, Others(capdu)) /\ q.self.kind = "array"
      /\ \/ q.failed /\ q.self = Self.self
         \/ q.failed = Self.failed /\ q.self.data # NULL /\ q.self.m_size = 4
  BY <1>4, <1>5, ArrayReallocatedSound
<1>7. Done(q, Others(capdu)) /\ q.fault = "none"
  BY <1>6 DEF Done, Sound
<1>8. ASSUME ~ Thrown(q) PROVE AtSome'
  <2>1. /\ todo' = Tail(todo) /\ Exists' /\ object'[capdu] = q.self
        /\ UNCHANGED intended /\ allocatorThrows' = allocatorThrows
    BY <1>1, <1>2, <1>4, <1>6, <1>7, <1>8, GoesOnTo
  <2>2. todo' = <<Call("header", h)>> \o t
    BY <1>3, <2>1, Points
  <2>3. Leads(h, t)'
    BY <1>3, <2>1 DEF AtCount, Leads, Overlong, Coming, Part
  <2>4. Sized(4)'
    <3>1. object[capdu].data = NULL
      BY <1>3 DEF AtCount, NoArray
    <3> QED
      BY <1>5, <1>6, <1>8, <2>1, <3>1 DEF Sized, Thrown
  <2>5. AtHeader(h, t)'
    BY <2>2, <2>3, <2>4 DEF AtHeader, Call
  <2> QED
    BY <2>1, <2>5 DEF AtSome, Constructing, Tails, Appending
<1> QED
  BY <1>1, <1>2, <1>4, <1>6, <1>7, <1>8, GoesOnKeeps

LEMMA SetHeaderKept ==
  ASSUME IInv, fault = "none", SetHeader
  PROVE  IInv'
<1>1. todo # <<>> /\ AtSome
  BY DEF SetHeader, Executes, IInv
<1>2. Exists
  BY <1>1, PointOf
<1>3. PICK t \in Tails, h \in Header : AtHeader(h, t)
  BY <1>1, PointOf DEF SetHeader
<1>4. Head(todo).bytes = h /\ Tail(todo) = t
  BY <1>3, Points
<1>5. /\ Sound(Self, Others(capdu)) /\ Others(capdu) \in SUBSET Addr
      /\ Self.self = object[capdu] /\ Self.self.kind = "array" /\ ~ Self.failed
      /\ Len(SoFar) = object[capdu].m_size /\ Len(SoFar) \in Nat
      /\ SoFar = Content(Self.self, Self.heap)
  BY <1>2, SelfIs
<1>6. h \in Seq(Byte) /\ h \in Block /\ Len(h) = 4 /\ h # <<>>
  BY HeaderIs, BytesAreValues
<1>7. PICK at \in Nat : at = 0
  OBVIOUS
<1>8. PICK q : q = Stored(Self, at, h)
  OBVIOUS
<1>9. GoesOn(q)
  BY <1>4, <1>7, <1>8 DEF SetHeader
<1>10. /\ Done(q, Others(capdu)) /\ q.self = Self.self /\ q.failed = Self.failed
  <2>1. \/ ~ allocatorThrows
        \/ Self.self.data # NULL /\ at >= 0 /\ at + Len(h) <= Capacity(Self.self)
    BY <1>3, <1>5, <1>6, <1>7, <1>8 DEF AtHeader, Sized, Capacity
  <2>2. at \in Int
    OBVIOUS
  <2> QED
    BY <1>5, <1>6, <1>7, <1>8, <2>1, <2>2, StoredDone
<1>11. q.self.kind = "array" /\ ~ Thrown(q)
  BY <1>5, <1>10 DEF Thrown
<1>12. Coming(t) \in Seq(Byte)
  BY ComingIs
<1>13. ASSUME q.fault = "none" PROVE AtSome'
  <2>1. /\ todo' = t /\ Exists' /\ SoFar' = Content(q.self, q.heap)
        /\ UNCHANGED intended
    BY <1>1, <1>2, <1>4, <1>9, <1>10, <1>11, <1>13, GoesOnTo
  <2>2. /\ Content(q.self, q.heap) \in Block
        /\ Self.self.data # NULL
        /\ Len(Content(q.self, q.heap)) = Self.self.m_size
        /\ \A i \in 1..Self.self.m_size :
             Content(q.self, q.heap)[i] =
               IF i - at \in 1..Len(h) THEN h[i - at] ELSE Content(Self.self, Self.heap)[i]
    <3>1. /\ Sound(Self, Others(capdu)) /\ Others(capdu) \in SUBSET Addr
          /\ Self.self.kind = "array" /\ at \in Int /\ h \in Block /\ h # <<>>
          /\ q = Stored(Self, at, h) /\ q.fault = "none"
      BY <1>5, <1>6, <1>7, <1>8, <1>13
    <3> QED
      BY <3>1, StoredContent
  <2>3. Self.self.m_size = 4
    BY <1>3, <1>5, <2>2 DEF AtHeader, Sized
  <2>4. Content(q.self, q.heap) = h
    <3>1. \A i \in 1..4 : Content(q.self, q.heap)[i] = h[i]
      BY <1>6, <1>7, <1>8, <2>2, <2>3
    <3> QED
      BY <1>6, <2>2, <2>3, <3>1, SeqEqual DEF Block
  <2>5. Leads(SoFar, t)'
    BY <1>3, <2>1, <2>4 DEF AtHeader, Leads, Overlong, Coming, Part
  <2>6. AtTail(t)'
    BY <2>1, <2>5 DEF AtTail
  <2> QED
    BY <2>1, <2>6 DEF AtSome, Constructing, Tails, Appending
<1>14. ASSUME q.fault # "none" PROVE TooShort(SoFar, <<>>)
  <2>1. Self.self.data = NULL
    <3>1. SUFFICES ASSUME Self.self.data # NULL PROVE q.fault = "none"
      BY <1>14
    <3>2. at + Len(h) <= Self.self.m_size
      BY <1>3, <1>5, <1>6, <1>7, <1>8, <3>1 DEF AtHeader, Sized
    <3> QED
      BY <1>5, <1>6, <1>7, <1>8, <3>1, <3>2, StoredInside
  <2>2. Len(SoFar) = 0
    BY <1>5, <2>1 DEF Sound, Fitting
  <2>3. ~ Overlong => Len(intended) >= 4
    <3>1. PICK c \in Seq(Byte) : c = Coming(t)
      BY <1>12
    <3>2. Len(h \o c) = Len(h) + Len(c) /\ Len(c) \in Nat
      BY <1>6, <3>1, Lengths
    <3>3. ~ Overlong => h \o c = intended
      BY <1>3, <3>1 DEF AtHeader, Leads
    <3> QED
      BY <1>6, <3>2, <3>3
  <2> QED
    BY <2>2, <2>3, ComingOfNone DEF TooShort
<1> QED
  BY <1>1, <1>2, <1>9, <1>10, <1>11, <1>13, <1>14, GoesOnKeeps

(* The command is never too long for its calls. *)
LEMMA CanOnlyBeShort ==
  ASSUME IInv, Exists, NEW t \in Tails, AtTail(t), ~ Overlong
  PROVE  /\ Len(SoFar) + Len(Coming(t)) <= Len(intended)
         /\ Len(SoFar) \in Nat /\ Len(Coming(t)) \in Nat /\ Len(intended) \in Nat
<1>1. SoFar \in Seq(Value) /\ Len(SoFar) \in Nat
  BY SelfIs DEF Block
<1>2. PICK c : c = Coming(t)
  OBVIOUS
<1>3. c \in Seq(Byte) /\ c \in Seq(Value) /\ Len(c) \in Nat
  BY <1>2, ComingIs, BytesAreValues DEF Block
<1>4. Len(SoFar \o c) = Len(SoFar) + Len(c)
  BY <1>1, <1>3, Lengths
<1>5. Len(intended) \in Nat
  BY DEF IInv, CommandTypeOK
<1>6. SoFar \o c = intended \/ Len(SoFar) + Len(c) < Len(intended)
  BY <1>2 DEF AtTail, Leads, TooShort
<1> QED
  BY <1>1, <1>2, <1>3, <1>4, <1>5, <1>6

(* A call that appends its bytes leads on, or leaves what is short short. *)
LEMMA AppendLeadsOn ==
  ASSUME IInv, Exists, NEW t \in Tails, t # <<>>, AtTail(t),
         UNCHANGED <<intended, allocatorThrows>>,
         todo' = Tail(t), SoFar' = SoFar \o Head(t).bytes
  PROVE  AtTail(Tail(t))'
<1>1. PICK b, c : b = Head(t).bytes /\ c = Coming(Tail(t))
  OBVIOUS
<1>2. b \in Seq(Byte) /\ c \in Seq(Byte) /\ Coming(t) = b \o c
  BY <1>1, ComingAfter, ComingIs
<1>3. SoFar \in Seq(Value) /\ b \in Seq(Value) /\ c \in Seq(Value)
  BY <1>2, SelfIs, BytesAreValues DEF Block
<1>4. /\ (SoFar \o b) \o c = SoFar \o (b \o c)
      /\ Len(SoFar \o b) = Len(SoFar) + Len(b) /\ Len(b \o c) = Len(b) + Len(c)
      /\ Len(SoFar) \in Nat /\ Len(b) \in Nat /\ Len(c) \in Nat
  BY <1>3, ConcatAssociative, Lengths
<1>5. SoFar' = SoFar \o b /\ Overlong' = Overlong
  BY <1>1 DEF Overlong
<1>6. CASE Leads(SoFar, t)
  <2>1. ~ Overlong => SoFar \o (b \o c) = intended
    BY <1>2, <1>6 DEF Leads
  <2>2. ~ Overlong' => SoFar' \o c = intended'
    BY <1>4, <1>5, <2>1
  <2>3. Leads(SoFar, Tail(t))'
    BY <1>1, <2>2 DEF Leads, Coming, Part
  <2> QED
    BY <2>3 DEF AtTail
<1>7. CASE ~ allocatorThrows /\ TooShort(SoFar, t)
  <2>1. ~ Overlong => Len(SoFar) + Len(b \o c) < Len(intended)
    BY <1>2, <1>7 DEF TooShort
  <2>2. ~ Overlong' => Len(SoFar') + Len(c) < Len(intended')
    BY <1>4, <1>5, <2>1
  <2>3. TooShort(SoFar, Tail(t))'
    BY <1>1, <2>2 DEF TooShort, Coming, Part
  <2> QED
    BY <1>7, <2>3 DEF AtTail
<1> QED
  BY <1>6, <1>7 DEF AtTail

LEMMA PushBackKept ==
  ASSUME IInv, fault = "none", PushBack
  PROVE  IInv'
<1>1. todo # <<>> /\ AtSome /\ Executes("push_back")
  BY DEF PushBack, Executes, IInv
<1>2. Exists
  BY <1>1, PointOf
<1>3. PICK t \in Tails : AtTail(t)
  BY <1>1, PointOf
<1>4. t = todo /\ t # <<>>
  BY <1>1, <1>3 DEF AtTail
<1>5. PICK b : b = Head(todo).bytes
  OBVIOUS
<1>6. /\ Tail(t) \in Tails /\ b \in Seq(Byte) /\ Len(b) = 1
      /\ Coming(t) = b \o Coming(Tail(t)) /\ Coming(Tail(t)) \in Seq(Byte)
  <2>1. Head(t) \in Appending /\ Head(t).name = "push_back"
    BY <1>1, <1>4, ComingAfter DEF Executes
  <2> QED
    BY <1>4, <1>5, <2>1, ComingAfter, ComingIs DEF Appending
<1>7. b \in Block /\ b # <<>> /\ Given(b) \in Operands /\ \A h : Operand(h, Given(b)) = b
      /\ Given(b).bytes = b
  BY <1>6, BytesAreValues DEF Given, Operands, Operand
<1>8. /\ Sound(Self, Others(capdu)) /\ Others(capdu) \in SUBSET Addr
      /\ Self.self = object[capdu] /\ Self.self.kind = "array" /\ ~ Self.failed
      /\ Len(SoFar) = Self.self.m_size /\ Len(SoFar) \in Nat /\ SoFar \in Block
      /\ SoFar = Content(Self.self, Self.heap)
  BY <1>2, SelfIs
<1>9. PICK n \in Nat : n = Self.self.m_size + 1
  BY <1>8
<1>10. PICK p \in ArrayReallocated(Self, n) :
         GoesOn(ThenStored(p, p.self.m_size - 1, Given(b)))
  BY <1>5, <1>9 DEF PushBack
<1>11. PICK at, q : at = p.self.m_size - 1 /\ q = ThenStored(p, at, Given(b))
  OBVIOUS
<1>12. /\ Sound(p, Others(capdu)) /\ p.self.kind = "array"
       /\ \/ p.failed /\ p.self = Self.self
          \/ p.failed = Self.failed /\ p.self.data # NULL /\ p.self.m_size = n
  BY <1>8, <1>10, ArrayReallocatedSound
<1>13. \/ p.failed /\ Content(p.self, p.heap) = SoFar
       \/ /\ ~ p.failed
          /\ \A i \in 1..n :
               i <= Self.self.m_size => Content(p.self, p.heap)[i] = SoFar[i]
  <2>1. /\ Sound(Self, Others(capdu)) /\ Others(capdu) \in SUBSET Addr
        /\ Self.self.kind = "array" /\ n \in Nat /\ p \in ArrayReallocated(Self, n)
    BY <1>8, <1>9, <1>10
  <2>2. \/ p.failed /\ Content(p.self, p.heap) = Content(Self.self, Self.heap)
        \/ /\ p.failed = Self.failed
           /\ \A i \in 1..n : i <= Self.self.m_size =>
                Content(p.self, p.heap)[i] = Content(Self.self, Self.heap)[i]
    BY <2>1, ReallocatedContent
  <2> QED
    BY <1>8, <2>2
<1>14. p.self.m_size \in Nat /\ at \in Int
  BY <1>8, <1>11, <1>12, ContentIs
<1>15. /\ Done(q, Others(capdu)) /\ q.self = p.self /\ q.failed = p.failed
  <2>1. \/ Thrown(p) \/ ~ allocatorThrows
        \/ p.self.data # NULL /\ at >= 0 /\ at + Len(Given(b).bytes) <= Capacity(p.self)
    <3>1. CASE p.failed
      BY <3>1 DEF Thrown
    <3>2. CASE ~ p.failed
      <4>1. p.self.data # NULL /\ p.self.m_size = n /\ n = Self.self.m_size + 1
        BY <1>9, <1>12, <3>2
      <4>2. at >= 0 /\ at + 1 <= p.self.m_size
        BY <1>8, <1>11, <4>1
      <4> QED
        BY <1>6, <1>7, <1>12, <4>1, <4>2 DEF Capacity
    <3> QED
      BY <3>1, <3>2
  <2> QED
    BY <1>7, <1>8, <1>11, <1>12, <1>14, <2>1, ThenStoredDone
<1>16. GoesOn(q) /\ q.self.kind = "array"
  BY <1>10, <1>11, <1>12, <1>15
<1>17. ~ Thrown(p) => q = Stored(p, at, b)
  BY <1>7, <1>11 DEF ThenStored
<1>18. PICK c \in Seq(Byte) : c = Coming(Tail(t))
  BY <1>6
<1>19. Len(Coming(t)) = 1 + Len(c) /\ Len(c) \in Nat
  BY <1>6, <1>18, Lengths
<1>20. ASSUME ~ Thrown(q), q.fault = "none"
       PROVE  /\ p.self.data # NULL
              /\ Content(q.self, q.heap) \in Block
              /\ Len(Content(q.self, q.heap)) = p.self.m_size
              /\ \A i \in 1..p.self.m_size :
                   Content(q.self, q.heap)[i] =
                     IF i - at \in 1..Len(b) THEN b[i - at] ELSE Content(p.self, p.heap)[i]
  <2>1. /\ Sound(p, Others(capdu)) /\ Others(capdu) \in SUBSET Addr
        /\ p.self.kind = "array" /\ at \in Int /\ b \in Block /\ b # <<>>
        /\ q = Stored(p, at, b) /\ q.fault = "none"
    BY <1>7, <1>8, <1>12, <1>14, <1>15, <1>17, <1>20 DEF Thrown
  <2>2. p.self.data # NULL
    BY <2>1, StoredContent
  <2>3. Content(q.self, q.heap) \in Block
    BY <2>1, StoredContent
  <2>4. Len(Content(q.self, q.heap)) = p.self.m_size
    BY <2>1, StoredContent
  <2>5. \A i \in 1..p.self.m_size :
                   Content(q.self, q.heap)[i] =
                     IF i - at \in 1..Len(b) THEN b[i - at] ELSE Content(p.self, p.heap)[i]
    BY <2>1, StoredContent
  <2> QED
    BY <2>2, <2>3, <2>4, <2>5
<1>21. ASSUME ~ Thrown(q), q.fault = "none" PROVE AtSome'
  <2>1. /\ todo' = Tail(t) /\ Exists' /\ SoFar' = Content(q.self, q.heap)
        /\ UNCHANGED intended /\ allocatorThrows' = allocatorThrows
    BY <1>1, <1>2, <1>4, <1>15, <1>16, <1>21, GoesOnTo
  <2>2. ASSUME p.failed PROVE AtTail(Tail(t))'
    <3>1. ~ allocatorThrows
      BY <1>15, <1>21, <2>2 DEF Thrown
    <3>2. Len(SoFar') = Len(SoFar)
      BY <1>8, <1>12, <1>20, <1>21, <2>1, <2>2
    <3>3. TooShort(SoFar, Tail(t))'
      <4>1. ~ Overlong => /\ Len(SoFar) + Len(Coming(t)) <= Len(intended)
                          /\ Len(intended) \in Nat
        BY <1>2, <1>3, CanOnlyBeShort
      <4>2. ~ Overlong' => Len(SoFar') + Len(c) < Len(intended')
        BY <1>8, <1>19, <2>1, <3>2, <4>1 DEF Overlong
      <4> QED
        BY <1>18, <4>2 DEF TooShort, Coming, Part
    <3> QED
      BY <2>1, <3>1, <3>3 DEF AtTail
  <2>3. ASSUME ~ p.failed PROVE AtTail(Tail(t))'
    <3>1. SoFar' = SoFar \o b
      <4>1. PICK u : u = Content(q.self, q.heap)
        OBVIOUS
      <4>2. /\ p.self.m_size = Len(SoFar) + 1 /\ at = Len(SoFar)
            /\ \A i \in 1..(Len(SoFar) + 1) :
                 i <= Len(SoFar) => Content(p.self, p.heap)[i] = SoFar[i]
        BY <1>8, <1>9, <1>11, <1>12, <1>13, <2>3
      <4>3. /\ u \in Seq(Value) /\ Len(u) = Len(SoFar) + 1
            /\ \A i \in 1..Len(SoFar) : u[i] = SoFar[i]
            /\ u[Len(SoFar) + 1] = b[1]
        <5>1. /\ u \in Seq(Value) /\ Len(u) = Len(SoFar) + 1
              /\ \A i \in 1..(Len(SoFar) + 1) :
                   u[i] = IF i - Len(SoFar) \in 1..1 THEN b[i - Len(SoFar)]
                                                     ELSE Content(p.self, p.heap)[i]
          BY <1>6, <1>20, <1>21, <4>1, <4>2 DEF Block
        <5>2. PICK k \in Nat : k = Len(SoFar)
          BY <1>8
        <5>3. u[k + 1] = b[1]
          <6>1. k + 1 \in 1..(k + 1) /\ (k + 1) - k = 1 /\ 1 \in 1..1
            BY <5>2
          <6> QED
            BY <5>1, <5>2, <6>1
        <5>4. \A i \in 1..k : i \in 1..(k + 1) /\ i - k \notin 1..1 /\ i <= k
          BY <5>2
        <5> QED
          BY <4>2, <5>1, <5>2, <5>3, <5>4
      <4>4. b \in Seq(Value) /\ Len(b) = 1 /\ SoFar \in Seq(Value)
        BY <1>6, <1>7, <1>8 DEF Block
      <4>5. u = SoFar \o b
        BY <4>3, <4>4, WithOneMore
      <4> QED
        BY <2>1, <4>1, <4>5
    <3> QED
      BY <1>2, <1>3, <1>4, <1>5, <2>1, <3>1, AppendLeadsOn
  <2> QED
    BY <1>6, <2>1, <2>2, <2>3 DEF AtSome, Constructing, Tails, Appending
<1>22. TooShort(SoFar, <<>>)
  BY <1>2, <1>3, <1>18, <1>19, CanOnlyBeShort, ComingOfNone DEF TooShort
<1> QED
  BY <1>1, <1>2, <1>15, <1>16, <1>21, <1>22, GoesOnKeeps

LEMMA AppendKept ==
  ASSUME IInv, fault = "none", AppendData
  PROVE  IInv'
<1>1. todo # <<>> /\ AtSome /\ Executes("append")
  BY DEF AppendData, Executes, IInv
<1>2. Exists
  BY <1>1, PointOf
<1>3. PICK t \in Tails : AtTail(t)
  BY <1>1, PointOf
<1>4. t = todo /\ t # <<>>
  BY <1>1, <1>3 DEF AtTail
<1>5. PICK b : b = Head(todo).bytes
  OBVIOUS
<1>6. Tail(t) \in Tails /\ b \in Seq(Byte) /\ Coming(t) = b \o Coming(Tail(t))
  BY <1>4, <1>5, ComingAfter
<1>7. /\ Sound(Self, Others(capdu)) /\ Others(capdu) \in SUBSET Addr
      /\ Self.self = object[capdu] /\ Self.self.kind = "array" /\ ~ Self.failed
      /\ SoFar \in Block /\ SoFar = Content(Self.self, Self.heap)
  BY <1>2, SelfIs
<1>8. CASE b = <<>>
  <2>1. GoesOn(Self) /\ Done(Self, Others(capdu)) /\ Self.fault = "none" /\ ~ Thrown(Self)
    BY <1>5, <1>7, <1>8 DEF AppendData, Done, Sound, Thrown
  <2>2. /\ todo' = Tail(t) /\ Exists' /\ SoFar' = SoFar
        /\ UNCHANGED intended /\ allocatorThrows' = allocatorThrows
    BY <1>1, <1>2, <1>4, <1>7, <2>1, GoesOnTo
  <2>3. SoFar \o b = SoFar
    BY <1>7, <1>8, ConcatEmptySeq DEF Block
  <2>4. AtTail(Tail(t))'
    BY <1>2, <1>3, <1>4, <1>5, <2>2, <2>3, AppendLeadsOn
  <2>5. AtSome'
    BY <1>6, <2>2, <2>4 DEF AtSome, Constructing, Tails, Appending
  <2> QED
    BY <1>1, <1>2, <1>7, <2>1, <2>5, GoesOnKeeps
<1>9. CASE b # <<>>
  <2>1. PICK q \in ArrayAppended(Self, Given(b)) : GoesOn(q)
    BY <1>5, <1>9 DEF AppendData
  <2>2. Given(b) \in Operands
    BY <1>6, BytesAreValues DEF Given, Operands
  <2>3. Done(q, Others(capdu))
    BY <1>7, <2>1, <2>2, ArrayAppendedDone
  <2>4. /\ q.self.kind = "array"
        /\ Thrown(q) \/ q.fault # "none"
             \/ Content(q.self, q.heap) = Content(Self.self, Self.heap) \o b
    BY <1>6, <1>7, <2>1, AppendedContent
  <2>5. ASSUME ~ Thrown(q), q.fault = "none" PROVE AtSome'
    <3>1. /\ todo' = Tail(t) /\ Exists' /\ SoFar' = SoFar \o b
          /\ UNCHANGED intended /\ allocatorThrows' = allocatorThrows
      BY <1>1, <1>2, <1>4, <1>7, <2>1, <2>3, <2>4, <2>5, GoesOnTo
    <3>2. AtTail(Tail(t))'
      BY <1>2, <1>3, <1>4, <1>5, <3>1, AppendLeadsOn
    <3> QED
      BY <1>6, <3>1, <3>2 DEF AtSome, Constructing, Tails, Appending
  <2>6. TooShort(SoFar, <<>>)
    <3>1. PICK c : c = Coming(Tail(t))
      OBVIOUS
    <3>2. c \in Seq(Byte) /\ Coming(t) = b \o c
      BY <1>6, <3>1, ComingIs
    <3>3. Len(b \o c) = Len(b) + Len(c) /\ Len(b) \in Nat \ {0} /\ Len(c) \in Nat
      BY <1>6, <1>9, <3>2, Lengths, EmptySeq
    <3> QED
      BY <1>2, <1>3, <3>2, <3>3, CanOnlyBeShort, ComingOfNone DEF TooShort
  <2> QED
    BY <1>1, <1>2, <2>1, <2>3, <2>4, <2>5, <2>6, GoesOnKeeps
<1> QED
  BY <1>8, <1>9

LEMMA ResizeKept ==
  ASSUME IInv, fault = "none", Resize
  PROVE  IInv'
<1>1. todo # <<>> /\ AtSome
  BY DEF Resize, Executes, IInv
<1>2. Exists
  BY <1>1, PointOf
<1>3. PICK t \in Tails : AtResize(t)
  BY <1>1, PointOf DEF Resize
<1>4. PICK n : n = Len(str) \div 2
  OBVIOUS
<1>5. n \in Nat
  BY <1>4 DEF IInv
<1>6. PICK q \in ArrayReallocated(Self, n) : GoesOn(q)
  BY <1>4 DEF Resize
<1>7. /\ Sound(Self, Others(capdu)) /\ Others(capdu) \in SUBSET Addr
      /\ Self.self = object[capdu] /\ Self.self.kind = "array" /\ ~ Self.failed
  BY <1>2, SelfIs
<1>8. /\ Sound(q, Others(capdu)) /\ q.self.kind = "array"
      /\ \/ q.failed /\ q.self = Self.self
         \/ q.failed = Self.failed /\ q.self.data # NULL /\ q.self.m_size = n
  BY <1>5, <1>6, <1>7, ArrayReallocatedSound
<1>9. Done(q, Others(capdu)) /\ q.fault = "none"
  BY <1>8 DEF Done, Sound
<1>10. ASSUME ~ Thrown(q) PROVE AtSome'
  <2>1. /\ todo' = Tail(todo) /\ Exists' /\ object'[capdu] = q.self
        /\ UNCHANGED <<intended, str, pos>> /\ allocatorThrows' = allocatorThrows
        /\ SoFar' = Content(q.self, q.heap)
    BY <1>1, <1>2, <1>6, <1>8, <1>9, <1>10, GoesOnTo
  <2>2. todo' = <<Call("parse", <<>>)>> \o t
    BY <1>3, <2>1, Points
  <2>3. Leads(Meaning(str), t)'
    BY <1>3, <2>1 DEF AtResize, Leads, Overlong, Coming, Part, Meaning, ByteAt
  <2>4. Sized(Len(str) \div 2)'
    <3>1. object[capdu].data = NULL
      BY <1>3 DEF AtResize, NoArray
    <3> QED
      BY <1>4, <1>7, <1>8, <1>10, <2>1, <3>1 DEF Sized, Thrown
  <2>5. \A i \in 1..Len(SoFar') : 2 * i <= pos' =>
          SoFar'[i] = ByteAt(str', 2 * (i - 1))
    <3>1. pos' = 0 /\ Len(SoFar') \in Nat
      <4>1. SoFar' \in Block
        BY <1>7, <1>8, <2>1, ContentIs
      <4> QED
        BY <1>3, <2>1, <4>1 DEF AtResize, Block
    <3> QED
      BY <3>1
  <2>6. AtParse(t)'
    BY <2>2, <2>3, <2>4, <2>5 DEF AtParse, Call, ByteAt
  <2> QED
    BY <2>1, <2>6 DEF AtSome, Constructing, Tails, Appending
<1> QED
  BY <1>1, <1>2, <1>6, <1>8, <1>9, <1>10, GoesOnKeeps

LEMMA ParseEndsKept ==
  ASSUME IInv, fault = "none", ParseEnds
  PROVE  IInv'
<1>1. todo # <<>> /\ AtSome
  BY DEF ParseEnds, Executes, IInv
<1>2. Exists
  BY <1>1, PointOf
<1>3. PICK t \in Tails : AtParse(t)
  BY <1>1, PointOf DEF ParseEnds
<1>4. /\ Sound(Self, Others(capdu)) /\ Others(capdu) \in SUBSET Addr
      /\ Self.self = object[capdu] /\ Self.self.kind = "array" /\ ~ Self.failed
      /\ SoFar \in Block /\ Len(SoFar) = object[capdu].m_size /\ Len(SoFar) \in Nat
      /\ SoFar = Content(Self.self, Self.heap)
  BY <1>2, SelfIs
<1>5. /\ GoesOn(Self) /\ Done(Self, Others(capdu)) /\ Self.fault = "none"
      /\ ~ Thrown(Self)
  BY <1>4 DEF ParseEnds, Done, Sound, Thrown
<1>6. /\ todo' = Tail(todo) /\ Exists' /\ SoFar' = SoFar
      /\ UNCHANGED intended /\ allocatorThrows' = allocatorThrows
  BY <1>1, <1>2, <1>4, <1>5, GoesOnTo
<1>7. todo' = t
  BY <1>3, <1>6, Points
<1>8. PICK m : m = Meaning(str)
  OBVIOUS
<1>9. /\ m \in Seq(Byte) /\ Len(m) = Len(str) \div 2
      /\ \A i \in 1..(Len(str) \div 2) : m[i] = ByteAt(str, 2 * (i - 1))
  BY <1>8, MeaningIs DEF IInv
<1>10. PICK n \in Nat : n = Len(str) \div 2 /\ 2 * n <= Len(str)
  BY DEF IInv
<1>11. AtTail(t)'
  <2>1. CASE object[capdu].data # NULL
    <3>1. Len(SoFar) = n
      BY <1>3, <1>4, <1>10, <2>1 DEF AtParse, Sized
    <3>2. pos >= 2 * n
      <4>1. pos \in Nat /\ Len(str) \in Nat
        BY DEF IInv, CommandTypeOK
      <4> QED
        BY <1>4, <1>10, <3>1, <4>1 DEF ParseEnds, Continues
    <3>3. \A i \in 1..n : SoFar[i] = m[i]
      <4>1. \A i \in 1..n : 2 * i <= pos
        BY <3>2 DEF IInv, CommandTypeOK
      <4> QED
        BY <1>3, <1>9, <1>10, <3>1, <4>1 DEF AtParse
    <3>4. SoFar = m
      <4>1. m \in Block
        BY <1>9, BytesAreValues
      <4> QED
        BY <1>4, <1>9, <1>10, <3>1, <3>3, <4>1, SeqEqual DEF Block
    <3>5. Leads(SoFar, t)'
      BY <1>3, <1>6, <1>8, <3>4 DEF AtParse, Leads, Overlong, Coming, Part
    <3> QED
      BY <1>7, <3>5 DEF AtTail
  <2>2. CASE object[capdu].data = NULL
    <3>1. ~ allocatorThrows /\ SoFar = <<>> /\ Len(SoFar) = 0
      BY <1>3, <1>4, <2>2, EmptySeq DEF AtParse, Sized, Sound, Fitting, SoFar, Content
    <3>2. PICK c : c = Coming(t)
      OBVIOUS
    <3>3. c \in Seq(Byte) /\ (~ Overlong => m \o c = intended)
      BY <1>3, <1>8, <3>2, ComingIs DEF AtParse, Leads
    <3>4. CASE m = <<>>
      <4>1. Leads(SoFar, t)'
        BY <1>6, <3>1, <3>2, <3>3, <3>4 DEF Leads, Overlong, Coming, Part
      <4> QED
        BY <1>7, <4>1 DEF AtTail
    <3>5. CASE m # <<>>
      <4>1. Len(m \o c) = Len(m) + Len(c) /\ Len(m) \in Nat \ {0} /\ Len(c) \in Nat
        BY <1>9, <3>3, <3>5, Lengths, EmptySeq
      <4>2. ~ Overlong' => Len(SoFar') + Len(c) < Len(intended')
        BY <1>6, <3>1, <3>3, <4>1 DEF Overlong
      <4>3. TooShort(SoFar, t)'
        BY <3>2, <4>2 DEF TooShort, Coming, Part
      <4> QED
        BY <1>6, <1>7, <3>1, <4>3 DEF AtTail
    <3> QED
      BY <3>4, <3>5
  <2> QED
    BY <2>1, <2>2
<1>12. AtSome'
  BY <1>6, <1>11 DEF AtSome, Constructing, Tails, Appending
<1> QED
  BY <1>1, <1>2, <1>4, <1>5, <1>12, GoesOnKeeps

LEMMA CounterIs ==
  ASSUME NEW p \in 0..255, p % 2 = 0
  PROVE  /\ \E k \in Nat : p = 2 * k /\ p \div 2 = k
         /\ NextPos(p) \in 0..255 /\ NextPos(p) % 2 = 0
         /\ NextPos(p) = 0 \/ NextPos(p) = p + 2
<1>1. PICK k \in 0..127 : p = 2 * k
  OBVIOUS
<1>2. p \div 2 = k /\ k \in Nat
  BY <1>1
<1>3. CASE k = 127
  BY <1>1, <1>2, <1>3 DEF NextPos
<1>4. CASE k # 127
  <2>1. NextPos(p) = 2 * (k + 1) /\ k + 1 \in 0..127
    BY <1>1, <1>4 DEF NextPos
  <2> QED
    BY <1>1, <1>2, <2>1
<1> QED
  BY <1>3, <1>4

LEMMA ParseByteKept ==
  ASSUME IInv, fault = "none", ParseByte
  PROVE  IInv'
<1>1. todo # <<>> /\ AtSome
  BY DEF ParseByte, Executes, IInv
<1>2. Exists
  BY <1>1, PointOf
<1>3. PICK t \in Tails : AtParse(t)
  BY <1>1, PointOf DEF ParseByte
<1>4. /\ Sound(Self, Others(capdu)) /\ Others(capdu) \in SUBSET Addr
      /\ Self.self = object[capdu] /\ Self.self.kind = "array" /\ ~ Self.failed
      /\ SoFar \in Block /\ Len(SoFar) = object[capdu].m_size /\ Len(SoFar) \in Nat
      /\ SoFar = Content(Self.self, Self.heap)
  BY <1>2, SelfIs
<1>5. /\ pos \in 0..255 /\ pos % 2 = 0 /\ pos' = NextPos(pos)
      /\ Continues(str, object[capdu].m_size, pos) /\ UNCHANGED <<todo, str, intended>>
  BY DEF IInv, CommandTypeOK, ParseByte
<1>6. PICK k \in Nat : pos = 2 * k /\ pos \div 2 = k
  BY <1>5, CounterIs
<1>7. pos' \in 0..255 /\ pos' % 2 = 0 /\ (pos' = 0 \/ pos' = pos + 2)
  BY <1>5, CounterIs
<1>8. PICK x, b : x = ByteAt(str, pos) /\ b = <<x>>
  OBVIOUS
<1>9. b \in Block /\ b # <<>> /\ Len(b) = 1 /\ b[1] = x
  <2>1. x \in Byte
    BY <1>8, ByteAtIs, CommandAssumption
  <2>2. b \in Seq(Byte) /\ b # <<>> /\ Len(b) = 1 /\ b[1] = x
    BY <1>8, <2>1
  <2> QED
    BY <2>2, BytesAreValues
<1>10. k + 1 <= Len(SoFar)
  BY <1>4, <1>5, <1>6 DEF Continues
<1>11. PICK q : q = Stored(Self, k, b)
  OBVIOUS
<1>12. Ends(capdu, q)
  BY <1>6, <1>8, <1>11 DEF ParseByte
<1>13. Self.self.data # NULL
  BY <1>4, <1>10 DEF Sound, Fitting
<1>14. q.fault = "none"
  BY <1>4, <1>9, <1>10, <1>11, <1>13, StoredInside
<1>15. Done(q, Others(capdu)) /\ q.self = Self.self
  <2>1. \/ ~ allocatorThrows
        \/ Self.self.data # NULL /\ k >= 0 /\ k + Len(b) <= Capacity(Self.self)
    BY <1>4, <1>9, <1>10, <1>13 DEF Capacity
  <2>2. k \in Int
    OBVIOUS
  <2> QED
    BY <1>4, <1>9, <1>11, <2>1, <2>2, StoredDone
<1>16. /\ Content(q.self, q.heap) \in Block
       /\ Len(Content(q.self, q.heap)) = Self.self.m_size
       /\ \A i \in 1..Self.self.m_size :
            Content(q.self, q.heap)[i] =
              IF i - k \in 1..Len(b) THEN b[i - k] ELSE Content(Self.self, Self.heap)[i]
  <2>1. /\ Sound(Self, Others(capdu)) /\ Others(capdu) \in SUBSET Addr
        /\ Self.self.kind = "array" /\ k \in Int /\ b \in Block /\ b # <<>>
        /\ q = Stored(Self, k, b) /\ q.fault = "none"
    BY <1>4, <1>9, <1>11, <1>14
  <2>2. Content(q.self, q.heap) \in Block
    BY <2>1, StoredContent
  <2>3. Len(Content(q.self, q.heap)) = Self.self.m_size
    BY <2>1, StoredContent
  <2>4. \A i \in 1..Self.self.m_size :
          Content(q.self, q.heap)[i] =
            IF i - k \in 1..Len(b) THEN b[i - k] ELSE Content(Self.self, Self.heap)[i]
    BY <2>1, StoredContent
  <2> QED
    BY <2>2, <2>3, <2>4
<1>17. /\ Owned' /\ Exists' /\ IsArray(capdu)' /\ fault' = "none"
       /\ allocatorThrows' = allocatorThrows
       /\ object'[capdu] = object[capdu] /\ SoFar' = Content(q.self, q.heap)
  BY <1>2, <1>4, <1>12, <1>14, <1>15, EndsTo
<1>18. CommandTypeOK' /\ str' \in Seq(Character)
  BY <1>5, <1>7, <1>17 DEF IInv, CommandTypeOK, Owned
<1>19. ASSUME NEW i \in 1..Len(SoFar'), 2 * i <= pos'
       PROVE  SoFar'[i] = ByteAt(str, 2 * (i - 1))
  <2>1. i \in 1..Len(SoFar) /\ i <= k + 1
    BY <1>4, <1>6, <1>7, <1>16, <1>17, <1>19
  <2>2. CASE i = k + 1
    <3>1. i - k = 1 /\ 2 * (i - 1) = pos
      BY <1>6, <2>2
    <3> QED
      BY <1>4, <1>8, <1>9, <1>16, <1>17, <2>1, <3>1
  <2>3. CASE i # k + 1
    <3>1. i - k \notin 1..Len(b) /\ 2 * i <= pos
      BY <1>6, <1>9, <2>1, <2>3
    <3>2. SoFar'[i] = SoFar[i]
      BY <1>4, <1>16, <1>17, <2>1, <3>1
    <3> QED
      BY <1>3, <2>1, <3>1, <3>2 DEF AtParse
  <2> QED
    BY <2>2, <2>3
<1>20. AtParse(t)'
  <2>1. Sized(Len(str) \div 2)'
    BY <1>3, <1>5, <1>17 DEF AtParse, Sized
  <2>2. Leads(Meaning(str), t)'
    BY <1>3, <1>5 DEF AtParse, Leads, Overlong, Coming, Part, Meaning, ByteAt
  <2>3. todo' = <<Call("parse", <<>>)>> \o t
    BY <1>3, <1>5 DEF AtParse
  <2> QED
    BY <1>5, <1>19, <2>1, <2>2, <2>3 DEF AtParse, Call, ByteAt
<1>21. AtSome'
  BY <1>17, <1>20 DEF AtSome, Constructing, Tails, Appending
<1> QED
  BY <1>17, <1>18, <1>21 DEF IInv

LEMMA CleanupKept ==
  ASSUME IInv, fault = "none", Cleanup
  PROVE  IInv'
<1>1. todo # <<>> /\ AtSome
  BY DEF Cleanup, Executes, IInv
<1>2. Exists /\ Dying
  BY <1>1, PointOf DEF Cleanup
<1>3. Tail(todo) \in {Tail(Destruction), Tail(Tail(Destruction))}
  BY <1>2, DyingPoints DEF Cleanup, Executes
<1>4. /\ Sound(Self, Others(capdu)) /\ Others(capdu) \in SUBSET Addr
      /\ Self.self.kind = "array" /\ ~ Self.failed
  BY <1>2, SelfIs
<1>5. PICK q : q = CleanedUp(Self)
  OBVIOUS
<1>6. /\ Sound(q, Others(capdu)) /\ q.self = NoArray /\ ~ q.failed
  BY <1>4, <1>5, CleanedUpSound
<1>7. /\ GoesOn(q) /\ Done(q, Others(capdu)) /\ q.fault = "none" /\ ~ Thrown(q)
      /\ q.self.kind = "array"
  BY <1>5, <1>6 DEF Cleanup, Done, Sound, Thrown, NoArray
<1>8. todo' = Tail(todo) /\ Exists' /\ object'[capdu] = NoArray
  BY <1>1, <1>2, <1>6, <1>7, GoesOnTo
<1>9. Dying'
  BY <1>3, <1>8 DEF Dying, Destruction, Call, NoArray
<1> QED
  BY <1>1, <1>2, <1>7, <1>9, GoesOnKeeps DEF AtSome

LEMMA EndKept ==
  ASSUME IInv, fault = "none", End
  PROVE  IInv'
<1>1. todo # <<>> /\ AtSome
  BY DEF End, Executes, IInv
<1>2. Exists /\ Dying
  BY <1>1, PointOf DEF End
<1>3. object[capdu] = NoArray
  BY <1>2, DyingPoints DEF End, Executes
<1>4. /\ Sound(Self, Others(capdu)) /\ Others(capdu) \in SUBSET Addr
      /\ Self.self = object[capdu] /\ capdu \in Obj /\ Owned
  BY <1>2, SelfIs DEF IInv
<1>5. Released(Self) = Self
  BY <1>3, <1>4 DEF Released, NoArray
<1>6. Ends(capdu, [Released(Self) EXCEPT !.self = Dead])
  BY <1>5 DEF End
<1>7. Owned'
  BY <1>4, <1>6, DestroyedEnds
<1>8. todo' = <<>> /\ str' = <<>> /\ pos' = 0 /\ intended' = <<>>
  BY DEF End
<1>9. [Self EXCEPT !.self = Dead].fault = "none" /\ [Self EXCEPT !.self = Dead].self = Dead
  BY <1>4 DEF Sound, Runs
<1>10. fault' = "none" /\ object'[capdu] = Dead
  BY <1>4, <1>9 DEF End, Ends, Owned, TypeOK
<1>11. CommandTypeOK' /\ str' \in Seq(Character)
  <2>1. <<>> \in Seq(Calls) /\ <<>> \in Seq(Nat) /\ <<>> \in Seq(Character)
    BY EmptySeq
  <2> QED
    BY <1>7, <1>8, <2>1 DEF CommandTypeOK, Owned, Calls
<1>12. ~ Exists' /\ Nothing'
  BY <1>8, <1>10 DEF Exists, Nothing
<1> QED
  BY <1>7, <1>10, <1>11, <1>12 DEF IInv, AtSome

LEMMA DestructorKept ==
  ASSUME IInv, fault = "none", Destructor
  PROVE  IInv'
<1>1. Owned' /\ Exists' /\ IsArray(capdu)' /\ fault' = "none"
  BY DEF Destructor, Finished, IInv, Owned, TypeOK, Fitting, Living, Exists, IsArray, IsA, objectVars
<1>2. todo' = Destruction /\ UNCHANGED <<str, pos, intended>>
  BY DEF Destructor
<1>3. CommandTypeOK'
  BY <1>1, <1>2, DestructionIs DEF IInv, CommandTypeOK, Owned, Calls
<1>4. Dying'
  BY <1>1, <1>2 DEF Dying, Destruction, Call
<1> QED
  BY <1>1, <1>2, <1>3, <1>4 DEF IInv, AtSome

-----------------------------------------------------------------------------
(* So do the calls of the client: each leads to what it intends. *)

LEMMA ConstructorKeeps ==
  ASSUME IInv, fault = "none", NEW calls, NEW text \in Seq(Character), NEW bytes \in Seq(Nat),
         Constructor(calls, text, bytes), NEW t \in Tails, NEW start \in Seq(Byte),
         (\A i \in DOMAIN bytes : bytes[i] \in Byte) => start \o Coming(t) = bytes,
         \/ start \in Header /\ calls = WithHeader(start) \o t
         \/ start = Meaning(text) /\ calls = Parse \o t
  PROVE  IInv'
<1>1. /\ ~ Exists /\ todo' = calls /\ str' = text /\ pos' = 0 /\ intended' = bytes
      /\ Ends(capdu, Begun(NoArray))
  BY DEF Constructor
<1>2. Owned /\ capdu \in Obj \ Living /\ object \in [Obj -> Array \cup Buffer \cup {Dead}]
  BY <1>1, CommandAssumption DEF IInv, Owned, TypeOK, Living, Exists
<1>3. NoArray \in Array /\ NoArray.data = NULL /\ NoArray.m_size = 0 /\ NoArray.kind = "array"
  BY DEF NoArray, Array
<1>4. Sound(Begun(NoArray), Others(capdu)) /\ Begun(NoArray).self = NoArray
  BY <1>2, <1>3, BegunNewSound
<1>5. Done(Begun(NoArray), Others(capdu)) /\ Begun(NoArray).fault = "none"
  BY <1>4 DEF Done, Sound
<1>6. Owned'
  BY <1>1, <1>2, <1>5, DoneEnds
<1>7. fault' = "none" /\ object'[capdu] = NoArray
  BY <1>1, <1>2, <1>4, <1>5 DEF Ends
<1>8. Exists' /\ IsArray(capdu)'
  BY <1>3, <1>7, ObjectsAssumption DEF Exists, IsArray, IsA
<1>9. calls \in Seq(Calls)
  <2>1. t \in Seq(Calls) /\ <<>> \in Seq(Byte)
    BY TailsAreCalls, EmptySeq
  <2>2. CASE start \in Header /\ calls = WithHeader(start) \o t
    <3>1. Call("count", <<>>) \in Calls /\ Call("header", start) \in Calls
      BY <2>1 DEF Call, Calls, CallName
    <3>2. WithHeader(start) \in Seq(Calls)
      BY <3>1 DEF WithHeader
    <3> QED
      BY <2>1, <2>2, <3>2, ConcatProperties
  <2>3. CASE calls = Parse \o t
    <3>1. Call("resize", <<>>) \in Calls /\ Call("parse", <<>>) \in Calls
      BY <2>1 DEF Call, Calls, CallName
    <3>2. Parse \in Seq(Calls)
      BY <3>1 DEF Parse
    <3> QED
      BY <2>1, <2>3, <3>2, ConcatProperties
  <2> QED
    BY <2>2, <2>3
<1>10. CommandTypeOK' /\ str' \in Seq(Character)
  BY <1>1, <1>6, <1>9 DEF CommandTypeOK, Owned, Calls
<1>11. ~ Overlong' => start \o Coming(t) = intended'
  BY <1>1 DEF Overlong
<1>12. AtSome'
  <2>1. CASE start \in Header /\ calls = WithHeader(start) \o t
    <3>1. AtCount(start, t)'
      BY <1>1, <1>7, <1>11, <2>1
      DEF AtCount, Leads, WithHeader, Call, NoArray, Coming, Part
    <3> QED
      BY <1>8, <2>1, <3>1 DEF AtSome, Constructing, Tails, Appending
  <2>2. CASE start = Meaning(text) /\ calls = Parse \o t
    <3>1. AtResize(t)'
      BY <1>1, <1>7, <1>11, <2>2
      DEF AtResize, Leads, Parse, Call, NoArray, Coming, Part, Meaning, ByteAt
    <3> QED
      BY <1>8, <3>1 DEF AtSome, Constructing, Tails, Appending
  <2> QED
    BY <2>1, <2>2
<1> QED
  BY <1>6, <1>7, <1>8, <1>10, <1>12 DEF IInv

LEMMA BytesAreNumbers == \A s \in Seq(Byte) : s \in Seq(Nat)
<1>1. Byte \subseteq Nat
  BY CommandAssumption
<1> QED
  BY <1>1, SeqMonotonic

LEMMA NothingComing ==
  /\ \A h \in Header : WithHeader(h) = WithHeader(h) \o <<>>
  /\ Parse = Parse \o <<>>
  /\ \A s \in Seq(Byte) : s \o Coming(<<>>) = s
<1>1. <<>> \in Seq(Byte)
  BY EmptySeq
<1>2. Parse \in Seq(Calls) /\ \A h \in Header : WithHeader(h) \in Seq(Calls)
  <2>1. /\ Call("resize", <<>>) \in Calls /\ Call("parse", <<>>) \in Calls
        /\ Call("count", <<>>) \in Calls
        /\ \A h \in Header : Call("header", h) \in Calls
    BY <1>1, HeaderIs DEF Call, Calls, CallName
  <2> QED
    BY <2>1 DEF Parse, WithHeader
<1> QED
  BY <1>2, ConcatEmptySeq, ComingOfNone

LEMMA FromHeaderKept ==
  ASSUME IInv, fault = "none", NEW h \in Header, FromHeader(h)
  PROVE  IInv'
<1>1. PICK none : none = <<>>
  OBVIOUS
<1>2. none \in Tails /\ none \in Seq(Character)
  BY <1>1, ComingOfNone, EmptySeq
<1>3. h \in Seq(Byte) /\ h \in Seq(Nat) /\ h \o Coming(none) = h
  BY <1>1, HeaderIs, BytesAreNumbers, NothingComing
<1>4. PICK calls : calls = WithHeader(h)
  OBVIOUS
<1>5. Constructor(calls, none, h) /\ calls = WithHeader(h) \o none
  BY <1>1, <1>4, NothingComing DEF FromHeader
<1> QED
  BY <1>2, <1>3, <1>5, ConstructorKeeps

LEMMA FromStringKept ==
  ASSUME IInv, fault = "none", NEW text \in Seq(Character), NEW bytes, bytes = Meaning(text),
         Constructor(Parse, text, bytes)
  PROVE  IInv'
<1>1. PICK none : none = <<>>
  OBVIOUS
<1>2. none \in Tails
  BY <1>1, ComingOfNone
<1>3. bytes \in Seq(Byte) /\ bytes \in Seq(Nat) /\ bytes \o Coming(none) = bytes
  BY <1>1, MeaningIs, BytesAreNumbers, NothingComing
<1>4. PICK calls : calls = Parse
  OBVIOUS
<1>5. Constructor(calls, text, bytes) /\ calls = Parse \o none
  BY <1>1, <1>4, NothingComing
<1> QED
  BY <1>2, <1>3, <1>5, ConstructorKeeps

LEMMA RemainderOfByte == \A n \in Nat : n % 256 \in 0..255 /\ (n \in 0..255 => n % 256 = n)
  OBVIOUS

LEMMA Associative ==
  ASSUME NEW a, NEW b, NEW c, a \in Seq(Nat), b \in Seq(Nat), c \in Seq(Nat)
  PROVE  (a \o b) \o c = a \o (b \o c)
  BY ConcatAssociative

LEMMA Joined ==
  \A S : \A a, b \in Seq(S) :
    /\ Len(a \o b) = Len(a) + Len(b)
    /\ \A i \in 1..(Len(a) + Len(b)) :
         (a \o b)[i] = IF i <= Len(a) THEN a[i] ELSE b[i - Len(a)]
  BY ConcatProperties

(* A length that fits into a byte is the byte in front of the data. *)
LEMMA LengthFits ==
  ASSUME NEW h \in Header, NEW data \in Seq(Byte), NEW x \in Seq(Byte)
  PROVE  /\ Whole(h, data, x) \in Seq(Nat)
         /\ AreBytes(Whole(h, data, x)) => h \o Rest(data, x) = Whole(h, data, x)
<1> DEFINE bytes == Whole(h, data, x)
           coming == Rest(data, x)
<1>1. PICK m : m = Len(data)
  OBVIOUS
<1>2. m \in Nat
  BY <1>1
<1>3. PICK l : l = <<m>>
  OBVIOUS
<1>4. l \in Seq(Nat) /\ Len(l) = 1 /\ l[1] = m
  BY <1>2, <1>3
<1>5. h \in Seq(Nat) /\ Len(h) = 4 /\ data \in Seq(Nat) /\ x \in Seq(Nat)
  BY HeaderIs, BytesAreNumbers
<1>6. bytes = ((h \o l) \o data) \o x
  BY <1>1, <1>3 DEF Whole
<1>7. coming = <<LcOf(data)>> \o (data \o x)
  BY DEF Rest
<1> HIDE DEF bytes, coming
<1>8. PICK d : d = data \o x
  OBVIOUS
<1>9. d \in Seq(Nat) /\ l \o d \in Seq(Nat)
  BY <1>4, <1>5, <1>8, ConcatProperties
<1>10. h \o l \in Seq(Nat)
  BY <1>4, <1>5, ConcatProperties
<1>11. bytes = (h \o l) \o d
  <2>1. PICK hl : hl = h \o l
    OBVIOUS
  <2>2. hl \in Seq(Nat) /\ data \in Seq(Nat) /\ x \in Seq(Nat)
    BY <1>5, <1>10, <2>1
  <2>3. (hl \o data) \o x = hl \o (data \o x)
    BY <2>2, Associative, SMTT(40)
  <2> QED
    BY <1>6, <1>8, <2>1, <2>3
<1>12. (h \o l) \o d = h \o (l \o d)
  <2>1. h \in Seq(Nat) /\ l \in Seq(Nat) /\ d \in Seq(Nat)
    BY <1>4, <1>5, <1>9
  <2> QED
    BY <2>1, Associative, Z3T(40)
<1>13. bytes = h \o (l \o d)
  BY <1>11, <1>12
<1>14. bytes \in Seq(Nat)
  BY <1>5, <1>9, <1>13, ConcatProperties
<1>15. ASSUME AreBytes(bytes)
       PROVE  h \o coming = bytes
  <2>1. PICK k : k = l \o d
    OBVIOUS
  <2>2. k \in Seq(Nat) /\ Len(k) >= 1 /\ k[1] = m
    <3>1. l \in Seq(Nat) /\ d \in Seq(Nat)
      BY <1>4, <1>9
    <3>2. /\ Len(k) = Len(l) + Len(d)
          /\ \A i \in 1..(Len(l) + Len(d)) :
               k[i] = IF i <= Len(l) THEN l[i] ELSE d[i - Len(l)]
      BY <2>1, <3>1, ConcatProperties
    <3>3. 1 \in 1..(Len(l) + Len(d)) /\ Len(d) \in Nat
      BY <1>4, <3>1
    <3>4. k[1] = l[1]
      BY <1>4, <3>2, <3>3
    <3> QED
      BY <1>4, <1>9, <2>1, <3>2, <3>3, <3>4
  <2>3. 5 \in DOMAIN bytes /\ bytes[5] = m
    <3>1. bytes = h \o k
      BY <1>13, <2>1
    <3>2. Len(bytes) = 4 + Len(k) /\ bytes[5] = k[1]
      <4>1. h \in Seq(Nat) /\ k \in Seq(Nat) /\ Len(k) \in Nat
        BY <1>5, <2>2
      <4>2. /\ Len(bytes) = Len(h) + Len(k)
            /\ \A i \in 1..(Len(h) + Len(k)) :
                 bytes[i] = IF i <= Len(h) THEN h[i] ELSE k[i - Len(h)]
        BY <3>1, <4>1, Joined
      <4>3. 5 \in 1..(Len(h) + Len(k)) /\ ~ (5 <= Len(h)) /\ 5 - Len(h) = 1
        BY <1>5, <2>2, <4>1
      <4>4. bytes[5] = k[5 - Len(h)]
        BY <4>2, <4>3
      <4> QED
        BY <1>5, <4>2, <4>3, <4>4
    <3> QED
      BY <1>14, <2>2, <3>2
  <2>4. m \in 0..255
    BY <1>15, <2>3, CommandAssumption DEF AreBytes
  <2>5. LcOf(data) = m
    <3>1. m % 256 = m
      BY <1>2, <2>4, RemainderOfByte
    <3> QED
      BY <1>1, <3>1 DEF LcOf
  <2> QED
    BY <1>3, <1>8, <1>13, <1>7, <2>5
<1> QED
  BY <1>14, <1>15 DEF bytes, coming

LEMMA LcIsByte == \A data \in Seq(Byte) : <<LcOf(data)>> \in Seq(Byte) /\ Len(<<LcOf(data)>>) = 1
<1> SUFFICES ASSUME NEW data \in Seq(Byte)
             PROVE  <<LcOf(data)>> \in Seq(Byte) /\ Len(<<LcOf(data)>>) = 1
  OBVIOUS
<1>1. LcOf(data) \in Byte
  <2>1. PICK n \in Nat : n = Len(data)
    OBVIOUS
  <2>2. n % 256 \in 0..255
    BY <2>1, RemainderOfByte
  <2> QED
    BY <2>1, <2>2, CommandAssumption DEF LcOf
<1> QED
  BY <1>1

LEMMA AppendingCalls ==
  /\ \A b \in Seq(Byte) : /\ Call("append", b) \in Appending /\ Call("append", b).bytes = b
                          /\ Len(b) = 1 => Call("push_back", b) \in Appending
                          /\ Call("push_back", b).bytes = b
  BY DEF Appending, Call

LEMMA FromDataKept ==
  ASSUME IInv, fault = "none", NEW h \in Header, NEW data \in Seq(Byte), FromData(h, data)
  PROVE  IInv'
<1>1. PICK c, d : c = Call("push_back", <<LcOf(data)>>) /\ d = Call("append", data)
  OBVIOUS
<1>2. /\ c \in Appending /\ c.bytes = <<LcOf(data)>> /\ d \in Appending /\ d.bytes = data
      /\ <<LcOf(data)>> \in Seq(Byte)
  BY <1>1, LcIsByte, AppendingCalls
<1>3. PICK t, none : t = <<c, d>> /\ none = <<>>
  OBVIOUS
<1>4. t \in Tails /\ Part(t, 1) = <<LcOf(data)>> /\ Part(t, 2) = data /\ Part(t, 3) = none
  BY <1>2, <1>3 DEF Tails, Part
<1>5. Coming(t) = <<LcOf(data)>> \o (data \o none)
  BY <1>4 DEF Coming
<1>6. PICK bytes : bytes = h \o <<Len(data)>> \o data
  OBVIOUS
<1>7. none \in Seq(Byte) /\ none \in Seq(Character) /\ h \in Seq(Byte)
  BY <1>3, EmptySeq, HeaderIs
<1>8. bytes = ((h \o <<Len(data)>>) \o data) \o none
  <2>1. h \in Seq(Nat) /\ <<Len(data)>> \in Seq(Nat) /\ data \in Seq(Nat)
    <3>1. Len(data) \in Nat
      OBVIOUS
    <3> QED
      BY <1>7, <3>1, BytesAreNumbers
  <2>2. bytes \in Seq(Nat)
    BY <1>6, <2>1, ConcatProperties
  <2> QED
    BY <1>3, <1>6, <2>2, ConcatEmptySeq
<1>9. /\ bytes \in Seq(Nat)
      /\ (\A i \in DOMAIN bytes : bytes[i] \in Byte) => h \o Coming(t) = bytes
  <2>1. none \in Seq(Byte)
    BY <1>7
  <2>2. /\ Whole(h, data, none) \in Seq(Nat)
        /\ AreBytes(Whole(h, data, none)) => h \o Rest(data, none) = Whole(h, data, none)
    BY <2>1, LengthFits
  <2>3. bytes = Whole(h, data, none)
    BY <1>8 DEF Whole
  <2>4. Coming(t) = Rest(data, none)
    BY <1>5 DEF Rest
  <2> QED
    BY <2>2, <2>3, <2>4 DEF AreBytes
<1>10. PICK calls : calls = WithData(h, data)
  OBVIOUS
<1>11. Constructor(calls, none, bytes) /\ calls = WithHeader(h) \o t
  BY <1>1, <1>3, <1>6, <1>10 DEF FromData, WithData
<1> QED
  BY <1>4, <1>7, <1>9, <1>11, ConstructorKeeps

LEMMA FromDataAndLeKept ==
  ASSUME IInv, fault = "none", NEW h \in Header, NEW data \in Seq(Byte), NEW le \in Byte,
         FromDataAndLe(h, data, le)
  PROVE  IInv'
<1>1. PICK c, d, e : /\ c = Call("push_back", <<LcOf(data)>>) /\ d = Call("append", data)
                     /\ e = Call("push_back", <<le>>)
  OBVIOUS
<1>2. /\ c \in Appending /\ c.bytes = <<LcOf(data)>> /\ d \in Appending /\ d.bytes = data
      /\ e \in Appending /\ e.bytes = <<le>> /\ <<LcOf(data)>> \in Seq(Byte)
      /\ <<le>> \in Seq(Byte)
  <2>1. <<le>> \in Seq(Byte) /\ Len(<<le>>) = 1
    OBVIOUS
  <2> QED
    BY <1>1, <2>1, LcIsByte, AppendingCalls
<1>3. PICK t, none : t = <<c, d>> \o <<e>> /\ none = <<>>
  OBVIOUS
<1>4. t \in Tails /\ Part(t, 1) = <<LcOf(data)>> /\ Part(t, 2) = data /\ Part(t, 3) = <<le>>
  <2>1. <<c, d>> \in Seq(Appending) /\ <<e>> \in Seq(Appending)
    BY <1>2
  <2>2. t \in Seq(Appending) /\ Len(t) = 3 /\ t[1] = c /\ t[2] = d /\ t[3] = e
    BY <1>3, <2>1
  <2> QED
    <3>1. t \in Tails
      <4>1. Len(t) <= 3
        BY <2>2
      <4> QED
        BY <2>2, <4>1 DEF Tails
    <3>2. Part(t, 1) = t[1].bytes /\ Part(t, 2) = t[2].bytes /\ Part(t, 3) = t[3].bytes
      BY <2>2 DEF Part
    <3> QED
      BY <1>2, <2>2, <3>1, <3>2
<1>5. Coming(t) = <<LcOf(data)>> \o (data \o <<le>>)
  BY <1>4 DEF Coming
<1>6. PICK bytes, x : bytes = h \o <<Len(data)>> \o data \o <<le>> /\ x = <<le>>
  OBVIOUS
<1>7. none \in Seq(Character) /\ h \in Seq(Byte) /\ x \in Seq(Byte)
  BY <1>2, <1>3, <1>6, EmptySeq, HeaderIs
<1>8. /\ bytes \in Seq(Nat)
      /\ (\A i \in DOMAIN bytes : bytes[i] \in Byte) => h \o Coming(t) = bytes
  <2>1. x \in Seq(Byte)
    BY <1>7
  <2>2. /\ Whole(h, data, x) \in Seq(Nat)
        /\ AreBytes(Whole(h, data, x)) => h \o Rest(data, x) = Whole(h, data, x)
    BY <2>1, LengthFits
  <2>3. bytes = Whole(h, data, x)
    BY <1>6 DEF Whole
  <2>4. Coming(t) = Rest(data, x)
    BY <1>5, <1>6 DEF Rest
  <2> QED
    BY <2>2, <2>3, <2>4 DEF AreBytes
<1>9. PICK calls : calls = WithData(h, data) \o <<e>>
  OBVIOUS
<1>10. Constructor(calls, none, bytes)
  BY <1>1, <1>3, <1>6, <1>9 DEF FromDataAndLe
<1>11. calls = WithHeader(h) \o t
  <2>1. /\ WithHeader(h) \in Seq(Calls) /\ <<c, d>> \in Seq(Calls) /\ <<e>> \in Seq(Calls)
    <3>1. <<>> \in Seq(Byte) /\ c \in Calls /\ d \in Calls /\ e \in Calls
      BY <1>2, TailsAreCalls, EmptySeq
    <3>2. Call("count", <<>>) \in Calls /\ Call("header", h) \in Calls
      BY <1>7, <3>1 DEF Call, Calls, CallName
    <3> QED
      BY <3>1, <3>2 DEF WithHeader
  <2>2. calls = (WithHeader(h) \o <<c, d>>) \o <<e>>
    BY <1>1, <1>9 DEF WithData
  <2> QED
    BY <1>3, <2>1, <2>2, ConcatAssociative
<1> QED
  BY <1>4, <1>7, <1>8, <1>10, <1>11, ConstructorKeeps

LEMMA FromDumpKept ==
  ASSUME IInv, fault = "none", NEW bytes \in Seq(Byte), NEW upper_case \in BOOLEAN,
         FromDump(bytes, upper_case)
  PROVE  IInv'
<1>1. PICK text : text = hex_string_of(bytes, upper_case)
  OBVIOUS
<1>2. text \in Seq(Character) /\ bytes = Meaning(text)
  BY <1>1, StringMeansBytes
<1>3. Constructor(Parse, text, bytes)
  BY <1>1 DEF FromDump
<1> QED
  BY <1>2, <1>3, FromStringKept

LEMMA GetResponseKept ==
  ASSUME IInv, fault = "none", NEW sw2 \in Byte, GetResponse(sw2)
  PROVE  IInv'
<1>1. PICK text, start : /\ text = <<"8", "0", "C", "0", "0", "0", "0", "0">>
                         /\ start = <<128, 192, 0, 0>>
  OBVIOUS
<1>2. text \in Seq(Character) /\ start = Meaning(text)
  BY <1>1, GetResponseMeans
<1>3. PICK e, x : e = Call("push_back", x) /\ x = <<sw2>>
  OBVIOUS
<1>4. x \in Seq(Byte) /\ Len(x) = 1
  BY <1>3
<1>5. e \in Appending /\ e.bytes = x
  BY <1>3, <1>4, AppendingCalls
<1>6. PICK t : t = <<e>>
  OBVIOUS
<1>7. t \in Tails /\ Part(t, 1) = x /\ Part(t, 2) = <<>> /\ Part(t, 3) = <<>>
  BY <1>5, <1>6 DEF Tails, Part
<1>8. Coming(t) = x
  BY <1>4, <1>7, ConcatEmptySeq, EmptySeq DEF Coming
<1>9. PICK bytes, calls : bytes = <<128, 192, 0, 0, sw2>> /\ calls = Parse \o t
  OBVIOUS
<1>10. start \in Seq(Byte) /\ bytes \in Seq(Byte) /\ bytes \in Seq(Nat)
  <2>1. 128 \in Byte /\ 192 \in Byte /\ 0 \in Byte
    BY CommandAssumption
  <2>2. start \in Seq(Byte)
    BY <1>1, <2>1
  <2>3. bytes \in Seq(Byte)
    BY <1>9, <2>1
  <2> QED
    BY <2>2, <2>3, BytesAreNumbers
<1>11. start \o Coming(t) = bytes
  <2>1. /\ start \in Seq(Byte) /\ Len(start) = 4
        /\ start[1] = 128 /\ start[2] = 192 /\ start[3] = 0 /\ start[4] = 0
    BY <1>1, <1>10
  <2>2. x \in Seq(Byte) /\ Len(x) = 1 /\ x[1] = sw2
    BY <1>3, <1>4
  <2>3. /\ bytes \in Seq(Byte) /\ Len(bytes) = 5
        /\ bytes[1] = 128 /\ bytes[2] = 192 /\ bytes[3] = 0 /\ bytes[4] = 0
        /\ bytes[5] = sw2
    BY <1>9, <1>10
  <2>4. PICK both : both = start \o x
    OBVIOUS
  <2>5. /\ both \in Seq(Byte) /\ Len(both) = Len(start) + Len(x)
        /\ \A i \in 1..(Len(start) + Len(x)) :
             both[i] = IF i <= Len(start) THEN start[i] ELSE x[i - Len(start)]
    <3>1. start \in Seq(Byte) /\ x \in Seq(Byte)
      BY <2>1, <2>2
    <3> QED
      BY <2>4, <3>1, ConcatProperties
  <2>6. \A i \in 1..5 : both[i] = bytes[i]
    <3>1. \A i \in 1..5 : both[i] = IF i <= 4 THEN start[i] ELSE x[i - 4]
      BY <2>1, <2>2, <2>5
    <3>2. \A i \in 1..5 : i = 1 \/ i = 2 \/ i = 3 \/ i = 4 \/ i = 5
      OBVIOUS
    <3> QED
      BY <2>1, <2>2, <2>3, <3>1, <3>2
  <2>7. Len(both) = 5
    BY <2>1, <2>2, <2>5
  <2>8. both = bytes
    <3>1. both \in Seq(Byte) /\ bytes \in Seq(Byte) /\ Len(both) = Len(bytes)
      BY <2>3, <2>5, <2>7
    <3>2. \A i \in 1..Len(both) : both[i] = bytes[i]
      BY <2>6, <2>7
    <3> QED
      BY <3>1, <3>2, SeqEqual
  <2> QED
    BY <1>8, <2>4, <2>8
<1>12. Constructor(calls, text, bytes)
  BY <1>1, <1>3, <1>6, <1>9 DEF GetResponse
<1> QED
  BY <1>2, <1>7, <1>9, <1>10, <1>11, <1>12, ConstructorKeeps

(* A call of the client, with what the client has. *)
LEMMA ClientKept ==
  ASSUME IInv, Client
  PROVE  IInv'
<1>1. fault = "none"
  BY DEF Client
<1>2. ASSUME NEW h \in Header, FromHeader(h) PROVE IInv'
  BY <1>1, <1>2, FromHeaderKept
<1>3. ASSUME NEW h \in Header, NEW d \in Data, FromData(h, d) PROVE IInv'
  <2>1. d \in Seq(Byte)
    BY CommandAssumption
  <2> QED
    BY <1>1, <1>3, <2>1, FromDataKept
<1>4. ASSUME NEW h \in Header, NEW d \in Data, NEW le \in Le, FromDataAndLe(h, d, le)
      PROVE  IInv'
  <2>1. d \in Seq(Byte) /\ le \in Byte
    BY CommandAssumption
  <2> QED
    BY <1>1, <1>4, <2>1, FromDataAndLeKept
<1>5. ASSUME NEW text \in Text, FromString(text) PROVE IInv'
  <2>1. PICK bytes : bytes = Meaning(text)
    OBVIOUS
  <2>2. text \in Seq(Character) /\ Constructor(Parse, text, bytes)
    BY <1>5, <2>1, CommandAssumption DEF FromString
  <2> QED
    BY <1>1, <2>1, <2>2, FromStringKept
<1>6. ASSUME NEW bytes \in Dump, NEW upper_case \in BOOLEAN, FromDump(bytes, upper_case)
      PROVE  IInv'
  <2>1. bytes \in Seq(Byte)
    BY CommandAssumption
  <2> QED
    BY <1>1, <1>6, <2>1, FromDumpKept
<1>7. ASSUME NEW sw2 \in Le, GetResponse(sw2) PROVE IInv'
  <2>1. sw2 \in Byte
    BY CommandAssumption
  <2> QED
    BY <1>1, <1>7, <2>1, GetResponseKept
<1>8. CASE Destructor
  BY <1>1, <1>8, DestructorKept
<1> QED
  BY <1>2, <1>3, <1>4, <1>5, <1>6, <1>7, <1>8 DEF Client

LEMMA ProgramKept ==
  ASSUME IInv, Program
  PROVE  IInv'
  BY CountKept, SetHeaderKept, PushBackKept, AppendKept, ResizeKept, ParseByteKept,
     ParseEndsKept, CleanupKept, EndKept DEF Program

LEMMA StutterKept ==
  ASSUME IInv, UNCHANGED vars
  PROVE  IInv'
<1>1. /\ UNCHANGED <<heap, object, fault, allocatorThrows>>
      /\ UNCHANGED <<todo, str, pos, intended>>
  BY DEF vars, objectVars, commandVars
<1>2. Owned' /\ TypeOK'
  <2>1. TypeOK' /\ Living' = Living
    BY <1>1 DEF IInv, Owned, TypeOK, Living
  <2>2. \A o : Fitting(object[o], heap)' <=> Fitting(object[o], heap)
    BY <1>1 DEF Fitting
  <2> QED
    BY <1>1, <2>1, <2>2 DEF IInv, Owned
<1>3. CommandTypeOK' /\ str' \in Seq(Character) /\ (Exists => IsArray(capdu))'
  BY <1>1, <1>2 DEF IInv, CommandTypeOK, Exists, IsArray, IsA
<1>4. /\ Exists' = Exists /\ SoFar' = SoFar /\ (Overlong' <=> Overlong)
      /\ \A n : Sized(n)' <=> Sized(n)
  BY <1>1 DEF Exists, SoFar, Content, Overlong, Sized
<1>5. \A c, t : (Leads(c, t)' <=> Leads(c, t)) /\ (TooShort(c, t)' <=> TooShort(c, t))
  BY <1>1, <1>4 DEF Leads, TooShort
<1>6. /\ \A h, t : (AtCount(h, t)' <=> AtCount(h, t)) /\ (AtHeader(h, t)' <=> AtHeader(h, t))
      /\ \A t : AtResize(t)' <=> AtResize(t)
  BY <1>1, <1>4, <1>5 DEF AtCount, AtHeader, AtResize
<1>7. \A t : (AtParse(t)' <=> AtParse(t)) /\ (AtTail(t)' <=> AtTail(t))
  BY <1>1, <1>4, <1>5 DEF AtParse, AtTail, Leads, TooShort
<1>8. \A t : Constructing(t)' <=> Constructing(t)
  BY <1>6, <1>7 DEF Constructing
<1>9. AtSome' <=> AtSome
  BY <1>1, <1>4, <1>8 DEF AtSome, Nothing, Dying
<1>10. CrashedShort' <=> CrashedShort
  BY <1>1, <1>4 DEF CrashedShort, TooShort
<1> QED
  BY <1>1, <1>2, <1>3, <1>9, <1>10 DEF IInv

-----------------------------------------------------------------------------
(* The invariant. *)

LEMMA Invariant == Spec => []IInv
<1>1. CommandInit => IInv
  <2> SUFFICES ASSUME CommandInit PROVE IInv
    OBVIOUS
  <2>1. Owned /\ TypeOK
    BY InitiallyOwned DEF CommandInit, Owned
  <2>2. ~ Exists /\ fault = "none" /\ todo = <<>>
    BY CommandAssumption DEF CommandInit, Init, Exists
  <2>3. CommandTypeOK /\ str \in Seq(Character)
    BY <2>1, EmptySeq DEF CommandInit, CommandTypeOK
  <2> QED
    BY <2>1, <2>2, <2>3 DEF IInv, AtSome, Nothing
<1>2. IInv /\ [Next]_vars => IInv'
  BY ClientKept, ProgramKept, StutterKept DEF Next
<1> QED
  BY <1>1, <1>2, PTL DEF Spec

(* A command that is finished is what the client intended, or, after an
   allocation failed without an exception, shorter. *)
LEMMA FinishedIs ==
  ASSUME IInv, Finished, ~ Overlong
  PROVE  /\ Command = SoFar
         /\ \/ SoFar = intended
            \/ ~ allocatorThrows /\ Len(SoFar) < Len(intended)
<1>1. Exists /\ todo = <<>>
  BY DEF Finished
<1>2. Command = SoFar
  <2>1. /\ Sound(Self, Others(capdu)) /\ Others(capdu) \in SUBSET Addr
        /\ Self.self = object[capdu] /\ Self.self.kind = "array" /\ Self.heap = heap
        /\ Content(Self.self, Self.heap) = SoFar
        /\ SoFar \in Block /\ Len(SoFar) = object[capdu].m_size /\ Len(SoFar) \in Nat
    BY <1>1, SelfIs
  <2>2. PICK n : n = object[capdu].m_size
    OBVIOUS
  <2>3. n \in Nat /\ n <= Self.self.m_size
    BY <2>1, <2>2
  <2>4. /\ Bytes(Self.heap, Self.self.data, 0, n) \in Block
        /\ Len(Bytes(Self.heap, Self.self.data, 0, n)) = n
        /\ \A i \in 1..n : Bytes(Self.heap, Self.self.data, 0, n)[i]
                             = Content(Self.self, Self.heap)[i]
    BY <2>1, <2>3, ContentRead
  <2>5. /\ Command \in Block /\ Len(Command) = n
        /\ \A i \in 1..n : Command[i] = SoFar[i]
    BY <2>1, <2>2, <2>4 DEF Command
  <2>6. Command \in Seq(Value) /\ SoFar \in Seq(Value) /\ Len(Command) = Len(SoFar)
    BY <2>1, <2>2, <2>5 DEF Block
  <2>7. \A i \in 1..Len(Command) : Command[i] = SoFar[i]
    BY <2>5
  <2> QED
    BY <2>6, <2>7, SeqEqual
<1>3. Coming(<<>>) = <<>> /\ Len(<<>>) = 0 /\ <<>> \in Tails
  BY ComingOfNone
<1>4. SoFar \in Seq(Value) /\ Len(SoFar) \in Nat /\ SoFar \o <<>> = SoFar
  BY <1>1, SelfIs, ConcatEmptySeq DEF Block
<1>5. CASE fault # "none"
  <2>1. ~ allocatorThrows /\ TooShort(SoFar, <<>>)
    BY <1>5 DEF IInv, CrashedShort
  <2>2. Len(SoFar) + 0 < Len(intended)
    BY <1>3, <2>1 DEF TooShort
  <2> QED
    BY <1>2, <1>4, <2>1, <2>2
<1>6. CASE fault = "none"
  <2>1. AtSome
    BY <1>6 DEF IInv
  <2>2. ~ Dying /\ ~ Nothing
    BY <1>1, DyingPoints DEF Nothing, Executes
  <2>3. PICK t \in Tails : Constructing(t)
    BY <2>1, <2>2 DEF AtSome
  <2>4. AtTail(t)
    BY <1>1, <2>3, Points DEF Constructing, Executes
  <2>5. t = <<>>
    BY <1>1, <2>4 DEF AtTail
  <2>6. CASE Leads(SoFar, t)
    BY <1>2, <1>3, <1>4, <2>5, <2>6 DEF Leads
  <2>7. CASE ~ allocatorThrows /\ TooShort(SoFar, t)
    <3>1. Len(SoFar) + 0 < Len(intended)
      BY <1>3, <2>5, <2>7 DEF TooShort
    <3> QED
      BY <1>2, <1>4, <2>7, <3>1
  <2> QED
    BY <2>4, <2>6, <2>7 DEF AtTail
<1> QED
  BY <1>5, <1>6
-----------------------------------------------------------------------------
(* The counter of byte_array_of has eight bits: strings of less than 256
   characters are parsed to their end, and no others. *)

Ending == todo # <<>> /\ Head(todo).name \in {"cleanup", "end"}

(* What is left to do: the calls of the destructor, or those of the
   constructor, each of which weighs more than what the counter can gain. *)
Remaining ==
  IF todo = <<>> THEN 0
  ELSE IF Ending THEN Len(todo)
  ELSE 4 + 256 * Len(todo) - pos

(* A step leaves less to do, and the string as short. *)
Advances ==
  todo # <<>> /\ Len(str) < 256 =>
    /\ Remaining' \in Nat /\ Remaining' < Remaining
    /\ Len(str') < 256

(* A long string is parsed once more. *)
ParsesOn ==
  Executes("parse") /\ Len(str) >= 256 /\ object[capdu].data # NULL =>
    todo' = todo /\ str' = str /\ object'[capdu] = object[capdu]

(* The program has work left when it is not idle. *)
LEMMA Weight ==
  ASSUME IInv
  PROVE  /\ todo \in Seq(Calls) /\ Len(todo) \in Nat /\ (todo # <<>> => Len(todo) >= 1)
         /\ pos \in 0..255
         /\ Remaining \in Nat
         /\ todo # <<>> /\ ~ Ending => Remaining = 4 + 256 * Len(todo) - pos
         /\ Ending => Remaining = Len(todo)
<1>1. todo \in Seq(Calls) /\ pos \in 0..255
  BY DEF IInv, CommandTypeOK, Calls
<1>2. Len(todo) \in Nat /\ (todo # <<>> => Len(todo) >= 1)
  BY <1>1, EmptySeq
<1> QED
  BY <1>1, <1>2 DEF Remaining, Ending

LEMMA DestructionWeighs ==
  /\ Len(Destruction) = 3 /\ Destruction # <<>>
  /\ Len(Tail(Destruction)) = 2 /\ Len(Tail(Tail(Destruction))) = 1
<1>1. Destruction \in Seq(Calls) /\ Len(Destruction) = 3
  BY DestructionIs DEF Destruction
<1> QED
  BY <1>1, DestructionIs

(* A call of a constructor is done, or left by an exception. *)
LEMMA GoesOnAdvances ==
  ASSUME IInv, IInv', todo # <<>>, ~ Ending, NEW q, GoesOn(q)
  PROVE  Remaining' \in Nat /\ Remaining' < Remaining /\ str' = str
<1>1. /\ todo' = IF Thrown(q) THEN Destruction ELSE Tail(todo)
      /\ pos' = pos /\ str' = str
  BY DEF GoesOn
<1>2. /\ todo \in Seq(Calls) /\ Len(todo) \in Nat /\ Len(todo) >= 1 /\ pos \in 0..255
      /\ Remaining = 4 + 256 * Len(todo) - pos
  BY Weight
<1>3. Remaining > 4
  BY <1>2
<1>4. CASE Thrown(q)
  <2>1. todo' = Destruction
    BY <1>1, <1>4
  <2>2. Remaining' = 3
    BY <2>1, DestructionWeighs, DestructionIs DEF Remaining, Ending
  <2> QED
    BY <1>1, <1>2, <1>3, <2>2
<1>5. CASE ~ Thrown(q)
  <2>1. PICK u : u = Tail(todo)
    OBVIOUS
  <2>2. u \in Seq(Calls) /\ Len(u) = Len(todo) - 1 /\ Len(u) \in Nat
    BY <1>2, <2>1
  <2>3. todo' = u
    BY <1>1, <1>5, <2>1
  <2>4. \/ Remaining' = 0 \/ Remaining' = Len(u)
        \/ Len(u) >= 1 /\ Remaining' = 4 + 256 * Len(u) - pos
    BY <1>1, <2>2, <2>3, EmptySeq DEF Remaining
  <2>5. PICK n \in Nat : n = Len(todo)
    BY <1>2
  <2>6. n >= 1 /\ Len(u) = n - 1 /\ pos \in 0..255 /\ Remaining = 4 + 256 * n - pos
    BY <1>2, <2>2, <2>5
  <2>7. Remaining' \in Nat /\ Remaining' < Remaining
    <3>1. CASE Remaining' = 0
      BY <2>6, <3>1
    <3>2. CASE Remaining' = Len(u)
      BY <2>5, <2>6, <3>2
    <3>3. CASE Len(u) >= 1 /\ Remaining' = 4 + 256 * Len(u) - pos
      <4>1. n >= 2 /\ Remaining' = 4 + 256 * (n - 1) - pos
        BY <2>5, <2>6, <3>3
      <4> QED
        BY <2>5, <2>6, <4>1
    <3> QED
      BY <2>4, <3>1, <3>2, <3>3
  <2> QED
    BY <1>1, <2>7
<1> QED
  BY <1>4, <1>5

(* So is a call of the destructor, which does not throw. *)
LEMMA EndingAdvances ==
  ASSUME IInv, IInv', fault = "none", Cleanup \/ End
  PROVE  Remaining' \in Nat /\ Remaining' < Remaining /\ (str' = str \/ str' = <<>>)
<1>1. todo # <<>> /\ AtSome /\ Ending
  BY DEF Cleanup, End, Executes, IInv, Ending
<1>2. Exists /\ Dying
  BY <1>1, PointOf DEF Cleanup, End
<1>3. /\ todo \in Seq(Calls) /\ Len(todo) \in Nat /\ Len(todo) >= 1
      /\ Remaining = Len(todo)
  BY <1>1, Weight
<1>4. CASE Cleanup
  <2>1. /\ Sound(Self, Others(capdu)) /\ Others(capdu) \in SUBSET Addr
        /\ Self.self.kind = "array" /\ ~ Self.failed
    BY <1>2, SelfIs
  <2>2. ~ CleanedUp(Self).failed
    BY <2>1, CleanedUpSound
  <2>3. todo' = Tail(todo) /\ str' = str
    BY <1>4, <2>2 DEF Cleanup, GoesOn, Thrown
  <2>4. Tail(todo) \in {Tail(Destruction), Tail(Tail(Destruction))}
    BY <1>2, <1>4, DyingPoints DEF Cleanup, Executes
  <2>5. todo' # <<>> /\ Ending'
    BY <2>3, <2>4, DestructionIs DEF Ending
  <2>6. Remaining' = Len(todo')
    BY <2>5 DEF Remaining
  <2>7. Len(Tail(todo)) = Len(todo) - 1
    BY <1>1, <1>3
  <2> QED
    BY <1>3, <2>3, <2>6, <2>7
<1>5. CASE End
  <2>1. todo' = <<>> /\ str' = <<>>
    BY <1>5 DEF End
  <2>2. Remaining' = 0
    BY <2>1 DEF Remaining
  <2> QED
    BY <1>3, <2>1, <2>2
<1> QED
  BY <1>4, <1>5

(* What the loop of byte_array_of is bounded by: the size that resize gave, or
   none. *)
LEMMA ParseSize ==
  ASSUME IInv, fault = "none", Executes("parse")
  PROVE  /\ Exists /\ object[capdu].m_size \in Nat /\ Len(str) \in Nat
         /\ object[capdu].m_size = IF object[capdu].data = NULL THEN 0 ELSE Len(str) \div 2
<1>1. todo # <<>> /\ AtSome
  BY DEF Executes, IInv
<1>2. Exists
  BY <1>1, PointOf
<1>3. PICK t \in Tails : AtParse(t)
  BY <1>1, PointOf
<1>4. Len(SoFar) = object[capdu].m_size /\ Len(SoFar) \in Nat
  BY <1>2, SelfIs
<1>5. Len(str) \in Nat
  BY DEF IInv
<1>6. CASE object[capdu].data = NULL
  <2>1. SoFar = <<>>
    BY <1>6 DEF SoFar, Content
  <2> QED
    BY <1>2, <1>4, <1>5, <1>6, <2>1, Lengths
<1>7. CASE object[capdu].data # NULL
  BY <1>2, <1>3, <1>4, <1>5, <1>7 DEF AtParse, Sized
<1> QED
  BY <1>6, <1>7

(* An iteration for a short string is in front of its end, and the counter
   does not start again. *)
LEMMA ParseByteAdvances ==
  ASSUME IInv, fault = "none", ParseByte, Len(str) < 256
  PROVE  Remaining' \in Nat /\ Remaining' < Remaining /\ str' = str
<1>1. todo # <<>> /\ ~ Ending /\ Executes("parse")
  BY DEF ParseByte, Executes, Ending
<1>2. /\ pos' = NextPos(pos) /\ todo' = todo /\ str' = str
      /\ pos < 2 * object[capdu].m_size /\ pos < Len(str)
  BY DEF ParseByte, Continues
<1>3. pos \in 0..255 /\ pos % 2 = 0
  BY DEF IInv, CommandTypeOK
<1>4. /\ object[capdu].m_size \in Nat /\ Len(str) \in Nat
      /\ object[capdu].m_size = IF object[capdu].data = NULL THEN 0 ELSE Len(str) \div 2
  BY <1>1, ParseSize
<1>5. object[capdu].m_size <= 127
  BY <1>4
<1>6. pos + 2 <= 254
  BY <1>2, <1>3, <1>4, <1>5
<1>7. pos' = pos + 2
  <2>1. PICK n : n = pos + 2
    OBVIOUS
  <2>2. n \in Nat /\ n \in 0..255
    BY <1>3, <1>6, <2>1
  <2>3. n % 256 = n
    BY <2>2, RemainderOfByte
  <2>4. pos' = (pos + 2) % 256
    BY <1>2 DEF NextPos
  <2> QED
    BY <2>1, <2>3, <2>4, Zenon
<1>8. Len(todo) \in Nat /\ Len(todo) >= 1 /\ Remaining = 4 + 256 * Len(todo) - pos
  BY <1>1, Weight
<1>9. Remaining' = 4 + 256 * Len(todo) - (pos + 2)
  BY <1>1, <1>2, <1>7 DEF Remaining, Ending
<1> QED
  BY <1>2, <1>3, <1>6, <1>8, <1>9

LEMMA StepAdvances ==
  ASSUME IInv, IInv', Next
  PROVE  Advances
<1> SUFFICES ASSUME todo # <<>>, Len(str) < 256
             PROVE  /\ Remaining' \in Nat /\ Remaining' < Remaining
                    /\ Len(str') < 256
  BY DEF Advances
<1>1. ~ Client
  BY DEF Client, FromHeader, FromData, FromDataAndLe, FromString, FromDump, GetResponse,
         Constructor, Destructor, Finished
<1>2. Program /\ fault = "none"
  BY <1>1 DEF Next, Program
<1>3. CASE ParseByte
  BY <1>2, <1>3, ParseByteAdvances
<1>4. CASE Cleanup \/ End
  BY <1>2, <1>4, EndingAdvances, Lengths
<1>5. CASE Count \/ SetHeader \/ PushBack \/ AppendData \/ Resize \/ ParseEnds
  <2>1. ~ Ending
    BY <1>5 DEF Ending, Count, SetHeader, PushBack, AppendData, Resize, ParseEnds, Executes
  <2>2. \E q : GoesOn(q)
    BY <1>5 DEF Count, SetHeader, PushBack, AppendData, Resize, ParseEnds
  <2> QED
    BY <2>1, <2>2, GoesOnAdvances
<1> QED
  BY <1>2, <1>3, <1>4, <1>5 DEF Program

LEMMA LongParsesOn ==
  ASSUME IInv, Next
  PROVE  ParsesOn
<1> SUFFICES ASSUME Executes("parse"), Len(str) >= 256, object[capdu].data # NULL
             PROVE  todo' = todo /\ str' = str /\ object'[capdu] = object[capdu]
  BY DEF ParsesOn
<1>1. todo # <<>>
  BY DEF Executes
<1>2. ~ Client
  BY <1>1 DEF Client, FromHeader, FromData, FromDataAndLe, FromString, FromDump, GetResponse,
              Constructor, Destructor, Finished
<1>3. Program /\ fault = "none"
  BY <1>2 DEF Next, Program
<1>4. /\ Exists /\ Len(str) \in Nat /\ object[capdu].m_size = Len(str) \div 2
  BY <1>3, ParseSize
<1>5. pos \in 0..255 /\ object[capdu].m_size >= 128 /\ object[capdu].m_size \in Nat
  BY <1>4 DEF IInv, CommandTypeOK
<1>6. Continues(str, object[capdu].m_size, pos)
  <2>1. pos < Len(str)
    BY <1>4, <1>5
  <2>2. PICK n : n = object[capdu].m_size
    OBVIOUS
  <2>3. n \in Nat /\ n >= 128 /\ pos \in 0..255
    BY <1>5, <2>2
  <2>4. pos < 2 * n
    BY <2>3
  <2> QED
    BY <2>1, <2>2, <2>4 DEF Continues
<1>7. ParseByte
  BY <1>3, <1>6 DEF Program, Count, SetHeader, PushBack, AppendData, Resize, ParseEnds,
                    Cleanup, End, Executes
<1>8. PICK s : s = <<ByteAt(str, pos)>>
  OBVIOUS
<1>9. PICK q : q = Stored(Self, pos \div 2, s)
  OBVIOUS
<1>10. Ends(capdu, q) /\ todo' = todo /\ str' = str
  BY <1>7, <1>8, <1>9 DEF ParseByte
<1>11. Self \in Runs /\ Self.self = object[capdu] /\ capdu \in Obj
  BY <1>4, SelfIs DEF Sound
<1>12. q.self = object[capdu]
  BY <1>9, <1>11 DEF Stored, Crashed, Runs
<1>13. object \in [Obj -> Array \cup Buffer \cup {Dead}]
  BY DEF IInv, Owned, TypeOK
<1>14. object'[capdu] = object[capdu]
  BY <1>10, <1>11, <1>12, <1>13 DEF Ends
<1> QED
  BY <1>10, <1>14
-----------------------------------------------------------------------------
(* The theorems. *)

(* Blocks, calls, bytes and the counter of byte_array_of have their types. *)
THEOREM TypeCorrect == Spec => []CommandTypeOK
<1>1. IInv => CommandTypeOK
  BY DEF IInv
<1> QED
  BY <1>1, Invariant, PTL

(* Whatever the header, the data and the strings, and whatever allocations of
   the constructors' resize, push_back and append fail: a command of the
   intended length has the intended bytes, and every other one is shorter. *)
THEOREM LengthIsTelling == Spec => []LengthTells
<1>1. IInv => LengthTells
  BY FinishedIs DEF LengthTells
<1> QED
  BY <1>1, Invariant, PTL

(* With operator new[], which throws, the constructors never crash and make
   exactly what was intended; what byte_array_of parses of a string that
   hex_string_of has written is the bytes the string was written from. *)
THEOREM ThrowingMakesExact == Spec => []ThrowingIsExact
<1>1. IInv => ThrowingIsExact
  BY FinishedIs DEF ThrowingIsExact, IInv, Owned
<1> QED
  BY <1>1, Invariant, PTL

(* The destructor of ByteHeapArray runs twice for a command, and also after a
   constructor was left by an exception, and still the block is freed once. *)
THEOREM BlockFreedOnce == Spec => []FreedOnce
<1>1. IInv => FreedOnce
  BY CommandAssumption DEF IInv, Owned, Living, Fitting, FreedOnce, Exists
<1> QED
  BY <1>1, Invariant, PTL

(* A constructor that was called, of any data or of a string of less than 256
   characters, comes nearer to its end with every step, whatever fails: so do
   the destructor's two calls.  No iteration of byte_array_of repeats. *)
THEOREM ConstructionAdvances == Spec => [][Advances]_vars
<1>1. IInv /\ IInv' /\ [Next]_vars => [Advances]_vars
  BY StepAdvances
<1> QED
  BY <1>1, Invariant, PTL DEF Spec

(* For a longer string the loop of byte_array_of is never left: its counter of
   eight bits stays below the string's length, whatever the length. *)
THEOREM LongNeverParsed == Spec => [][ParsesOn]_vars
<1>1. IInv /\ [Next]_vars => [ParsesOn]_vars
  BY LongParsesOn
<1> QED
  BY <1>1, Invariant, PTL DEF Spec
================================================================================
