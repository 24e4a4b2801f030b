-------------------------- MODULE ByteHeapArrayProofs --------------------------
(***************************************************************************)
(* What the operations of ByteObjects and ByteHeapArray preserve, for any  *)
(* addresses and bytes: the lemmas that the proofs about the clients of    *)
(* these modules, ByteContainers and CommandApdu, are made of.             *)
(*                                                                         *)
(* An operation on one container goes through states that are records; a   *)
(* state is sound when the container owns its block, the others own theirs *)
(* (the addresses of which are the set rest), and no block is lost.        *)
(***************************************************************************)
EXTENDS ByteHeapArray, TLAPS

Heaps == [Addr -> Block \cup {Free}]

Runs ==
  [heap : Heaps, self : Array \cup Buffer, failed : BOOLEAN,
   fault : {"none", "null", "outside"}]

Operands == [data : Addr \cup {NULL, Caller}, from : Nat, bytes : Block]

(* The size that the container's block has. *)
Capacity(self) == IF self.kind = "array" THEN self.m_size ELSE self.m_capacity

(* The container self and its block in the heap h fit together. *)
Fitting(self, h) ==
  /\ self.data # NULL => h[self.data] # Free /\ Len(h[self.data]) = Capacity(self)
  /\ self.kind = "array" /\ self.data = NULL => self.m_size = 0
  /\ allocatorThrows => self.m_size <= IF self.data = NULL THEN 0 ELSE Capacity(self)

Sound(r, rest) ==
  /\ r \in Runs /\ r.fault = "none"
  /\ r.self.data \notin rest
  /\ \A a \in Addr : r.heap[a] # Free <=> a \in rest \/ a = r.self.data
  /\ \A a \in rest : r.heap[a] = heap[a]
  /\ Fitting(r.self, r.heap)

(* How an operation may end: in a sound state, or, with the memory manager, by
   a crash. *)
Done(r, rest) ==
  /\ r \in Runs
  /\ Sound(r, rest) \/ (r.fault # "none" /\ ~ allocatorThrows)
-----------------------------------------------------------------------------
(* Bytes. *)

LEMMA UnwrittenIs ==
  ASSUME NEW n \in Nat
  PROVE  Unwritten(n) \in Block /\ Len(Unwritten(n)) = n
<1>1. Unwritten(n) \in [1..n -> Value]
  BY DEF Unwritten, Value
<1>2. Unwritten(n) \in Seq(Value)
  BY <1>1
<1> QED
  BY <1>1, <1>2 DEF Block

LEMMA BytesAre ==
  ASSUME NEW h \in Heaps, NEW d \in Addr \cup {NULL}, NEW from \in Nat, NEW n \in Nat
  PROVE  Bytes(h, d, from, n) \in Block /\ Len(Bytes(h, d, from, n)) = n
<1>1. ASSUME NEW i \in 1..n
      PROVE  Bytes(h, d, from, n)[i] \in Value
  <2>1. CASE d # NULL /\ h[d] # Free /\ from + i <= Len(h[d])
    <3>1. h[d] \in Seq(Value) /\ from + i \in 1..Len(h[d])
      BY <2>1 DEF Heaps, Block
    <3>2. h[d][from + i] \in Value
      BY <3>1
    <3> QED
      BY <2>1, <3>2 DEF Bytes
  <2>2. CASE ~ (d # NULL /\ h[d] # Free /\ from + i <= Len(h[d]))
    BY <2>2 DEF Bytes, Value
  <2> QED
    BY <2>1, <2>2
<1>2. Bytes(h, d, from, n) \in [1..n -> Value]
  BY <1>1 DEF Bytes
<1>3. Bytes(h, d, from, n) \in Seq(Value)
  BY <1>2
<1> QED
  BY <1>2, <1>3 DEF Block

LEMMA OperandIs ==
  ASSUME NEW h \in Heaps, NEW src \in Operands
  PROVE  Operand(h, src) \in Block /\ Len(Operand(h, src)) = Len(src.bytes)
<1>1. src.bytes \in Block /\ Len(src.bytes) \in Nat /\ src.from \in Nat
  BY DEF Operands, Block
<1>2. CASE src.data = Caller
  BY <1>1, <1>2 DEF Operand
<1>3. CASE src.data # Caller
  <2>1. src.data \in Addr \cup {NULL}
    BY <1>3 DEF Operands
  <2> QED
    BY <1>1, <1>3, <2>1, BytesAre DEF Operand
<1> QED
  BY <1>2, <1>3

(* The first of a container's bytes in a block of n, and what is behind them. *)
LEMMA KeptBytes ==
  ASSUME NEW h \in Heaps, NEW d \in Addr \cup {NULL}, NEW m \in Nat, NEW n \in Nat, m <= n
  PROVE  /\ Bytes(h, d, 0, m) \o Unwritten(n - m) \in Block
         /\ Len(Bytes(h, d, 0, m) \o Unwritten(n - m)) = n
<1>1. n - m \in Nat
  OBVIOUS
<1>2. /\ Bytes(h, d, 0, m) \in Block /\ Len(Bytes(h, d, 0, m)) = m
      /\ Unwritten(n - m) \in Block /\ Len(Unwritten(n - m)) = n - m
  BY <1>1, BytesAre, UnwrittenIs
<1> QED
  BY <1>2 DEF Block
-----------------------------------------------------------------------------
(* The steps of an operation. *)

LEMMA ReleasedIs ==
  ASSUME NEW rest \in SUBSET Addr, NEW r, Sound(r, rest)
  PROVE  /\ Released(r).heap \in Heaps
         /\ \A a \in Addr : Released(r).heap[a] # Free <=> a \in rest
         /\ \A a \in rest : Released(r).heap[a] = heap[a]
         /\ Released(r) = [r EXCEPT !.heap = Released(r).heap, !.self.data = NULL]
<1>1. r \in Runs /\ r.self.data \in Addr \cup {NULL} /\ r.heap \in Heaps
  BY DEF Sound, Runs, Array, Buffer
<1>2. CASE r.self.data = NULL
  <2>1. Released(r) = r
    BY <1>2 DEF Released
  <2>2. r = [r EXCEPT !.heap = r.heap, !.self.data = NULL]
    BY <1>1, <1>2 DEF Runs, Array, Buffer
  <2> QED
    BY <1>1, <1>2, <2>1, <2>2, ObjectsAssumption DEF Sound
<1>3. CASE r.self.data # NULL
  <2>1. Released(r) = [r EXCEPT !.heap[r.self.data] = Free, !.self.data = NULL]
    BY <1>3 DEF Released
  <2>2. Released(r).heap = [r.heap EXCEPT ![r.self.data] = Free]
    BY <1>1, <2>1 DEF Runs
  <2>3. Released(r) = [r EXCEPT !.heap = Released(r).heap, !.self.data = NULL]
    BY <1>1, <2>1, <2>2 DEF Runs
  <2> QED
    BY <1>1, <1>3, <2>2, <2>3 DEF Sound, Heaps
<1> QED
  BY <1>2, <1>3

(* A container that gets a new block, once it has its sizes too. *)
LEMMA MovedSound ==
  ASSUME NEW rest \in SUBSET Addr, NEW r, Sound(r, rest), NEW s \in Block,
         NEW q \in Moves(r, s), NEW self \in Array \cup Buffer,
         self.data = q.self.data, Capacity(self) = Len(s), self.m_size <= Len(s)
  PROVE  /\ Sound([q EXCEPT !.self = self], rest)
         /\ q.self.data # NULL /\ q.failed = r.failed
<1>1. PICK a \in Addr :
        /\ r.heap[a] = Free
        /\ q = [r EXCEPT !.heap = [Released(r).heap EXCEPT ![a] = s], !.self.data = a]
  BY DEF Moves
<1>2. /\ r \in Runs /\ r.fault = "none" /\ r.self \in Array \cup Buffer /\ r.heap \in Heaps
      /\ a \notin rest /\ a # NULL /\ s # Free
  BY <1>1, ObjectsAssumption DEF Sound, Runs, Block
<1>3. /\ Released(r).heap \in Heaps
      /\ \A b \in Addr : Released(r).heap[b] # Free <=> b \in rest
      /\ \A b \in rest : Released(r).heap[b] = heap[b]
  BY ReleasedIs
<1>4. /\ q.heap = [Released(r).heap EXCEPT ![a] = s] /\ q.self.data = a
      /\ q.failed = r.failed /\ q.fault = "none" /\ q.failed \in BOOLEAN
  BY <1>1, <1>2 DEF Runs, Array, Buffer
<1>5. PICK h : h = q.heap
  OBVIOUS
<1>6. /\ h \in Heaps /\ h[a] = s
      /\ \A b \in Addr : h[b] # Free <=> b \in rest \/ b = a
      /\ \A b \in rest : h[b] = heap[b]
  BY <1>2, <1>3, <1>4, <1>5 DEF Heaps
<1>7. PICK t : t = [q EXCEPT !.self = self]
  OBVIOUS
<1>8. t.heap = h /\ t.self = self /\ t.failed = q.failed /\ t.fault = "none" /\ t \in Runs
  <2>1. t = [heap |-> h, self |-> self, failed |-> q.failed, fault |-> "none"]
    BY <1>1, <1>2, <1>4, <1>5, <1>7 DEF Runs
  <2> QED
    BY <2>1, <1>4, <1>6 DEF Runs
<1>9. Fitting(self, h)
  BY <1>2, <1>4, <1>6 DEF Fitting, Array, Buffer
<1> QED
  BY <1>2, <1>4, <1>6, <1>7, <1>8, <1>9 DEF Sound

LEMMA FailedSound ==
  ASSUME NEW rest \in SUBSET Addr, NEW r, Sound(r, rest)
  PROVE  Sound(Failed(r), rest) /\ Failed(r).failed /\ Failed(r).self = r.self
<1>1. /\ Failed(r).heap = r.heap /\ Failed(r).self = r.self /\ Failed(r).failed
      /\ Failed(r).fault = r.fault /\ Failed(r) \in Runs
  BY DEF Failed, Sound, Runs
<1> QED
  BY <1>1 DEF Sound

LEMMA ArrayMovesSound ==
  ASSUME NEW rest \in SUBSET Addr, NEW r, Sound(r, rest), r.self.kind = "array",
         NEW s \in Block, NEW q \in ArrayMoves(r, s)
  PROVE  /\ Sound(q, rest) /\ q.self.kind = "array"
         /\ \/ q.failed /\ q.self = r.self
            \/ q.failed = r.failed /\ q.self.data # NULL /\ q.self.m_size = Len(s)
<1>1. CASE q = Failed(r)
  BY <1>1, FailedSound
<1>2. ASSUME NEW p \in Moves(r, s), q = [p EXCEPT !.self.m_size = Len(s)]
      PROVE  /\ Sound(q, rest) /\ q.self.kind = "array"
             /\ q.failed = r.failed /\ q.self.data # NULL /\ q.self.m_size = Len(s)
  <2>1. Len(s) \in Nat
    BY DEF Block
  <2>2. r \in Runs /\ r.self \in Array
    BY DEF Sound, Runs, Array, Buffer
  <2>3. PICK a, h : a \in Addr /\ p = [r EXCEPT !.heap = h, !.self.data = a]
    BY DEF Moves
  <2>4. PICK self : self = [kind |-> "array", data |-> a, m_size |-> Len(s)]
    OBVIOUS
  <2>5. self \in Array /\ p.self.data = a /\ q = [p EXCEPT !.self = self]
    <3>1. p.self = [kind |-> "array", data |-> a, m_size |-> r.self.m_size]
      BY <2>2, <2>3 DEF Runs, Array
    <3>2. self = [p.self EXCEPT !.m_size = Len(s)]
      BY <2>4, <3>1
    <3>3. q = [p EXCEPT !.self = self]
      BY <1>2, <3>2
    <3> QED
      BY <2>1, <2>3, <2>4, <3>1, <3>3 DEF Array
  <2>6. Sound([p EXCEPT !.self = self], rest) /\ p.self.data # NULL /\ p.failed = r.failed
    <3>1. self.data = p.self.data /\ Capacity(self) = Len(s) /\ self.m_size <= Len(s)
      BY <2>1, <2>4, <2>5 DEF Capacity
    <3> QED
      BY <2>5, <3>1, MovedSound
  <2>7. q.self = self /\ q.failed = p.failed
    BY <2>2, <2>3, <2>5 DEF Runs
  <2> QED
    BY <2>4, <2>5, <2>6, <2>7
<1> QED
  BY <1>1, <1>2 DEF ArrayMoves

LEMMA CleanedUpSound ==
  ASSUME NEW rest \in SUBSET Addr, NEW r, Sound(r, rest), r.self.kind = "array"
  PROVE  /\ Sound(CleanedUp(r), rest) /\ CleanedUp(r).self = NoArray
         /\ CleanedUp(r).failed = r.failed
<1>1. r \in Runs /\ r.fault = "none" /\ r.self \in Array
  BY DEF Sound, Runs, Array, Buffer
<1>2. /\ Released(r).heap \in Heaps
      /\ \A a \in Addr : Released(r).heap[a] # Free <=> a \in rest
      /\ \A a \in rest : Released(r).heap[a] = heap[a]
      /\ Released(r) = [r EXCEPT !.heap = Released(r).heap, !.self.data = NULL]
  BY ReleasedIs
<1>3. PICK h : h = Released(r).heap
  OBVIOUS
<1>4. CleanedUp(r) = [heap |-> h, self |-> NoArray, failed |-> r.failed, fault |-> "none"]
  <2>1. PICK p : p = Released(r)
    OBVIOUS
  <2>2. p = [r EXCEPT !.heap = h, !.self.data = NULL]
    BY <1>2, <1>3, <2>1
  <2>3. /\ p.self = [kind |-> "array", data |-> NULL, m_size |-> r.self.m_size]
        /\ p = [heap |-> h, self |-> p.self, failed |-> r.failed, fault |-> "none"]
    BY <1>1, <2>2 DEF Runs, Array
  <2>4. CleanedUp(r) = [p EXCEPT !.self.m_size = 0]
    BY <2>1 DEF CleanedUp
  <2> QED
    BY <2>3, <2>4 DEF NoArray
<1> QED
  BY <1>1, <1>2, <1>3, <1>4, ObjectsAssumption DEF Sound, Runs, Array, NoArray, Fitting

(* Bytes stored inside a block leave everything as sound as it was; with an
   allocator that throws they must be inside. *)
LEMMA StoredDone ==
  ASSUME NEW rest \in SUBSET Addr, NEW r, Sound(r, rest), NEW at \in Int,
         NEW s \in Block,
         \/ ~ allocatorThrows
         \/ s = <<>>
         \/ r.self.data # NULL /\ at >= 0 /\ at + Len(s) <= Capacity(r.self)
  PROVE  /\ Done(Stored(r, at, s), rest)
         /\ Stored(r, at, s).self = r.self /\ Stored(r, at, s).failed = r.failed
<1>0. r \in Runs /\ r.self \in Array \cup Buffer /\ r.self.data \in Addr \cup {NULL}
  BY DEF Sound, Runs, Array, Buffer
<1>1. CASE s = <<>>
  BY <1>0, <1>1 DEF Stored, Done
<1>2. CASE s # <<>> /\ r.self.data = NULL
  <2>1. Stored(r, at, s) = [r EXCEPT !.fault = "null"]
    BY <1>2 DEF Stored, Crashed
  <2> QED
    BY <1>0, <1>2, <2>1 DEF Done, Runs
<1>3. CASE /\ s # <<>> /\ r.self.data # NULL
           /\ at < 0 \/ at + Len(s) > Len(r.heap[r.self.data])
  <2>1. Stored(r, at, s) = [r EXCEPT !.fault = "outside"]
    BY <1>3 DEF Stored, Crashed
  <2>2. ~ allocatorThrows
    BY <1>3, <1>0 DEF Sound, Fitting, Block, Capacity, Array, Buffer
  <2> QED
    BY <1>0, <2>1, <2>2 DEF Done, Runs
<1>4. CASE /\ s # <<>> /\ r.self.data # NULL
           /\ at >= 0 /\ at + Len(s) <= Len(r.heap[r.self.data])
  <2>1. PICK d, b : d = r.self.data /\ b = r.heap[d]
    OBVIOUS
  <2>2. PICK n : n = [i \in DOMAIN b |-> IF i - at \in DOMAIN s THEN s[i - at] ELSE b[i]]
    OBVIOUS
  <2>3. d \in Addr /\ b \in Block
    BY <1>0, <1>4, <2>1 DEF Sound, Fitting, Runs, Heaps
  <2>4. n \in Block /\ Len(n) = Len(b) /\ n # Free
    <3>1. \A i \in DOMAIN s : s[i] \in Value
      BY DEF Block
    <3>2. \A i \in DOMAIN b : b[i] \in Value
      BY <2>3 DEF Block
    <3>3. n \in [1..Len(b) -> Value]
      BY <2>2, <2>3, <3>1, <3>2 DEF Block
    <3>4. n \in Seq(Value)
      BY <2>3, <3>3 DEF Block
    <3> QED
      BY <2>3, <3>3, <3>4, ObjectsAssumption DEF Block
  <2>5. Stored(r, at, s) = [r EXCEPT !.heap[d] = n]
    BY <1>0, <1>4, <2>1, <2>2 DEF Stored, Runs
  <2>6. PICK t, h : t = [r EXCEPT !.heap[d] = n] /\ h = [r.heap EXCEPT ![d] = n]
    OBVIOUS
  <2>7. /\ t.heap = h /\ t.self = r.self /\ t.failed = r.failed /\ t.fault = r.fault
        /\ t \in Runs /\ h \in Heaps
    BY <1>0, <2>3, <2>4, <2>6 DEF Runs, Heaps
  <2>8. Sound(t, rest)
    <3>1. h[d] = n /\ \A a \in Addr \ {d} : h[a] = r.heap[a]
      BY <1>0, <2>3, <2>6 DEF Runs, Heaps
    <3>2. Fitting(r.self, h)
      BY <1>4, <2>1, <2>3, <2>4, <3>1 DEF Sound, Fitting
    <3>3. r.fault = "none" /\ r.self.data \notin rest
      BY DEF Sound
    <3>4. /\ \A a \in Addr : h[a] # Free <=> a \in rest \/ a = r.self.data
          /\ \A a \in rest : h[a] = heap[a]
      BY <2>1, <2>3, <2>4, <3>1 DEF Sound
    <3> QED
      BY <2>7, <3>2, <3>3, <3>4 DEF Sound
  <2> QED
    BY <2>5, <2>6, <2>7, <2>8 DEF Done
<1> QED
  BY <1>0, <1>1, <1>2, <1>3, <1>4 DEF Sound, Fitting, Runs, Heaps, Block
-----------------------------------------------------------------------------
(* The operations of ByteHeapArray. *)

LEMMA ArrayReallocatedSound ==
  ASSUME NEW rest \in SUBSET Addr, NEW r, Sound(r, rest), r.self.kind = "array",
         NEW n \in Nat, NEW q \in ArrayReallocated(r, n)
  PROVE  /\ Sound(q, rest) /\ q.self.kind = "array"
         /\ \/ q.failed /\ q.self = r.self
            \/ q.failed = r.failed /\ q.self.data # NULL /\ q.self.m_size = n
<1>1. /\ r.heap \in Heaps /\ r.self.m_size \in Nat
      /\ r.self.data \in Addr \cup {NULL}
  BY DEF Sound, Runs, Array, Buffer
<1>2. CASE r.self.m_size = n /\ r.self.data # NULL
  BY <1>2 DEF ArrayReallocated
<1>3. CASE ~ (r.self.m_size = n /\ r.self.data # NULL)
  <2>1. PICK m : m = Smaller(r.self.m_size, n)
    OBVIOUS
  <2>2. m \in Nat /\ m <= n
    BY <1>1, <2>1 DEF Smaller
  <2>3. PICK kept : kept = Bytes(r.heap, r.self.data, 0, m)
    OBVIOUS
  <2>4. kept \in Block /\ Len(kept) = m
    <3>1. r.heap \in Heaps /\ r.self.data \in Addr \cup {NULL} /\ m \in Nat /\ 0 \in Nat
      BY <1>1, <2>2
    <3> QED
      BY <2>3, <3>1, BytesAre
  <2>5. PICK s : s = kept \o Unwritten(n - Len(kept))
    OBVIOUS
  <2>6. s \in Block /\ Len(s) = n
    <3>1. r.heap \in Heaps /\ r.self.data \in Addr \cup {NULL}
      BY <1>1
    <3>2. s = Bytes(r.heap, r.self.data, 0, m) \o Unwritten(n - m)
      BY <2>3, <2>4, <2>5
    <3> QED
      BY <2>2, <3>1, <3>2, KeptBytes
  <2>7. q \in ArrayMoves(r, s)
    BY <1>3, <2>1, <2>3, <2>5 DEF ArrayReallocated
  <2> QED
    BY <2>6, <2>7, ArrayMovesSound
<1> QED
  BY <1>2, <1>3

LEMMA ArrayAppendedDone ==
  ASSUME NEW rest \in SUBSET Addr, NEW r, Sound(r, rest), r.self.kind = "array",
         NEW src \in Operands, NEW q \in ArrayAppended(r, src)
  PROVE  Done(q, rest) /\ (Thrown(q) => Sound(q, rest))
<1>1. /\ r.heap \in Heaps /\ r.self.m_size \in Nat
      /\ r.self.data \in Addr \cup {NULL} /\ Released(r).heap \in Heaps
  BY ReleasedIs DEF Sound, Runs, Array, Buffer
<1>2. PICK kept, new : /\ kept = Bytes(r.heap, r.self.data, 0, r.self.m_size)
                       /\ new = Operand(Released(r).heap, src)
  OBVIOUS
<1>3. kept \in Block /\ new \in Block
  BY <1>1, <1>2, BytesAre, OperandIs
<1>4. kept \o new \in Block
  BY <1>3 DEF Block
<1>5. PICK p \in ArrayMoves(r, kept \o new) :
        q = IF p.failed /\ ~ Thrown(p) THEN Crashed(p, "null") ELSE p
  BY <1>2 DEF ArrayAppended
<1>6. Sound(p, rest)
  BY <1>4, ArrayMovesSound
<1>7. CASE p.failed /\ ~ Thrown(p)
  <2>1. q = [p EXCEPT !.fault = "null"] /\ ~ allocatorThrows
    BY <1>5, <1>7 DEF Crashed, Thrown
  <2> QED
    BY <1>6, <2>1 DEF Sound, Done, Runs, Thrown
<1>8. CASE ~ (p.failed /\ ~ Thrown(p))
  BY <1>5, <1>6, <1>8 DEF Done, Sound
<1> QED
  BY <1>7, <1>8

LEMMA ThenStoredDone ==
  ASSUME NEW rest \in SUBSET Addr, NEW q, Sound(q, rest), NEW at \in Int,
         NEW src \in Operands,
         \/ Thrown(q)
         \/ ~ allocatorThrows
         \/ src.bytes = <<>>
         \/ /\ q.self.data # NULL /\ at >= 0
            /\ at + Len(src.bytes) <= Capacity(q.self)
  PROVE  /\ Done(ThenStored(q, at, src), rest)
         /\ Thrown(ThenStored(q, at, src)) => Sound(ThenStored(q, at, src), rest)
         /\ ThenStored(q, at, src).self = q.self
         /\ ThenStored(q, at, src).failed = q.failed
<1>1. CASE Thrown(q)
  BY <1>1 DEF ThenStored, Done, Sound
<1>2. CASE ~ Thrown(q)
  <2>1. q.heap \in Heaps
    BY DEF Sound, Runs
  <2>2. PICK s : s = Operand(q.heap, src)
    OBVIOUS
  <2>3. s \in Block /\ Len(s) = Len(src.bytes) /\ src.bytes \in Block
    BY <2>1, <2>2, OperandIs DEF Operands
  <2>4. src.bytes = <<>> => s = <<>>
    BY <2>3 DEF Block
  <2>5. ThenStored(q, at, src) = Stored(q, at, s)
    BY <1>2, <2>2 DEF ThenStored
  <2>6. /\ Done(Stored(q, at, s), rest)
        /\ Stored(q, at, s).self = q.self /\ Stored(q, at, s).failed = q.failed
    <3>1. \/ ~ allocatorThrows
          \/ s = <<>>
          \/ q.self.data # NULL /\ at >= 0 /\ at + Len(s) <= Capacity(q.self)
      BY <1>2, <2>3, <2>4
    <3> QED
      BY <2>3, <3>1, StoredDone
  <2> QED
    BY <1>2, <2>5, <2>6 DEF Thrown
<1> QED
  BY <1>1, <1>2
-----------------------------------------------------------------------------
(* The containers of a client. *)

Living == {o \in Obj : object[o] # Dead}

(* The blocks of the containers other than o. *)
Others(o) == {object[p].data : p \in Living \ {o}} \ {NULL}

(* Every block has one owner and fits it. *)
Owned ==
  /\ TypeOK
  /\ \A a \in Addr : heap[a] # Free => \E o \in Living : object[o].data = a
  /\ \A o \in Living : Fitting(object[o], heap)
  /\ \A o, p \in Living :
       o # p /\ object[o].data # NULL => object[p].data # object[o].data
  /\ allocatorThrows => fault = "none"

LEMMA OthersAre ==
  ASSUME Owned, NEW o \in Obj
  PROVE  /\ Others(o) \in SUBSET Addr
         /\ \A p \in Living : object[p] \in Array \cup Buffer
         /\ \A a \in Others(o) : heap[a] # Free
         /\ o \in Living => object[o].data \notin Others(o)
         /\ \A a \in Addr : heap[a] # Free <=>
              a \in Others(o) \/ (o \in Living /\ a = object[o].data)
<1>1. \A p \in Living : object[p] \in Array \cup Buffer
  BY DEF Owned, TypeOK, Living
<1>2. \A p \in Living : object[p].data \in Addr \cup {NULL}
  BY <1>1 DEF Array, Buffer
<1>3. \A p \in Living : object[p].data # NULL => heap[object[p].data] # Free
  BY DEF Owned, Fitting
<1>4. \A a \in Others(o) : heap[a] # Free /\ a # NULL
  BY <1>3 DEF Others
<1>5. o \in Living => object[o].data \notin Others(o)
  <2> SUFFICES ASSUME o \in Living, object[o].data \in Others(o) PROVE FALSE
    OBVIOUS
  <2>1. PICK p \in Living \ {o} : object[p].data = object[o].data /\ object[o].data # NULL
    BY DEF Others
  <2> QED
    BY <2>1 DEF Owned
<1>6. ASSUME NEW a \in Addr, heap[a] # Free
      PROVE  a \in Others(o) \/ (o \in Living /\ a = object[o].data)
  <2>1. PICK p \in Living : object[p].data = a
    BY <1>6 DEF Owned
  <2>2. a # NULL
    BY ObjectsAssumption
  <2> QED
    BY <2>1, <2>2 DEF Others
<1>7. \A a \in Addr : o \in Living /\ a = object[o].data => heap[a] # Free
  BY <1>3, ObjectsAssumption
<1>8. Others(o) \in SUBSET Addr
  BY <1>2 DEF Others
<1> QED
  BY <1>1, <1>4, <1>5, <1>6, <1>7, <1>8

(* An operation on a container begins in a sound state, a constructor too. *)
LEMMA BegunSound ==
  ASSUME Owned, NEW o \in Living
  PROVE  /\ Sound(Begun(object[o]), Others(o))
         /\ Begun(object[o]).self = object[o] /\ ~ Begun(object[o]).failed
<1>1. object[o] \in Array \cup Buffer /\ heap \in Heaps /\ o \in Obj
  BY OthersAre DEF Owned, TypeOK, Heaps, Living
<1>2. /\ Begun(object[o]).heap = heap /\ Begun(object[o]).self = object[o]
      /\ Begun(object[o]).failed = FALSE /\ Begun(object[o]).fault = "none"
      /\ Begun(object[o]) \in Runs
  BY <1>1 DEF Begun, Runs
<1> QED
  BY <1>1, <1>2, OthersAre DEF Sound, Owned

LEMMA BegunNewSound ==
  ASSUME Owned, NEW o \in Obj \ Living, NEW self \in Array \cup Buffer,
         self.data = NULL, self.m_size = 0
  PROVE  /\ Sound(Begun(self), Others(o))
         /\ Begun(self).self = self /\ ~ Begun(self).failed
<1>1. heap \in Heaps
  BY DEF Owned, TypeOK, Heaps
<1>2. /\ Begun(self).heap = heap /\ Begun(self).self = self
      /\ Begun(self).failed = FALSE /\ Begun(self).fault = "none"
      /\ Begun(self) \in Runs
  BY <1>1 DEF Begun, Runs
<1>3. Fitting(self, heap)
  BY DEF Fitting
<1>4. /\ \A a \in Addr : heap[a] # Free <=> a \in Others(o)
      /\ NULL \notin Others(o)
  BY OthersAre, ObjectsAssumption
<1> QED
  BY <1>2, <1>3, <1>4, ObjectsAssumption DEF Sound

(* Where an operation on o leaves h and self, everything is owned again. *)
LEMMA EndsOwned ==
  ASSUME Owned, NEW o \in Obj, NEW h \in Heaps, NEW self,
         \A a \in Others(o) : h[a] = heap[a],
         heap' = h, object' = [object EXCEPT ![o] = self],
         fault' = "none", allocatorThrows' = allocatorThrows,
         \/ /\ self = Dead
            /\ \A a \in Addr : h[a] # Free <=> a \in Others(o)
         \/ /\ self \in Array \cup Buffer
            /\ self.data \notin Others(o)
            /\ Fitting(self, h)
            /\ \A a \in Addr : h[a] # Free <=> a \in Others(o) \/ a = self.data
  PROVE  Owned'
<1>1. /\ object \in [Obj -> Array \cup Buffer \cup {Dead}]
      /\ allocatorThrows \in BOOLEAN
  BY DEF Owned, TypeOK
<1>2. /\ object'[o] = self /\ \A p \in Obj \ {o} : object'[p] = object[p]
      /\ object' \in [Obj -> Array \cup Buffer \cup {Dead}]
  BY <1>1
<1>3. TypeOK'
  BY <1>1, <1>2 DEF TypeOK, Heaps
<1>4. Living \ {o} = Living' \ {o} /\ (self = Dead => o \notin Living')
  BY <1>2 DEF Living
<1>5. \A p \in Living \ {o} :
        object[p].data # NULL => /\ object[p].data \in Others(o)
                                 /\ h[object[p].data] = heap[object[p].data]
  BY DEF Others
<1>6. ASSUME NEW a \in Addr, heap'[a] # Free
      PROVE  \E p \in Living' : object'[p].data = a
  <2>1. CASE a \in Others(o)
    <3>1. PICK p \in Living \ {o} : object[p].data = a
      BY <2>1 DEF Others
    <3> QED
      BY <1>2, <1>4, <3>1 DEF Living
  <2>2. CASE a \notin Others(o)
    <3>1. self \in Array \cup Buffer /\ self.data = a
      BY <1>6, <2>2
    <3>2. o \in Living'
      BY <1>2, <3>1, ObjectsAssumption DEF Living
    <3> QED
      BY <1>2, <3>1, <3>2
  <2> QED
    BY <2>1, <2>2
<1>7. ASSUME NEW p \in Living' PROVE Fitting(object[p], heap)'
  <2>1. CASE p = o
    <3>1. Fitting(self, h)
      BY <1>2, <2>1 DEF Living
    <3> QED
      BY <1>2, <2>1, <3>1 DEF Fitting
  <2>2. CASE p # o
    <3>1. p \in Living \ {o} /\ object'[p] = object[p]
      BY <1>2, <1>4, <2>2 DEF Living
    <3>2. Fitting(object[p], heap)
      BY <3>1 DEF Owned
    <3> QED
      BY <1>5, <3>1, <3>2 DEF Fitting
  <2> QED
    BY <2>1, <2>2
<1>8. ASSUME NEW p \in Living', NEW q \in Living', p # q, object'[p].data # NULL
      PROVE  object'[q].data # object'[p].data
  <2>1. \A r \in Living' \ {o} : r \in Living /\ object'[r] = object[r]
    BY <1>2, <1>4 DEF Living
  <2>2. CASE p # o /\ q # o
    BY <1>8, <2>1, <2>2 DEF Owned
  <2>3. CASE p = o \/ q = o
    <3>1. self \in Array \cup Buffer /\ self.data \notin Others(o)
      BY <1>4, <2>3
    <3> QED
      BY <1>2, <1>5, <1>8, <2>1, <2>3, <3>1
  <2> QED
    BY <2>2, <2>3
<1> QED
  BY <1>3, <1>6, <1>7, <1>8 DEF Owned

LEMMA DoneEnds ==
  ASSUME Owned, NEW o \in Obj, NEW r, Done(r, Others(o)), Ends(o, r)
  PROVE  Owned'
<1>1. /\ r \in Runs /\ fault' = r.fault /\ allocatorThrows' = allocatorThrows
      /\ r.fault = "none" => heap' = r.heap /\ object' = [object EXCEPT ![o] = r.self]
      /\ r.fault # "none" => UNCHANGED <<heap, object>>
  BY DEF Ends, Done
<1>2. CASE r.fault = "none"
  <2>1. Sound(r, Others(o)) /\ r.heap \in Heaps /\ r.self \in Array \cup Buffer
    BY <1>1, <1>2 DEF Done, Runs
  <2>2. /\ \A a \in Others(o) : r.heap[a] = heap[a]
        /\ r.self.data \notin Others(o) /\ Fitting(r.self, r.heap)
        /\ \A a \in Addr : r.heap[a] # Free <=> a \in Others(o) \/ a = r.self.data
    BY <2>1 DEF Sound
  <2> QED
    BY <1>1, <1>2, <2>1, <2>2, EndsOwned
<1>3. CASE r.fault # "none"
  <2>1. /\ UNCHANGED <<heap, object, allocatorThrows>> /\ ~ allocatorThrows
        /\ fault' \in {"none", "null", "outside"}
    BY <1>1, <1>3 DEF Done, Sound, Runs
  <2>2. TypeOK' /\ Living' = Living /\ \A p : Fitting(object[p], heap) <=> Fitting(object[p], heap)'
    BY <2>1 DEF Owned, TypeOK, Living, Fitting
  <2> QED
    BY <2>1, <2>2 DEF Owned
<1> QED
  BY <1>2, <1>3

(* The container is destroyed at the end of the operation. *)
LEMMA DestroyedEnds ==
  ASSUME Owned, NEW o \in Obj, NEW r, Sound(r, Others(o)),
         Ends(o, [Released(r) EXCEPT !.self = Dead])
  PROVE  Owned'
<1>1. /\ Released(r).heap \in Heaps
      /\ \A a \in Addr : Released(r).heap[a] # Free <=> a \in Others(o)
      /\ \A a \in Others(o) : Released(r).heap[a] = heap[a]
      /\ Released(r) = [r EXCEPT !.heap = Released(r).heap, !.self.data = NULL]
  BY OthersAre, ReleasedIs
<1>2. r \in Runs /\ r.fault = "none"
  BY DEF Sound
<1>3. PICK h, t : h = Released(r).heap /\ t = [Released(r) EXCEPT !.self = Dead]
  OBVIOUS
<1>4. t.heap = h /\ t.self = Dead /\ t.fault = "none"
  <2>1. PICK p : p = Released(r)
    OBVIOUS
  <2>2. p = [r EXCEPT !.heap = h, !.self.data = NULL] /\ t = [p EXCEPT !.self = Dead]
    BY <1>1, <1>3, <2>1
  <2> QED
    BY <1>2, <2>2 DEF Runs
<1>5. /\ heap' = h /\ object' = [object EXCEPT ![o] = Dead] /\ fault' = "none"
      /\ allocatorThrows' = allocatorThrows
  BY <1>3, <1>4 DEF Ends
<1> QED
  BY <1>1, <1>3, <1>5, EndsOwned

LEMMA ConstructionEndsOwned ==
  ASSUME Owned, NEW o \in Obj, NEW r, Done(r, Others(o)),
         Thrown(r) => Sound(r, Others(o)), Constructs(o, r)
  PROVE  Owned'
<1>1. CASE Thrown(r)
  BY <1>1, DestroyedEnds DEF Constructs
<1>2. CASE ~ Thrown(r)
  BY <1>2, DoneEnds DEF Constructs
<1> QED
  BY <1>1, <1>2

(* A move exchanges the members of two containers, or of one and an empty
   one. *)
LEMMA ExchangeOwned ==
  ASSUME Owned, NEW o \in Obj, NEW p \in Living,
         NEW self \in Array \cup Buffer,
         \/ o \in Living /\ self = object[o]
         \/ o \notin Living /\ self.data = NULL /\ self.m_size = 0,
         object' = [object EXCEPT ![o] = object[p], ![p] = self],
         UNCHANGED <<heap, fault, allocatorThrows>>
  PROVE  Owned'
<1>1. /\ object \in [Obj -> Array \cup Buffer \cup {Dead}] /\ p \in Obj
      /\ object[p] \in Array \cup Buffer
  BY OthersAre DEF Owned, TypeOK, Living
<1>2. /\ object'[p] = self /\ o # p => object'[o] = object[p]
      /\ \A q \in Obj \ {o, p} : object'[q] = object[q]
      /\ object' \in [Obj -> Array \cup Buffer \cup {Dead}]
  BY <1>1
<1>3. TypeOK'
  BY <1>2 DEF Owned, TypeOK
<1>4. Living' = Living \cup {o}
  BY <1>1, <1>2, ObjectsAssumption DEF Living
<1>5. \A q \in Living' : Fitting(object[q], heap)'
  <2>1. \A q \in Living : Fitting(object[q], heap)
    BY DEF Owned
  <2>2. Fitting(self, heap)
    BY <2>1 DEF Fitting
  <2>3. \A q \in Living' : Fitting(object'[q], heap)
    BY <1>2, <1>4, <2>1, <2>2 DEF Living
  <2> QED
    BY <2>3 DEF Fitting
<1>6. \A a \in Addr : heap'[a] # Free => \E q \in Living' : object'[q].data = a
  <2> SUFFICES ASSUME NEW a \in Addr, heap[a] # Free
               PROVE  \E q \in Living' : object'[q].data = a
    OBVIOUS
  <2>1. PICK q \in Living : object[q].data = a
    BY DEF Owned
  <2>2. a # NULL
    BY ObjectsAssumption
  <2>3. CASE q = p
    BY <1>2, <1>4, <2>1, <2>2, <2>3
  <2>4. CASE q # p
    BY <1>2, <1>4, <2>1, <2>2, <2>4 DEF Living
  <2> QED
    BY <2>3, <2>4
<1>7. \A q, r \in Living' :
        q # r /\ object'[q].data # NULL => object'[r].data # object'[q].data
  <2>1. \A q, r \in Living :
          q # r /\ object[q].data # NULL => object[r].data # object[q].data
    BY DEF Owned
  <2>2. CASE o \in Living
    BY <1>2, <1>4, <2>1, <2>2 DEF Living
  <2>3. CASE o \notin Living
    BY <1>2, <1>4, <2>1, <2>3 DEF Living
  <2> QED
    BY <2>2, <2>3
<1> QED
  BY <1>3, <1>5, <1>6, <1>7 DEF Owned

LEMMA InitiallyOwned == Init => Owned
  BY DEF Init, Owned, TypeOK, Living

==============================================================================
