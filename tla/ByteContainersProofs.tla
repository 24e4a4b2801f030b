-------------------------- MODULE ByteContainersProofs --------------------------
(***************************************************************************)
(* Proofs about ByteContainers: every block has one owner that fits it,    *)
(* and with an allocator that throws no call crashes, for any number of    *)
(* containers, blocks and bytes and whatever sizes the client asks for.    *)
(***************************************************************************)
EXTENDS ByteContainers, ByteHeapArrayProofs
-----------------------------------------------------------------------------
(* The operations of ByteBuffer. *)

LEMMA BufferMovesSound ==
  ASSUME NEW rest \in SUBSET Addr, NEW r, Sound(r, rest), r.self.kind = "buffer",
         NEW s \in Block, NEW m \in Nat, m <= Len(s), NEW q \in BufferMoves(r, s, m)
  PROVE  /\ Sound(q, rest) /\ q.self.kind = "buffer"
         /\ \/ q.failed /\ q.self = r.self
            \/ /\ q.failed = r.failed /\ q.self.data # NULL
               /\ q.self.m_capacity = Len(s) /\ q.self.m_size = m
<1>1. CASE q = Failed(r)
  BY <1>1, FailedSound
<1>2. ASSUME NEW p \in Moves(r, s),
             q = [p EXCEPT !.self.m_size = m, !.self.m_capacity = Len(s)]
      PROVE  /\ Sound(q, rest) /\ q.self.kind = "buffer"
             /\ q.failed = r.failed /\ q.self.data # NULL
             /\ q.self.m_capacity = Len(s) /\ q.self.m_size = m
  <2>1. Len(s) \in Nat
    BY DEF Block
  <2>2. r \in Runs /\ r.self \in Buffer
    BY DEF Sound, Runs, Array, Buffer
  <2>3. PICK a, h : a \in Addr /\ p = [r EXCEPT !.heap = h, !.self.data = a]
    BY DEF Moves
  <2>4. p.self \in Buffer /\ p.self.data = a
    BY <2>2, <2>3 DEF Runs, Buffer
  <2>5. PICK self : /\ self = [p.self EXCEPT !.m_size = m, !.m_capacity = Len(s)]
                    /\ q = [p EXCEPT !.self = self]
    <3>1. p \in [heap : {h}, self : {p.self}, failed : BOOLEAN, fault : {p.fault}]
      BY <2>2, <2>3 DEF Runs
    <3> QED
      BY <1>2, <3>1
  <2>6. /\ self \in Buffer /\ self.kind = "buffer"
        /\ self.data = p.self.data /\ self.m_size = m /\ self.m_capacity = Len(s)
    <3>1. self = [p.self EXCEPT !.m_size = m, !.m_capacity = Len(s)]
      BY <2>5
    <3> QED
      BY <2>1, <2>4, <3>1 DEF Buffer
  <2>7. Sound([p EXCEPT !.self = self], rest) /\ p.self.data # NULL /\ p.failed = r.failed
    <3>1. /\ self \in Array \cup Buffer /\ self.data = p.self.data
          /\ Capacity(self) = Len(s) /\ self.m_size <= Len(s)
      BY <2>6 DEF Capacity
    <3> QED
      BY <3>1, MovedSound
  <2>8. q.self = self /\ q.failed = p.failed
    BY <2>2, <2>3, <2>5 DEF Runs
  <2> QED
    BY <2>5, <2>6, <2>7, <2>8
<1> QED
  BY <1>1, <1>2 DEF BufferMoves

LEMMA DeallocatedSound ==
  ASSUME NEW rest \in SUBSET Addr, NEW r, Sound(r, rest), r.self.kind = "buffer"
  PROVE  /\ Sound(Deallocated(r), rest) /\ Deallocated(r).self = NoBuffer
         /\ Deallocated(r).failed = r.failed
<1>1. r \in Runs /\ r.fault = "none" /\ r.self \in Buffer
  BY DEF Sound, Runs, Array, Buffer
<1>2. /\ Released(r).heap \in Heaps
      /\ \A a \in Addr : Released(r).heap[a] # Free <=> a \in rest
      /\ \A a \in rest : Released(r).heap[a] = heap[a]
      /\ Released(r) = [r EXCEPT !.heap = Released(r).heap, !.self.data = NULL]
  BY ReleasedIs
<1>3. PICK h : h = Released(r).heap
  OBVIOUS
<1>4. Deallocated(r) =
        [heap |-> h, self |-> NoBuffer, failed |-> r.failed, fault |-> "none"]
  <2>1. PICK p : p = Released(r)
    OBVIOUS
  <2>2. p = [r EXCEPT !.heap = h, !.self.data = NULL]
    BY <1>2, <1>3, <2>1
  <2>3. /\ p.self = [kind |-> "buffer", data |-> NULL, m_size |-> r.self.m_size,
                     m_capacity |-> r.self.m_capacity]
        /\ p = [heap |-> h, self |-> p.self, failed |-> r.failed, fault |-> "none"]
    BY <1>1, <2>2 DEF Runs, Buffer
  <2>4. PICK self : self = [p.self EXCEPT !.m_size = 0, !.m_capacity = 0]
    OBVIOUS
  <2>5. self = NoBuffer
    <3>1. p.self \in Buffer /\ p.self.data = NULL
      BY <1>1, <2>3 DEF Buffer
    <3>2. /\ self \in Buffer /\ self.kind = "buffer"
          /\ self.data = NULL /\ self.m_size = 0 /\ self.m_capacity = 0
      BY <2>4, <3>1 DEF Buffer
    <3> QED
      BY <3>2 DEF Buffer, NoBuffer
  <2>6. p \in [heap : {h}, self : {p.self}, failed : BOOLEAN, fault : {"none"}]
    BY <1>1, <2>3 DEF Runs
  <2>7. Deallocated(r) = [p EXCEPT !.self = self]
    <3>1. Deallocated(r) = [p EXCEPT !.self.m_size = 0, !.self.m_capacity = 0]
      BY <2>1 DEF Deallocated
    <3> QED
      BY <2>4, <2>6, <3>1
  <2> QED
    BY <2>3, <2>5, <2>7
<1> QED
  BY <1>1, <1>2, <1>3, <1>4, ObjectsAssumption DEF Sound, Runs, Buffer, NoBuffer, Fitting

LEMMA BufferReallocatedSound ==
  ASSUME NEW rest \in SUBSET Addr, NEW r, Sound(r, rest), r.self.kind = "buffer",
         NEW n \in Nat, NEW q \in BufferReallocated(r, n)
  PROVE  /\ Sound(q, rest) /\ q.self.kind = "buffer"
         /\ \/ q.failed /\ q.self = r.self
            \/ q.failed = r.failed /\ q.self.data # NULL /\ q.self.m_capacity = n
<1>1. /\ r.heap \in Heaps /\ r.self.m_size \in Nat
      /\ r.self.data \in Addr \cup {NULL}
  BY DEF Sound, Runs, Array, Buffer
<1>2. CASE HasCapacity(r.self, n)
  BY <1>2 DEF BufferReallocated, HasCapacity
<1>3. CASE ~ HasCapacity(r.self, n)
  <2>1. PICK m : m = Smaller(r.self.m_size, n)
    OBVIOUS
  <2>2. m \in Nat /\ m <= n
    BY <1>1, <2>1 DEF Smaller
  <2>3. PICK s : s = Bytes(r.heap, r.self.data, 0, m) \o Unwritten(n - m)
    OBVIOUS
  <2>4. s \in Block /\ Len(s) = n
    <3>1. r.heap \in Heaps /\ r.self.data \in Addr \cup {NULL}
      BY <1>1
    <3> QED
      BY <2>2, <2>3, <3>1, KeptBytes
  <2>5. q \in BufferMoves(r, s, m)
    BY <1>3, <2>1, <2>3 DEF BufferReallocated
  <2>6. /\ Sound(q, rest) /\ q.self.kind = "buffer"
        /\ \/ q.failed /\ q.self = r.self
           \/ /\ q.failed = r.failed /\ q.self.data # NULL
              /\ q.self.m_capacity = Len(s) /\ q.self.m_size = m
    <3>1. m <= Len(s)
      BY <2>2, <2>4
    <3> QED
      BY <2>2, <2>4, <2>5, <3>1, BufferMovesSound
  <2> QED
    BY <2>4, <2>6
<1> QED
  BY <1>2, <1>3

LEMMA BufferResizedSound ==
  ASSUME NEW rest \in SUBSET Addr, NEW r, Sound(r, rest), r.self.kind = "buffer",
         NEW n \in Nat, NEW q \in BufferResized(r, n)
  PROVE  /\ Sound(q, rest) /\ q.self.kind = "buffer"
         /\ \/ Thrown(q)
            \/ ~ allocatorThrows
            \/ q.self.data # NULL /\ q.self.m_capacity = n
<1>1. PICK p \in BufferReallocated(r, n) :
        q = IF Thrown(p) THEN p ELSE [p EXCEPT !.self.m_size = n]
  BY DEF BufferResized
<1>2. /\ Sound(p, rest) /\ p.self.kind = "buffer"
      /\ \/ p.failed
         \/ p.self.data # NULL /\ p.self.m_capacity = n
  BY BufferReallocatedSound
<1>3. CASE Thrown(p)
  BY <1>1, <1>2, <1>3
<1>4. CASE ~ Thrown(p)
  <2>1. p \in Runs /\ p.self \in Buffer
    BY <1>2 DEF Sound, Runs, Array, Buffer
  <2>2. PICK self : self = [p.self EXCEPT !.m_size = n]
    OBVIOUS
  <2>3. q = [p EXCEPT !.self = self]
    BY <1>1, <1>4, <2>1, <2>2 DEF Runs
  <2>4. /\ self \in Buffer /\ self.m_size = n /\ self.data = p.self.data
        /\ self.m_capacity = p.self.m_capacity /\ self.kind = "buffer"
    BY <2>1, <2>2 DEF Buffer
  <2>5. /\ q \in Runs /\ q.self = self /\ q.heap = p.heap /\ q.fault = p.fault
        /\ q.failed = p.failed
    BY <2>1, <2>3, <2>4 DEF Runs
  <2>6. allocatorThrows => p.self.data # NULL /\ p.self.m_capacity = n
    BY <1>2, <1>4 DEF Thrown
  <2>7. Fitting(self, p.heap)
    BY <1>2, <2>4, <2>6 DEF Sound, Fitting, Capacity
  <2>8. Sound(q, rest)
    BY <1>2, <2>4, <2>5, <2>7 DEF Sound
  <2> QED
    BY <2>4, <2>5, <2>6, <2>8
<1> QED
  BY <1>3, <1>4

(* With an allocator that throws, a null operand has no bytes. *)
SafeOperands == {src \in Operands : allocatorThrows /\ src.data = NULL => src.bytes = <<>>}

LEMMA ThenCopiedDone ==
  ASSUME NEW rest \in SUBSET Addr, NEW q, Sound(q, rest), NEW at \in Nat,
         NEW src \in SafeOperands,
         \/ Thrown(q)
         \/ ~ allocatorThrows
         \/ q.self.data # NULL /\ at + Len(src.bytes) <= Capacity(q.self)
  PROVE  /\ Done(ThenCopied(q, at, src), rest)
         /\ Thrown(ThenCopied(q, at, src)) => Sound(ThenCopied(q, at, src), rest)
<1>1. CASE Thrown(q)
  BY <1>1 DEF ThenCopied, Done, Sound
<1>2. CASE ~ Thrown(q) /\ src.data = NULL /\ src.bytes # <<>>
  <2>1. ThenCopied(q, at, src) = [q EXCEPT !.fault = "null"] /\ ~ allocatorThrows
    BY <1>2 DEF ThenCopied, Crashed, SafeOperands
  <2> QED
    BY <2>1 DEF Done, Sound, Runs, Thrown
<1>3. CASE ~ Thrown(q) /\ ~ (src.data = NULL /\ src.bytes # <<>>)
  <2>1. PICK t : t = ThenStored(q, at, src)
    OBVIOUS
  <2>2. ThenCopied(q, at, src) = t
    BY <1>3, <2>1 DEF ThenCopied, ThenStored
  <2>3. Done(t, rest) /\ (Thrown(t) => Sound(t, rest))
    <3>1. src \in Operands /\ at \in Int /\ at >= 0
      BY DEF SafeOperands
    <3> QED
      BY <2>1, <3>1, ThenStoredDone
  <2> QED
    BY <2>2, <2>3
<1> QED
  BY <1>1, <1>2, <1>3

LEMMA BufferResetDone ==
  ASSUME NEW rest \in SUBSET Addr, NEW r, Sound(r, rest), r.self.kind = "buffer",
         NEW src \in SafeOperands, NEW q \in BufferReset(r, src)
  PROVE  Done(q, rest) /\ (Thrown(q) => Sound(q, rest))
<1>1. CASE src.data = NULL \/ src.bytes = <<>>
  BY <1>1 DEF BufferReset, Done, Sound
<1>2. CASE ~ (src.data = NULL \/ src.bytes = <<>>)
  <2>1. PICK n : n = Len(src.bytes)
    OBVIOUS
  <2>2. n \in Nat
    BY <2>1 DEF SafeOperands, Operands, Block
  <2>3. PICK p \in BufferResized(r, n) : q = ThenCopied(p, 0, src)
    BY <1>2, <2>1 DEF BufferReset
  <2>4. /\ Sound(p, rest) /\ p.self.kind = "buffer"
        /\ \/ Thrown(p)
           \/ ~ allocatorThrows
           \/ p.self.data # NULL /\ p.self.m_capacity = n
    BY <2>2, BufferResizedSound
  <2>5. \/ Thrown(p)
        \/ ~ allocatorThrows
        \/ p.self.data # NULL /\ 0 + Len(src.bytes) <= Capacity(p.self)
    BY <2>1, <2>2, <2>4 DEF Capacity
  <2> QED
    BY <2>3, <2>4, <2>5, ThenCopiedDone
<1> QED
  BY <1>1, <1>2
-----------------------------------------------------------------------------
(* The operands of the client's calls. *)

LEMMA LiveIs == Live = Living
  BY DEF Live, Living

LEMMA OperandsAre ==
  ASSUME Owned
  PROVE  /\ \A s \in Chunk : Given(s) \in SafeOperands /\ s \in Block
         /\ \A p \in Live : Contents(p) \in SafeOperands
         /\ Sources \subseteq SafeOperands
         /\ \A src \in References : src \in SafeOperands /\ Len(src.bytes) = 1
<1>1. ASSUME NEW s \in Seq(Byte) PROVE Given(s) \in SafeOperands /\ s \in Block
  <2>1. s \in Seq(Value)
    BY DEF Value
  <2> QED
    BY <2>1, ObjectsAssumption DEF Given, SafeOperands, Operands, Block
<1>2. ASSUME NEW p \in Live
      PROVE  /\ object[p].m_size \in Nat /\ object[p].data \in Addr \cup {NULL}
             /\ allocatorThrows /\ object[p].data = NULL => object[p].m_size = 0
  <2>1. object[p] \in Array \cup Buffer /\ Fitting(object[p], heap)
    BY LiveIs, OthersAre DEF Owned, Living
  <2> QED
    BY <2>1 DEF Array, Buffer, Fitting
<1>3. ASSUME NEW d \in Addr \cup {NULL}, NEW i \in Nat, NEW n \in Nat,
             allocatorThrows /\ d = NULL => n = 0
      PROVE  Pointed(d, i, n) \in SafeOperands /\ Len(Pointed(d, i, n).bytes) = n
  <2>1. Unwritten(n) \in Block /\ Len(Unwritten(n)) = n
    BY UnwrittenIs
  <2>2. n = 0 => Unwritten(n) = <<>>
    BY <2>1 DEF Block
  <2> QED
    BY <1>3, <2>1, <2>2 DEF Pointed, SafeOperands, Operands
<1>4. \A p \in Live : Contents(p) \in SafeOperands
  BY <1>2, <1>3 DEF Contents
<1>5. \A s \in Chunk : Given(s) \in SafeOperands /\ s \in Block
  BY <1>1, ChunkAssumption
<1>6. ASSUME NEW src \in References PROVE src \in SafeOperands /\ Len(src.bytes) = 1
  <2>1. ASSUME NEW b \in Byte, src = Given(<<b>>)
        PROVE  src \in SafeOperands /\ Len(src.bytes) = 1
    <3>1. <<b>> \in Seq(Byte) /\ Len(<<b>>) = 1
      OBVIOUS
    <3>2. src.bytes = <<b>>
      BY <2>1 DEF Given
    <3> QED
      BY <1>1, <2>1, <3>1, <3>2
  <2>2. ASSUME NEW p \in Live, object[p].data # NULL,
               NEW i \in 0..(object[p].m_size - 1), src = Element(p, i)
        PROVE  src \in SafeOperands /\ Len(src.bytes) = 1
    <3>1. PICK d : d = object[p].data
      OBVIOUS
    <3>2. i \in Nat /\ 1 \in Nat /\ d \in Addr \cup {NULL} /\ ~ (d = NULL)
      BY <1>2, <2>2, <3>1
    <3>3. Pointed(d, i, 1) \in SafeOperands /\ Len(Pointed(d, i, 1).bytes) = 1
      BY <1>3, <3>2
    <3> QED
      BY <2>2, <3>1, <3>3 DEF Element
  <2> QED
    BY <2>1, <2>2 DEF References
<1> QED
  BY <1>4, <1>5, <1>6 DEF Sources
-----------------------------------------------------------------------------
(* The client's calls. *)

LEMMA NewContainers ==
  /\ NoArray \in Array \cup Buffer /\ NoArray.kind = "array"
  /\ NoArray.data = NULL /\ NoArray.m_size = 0
  /\ NoBuffer \in Array \cup Buffer /\ NoBuffer.kind = "buffer"
  /\ NoBuffer.data = NULL /\ NoBuffer.m_size = 0
  BY DEF NoArray, NoBuffer, Array, Buffer

LEMMA CreateArrayOwned ==
  ASSUME Owned, NEW o \in Obj \ Live, CreateArray(o)
  PROVE  Owned'
<1>1. /\ Others(o) \in SUBSET Addr /\ o \in Obj \ Living
      /\ Sound(Begun(NoArray), Others(o))
      /\ Begun(NoArray).self = NoArray /\ ~ Begun(NoArray).failed
      /\ Begun(NoArray).self.kind = "array"
  BY LiveIs, OthersAre, BegunNewSound, NewContainers
<1>2. PICK r : r = Begun(NoArray)
  OBVIOUS
<1>3. CASE Constructs(o, r)
  BY <1>1, <1>2, <1>3, ConstructionEndsOwned DEF Done, Sound
<1>4. ASSUME NEW n \in 0..MaxSize, ArrayOfCount(o, n) PROVE Owned'
  <2>1. PICK q \in ArrayReallocated(r, n) : Constructs(o, q)
    BY <1>2, <1>4 DEF ArrayOfCount
  <2>2. Sound(q, Others(o))
    BY <1>1, <1>2, ArrayReallocatedSound
  <2> QED
    BY <2>1, <2>2, ConstructionEndsOwned DEF Done, Sound
<1>5. ASSUME NEW src \in SafeOperands, ArrayCopyOf(o, src) PROVE Owned'
  <2>1. PICK n : n = Len(src.bytes)
    OBVIOUS
  <2>2. n \in Nat /\ src \in Operands
    BY <2>1 DEF SafeOperands, Operands, Block
  <2>3. PICK q \in ArrayReallocated(r, n) : Constructs(o, ThenStored(q, 0, src))
    BY <1>2, <1>5, <2>1 DEF ArrayCopyOf
  <2>4. /\ Sound(q, Others(o)) /\ q.self.kind = "array"
        /\ q.failed \/ (q.self.data # NULL /\ q.self.m_size = n)
    BY <1>1, <1>2, <2>2, ArrayReallocatedSound
  <2>5. \/ Thrown(q)
        \/ ~ allocatorThrows
        \/ src.bytes = <<>>
        \/ q.self.data # NULL /\ 0 >= 0 /\ 0 + Len(src.bytes) <= Capacity(q.self)
    BY <2>1, <2>2, <2>4 DEF Thrown, Capacity
  <2>6. PICK t : t = ThenStored(q, 0, src)
    OBVIOUS
  <2>7. Done(t, Others(o)) /\ (Thrown(t) => Sound(t, Others(o)))
    BY <1>1, <2>2, <2>4, <2>5, <2>6, ThenStoredDone
  <2> QED
    BY <2>3, <2>6, <2>7, ConstructionEndsOwned
<1>6. ASSUME NEW src \in SafeOperands, ArrayOfBytes(o, src) PROVE Owned'
  <2>1. ASSUME NEW q \in ArrayAppended(r, src), Constructs(o, q) PROVE Owned'
    <3>1. Done(q, Others(o)) /\ (Thrown(q) => Sound(q, Others(o)))
      BY <1>1, <1>2, ArrayAppendedDone DEF SafeOperands
    <3> QED
      BY <2>1, <3>1, ConstructionEndsOwned
  <2> QED
    BY <1>2, <1>3, <1>6, <2>1 DEF ArrayOfBytes
<1>7. ASSUME NEW p \in Live, ArrayMovedFrom(o, p) PROVE Owned'
  BY <1>1, <1>7, LiveIs, NewContainers, ExchangeOwned DEF ArrayMovedFrom
<1> QED
  BY <1>2, <1>3, <1>4, <1>5, <1>6, <1>7, OperandsAre DEF CreateArray

LEMMA CreateBufferOwned ==
  ASSUME Owned, NEW o \in Obj \ Live, CreateBuffer(o)
  PROVE  Owned'
<1>1. /\ Others(o) \in SUBSET Addr /\ o \in Obj \ Living
      /\ Sound(Begun(NoBuffer), Others(o))
      /\ Begun(NoBuffer).self = NoBuffer /\ ~ Begun(NoBuffer).failed
      /\ Begun(NoBuffer).self.kind = "buffer"
  BY LiveIs, OthersAre, BegunNewSound, NewContainers
<1>2. PICK r : r = Begun(NoBuffer)
  OBVIOUS
<1>3. CASE Constructs(o, r)
  BY <1>1, <1>2, <1>3, ConstructionEndsOwned DEF Done, Sound
<1>4. ASSUME NEW n \in 0..MaxSize, BufferOfCount(o, n) PROVE Owned'
  <2>1. PICK q \in BufferResized(r, n) : Constructs(o, q)
    BY <1>2, <1>4 DEF BufferOfCount
  <2>2. Sound(q, Others(o))
    BY <1>1, <1>2, BufferResizedSound
  <2> QED
    BY <2>1, <2>2, ConstructionEndsOwned DEF Done, Sound
<1>5. ASSUME NEW src \in SafeOperands, BufferCopyOf(o, src) PROVE Owned'
  <2>1. PICK q \in BufferReset(r, src) : Constructs(o, q)
    BY <1>2, <1>5 DEF BufferCopyOf
  <2>2. Done(q, Others(o)) /\ (Thrown(q) => Sound(q, Others(o)))
    BY <1>1, <1>2, BufferResetDone
  <2> QED
    BY <2>1, <2>2, ConstructionEndsOwned
<1>6. ASSUME NEW p \in Live, BufferMovedFrom(o, p) PROVE Owned'
  BY <1>1, <1>6, LiveIs, NewContainers, ExchangeOwned DEF BufferMovedFrom
<1> QED
  BY <1>2, <1>3, <1>4, <1>5, <1>6, OperandsAre DEF CreateBuffer

(* Bytes that are written inside a container are inside its block. *)
LEMMA WriteDone ==
  ASSUME Owned, NEW o \in Live, NEW at \in Nat, NEW s \in Block,
         at + Len(s) <= object[o].m_size
  PROVE  Done(Stored(Begun(object[o]), at, s), Others(o))
<1>1. /\ o \in Living /\ o \in Obj /\ Others(o) \in SUBSET Addr
      /\ object[o] \in Array \cup Buffer
  BY LiveIs, OthersAre DEF Living
<1>2. PICK r : r = Begun(object[o])
  OBVIOUS
<1>3. Sound(r, Others(o)) /\ r.self = object[o]
  BY <1>1, <1>2, BegunSound
<1>4. object[o].m_size \in Nat /\ Capacity(object[o]) \in Nat /\ Len(s) \in Nat
  BY <1>1 DEF Array, Buffer, Capacity, Block
<1>5. \/ ~ allocatorThrows
      \/ s = <<>>
      \/ r.self.data # NULL /\ at >= 0 /\ at + Len(s) <= Capacity(r.self)
  <2>1. Fitting(object[o], heap)
    BY <1>1 DEF Owned
  <2>2. Len(s) = 0 => s = <<>>
    BY DEF Block
  <2> QED
    BY <1>3, <1>4, <2>1, <2>2 DEF Fitting
<1>6. at \in Int
  OBVIOUS
<1> QED
  BY <1>1, <1>2, <1>3, <1>5, <1>6, StoredDone

LEMMA WriteOwned ==
  ASSUME Owned, NEW o \in Live, NEW at \in Nat, NEW s \in Block,
         at + Len(s) <= object[o].m_size, Ends(o, Stored(Begun(object[o]), at, s))
  PROVE  Owned'
<1>1. o \in Obj
  BY DEF Live
<1> QED
  BY <1>1, WriteDone, DoneEnds

LEMMA CallEitherOwned ==
  ASSUME Owned, NEW o \in Live, CallEither(o)
  PROVE  Owned'
<1>1. /\ o \in Living /\ o \in Obj /\ Others(o) \in SUBSET Addr
      /\ object[o] \in Array \cup Buffer /\ object[o].m_size \in Nat
  BY LiveIs, OthersAre DEF Living, Array, Buffer
<1>2. CASE Destroy(o)
  BY <1>1, <1>2, BegunSound, DestroyedEnds DEF Destroy
<1>3. ASSUME NEW p \in Live, Swap(o, p) PROVE Owned'
  BY <1>1, <1>3, LiveIs, ExchangeOwned DEF Swap
<1>4. ASSUME NEW b \in Byte, Fill(o, b) PROVE Owned'
  <2>1. PICK s : s = [i \in 1..object[o].m_size |-> b]
    OBVIOUS
  <2>2. s \in Seq(Value) /\ Len(s) = object[o].m_size
    BY <1>1, <2>1 DEF Value
  <2>3. s \in Block /\ 0 + Len(s) <= object[o].m_size
    BY <1>1, <2>2 DEF Block
  <2> QED
    BY <1>4, <2>1, <2>3, WriteOwned DEF Fill
<1>5. ASSUME NEW i \in 0..(object[o].m_size - 1), NEW b \in Byte, WriteElement(o, i, b)
      PROVE  Owned'
  <2>1. i \in Nat /\ i + 1 <= object[o].m_size
    BY <1>1
  <2>2. <<b>> \in Seq(Value) /\ Len(<<b>>) = 1
    BY DEF Value
  <2>3. PICK s : s = <<b>>
    OBVIOUS
  <2>4. s \in Block /\ i + Len(s) <= object[o].m_size
    BY <2>1, <2>2, <2>3 DEF Block
  <2> QED
    BY <1>5, <2>1, <2>3, <2>4, WriteOwned DEF WriteElement
<1>6. ASSUME NEW i \in 0..(object[o].m_size - 1), Emplace(o, i) PROVE Owned'
  BY <1>5, <1>6, ObjectsAssumption DEF Emplace
<1> QED
  BY <1>2, <1>3, <1>4, <1>5, <1>6 DEF CallEither

LEMMA CallArrayOwned ==
  ASSUME Owned, NEW o \in Live, IsArray(o), CallArray(o)
  PROVE  Owned'
<1>1. /\ o \in Living /\ o \in Obj /\ Others(o) \in SUBSET Addr
      /\ object[o] \in Array \cup Buffer /\ object[o].m_size \in Nat
      /\ object[o].kind = "array"
  BY LiveIs, OthersAre DEF Living, Array, Buffer, IsArray, IsA
<1>2. PICK r : r = Begun(object[o])
  OBVIOUS
<1>3. /\ Sound(r, Others(o)) /\ r.self = object[o] /\ r.self.kind = "array"
      /\ heap \in Heaps
  BY <1>1, <1>2, BegunSound DEF Owned, TypeOK, Heaps
<1>4. PICK c : c = CleanedUp(r)
  OBVIOUS
<1>5. Sound(c, Others(o)) /\ c.self.kind = "array" /\ c.heap \in Heaps
  <2>1. Sound(c, Others(o)) /\ c.self = NoArray
    BY <1>1, <1>3, <1>4, CleanedUpSound
  <2> QED
    BY <2>1, NewContainers DEF Sound, Runs
<1>6. ASSUME NEW p \in Live, ArrayAssign(o, p) PROVE Owned'
  <2>1. PICK s : s = IF p = o THEN <<>> ELSE Operand(c.heap, Contents(p))
    OBVIOUS
  <2>2. s \in Block
    <3>1. <<>> \in Block /\ Contents(p) \in Operands
      BY OperandsAre DEF Block, SafeOperands
    <3> QED
      BY <1>5, <2>1, <3>1, OperandIs
  <2>3. PICK q \in ArrayMoves(c, s) :
          Ends(o, IF q.failed /\ ~ Thrown(q) /\ s # <<>> THEN Crashed(q, "null") ELSE q)
    BY <1>2, <1>4, <1>6, <2>1 DEF ArrayAssign
  <2>4. Sound(q, Others(o))
    BY <1>1, <1>5, <2>2, ArrayMovesSound
  <2>5. CASE q.failed /\ ~ Thrown(q) /\ s # <<>>
    <3>1. PICK t : t = Crashed(q, "null")
      OBVIOUS
    <3>2. t = [q EXCEPT !.fault = "null"] /\ ~ allocatorThrows
      BY <2>5, <3>1 DEF Crashed, Thrown
    <3>3. Done(t, Others(o))
      BY <2>4, <3>2 DEF Sound, Done, Runs
    <3> QED
      BY <1>1, <2>3, <2>5, <3>1, <3>3, DoneEnds
  <2>6. CASE ~ (q.failed /\ ~ Thrown(q) /\ s # <<>>)
    BY <1>1, <2>3, <2>4, <2>6, DoneEnds DEF Done, Sound
  <2> QED
    BY <2>5, <2>6
<1>7. ASSUME NEW n \in 0..MaxSize, ArrayAllocate(o, n) PROVE Owned'
  <2>1. PICK q \in ArrayMoves(c, Unwritten(n)) : Ends(o, q)
    BY <1>2, <1>4, <1>7 DEF ArrayAllocate
  <2>2. Unwritten(n) \in Block
    BY UnwrittenIs
  <2>3. Sound(q, Others(o))
    BY <1>1, <1>5, <2>2, ArrayMovesSound
  <2> QED
    BY <1>1, <2>1, <2>3, DoneEnds DEF Done, Sound
<1>8. ASSUME NEW n \in 0..MaxSize, ArrayReallocate(o, n) PROVE Owned'
  <2>1. PICK q \in ArrayReallocated(r, n) : Ends(o, q)
    BY <1>2, <1>8 DEF ArrayReallocate
  <2>2. Sound(q, Others(o))
    BY <1>1, <1>3, ArrayReallocatedSound
  <2> QED
    BY <1>1, <2>1, <2>2, DoneEnds DEF Done, Sound
<1>9. ASSUME NEW src \in SafeOperands, ArrayAppend(o, src) PROVE Owned'
  <2>1. PICK q \in ArrayAppended(r, src) : Ends(o, q)
    BY <1>2, <1>9 DEF ArrayAppend
  <2>2. Done(q, Others(o))
    BY <1>1, <1>3, ArrayAppendedDone DEF SafeOperands
  <2> QED
    BY <1>1, <2>1, <2>2, DoneEnds
<1>10. ASSUME NEW src \in SafeOperands, Len(src.bytes) = 1, ArrayPushBack(o, src)
       PROVE  Owned'
  <2>1. PICK n : n = object[o].m_size + 1
    OBVIOUS
  <2>2. PICK q \in ArrayReallocated(r, n) : Ends(o, ThenStored(q, q.self.m_size - 1, src))
    BY <1>2, <1>10, <2>1 DEF ArrayPushBack
  <2>3. n \in Nat /\ n > 0
    BY <1>1, <2>1
  <2>4. /\ Sound(q, Others(o)) /\ q.self.kind = "array"
        /\ \/ q.failed
           \/ q.self.data # NULL /\ q.self.m_size = n
    BY <1>1, <1>3, <2>3, ArrayReallocatedSound
  <2>5. q.self.m_size \in Nat
    BY <2>4 DEF Sound, Runs, Array, Buffer
  <2>6. PICK at : at = q.self.m_size - 1
    OBVIOUS
  <2>7. /\ at \in Int
        /\ \/ Thrown(q)
           \/ ~ allocatorThrows
           \/ src.bytes = <<>>
           \/ q.self.data # NULL /\ at >= 0 /\ at + Len(src.bytes) <= Capacity(q.self)
    BY <1>10, <2>3, <2>4, <2>5, <2>6 DEF Thrown, Capacity
  <2>8. Done(ThenStored(q, at, src), Others(o))
    <3>1. src \in Operands
      BY DEF SafeOperands
    <3> QED
      BY <1>1, <2>4, <2>7, <3>1, ThenStoredDone
  <2> QED
    BY <1>1, <2>2, <2>6, <2>8, DoneEnds
<1>11. CASE ArrayEmplaceBack(o)
  <2>1. Given(<<0>>) \in SafeOperands /\ Len(Given(<<0>>).bytes) = 1
    <3>1. Given(<<0>>) \in References
      BY ObjectsAssumption DEF References
    <3> QED
      BY <3>1, OperandsAre
  <2> QED
    BY <1>10, <1>11, <2>1 DEF ArrayEmplaceBack
<1>12. ASSUME NEW at \in 0..MaxSize, NEW s \in Chunk, ArraySetRange(o, at, Given(s))
       PROVE  Owned'
  <2>1. /\ s \in Block /\ Given(s).bytes = s /\ Operand(heap, Given(s)) = s
        /\ at \in Nat
    <3>1. s \in Block
      BY OperandsAre
    <3>2. Given(s).data = Caller /\ Given(s).bytes = s
      BY DEF Given
    <3>3. Operand(heap, Given(s)) = s
      BY <3>2 DEF Operand
    <3> QED
      BY <3>1, <3>2, <3>3
  <2>2. at + Len(s) <= object[o].m_size /\ Ends(o, Stored(Begun(object[o]), at, s))
    BY <1>12, <2>1 DEF ArraySetRange
  <2> QED
    BY <2>1, <2>2, WriteOwned
<1>13. CASE ArrayClear(o)
  BY <1>1, <1>2, <1>4, <1>5, <1>13, DoneEnds DEF ArrayClear, Done, Sound
<1> QED
  BY <1>6, <1>7, <1>8, <1>9, <1>10, <1>11, <1>12, <1>13, OperandsAre DEF CallArray

LEMMA CallBufferOwned ==
  ASSUME Owned, NEW o \in Live, IsBuffer(o), CallBuffer(o)
  PROVE  Owned'
<1>1. /\ o \in Living /\ o \in Obj /\ Others(o) \in SUBSET Addr
      /\ object[o] \in Array \cup Buffer /\ object[o].m_size \in Nat
      /\ object[o].kind = "buffer"
  BY LiveIs, OthersAre DEF Living, Array, Buffer, IsBuffer, IsA
<1>2. PICK r : r = Begun(object[o])
  OBVIOUS
<1>3. Sound(r, Others(o)) /\ r.self = object[o] /\ r.self.kind = "buffer"
  BY <1>1, <1>2, BegunSound
<1>4. PICK d : d = Deallocated(r)
  OBVIOUS
<1>5. Sound(d, Others(o)) /\ d.self.kind = "buffer"
  <2>1. Sound(d, Others(o)) /\ d.self = NoBuffer
    BY <1>1, <1>3, <1>4, DeallocatedSound
  <2> QED
    BY <2>1, NewContainers
<1>6. ASSUME NEW n \in 0..MaxSize, BufferAllocate(o, n) PROVE Owned'
  <2>1. CASE HasCapacity(object[o], n)
    <3>1. Ends(o, [r EXCEPT !.self.m_size = 0])
      BY <1>2, <1>6, <2>1 DEF BufferAllocate
    <3>2. PICK self : self = [r.self EXCEPT !.m_size = 0]
      OBVIOUS
    <3>3. r \in Runs /\ r.self \in Buffer /\ Fitting(r.self, r.heap)
      BY <1>3 DEF Sound, Runs, Array, Buffer
    <3>4. PICK t : t = [r EXCEPT !.self = self]
      OBVIOUS
    <3>5. Ends(o, t)
      BY <3>1, <3>2, <3>3, <3>4 DEF Runs
    <3>6. /\ self \in Buffer /\ self.m_size = 0 /\ self.data = r.self.data
          /\ self.m_capacity = r.self.m_capacity /\ self.kind = "buffer"
      BY <3>2, <3>3 DEF Buffer
    <3>7. /\ t \in Runs /\ t.self = self /\ t.heap = r.heap /\ t.fault = r.fault
      BY <3>3, <3>4, <3>6 DEF Runs
    <3>8. Fitting(self, r.heap)
      BY <1>3, <3>3, <3>6 DEF Fitting, Capacity, Buffer
    <3>9. Done(t, Others(o))
      BY <1>3, <3>6, <3>7, <3>8 DEF Sound, Done
    <3> QED
      BY <1>1, <3>5, <3>9, DoneEnds
  <2>2. CASE ~ HasCapacity(object[o], n)
    <3>1. PICK q \in BufferMoves(d, Unwritten(n), 0) : Ends(o, q)
      BY <1>2, <1>4, <1>6, <2>2 DEF BufferAllocate
    <3>2. PICK s : s = Unwritten(n)
      OBVIOUS
    <3>3. s \in Block /\ 0 <= Len(s)
      BY <3>2, UnwrittenIs
    <3>4. Sound(q, Others(o))
      BY <1>1, <1>5, <3>1, <3>2, <3>3, BufferMovesSound
    <3> QED
      BY <1>1, <3>1, <3>4, DoneEnds DEF Done, Sound
  <2> QED
    BY <2>1, <2>2
<1>7. ASSUME NEW n \in 0..MaxSize, BufferReallocate(o, n) PROVE Owned'
  <2>1. PICK q \in BufferReallocated(r, n) : Ends(o, q)
    BY <1>2, <1>7 DEF BufferReallocate
  <2>2. Sound(q, Others(o))
    BY <1>1, <1>3, BufferReallocatedSound
  <2> QED
    BY <1>1, <2>1, <2>2, DoneEnds DEF Done, Sound
<1>8. ASSUME NEW n \in Nat, BufferResize(o, n) PROVE Owned'
  <2>1. PICK q \in BufferResized(r, n) : Ends(o, q)
    BY <1>2, <1>8 DEF BufferResize
  <2>2. Sound(q, Others(o))
    BY <1>1, <1>3, BufferResizedSound
  <2> QED
    BY <1>1, <2>1, <2>2, DoneEnds DEF Done, Sound
<1>9. CASE BufferDeallocate(o)
  BY <1>1, <1>2, <1>4, <1>5, <1>9, DoneEnds DEF BufferDeallocate, Done, Sound
<1>10. ASSUME NEW src \in SafeOperands, BufferResetTo(o, src) PROVE Owned'
  <2>1. PICK q \in BufferReset(r, src) : Ends(o, q)
    BY <1>2, <1>10 DEF BufferResetTo
  <2>2. Done(q, Others(o))
    BY <1>1, <1>3, BufferResetDone
  <2> QED
    BY <1>1, <2>1, <2>2, DoneEnds
<1>11. ASSUME NEW src \in SafeOperands, NEW n \in Nat,
              n = object[o].m_size + Len(src.bytes),
              \E q \in BufferResized(r, n) : Ends(o, ThenCopied(q, object[o].m_size, src))
       PROVE  Owned'
  <2>1. PICK q \in BufferResized(r, n) : Ends(o, ThenCopied(q, object[o].m_size, src))
    BY <1>11
  <2>2. /\ Sound(q, Others(o)) /\ q.self.kind = "buffer"
        /\ \/ Thrown(q)
           \/ ~ allocatorThrows
           \/ q.self.data # NULL /\ q.self.m_capacity = n
    BY <1>1, <1>3, BufferResizedSound
  <2>3. PICK at : at = object[o].m_size
    OBVIOUS
  <2>4. /\ at \in Nat
        /\ \/ Thrown(q)
           \/ ~ allocatorThrows
           \/ q.self.data # NULL /\ at + Len(src.bytes) <= Capacity(q.self)
    BY <1>1, <1>11, <2>2, <2>3 DEF Capacity
  <2>5. Done(ThenCopied(q, at, src), Others(o))
    BY <1>1, <2>2, <2>4, ThenCopiedDone
  <2> QED
    BY <1>1, <2>1, <2>3, <2>5, DoneEnds
<1>12. ASSUME NEW src \in SafeOperands, BufferAppend(o, src) PROVE Owned'
  <2>1. object[o].m_size + Len(src.bytes) \in Nat
    BY <1>1 DEF SafeOperands, Operands, Block
  <2> QED
    BY <1>2, <1>11, <1>12, <2>1 DEF BufferAppend
<1>13. ASSUME NEW src \in SafeOperands, Len(src.bytes) = 1, BufferPushBack(o, src)
       PROVE  Owned'
  <2>1. object[o].m_size + 1 \in Nat
    BY <1>1
  <2> QED
    BY <1>2, <1>11, <1>13, <2>1 DEF BufferPushBack
<1>14. CASE BufferEmplaceBack(o)
  BY <1>1, <1>8, <1>14 DEF BufferEmplaceBack
<1>15. \A n \in 0..MaxSize : n \in Nat
  OBVIOUS
<1> QED
  BY <1>6, <1>7, <1>8, <1>9, <1>10, <1>12, <1>13, <1>14, <1>15, OperandsAre DEF CallBuffer
-----------------------------------------------------------------------------
(* The theorems. *)

LEMMA EveryBlockOwned == Spec => []Owned
<1>1. Owned /\ [Next]_objectVars => Owned'
  <2> SUFFICES ASSUME Owned, [Next]_objectVars PROVE Owned'
    OBVIOUS
  <2>1. Live \subseteq Obj
    BY DEF Live
  <2>2. CASE Next
    BY <2>1, <2>2, CreateArrayOwned, CreateBufferOwned, CallEitherOwned,
       CallArrayOwned, CallBufferOwned DEF Next
  <2>3. CASE UNCHANGED objectVars
    <3>1. UNCHANGED <<heap, object, fault, allocatorThrows>>
      BY <2>3 DEF objectVars
    <3>2. TypeOK' /\ Living' = Living
      BY <3>1 DEF Owned, TypeOK, Living
    <3>3. \A o : Fitting(object[o], heap)' <=> Fitting(object[o], heap)
      BY <3>1 DEF Fitting
    <3> QED
      BY <3>1, <3>2, <3>3 DEF Owned
  <2> QED
    BY <2>2, <2>3
<1> QED
  BY <1>1, InitiallyOwned, PTL DEF Spec

(* Containers and blocks have their types, whatever allocations fail. *)
THEOREM TypeCorrect == Spec => []TypeOK
<1>1. Owned => TypeOK
  BY DEF Owned
<1> QED
  BY <1>1, EveryBlockOwned, PTL

(* No operation of ByteHeapArray or ByteBuffer leaks a block, frees one twice,
   keeps a pointer to one it has freed or shares one, whether its allocations
   succeed, fail or throw, and the size kept for the sized deallocation is the
   block's. *)
THEOREM BlocksAreOwned == Spec => []OwnsBlocks
<1>1. Owned => OwnsBlocks
  <2> SUFFICES ASSUME Owned PROVE OwnsBlocks
    OBVIOUS
  <2>1. \A a \in Addr : heap[a] # Free => \E o \in Live : object[o].data = a
    BY LiveIs DEF Owned
  <2>2. ASSUME NEW o \in Live
        PROVE  /\ object[o].data # NULL =>
                    /\ heap[object[o].data] # Free
                    /\ Len(heap[object[o].data]) = BlockSize(object[o])
                    /\ \A p \in Live \ {o} : object[p].data # object[o].data
               /\ IsArray(o) /\ object[o].data = NULL => object[o].m_size = 0
    BY LiveIs DEF Owned, Fitting, Capacity, BlockSize, IsArray, IsA
  <2> QED
    BY <2>1, <2>2 DEF OwnsBlocks
<1> QED
  BY <1>1, EveryBlockOwned, PTL

(* With an allocator that throws, nothing is written outside a block or through
   a null pointer, and no container is larger than its block, so that reading
   its elements stays inside too. *)
THEOREM ThrowingStaysSafe == Spec => []ThrowingIsSafe
<1>1. Owned => ThrowingIsSafe
  BY LiveIs DEF Owned, ThrowingIsSafe, Fitting, Capacity, BlockSize
<1> QED
  BY <1>1, EveryBlockOwned, PTL
================================================================================
