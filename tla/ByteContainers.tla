--------------------------- MODULE ByteContainers ---------------------------
(***************************************************************************)
(* A client of ByteHeapArray and ByteBuffer: containers of both kinds over *)
(* one allocator, copied, moved, assigned and given bytes of each other    *)
(* and of themselves, while allocations fail.                              *)
(*                                                                         *)
(* The client calls no operation with an index behind the end and no       *)
(* operation of a container that was destroyed.  After a crash the program *)
(* has stopped.                                                            *)
(***************************************************************************)
EXTENDS ByteHeapArray, ByteBuffer

CONSTANT Chunk   \* the sequences of bytes the client writes

ASSUME ChunkAssumption == Chunk \subseteq Seq(Byte) /\ <<>> \notin Chunk

Live == {o \in Obj : object[o] # Dead}

(* What fits behind the contents of o, within the bound. *)
Fits(o, src) == object[o].m_size + Len(src.bytes) <= MaxSize

Sources == {Given(s) : s \in Chunk} \cup {Contents(p) : p \in Live}

(* References to a byte: the client's, or an element of a container. *)
References ==
  {Given(<<b>>) : b \in Byte} \cup
  UNION {{Element(p, i) : i \in 0..(object[p].m_size - 1)} :
           p \in {q \in Live : object[q].data # NULL}}

CreateArray(o) ==
  \/ Constructs(o, Begun(NoArray))
  \/ \E n \in 0..MaxSize : ArrayOfCount(o, n)
  \/ \E s \in Chunk : ArrayCopyOf(o, Given(s))
  \/ \E src \in Sources : ArrayOfBytes(o, src)
  \/ \E p \in Live : IsArray(p) /\ (ArrayCopyOf(o, Contents(p)) \/ ArrayMovedFrom(o, p))

CreateBuffer(o) ==
  \/ Constructs(o, Begun(NoBuffer))
  \/ \E n \in 0..MaxSize : BufferOfCount(o, n)
  \/ \E s \in Chunk : BufferCopyOf(o, Given(s))
  \/ \E p \in Live : IsBuffer(p) /\ (BufferCopyOf(o, Contents(p)) \/ BufferMovedFrom(o, p))

(* What both kinds have. *)
CallEither(o) ==
  \/ Destroy(o)
  \/ \E p \in Live : object[p].kind = object[o].kind /\ Swap(o, p)
  \/ \E b \in Byte : Fill(o, b)
  \/ \E i \in 0..(object[o].m_size - 1) :
       Emplace(o, i) \/ \E b \in Byte : WriteElement(o, i, b)

CallArray(o) ==
  \/ \E p \in Live : IsArray(p) /\ ArrayAssign(o, p)
  \/ \E n \in 0..MaxSize : ArrayAllocate(o, n) \/ ArrayReallocate(o, n)
  \/ \E src \in Sources : Fits(o, src) /\ ArrayAppend(o, src)
  \/ \E src \in References : Fits(o, src) /\ ArrayPushBack(o, src)
  \/ object[o].m_size < MaxSize /\ ArrayEmplaceBack(o)
  \/ \E at \in 0..MaxSize, s \in Chunk : ArraySetRange(o, at, Given(s))
  \/ ArrayClear(o)

CallBuffer(o) ==
  \/ \E n \in 0..MaxSize :
       BufferAllocate(o, n) \/ BufferReallocate(o, n) \/ BufferResize(o, n)
  \/ BufferDeallocate(o)
  \/ \E src \in Sources : BufferResetTo(o, src) \/ (Fits(o, src) /\ BufferAppend(o, src))
  \/ \E src \in References : Fits(o, src) /\ BufferPushBack(o, src)
  \/ object[o].m_size < MaxSize /\ BufferEmplaceBack(o)

Next ==
  /\ fault = "none"
  /\ \/ \E o \in Obj \ Live : CreateArray(o) \/ CreateBuffer(o)
     \/ \E o \in Live : CallEither(o)
     \/ \E o \in Live : IsArray(o) /\ CallArray(o)
     \/ \E o \in Live : IsBuffer(o) /\ CallBuffer(o)

Spec == Init /\ [][Next]_objectVars
-----------------------------------------------------------------------------
BlockSize(self) == IF self.kind = "array" THEN self.m_size ELSE self.m_capacity

(* Every block has exactly one owner: no operation, whether it succeeds, fails
   or throws, leaks a block, frees one twice, keeps a pointer to one that is
   freed or shares one; and the size that its owner will pass to the sized
   deallocation is the one it was allocated with.  An array without a block is
   empty. *)
OwnsBlocks ==
  /\ \A a \in Addr : heap[a] # Free => \E o \in Live : object[o].data = a
  /\ \A o \in Live : object[o].data # NULL =>
       /\ heap[object[o].data] # Free
       /\ Len(heap[object[o].data]) = BlockSize(object[o])
       /\ \A p \in Live \ {o} : object[p].data # object[o].data
  /\ \A o \in Live :
       IsArray(o) /\ object[o].data = NULL => object[o].m_size = 0

(* With an allocator that throws, no sequence of calls crashes, and no
   container is larger than its block: an array without a block is empty, a
   buffer no longer than its capacity. *)
ThrowingIsSafe ==
  allocatorThrows =>
    /\ fault = "none"
    /\ \A o \in Live :
         object[o].m_size <= IF object[o].data = NULL THEN 0
                             ELSE BlockSize(object[o])

(* The value of a container: what its elements read as. *)
ValueOf(o) ==
  IF object[o] = Dead THEN Dead
  ELSE Bytes(heap, object[o].data, 0, object[o].m_size)

(* The bytes of its block that are behind the last element. *)
KeptBy(o) ==
  IF object[o] = Dead \/ object[o].data = NULL THEN <<>>
  ELSE Bytes(heap, object[o].data, object[o].m_size,
             BlockSize(object[o]) - object[o].m_size)

Values ==
  INSTANCE ByteValues
    WITH Gone <- Dead,
         value <- [o \in Obj |-> ValueOf(o)],
         kept <- [o \in Obj |-> KeptBy(o)],
         running <- fault = "none"

(* What an operand is when the call is made, and whether it is part of o. *)
Meant(src) == Operand(heap, src)

IsPartOf(src, o) == src.data # NULL /\ src.data = object[o].data

(* Each constructor makes the value it was called for. *)
CreationsAreOfValues(o) ==
  /\ Constructs(o, Begun(NoArray)) \/ Constructs(o, Begun(NoBuffer))
       => Values!Create(o, <<>>)
  /\ \A n \in 0..MaxSize :
       ArrayOfCount(o, n) \/ BufferOfCount(o, n) => Values!Create(o, Unwritten(n))
  /\ \A src \in Sources : ArrayOfBytes(o, src) => Values!Create(o, Meant(src))
  /\ \A s \in Chunk :
       ArrayCopyOf(o, Given(s)) \/ BufferCopyOf(o, Given(s)) => Values!Create(o, s)
  /\ \A p \in Live :
       /\ \/ IsArray(p) /\ ArrayCopyOf(o, Contents(p))
          \/ IsBuffer(p) /\ BufferCopyOf(o, Contents(p))
            => Values!Create(o, ValueOf(p))
       /\ \/ IsArray(p) /\ ArrayMovedFrom(o, p)
          \/ IsBuffer(p) /\ BufferMovedFrom(o, p)
            => Values!MoveTo(o, p)

(* The operations that both kinds have. *)
CallsOfEitherAreOfValues(o) ==
  /\ Destroy(o) => Values!Destroy(o)
  /\ \A p \in Live :
       object[p].kind = object[o].kind /\ Swap(o, p) => Values!Swap(o, p)
  /\ \A b \in Byte :
       Fill(o, b) => Values!Write(o, 0, [i \in 1..object[o].m_size |-> b])
  /\ \A i \in 0..(object[o].m_size - 1), b \in Byte :
       WriteElement(o, i, b) \/ (b = 0 /\ Emplace(o, i)) => Values!Write(o, i, <<b>>)

(* Those of an array, named as they are called there. *)
CallsOfArraysAreOfValues(o) ==
  /\ \A p \in Live : IsArray(p) /\ ArrayAssign(o, p) => Values!Assign(o, p)
  /\ \A n \in 0..MaxSize :
       /\ ArrayAllocate(o, n) => Values!Allocate(o, n)
       /\ ArrayReallocate(o, n) => Values!Resize(o, n)
  /\ \A src \in Sources :
       ArrayAppend(o, src) => Values!Extend(o, Meant(src), IsPartOf(src, o))
  /\ \A src \in References :
       ArrayPushBack(o, src) => Values!PushBack(o, Meant(src), IsPartOf(src, o))
  /\ ArrayEmplaceBack(o) => Values!PushBack(o, <<0>>, FALSE)
  /\ \A at \in 0..MaxSize, s \in Chunk :
       ArraySetRange(o, at, Given(s)) => Values!Write(o, at, s)
  /\ ArrayClear(o) => Values!Clear(o)

(* Those of a buffer: allocate only makes room, reserve and reallocate also
   cut, and emplace_back returns a byte that may be an old one. *)
CallsOfBuffersAreOfValues(o) ==
  /\ \A n \in 0..MaxSize :
       /\ BufferAllocate(o, n) => Values!Clear(o)
       /\ BufferReallocate(o, n)
            => Values!Resize(o, Smaller(n, object[o].m_size))
       /\ BufferResize(o, n) => Values!Resize(o, n)
  /\ BufferDeallocate(o) => Values!Clear(o)
  /\ \A src \in Sources :
       /\ BufferResetTo(o, src) => Values!Reset(o, Meant(src), IsPartOf(src, o))
       /\ BufferAppend(o, src) => Values!Extend(o, Meant(src), IsPartOf(src, o))
  /\ \A src \in References :
       BufferPushBack(o, src) => Values!Extend(o, Meant(src), IsPartOf(src, o))
  /\ BufferEmplaceBack(o) => Values!Resize(o, object[o].m_size + 1)

(* Every call that a step can be is the action of ByteValues of that call, on
   the operand as it was when the call was made. *)
CallsAreOfValues ==
  /\ \A o \in Obj \ Live : CreationsAreOfValues(o)
  /\ \A o \in Live :
       /\ CallsOfEitherAreOfValues(o)
       /\ IsArray(o) => CallsOfArraysAreOfValues(o)
       /\ IsBuffer(o) => CallsOfBuffersAreOfValues(o)

(* A call of a ByteHeapArray or a ByteBuffer does to the values what ByteValues
   says of that very call, and to no other container anything, although blocks
   move, operands are read after their block was freed, and allocations fail.
   push_back of an array is the one call that ByteValues lets lose a byte: where
   nothing is thrown it overwrites the last one for want of memory. *)
ImplementsValues == [][CallsAreOfValues]_objectVars
=============================================================================
