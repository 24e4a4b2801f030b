---------------------------- MODULE ByteHeapArray ----------------------------
(***************************************************************************)
(* ByteHeapArray (byte_heap_array.hpp): an array that owns a block of just *)
(* its size and moves to another one whenever the size changes.  An action *)
(* is one call of the client; calls that return before they have assigned  *)
(* anything have none.                                                     *)
(***************************************************************************)
EXTENDS ByteObjects

NoArray == [kind |-> "array", data |-> NULL, m_size |-> 0]

IsArray(o) == IsA(o, "array")

(* Mutant: the pointer to the freed block stays. *)
CleanedUp_KeepsPointer(r) ==
  [Released(r) EXCEPT !.self.data = r.self.data, !.self.m_size = 0]

(* cleanup *)
CleanedUp(r) == [Released(r) EXCEPT !.self.m_size = 0]

(* The array moves to a block that holds s, or the allocation fails. *)
ArrayMoves(r, s) ==
  {Failed(r)} \cup {[q EXCEPT !.self.m_size = Len(s)] : q \in Moves(r, s)}

(* reallocate *)
ArrayReallocated(r, n) ==
  IF r.self.m_size = n /\ r.self.data # NULL THEN {r}
  ELSE LET kept == Bytes(r.heap, r.self.data, 0, Smaller(r.self.m_size, n))
       IN  ArrayMoves(r, kept \o Unwritten(n - Len(kept)))

(* append writes to the new block without looking: a failure that does not
   throw is a crash.  The old block is freed before the operand is read. *)
ArrayAppended(r, src) ==
  LET kept == Bytes(r.heap, r.self.data, 0, r.self.m_size)
      new  == Operand(Released(r).heap, src)
  IN  {IF q.failed /\ ~ Thrown(q) THEN Crashed(q, "null") ELSE q :
         q \in ArrayMoves(r, kept \o new)}

(* What the size was set for is stored at index at; not after a throw. *)
ThenStored(q, at, src) ==
  IF Thrown(q) THEN q ELSE Stored(q, at, Operand(q.heap, src))
-----------------------------------------------------------------------------
(* Constructors. *)

ArrayOfCount(o, n) ==
  \E q \in ArrayReallocated(Begun(NoArray), n) : Constructs(o, q)

(* From an initializer list, and the copy of another array. *)
ArrayCopyOf(o, src) ==
  \E q \in ArrayReallocated(Begun(NoArray), Len(src.bytes)) :
    Constructs(o, ThenStored(q, 0, src))

(* From a pointer and a size; nothing is appended for a null pointer. *)
ArrayOfBytes(o, src) ==
  IF src.data = NULL \/ src.bytes = <<>> THEN Constructs(o, Begun(NoArray))
  ELSE \E q \in ArrayAppended(Begun(NoArray), src) : Constructs(o, q)

(* The move constructor swaps with an empty array. *)
ArrayMovedFrom(o, p) ==
  /\ object' = [object EXCEPT ![o] = object[p], ![p] = NoArray]
  /\ UNCHANGED <<heap, fault, allocatorThrows>>
-----------------------------------------------------------------------------
(* Mutant: the pointer is copied, as an implicit assignment would. *)
ArrayAssign_Shallow(o, p) ==
  Ends(o, [CleanedUp(Begun(object[o])) EXCEPT !.self = object[p]])

(* operator=, which cleans up first: an array assigned to itself is empty. *)
ArrayAssign(o, p) ==
  LET r == CleanedUp(Begun(object[o]))
      s == IF p = o THEN <<>> ELSE Operand(r.heap, Contents(p))
  IN  \E q \in ArrayMoves(r, s) :
        Ends(o, IF q.failed /\ ~ Thrown(q) /\ s # <<>>
                THEN Crashed(q, "null") ELSE q)

ArrayAppend(o, src) ==
  /\ src.data # NULL /\ src.bytes # <<>>
  /\ \E q \in ArrayAppended(Begun(object[o]), src) : Ends(o, q)

(* allocate, which keeps a block of the right size and its bytes. *)
ArrayAllocate(o, n) ==
  /\ ~ (object[o].data # NULL /\ object[o].m_size = n)
  /\ \E q \in ArrayMoves(CleanedUp(Begun(object[o])), Unwritten(n)) : Ends(o, q)

(* reallocate, resize, and reserve when it is to grow. *)
ArrayReallocate(o, n) ==
  \E q \in ArrayReallocated(Begun(object[o]), n) : Ends(o, q)

(* push_back: whether or not the reallocation worked, the last element is
   written, from a reference that may point into the old block. *)
ArrayPushBack(o, src) ==
  \E q \in ArrayReallocated(Begun(object[o]), object[o].m_size + 1) :
    Ends(o, ThenStored(q, q.self.m_size - 1, src))

ArrayEmplaceBack(o) == ArrayPushBack(o, Given(<<0>>))

(* set_range; that the bytes fit is left to the client. *)
ArraySetRange(o, at, src) ==
  /\ at + Len(src.bytes) <= object[o].m_size
  /\ Ends(o, Stored(Begun(object[o]), at, Operand(heap, src)))

(* clear, deallocate *)
ArrayClear(o) == Ends(o, CleanedUp(Begun(object[o])))
=============================================================================
