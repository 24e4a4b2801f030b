----------------------------- MODULE ByteBuffer -----------------------------
(***************************************************************************)
(* ByteBuffer (byte_buffer.hpp): a container whose block has a capacity of *)
(* its own.  resize sets the size whether or not there was memory for it;  *)
(* with a memory manager that answers NULL, the size then exceeds the      *)
(* capacity.  The class has no assignment operators.                       *)
(***************************************************************************)
EXTENDS ByteObjects

NoBuffer == [kind |-> "buffer", data |-> NULL, m_size |-> 0, m_capacity |-> 0]

IsBuffer(o) == IsA(o, "buffer")

HasCapacity(self, n) == self.data # NULL /\ self.m_capacity = n

(* deallocate *)
Deallocated(r) == [Released(r) EXCEPT !.self.m_size = 0, !.self.m_capacity = 0]

(* The buffer moves to a block that holds s and is n bytes large of which the
   first m are live, or the allocation fails. *)
BufferMoves(r, s, m) ==
  {Failed(r)} \cup
  {[q EXCEPT !.self.m_size = m, !.self.m_capacity = Len(s)] : q \in Moves(r, s)}

(* Mutant: the size is not reduced to the new capacity. *)
BufferReallocated_KeepsSize(r, n) ==
  IF HasCapacity(r.self, n) THEN {r}
  ELSE LET m == Smaller(r.self.m_size, n)
       IN  BufferMoves(r, Bytes(r.heap, r.self.data, 0, m) \o Unwritten(n - m),
                       r.self.m_size)

(* reallocate, which also shrinks. *)
BufferReallocated(r, n) ==
  IF HasCapacity(r.self, n) THEN {r}
  ELSE LET m == Smaller(r.self.m_size, n)
       IN  BufferMoves(r, Bytes(r.heap, r.self.data, 0, m) \o Unwritten(n - m), m)

(* resize *)
BufferResized(r, n) ==
  {IF Thrown(q) THEN q ELSE [q EXCEPT !.self.m_size = n] :
     q \in BufferReallocated(r, n)}

(* memcpy of the operand to index at; a null operand of some size crashes. *)
ThenCopied(q, at, src) ==
  IF Thrown(q) THEN q
  ELSE IF src.data = NULL /\ src.bytes # <<>> THEN Crashed(q, "null")
  ELSE Stored(q, at, Operand(q.heap, src))

(* reset to the operand; -1, and nothing, for an empty one. *)
BufferReset(r, src) ==
  IF src.data = NULL \/ src.bytes = <<>> THEN {r}
  ELSE {ThenCopied(q, 0, src) : q \in BufferResized(r, Len(src.bytes))}
-----------------------------------------------------------------------------
(* Constructors: of a count, of a list or another buffer, by moving. *)

BufferOfCount(o, n) ==
  \E q \in BufferResized(Begun(NoBuffer), n) : Constructs(o, q)

BufferCopyOf(o, src) ==
  \E q \in BufferReset(Begun(NoBuffer), src) : Constructs(o, q)

BufferMovedFrom(o, p) ==
  /\ object' = [object EXCEPT ![o] = object[p], ![p] = NoBuffer]
  /\ UNCHANGED <<heap, fault, allocatorThrows>>
-----------------------------------------------------------------------------
(* allocate, and reset to a count, which keeps a block of the right capacity;
   reset to 0 deallocates. *)
BufferAllocate(o, n) ==
  IF HasCapacity(object[o], n)
  THEN Ends(o, [Begun(object[o]) EXCEPT !.self.m_size = 0])
  ELSE \E q \in BufferMoves(Deallocated(Begun(object[o])), Unwritten(n), 0) :
         Ends(o, q)

(* deallocate, reset() *)
BufferDeallocate(o) == Ends(o, Deallocated(Begun(object[o])))

BufferResetTo(o, src) == \E q \in BufferReset(Begun(object[o]), src) : Ends(o, q)

(* reallocate, reserve: both cut a buffer that is longer. *)
BufferReallocate(o, n) ==
  \E q \in BufferReallocated(Begun(object[o]), n) : Ends(o, q)

BufferResize(o, n) == \E q \in BufferResized(Begun(object[o]), n) : Ends(o, q)

(* Mutant: the operand replaces the contents. *)
BufferAppend_FromStart(o, src) ==
  \E q \in BufferResized(Begun(object[o]), object[o].m_size + Len(src.bytes)) :
    Ends(o, ThenCopied(q, 0, src))

(* append; the operand may be the buffer itself, whose block resize has freed
   unless the capacity happened to fit. *)
BufferAppend(o, src) ==
  \E q \in BufferResized(Begun(object[o]), object[o].m_size + Len(src.bytes)) :
    Ends(o, ThenCopied(q, object[o].m_size, src))

BufferPushBack(o, src) ==
  \E q \in BufferResized(Begun(object[o]), object[o].m_size + 1) :
    Ends(o, ThenCopied(q, object[o].m_size, src))

(* Mutant: the buffer shrinks. *)
BufferEmplaceBack_Shrinks(o) == BufferResize(o, object[o].m_size - 1)

(* emplace_back returns the new element as it is. *)
BufferEmplaceBack(o) == BufferResize(o, object[o].m_size + 1)
=============================================================================
