----------------------------- MODULE ByteObjects -----------------------------
(***************************************************************************)
(* What the two containers of base, ByteHeapArray and ByteBuffer, share:   *)
(* the blocks that Allocator hands out, the container objects that point   *)
(* to them, and how an operation of a container ends.                      *)
(*                                                                         *)
(* allocator.hpp asks the memory manager, which answers NULL when it has   *)
(* no memory, or (TSG_USE_MEMORY_MANAGER off) operator new[], which throws.*)
(* The asserts of the containers are those of a release build: empty.      *)
(***************************************************************************)
EXTENDS Integers, Sequences, FiniteSets

CONSTANTS
  Obj,       \* the variables of the client that may hold a container
  Addr,      \* the addresses a block can have
  Byte,      \* the values of an initialised byte
  Garbage,   \* the value of any other byte
  MaxSize,   \* the client's containers grow no longer (a bound of the model)
  NULL,
  Caller,    \* the address of bytes that no container owns
  Free,      \* no block is at this address
  Dead       \* no container is in this variable

Value == Byte \cup {Garbage}

Array == [kind : {"array"}, data : Addr \cup {NULL}, m_size : Nat]

Buffer ==
  [kind : {"buffer"}, data : Addr \cup {NULL}, m_size : Nat, m_capacity : Nat]

Block == Seq(Value)

ASSUME ObjectsAssumption ==
  /\ IsFiniteSet(Addr)
  /\ 0 \in Byte /\ Garbage \notin Byte
  /\ MaxSize \in Nat
  /\ NULL \notin Addr /\ Caller \notin Addr \cup {NULL}
  /\ Free \notin Block
  /\ Dead \notin Array \cup Buffer \cup Block

VARIABLES
  heap,              \* the bytes of each block
  object,            \* the container in each variable
  fault,             \* how the program crashed, "none" while it runs
  allocatorThrows    \* the build: operator new[], not the memory manager

objectVars == <<heap, object, fault, allocatorThrows>>

TypeOK ==
  /\ heap \in [Addr -> Block \cup {Free}]
  /\ object \in [Obj -> Array \cup Buffer \cup {Dead}]
  /\ fault \in {"none", "null", "outside"}
  /\ allocatorThrows \in BOOLEAN

Init ==
  /\ heap = [a \in Addr |-> Free]
  /\ object = [o \in Obj |-> Dead]
  /\ fault = "none"
  /\ allocatorThrows \in BOOLEAN

IsA(o, kind) == object[o] # Dead /\ object[o].kind = kind
-----------------------------------------------------------------------------
(* Bytes. *)

Smaller(m, n) == IF m < n THEN m ELSE n

Unwritten(n) == [i \in 1..n |-> Garbage]

(* What n bytes read as, from the index from of the block at d.  A block that
   was freed, and what is behind the end of one, reads as garbage. *)
Bytes(h, d, from, n) ==
  [i \in 1..n |-> IF d # NULL /\ h[d] # Free /\ from + i <= Len(h[d])
                  THEN h[d][from + i] ELSE Garbage]

(* An operand is bytes of the caller, or a pointer into a block: it is read
   when the operation copies it, not when it is called. *)
Given(s) == [data |-> Caller, from |-> 0, bytes |-> s]

Pointed(d, from, n) == [data |-> d, from |-> from, bytes |-> Unwritten(n)]

Contents(p) == Pointed(object[p].data, 0, object[p].m_size)

Element(p, i) == Pointed(object[p].data, i, 1)

Operand(h, src) ==
  IF src.data = Caller THEN src.bytes
  ELSE Bytes(h, src.data, src.from, Len(src.bytes))
-----------------------------------------------------------------------------
(* An operation on the container of o goes through states: the heap, the
   container itself, whether an allocation failed, and whether it crashed. *)

Begun(self) == [heap |-> heap, self |-> self, failed |-> FALSE, fault |-> "none"]

Failed(r) == [r EXCEPT !.failed = TRUE]

Crashed(r, f) == [r EXCEPT !.fault = f]

(* The operation is left by bad_alloc. *)
Thrown(r) == r.failed /\ allocatorThrows

(* deallocate *)
Released(r) ==
  IF r.self.data = NULL THEN r
  ELSE [r EXCEPT !.heap[r.self.data] = Free, !.self.data = NULL]

(* The container gets a new block that holds s, then the old one is freed. *)
Moves(r, s) ==
  {[r EXCEPT !.heap = [Released(r).heap EXCEPT ![a] = s], !.self.data = a] :
     a \in {b \in Addr : r.heap[b] = Free}}

(* The bytes s are stored at the index at (from 0) of the container's block. *)
Stored(r, at, s) ==
  LET d == r.self.data
  IN  IF s = <<>> THEN r
      ELSE IF d = NULL THEN Crashed(r, "null")
      ELSE IF at < 0 \/ at + Len(s) > Len(r.heap[d]) THEN Crashed(r, "outside")
      ELSE [r EXCEPT !.heap[d] = [i \in DOMAIN @ |->
                IF i - at \in DOMAIN s THEN s[i - at] ELSE @[i]]]

(* The operation ends in r; after a crash nobody looks at the state. *)
Ends(o, r) ==
  /\ fault' = r.fault
  /\ IF r.fault = "none"
     THEN heap' = r.heap /\ object' = [object EXCEPT ![o] = r.self]
     ELSE UNCHANGED <<heap, object>>
  /\ UNCHANGED allocatorThrows

(* A constructor that is left by bad_alloc leaves no object behind: its
   delegate was complete, so the destructor runs. *)
Constructs(o, r) ==
  IF Thrown(r) THEN Ends(o, [Released(r) EXCEPT !.self = Dead]) ELSE Ends(o, r)

(* swap, the move assignment: o and p exchange all members. *)
Swap(o, p) ==
  /\ object' = [object EXCEPT ![o] = object[p], ![p] = object[o]]
  /\ UNCHANGED <<heap, fault, allocatorThrows>>

(* The destructor. *)
Destroy(o) ==
  Ends(o, [Released(Begun(object[o])) EXCEPT !.self = Dead])

(* The client writes an element; fill writes all of them. *)
WriteElement(o, i, b) ==
  /\ i < object[o].m_size
  /\ Ends(o, Stored(Begun(object[o]), i, <<b>>))

Fill(o, b) ==
  Ends(o, Stored(Begun(object[o]), 0, [i \in 1..object[o].m_size |-> b]))

(* emplace, which refuses an empty container and a target behind the end. *)
Emplace(o, i) ==
  /\ object[o].data # NULL
  /\ WriteElement(o, i, 0)
=============================================================================
