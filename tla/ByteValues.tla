----------------------------- MODULE ByteValues -----------------------------
(***************************************************************************)
(* What a client may expect of each call on its byte containers, which to  *)
(* it are values of their own, sequences of bytes: an action per call.     *)
(* Blocks do not appear, nor the moment at which an operand is read.       *)
(*                                                                         *)
(* A call does what it was asked for, or is left by bad_alloc; where the   *)
(* build does not throw, the actions say what a call does without memory.  *)
(* Bytes that nobody wrote are garbage, and an operand that is part of the *)
(* container it is given to may turn into garbage.                         *)
(***************************************************************************)
EXTENDS Integers, Sequences

CONSTANTS
  Obj,      \* the variables
  Garbage,  \* the value of a byte that nobody wrote
  Gone      \* the value of a variable without container

VARIABLES
  value,    \* of each variable
  kept,     \* the bytes a container keeps behind its last element
  running,  \* no container has crashed
  allocatorThrows

Unwritten(n) == [i \in 1..n |-> Garbage]

OnlyChanges(o) ==
  /\ running'
  /\ \A p \in Obj \ {o} : value'[p] = value[p] /\ kept'[p] = kept[p]

(* The container of o goes on with the value w, the others as they were. *)
Becomes(o, w) == OnlyChanges(o) /\ value'[o] = w

(* Left by bad_alloc; without it, no memory may be a crash. *)
Thrown(o, w) == allocatorThrows /\ Becomes(o, w)

Crash == ~ allocatorThrows /\ ~ running' /\ value' = value

(* What the bytes s are read as, which may be bytes of the container itself. *)
Read(s, own) == {s} \cup IF own THEN {Unwritten(Len(s))} ELSE {}
-----------------------------------------------------------------------------
(* A new container of the bytes s.  Without memory, one that was to hold
   nothing in particular is empty. *)
Create(o, s) ==
  /\ value[o] = Gone
  /\ \/ Becomes(o, s)
     \/ Thrown(o, Gone)
     \/ ~ allocatorThrows /\ s = Unwritten(Len(s)) /\ Becomes(o, <<>>)
     \/ Crash

(* The move constructor. *)
MoveTo(o, p) ==
  /\ value[o] = Gone
  /\ running'
  /\ value' = [value EXCEPT ![o] = value[p], ![p] = <<>>]
  /\ kept' = [kept EXCEPT ![o] = kept[p], ![p] = <<>>]

Destroy(o) == Becomes(o, Gone)

Swap(o, p) ==
  /\ running'
  /\ value' = [value EXCEPT ![o] = value[p], ![p] = value[o]]
  /\ kept' = [kept EXCEPT ![o] = kept[p], ![p] = kept[o]]

(* The bytes s are written over those from index at on. *)
Write(o, at, s) ==
  \/ Becomes(o, [i \in DOMAIN value[o] |->
                   IF i - at \in DOMAIN s THEN s[i - at] ELSE value[o][i]])
  \/ Crash

(* Copy assignment; an array that is assigned to itself is emptied. *)
Assign(o, p) ==
  \/ Becomes(o, IF p = o THEN <<>> ELSE value[p])
  \/ Thrown(o, <<>>)
  \/ Crash

(* A container of n new bytes, or without memory an empty one. *)
Allocate(o, n) == Becomes(o, Unwritten(n)) \/ Becomes(o, <<>>)

Clear(o) == Becomes(o, <<>>)

(* The first bytes stay; those that are new are garbage, or had been kept
   behind the last one.  Without memory nothing may change. *)
Resize(o, n) ==
  \/ Becomes(o, value[o])
  \/ LET old == value[o] \o kept[o]
     IN  /\ OnlyChanges(o)
         /\ Len(value'[o]) = n
         /\ \A i \in 1..n :
              \/ i \in DOMAIN old /\ value'[o][i] = old[i]
              \/ i > Len(value[o]) /\ value'[o][i] = Garbage

(* The value is replaced by s; by an empty s, and by bytes that are not there,
   nothing. *)
Reset(o, s, own) ==
  \/ s # <<>> /\ \E x \in Read(s, own) : Becomes(o, x)
  \/ /\ allocatorThrows \/ s = Unwritten(Len(s))
     /\ Becomes(o, value[o])
  \/ Crash

(* The bytes s come behind those that are there. *)
Extend(o, s, own) ==
  \/ \E x \in Read(s, own) : Becomes(o, value[o] \o x)
  \/ Thrown(o, value[o])
  \/ Crash

(* push_back and emplace_back of an array: without memory, and no exception,
   the byte takes the place of the last one. *)
PushBack(o, s, own) ==
  \/ Extend(o, s, own)
  \/ /\ ~ allocatorThrows /\ value[o] # <<>>
     /\ Becomes(o, [value[o] EXCEPT ![Len(value[o])] = s[1]])
=============================================================================
