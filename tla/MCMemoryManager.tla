--------------------------- MODULE MCMemoryManager ---------------------------
(* MemoryManager on three addresses, two of which share a bucket (or all of
   them do), and on blocks of two units, so that three allocations outgrow a
   block and a chain has a head, a middle and an end. *)
EXTENDS MemoryManager, TLC

CONSTANTS a1, a2, a3, k1, k2

MCAddr == {a1, a2, a3}
MCBlock == {k1, k2}
MCHashIndex == (a1 :> 0) @@ (a2 :> 0) @@ (a3 :> 1)
OneBucket == [a \in MCAddr |-> 0]

Symmetry == Permutations({a1, a2}) \cup Permutations({k1, k2})

(* With one bucket no two addresses differ. *)
AddrSymmetry == Permutations(MCAddr)
=============================================================================
