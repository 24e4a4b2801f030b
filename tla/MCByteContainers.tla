-------------------------- MODULE MCByteContainers --------------------------
(* ByteContainers for two variables and three blocks: each container has one,
   and a third is there to move to. *)
EXTENDS ByteContainers, TLC

MCChunk == {<<1>>, <<0, 1>>}

Symmetry == Permutations(Addr) \cup Permutations(Obj)
=============================================================================
