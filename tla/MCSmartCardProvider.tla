------------------------ MODULE MCSmartCardProvider ------------------------
(* SmartCardProvider on small sets; nothing in it tells two cards, handles,
   objects or connections apart, so they may be permuted. *)
EXTENDS SmartCardProvider, TLC

Symmetry ==
  Permutations(Card) \cup Permutations(Handle) \cup Permutations(Impl)
    \cup Permutations(Conn)
=============================================================================
