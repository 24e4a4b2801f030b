--------------------------- MODULE MCApduExchange ---------------------------
(* ApduExchange for two callers, who may be exchanged, as may the commands and
   the values of Le. *)
EXTENDS ApduExchange, TLC

Symmetry == Permutations(Caller) \cup Permutations(Body) \cup Permutations(Amount)
=============================================================================
