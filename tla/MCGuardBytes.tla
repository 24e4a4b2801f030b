---------------------------- MODULE MCGuardBytes ----------------------------
(* GuardBytes with guards of four longs, as in the default build. *)
EXTENDS GuardBytes

(* Nothing, less than a long, and more than one and two of them with a byte
   left over: the fill starts at, before and behind a multiple of four. *)
MCSize == {0, 1, 5, 9}

(* An allocation longer than the guard behind it. *)
LargeSize == {40}
=============================================================================
