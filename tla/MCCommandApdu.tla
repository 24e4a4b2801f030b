---------------------------- MODULE MCCommandApdu ----------------------------
(* CommandApdu with data and strings around the limits of their counters. *)
EXTENDS CommandApdu, TLC

MCByte == 0..255

MCHeader == {<<0, 164, 4, 2>>}

(* The longest data whose length fits a byte, and one byte more. *)
MCData == {<<>>, <<7>>, [i \in 1..255 |-> i % 256], [i \in 1..256 |-> i % 256]}

MCLe == {0, 16}

(* The digits, and one character that is none. *)
MCCharacter ==
  {characters_upper_case[i] : i \in 1..16}
    \cup {characters_lower_case[i] : i \in 1..16} \cup {"x"}

Digits(n) == [i \in 1..n |-> IF i % 3 = 0 THEN "b" ELSE "9"]

(* No digits, half a byte, a half at the end, no digit at all, and the longest
   string that the loop finishes and the first that it does not. *)
MCText ==
  {<<>>, <<"4">>, <<"F", "f", "0">>, <<"x", "A">>, Digits(255), Digits(256)}

(* Every digit, as the first and as the second of a byte. *)
MCDump == {[i \in 1..16 |-> 16 * (i - 1) + (16 - i)], <<>>}

=============================================================================
