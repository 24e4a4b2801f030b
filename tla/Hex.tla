--------------------------------- MODULE Hex ---------------------------------
(***************************************************************************)
(* The conversions of hex.hpp.  A string is a sequence of characters, and  *)
(* a character that is no hexadecimal digit counts as zero.  The loop of   *)
(* byte_array_of is given by its condition, its body and its counter of    *)
(* eight bits: the module that uses it makes each iteration a step.        *)
(***************************************************************************)
EXTENDS Integers, Sequences

characters_upper_case ==
  <<"0", "1", "2", "3", "4", "5", "6", "7",
    "8", "9", "A", "B", "C", "D", "E", "F">>

characters_lower_case ==
  <<"0", "1", "2", "3", "4", "5", "6", "7",
    "8", "9", "a", "b", "c", "d", "e", "f">>

(* Mutant: the lower case digits are not in the map. *)
ascii_to_hex_map_UpperOnly(c) ==
  LET at == {i \in 1..16 : characters_upper_case[i] = c}
  IN  IF at = {} THEN 0 ELSE (CHOOSE i \in at : TRUE) - 1

ascii_to_hex_map(c) ==
  LET at == {i \in 1..16 : c \in {characters_upper_case[i],
                                  characters_lower_case[i]}}
  IN  IF at = {} THEN 0 ELSE (CHOOSE i \in at : TRUE) - 1

(* hex_string_of for bytes. *)
hex_string_of(bytes, upper_case) ==
  LET characters == IF upper_case THEN characters_upper_case
                                  ELSE characters_lower_case
      digits(b) == <<characters[(b \div 16) + 1], characters[(b % 16) + 1]>>
  IN  [i \in 1..(2 * Len(bytes)) |->
         digits(bytes[(i + 1) \div 2])[IF i % 2 = 1 THEN 1 ELSE 2]]

(* byte_array_of: the loop goes on at pos, for bytes_size bytes. *)
Continues(str, bytes_size, pos) == pos < 2 * bytes_size /\ pos < Len(str)

(* The byte of the two characters at pos (from 0).  The character behind the
   last one is the terminator, which is no digit. *)
ByteAt(str, pos) ==
  16 * ascii_to_hex_map(str[pos + 1])
    + (IF pos + 2 <= Len(str) THEN ascii_to_hex_map(str[pos + 2]) ELSE 0)

(* Mutant: a counter of seven bits. *)
NextPos_SevenBits(pos) == (pos + 2) % 128

(* pos is an unsigned char. *)
NextPos(pos) == (pos + 2) % 256
=============================================================================
