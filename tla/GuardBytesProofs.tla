---------------------------- MODULE GuardBytesProofs ----------------------------
(***************************************************************************)
(* Proofs about GuardBytes, for guards of any length, any sizes and longs  *)
(* of 4 or 8 bytes; what holds only for longs of 4 bytes says so.          *)
(***************************************************************************)
EXTENDS GuardBytes, FiniteSetTheorems, TLAPS

-----------------------------------------------------------------------------
(* The arithmetic of the sizes. *)

(* A guard is a long at least. *)
LEMMA PaddingFacts == Padding \in Nat /\ Padding >= LongSize /\ LongSize >= 4
<1>1. CASE LongSize = 4
  BY <1>1, GuardAssumption DEF Padding
<1>2. CASE LongSize = 8
  BY <1>2, GuardAssumption DEF Padding
<1> QED
  BY <1>1, <1>2, GuardAssumption

LEMMA DivideByFour ==
  ASSUME NEW k \in Nat
  PROVE  /\ k \div 4 \in Nat /\ k % 4 \in 0..3
         /\ k = 4 * (k \div 4) + (k % 4)
  OBVIOUS

LEMMA RemainderOfLong == \A k \in Nat : k % LongSize \in 0..(LongSize - 1)
  BY GuardAssumption

(* The fill begins behind the contents that stay and ends no earlier than the
   allocation; it ends there exactly if a long has 4 bytes. *)
LEMMA FillCovers ==
  ASSUME NEW n \in Nat, NEW original \in Nat, n > original
  PROVE  /\ FillFrom(original) = Padding + original
         /\ Bulk(n - original) \in Nat
         /\ FillTo(n, original) = FillFrom(original) + Bulk(n - original)
                                    + ((n - original) % 4)
         /\ FillTo(n, original) \in Nat
         /\ FillTo(n, original) >= Padding + n
         /\ LongSize = 4 => FillTo(n, original) = Padding + n
<1> DEFINE k == n - original
<1>1. k \in Nat
  OBVIOUS
<1>2. k \div 4 \in Nat /\ k % 4 \in 0..3 /\ k = 4 * (k \div 4) + (k % 4)
  BY <1>1, DivideByFour
<1>3. Bulk(k) \in Nat /\ Bulk(k) >= 4 * (k \div 4)
      /\ (LongSize = 4 => Bulk(k) = 4 * (k \div 4))
  <2>1. CASE LongSize = 4
    BY <2>1, <1>2 DEF Bulk
  <2>2. CASE LongSize = 8
    BY <2>2, <1>2 DEF Bulk
  <2> QED
    BY <2>1, <2>2, GuardAssumption
<1> HIDE DEF k
<1>4. FillTo(n, original) = Padding + original + Bulk(k) + (k % 4)
  BY DEF FillTo, FillFrom, k
<1> QED
  BY <1>1, <1>2, <1>3, <1>4, PaddingFacts DEF k, FillFrom

(* What a filled byte may be. *)
Marked == Byte \ {"prefix", "postfix", "heap"}

LEMMA FillIsMarked == \A j \in Nat : FillByte(j) \in Marked
  BY DEF FillByte, Pattern, Unused, Marked, Byte

(* The bytes in front of the fill stay, and those of the fill are marked. *)
LEMMA FilledByteIs ==
  ASSUME NEW n \in Nat, NEW original \in Nat, n > original, NEW b, NEW i \in Nat
  PROVE  /\ i < Padding + original => FilledByte(b, n, original, i) = b[i]
         /\ i >= Padding + original /\ i < Padding + n
              => FilledByte(b, n, original, i) \in Marked
<1> DEFINE at == i - FillFrom(original)
           bulk == Bulk(n - original)
<1>1. /\ FillFrom(original) = Padding + original /\ bulk \in Nat /\ Padding \in Nat
      /\ FillTo(n, original) = FillFrom(original) + bulk + ((n - original) % 4)
      /\ FillTo(n, original) >= Padding + n
      /\ (n - original) % 4 \in 0..3
  BY FillCovers, DivideByFour, PaddingFacts
<1>2. ASSUME i < Padding + original
      PROVE  FilledByte(b, n, original, i) = b[i]
  <2>1. at < 0 /\ at \notin 0..(bulk - 1)
    BY <1>1, <1>2
  <2> QED
    BY <2>1 DEF FilledByte
<1>3. ASSUME i >= Padding + original, i < Padding + n
      PROVE  FilledByte(b, n, original, i) \in Marked
  <2>1. at \in Nat /\ ~ (at < 0 \/ i >= FillTo(n, original))
    BY <1>1, <1>3
  <2>2. CASE at \in 0..(bulk - 1)
    <3>1. FilledByte(b, n, original, i) = FillByte(at % LongSize)
      BY <2>1, <2>2 DEF FilledByte
    <3> QED
      BY <3>1, <2>1, RemainderOfLong, FillIsMarked, PaddingFacts, GuardAssumption
  <2>3. CASE at \notin 0..(bulk - 1)
    <3>1. FilledByte(b, n, original, i) = FillByte(at - bulk)
      BY <2>1, <2>3 DEF FilledByte
    <3>2. at - bulk \in Nat
      BY <2>1, <2>3, <1>1
    <3> QED
      BY <3>1, <3>2, FillIsMarked
  <2> QED
    BY <2>2, <2>3
<1> QED
  BY <1>2, <1>3
-----------------------------------------------------------------------------
(* What the operations do to the bytes. *)

LEMMA SizeFacts ==
  ASSUME TypeOK
  PROVE  /\ reportedSize \in Nat
         /\ IsAllocated =>
              /\ DOMAIN block = 0..(reportedSize + 2 * Padding - 1)
              /\ Reported = 0..(reportedSize - 1)
         /\ ~ IsAllocated => Reported = {}
<1>1. reportedSize \in Nat
  BY GuardAssumption DEF TypeOK
<1>2. IsAllocated => DOMAIN block = 0..(reportedSize + 2 * Padding - 1)
  BY <1>1, PaddingFacts DEF TypeOK, IsAllocated, calculateActualSize
<1>3. ASSUME IsAllocated PROVE Reported = 0..(reportedSize - 1)
  <2>1. \A i \in Offset : i \in Nat
    BY GuardAssumption DEF Offset
  <2>2. ASSUME NEW i \in 0..(reportedSize - 1) PROVE i \in Offset
    <3>1. reportedSize \in Size
      BY <2>2, <1>1 DEF TypeOK
    <3> QED
      BY <3>1, <2>2 DEF Offset
  <2> QED
    BY <1>1, <1>3, <2>1, <2>2 DEF Reported
<1> QED
  BY <1>1, <1>2, <1>3 DEF Reported

(* The guards are written whatever was there, the new bytes are filled if the
   option asks for it, and the old ones stay. *)
LEMMA WipedIs ==
  ASSUME NEW n \in Nat, NEW original \in Nat, NEW b,
         DOMAIN b = 0..(n + 2 * Padding - 1)
  PROVE  LET w == Wiped(b, n, original)
         IN  /\ DOMAIN w = DOMAIN b
             /\ \A i \in 0..(Padding - 1) : w[i] = "prefix"
             /\ \A i \in (Padding + n)..(n + 2 * Padding - 1) : w[i] = "postfix"
             /\ \A i \in Padding..(Padding + n - 1) :
                  /\ i < Padding + original => w[i] = b[i]
                  /\ i >= Padding + original =>
                       w[i] \in IF alwaysWipeAll THEN Marked ELSE {b[i]}
<1> DEFINE w == Wiped(b, n, original)
<1> USE PaddingFacts
<1>1. DOMAIN w = DOMAIN b
  BY DEF Wiped
<1>2. ASSUME NEW i \in 0..(Padding - 1) PROVE w[i] = "prefix"
  BY <1>2 DEF Wiped
<1>3. ASSUME NEW i \in (Padding + n)..(n + 2 * Padding - 1) PROVE w[i] = "postfix"
  BY <1>3 DEF Wiped, PostfixFrom
<1>4. ASSUME NEW i \in Padding..(Padding + n - 1)
      PROVE  /\ i < Padding + original => w[i] = b[i]
             /\ i >= Padding + original =>
                  w[i] \in IF alwaysWipeAll THEN Marked ELSE {b[i]}
  <2>1. i \in DOMAIN b /\ ~ (i < Padding) /\ ~ (i >= Padding + n) /\ i \in Nat
    BY <1>4
  <2>2. w[i] = IF alwaysWipeAll /\ n > original
               THEN FilledByte(b, n, original, i) ELSE b[i]
    BY <2>1 DEF Wiped, PostfixFrom
  <2>3. CASE n > original
    BY <2>1, <2>2, <2>3, FilledByteIs
  <2>4. CASE ~ (n > original)
    BY <2>1, <2>2, <2>4
  <2> QED
    BY <2>3, <2>4
<1> QED
  BY <1>1, <1>2, <1>3, <1>4

(* The bytes of an allocation of size n, with its guards new. *)
Sized(n) ==
  /\ reportedSize' = n
  /\ DOMAIN block' = 0..(n + 2 * Padding - 1)
  /\ \A i \in 0..(Padding - 1) : block'[i] = "prefix"
  /\ \A i \in (Padding + n)..(n + 2 * Padding - 1) : block'[i] = "postfix"
  /\ \A i \in Padding..(Padding + n - 1) : block'[i] \in Byte
  /\ UNCHANGED <<overran, stopped, options>>

LEMMA NewBlockIs ==
  ASSUME NEW n \in Nat
  PROVE  /\ DOMAIN NewBlock(n) = 0..(n + 2 * Padding - 1)
         /\ \A i \in 0..(n + 2 * Padding - 1) : NewBlock(n)[i] = "heap"
  BY PaddingFacts DEF NewBlock, calculateActualSize

LEMMA FreshBytes ==
  ASSUME NEW n \in Size, Allocate(n) \/ Calloc(n)
  PROVE  /\ Sized(n)
         /\ alwaysWipeAll =>
              \A i \in Padding..(Padding + n - 1) : block'[i] \in Marked
<1> DEFINE b == NewBlock(n)
           w == Wiped(b, n, 0)
<1> USE PaddingFacts
<1>1. n \in Nat
  BY GuardAssumption
<1>2. /\ DOMAIN b = 0..(n + 2 * Padding - 1)
      /\ \A i \in 0..(n + 2 * Padding - 1) : b[i] = "heap"
  BY <1>1, NewBlockIs
<1>3. /\ DOMAIN w = DOMAIN b
      /\ \A i \in 0..(Padding - 1) : w[i] = "prefix"
      /\ \A i \in (Padding + n)..(n + 2 * Padding - 1) : w[i] = "postfix"
      /\ \A i \in Padding..(Padding + n - 1) :
           /\ i < Padding + 0 => w[i] = b[i]
           /\ i >= Padding + 0 => w[i] \in IF alwaysWipeAll THEN Marked ELSE {b[i]}
  BY <1>1, <1>2, WipedIs
<1>4. \A i \in Padding..(Padding + n - 1) :
         w[i] \in IF alwaysWipeAll THEN Marked ELSE {"heap"}
  <2> HIDE DEF w, b
  <2>1. ASSUME NEW i \in Padding..(Padding + n - 1)
        PROVE  w[i] \in IF alwaysWipeAll THEN Marked ELSE {"heap"}
    <3>1. i \in 0..(n + 2 * Padding - 1) /\ i >= Padding + 0
      BY <1>1
    <3> QED
      BY <3>1, <1>2, <1>3
  <2> QED
    BY <2>1
<1>5. Marked \subseteq Byte /\ "heap" \in Byte /\ "00" \in Marked
  BY DEF Marked, Byte
<1> HIDE DEF w, b
<1>6. CASE Allocate(n)
  <2>1. block' = w /\ reportedSize' = n /\ UNCHANGED <<overran, stopped, options>>
    BY <1>6 DEF Allocate, w, b
  <2> QED
    BY <1>1, <1>2, <1>3, <1>4, <1>5, <2>1 DEF Sized
<1>7. CASE Calloc(n)
  <2>1. /\ block' = [i \in DOMAIN b |-> IF i - Padding \in 0..(n - 1)
                                       THEN "00" ELSE w[i]]
        /\ reportedSize' = n /\ UNCHANGED <<overran, stopped, options>>
    BY <1>7 DEF Calloc, w, b
  <2>2. \A i \in Padding..(Padding + n - 1) : block'[i] = "00"
    BY <2>1, <1>1, <1>2
  <2>3. \A i \in 0..(Padding - 1) : block'[i] = w[i]
    BY <2>1, <1>1, <1>2
  <2>4. \A i \in (Padding + n)..(n + 2 * Padding - 1) : block'[i] = w[i]
    BY <2>1, <1>1, <1>2
  <2> QED
    BY <1>1, <1>2, <1>3, <1>5, <2>1, <2>2, <2>3, <2>4 DEF Sized
<1> QED
  BY <1>6, <1>7

(* realloc keeps what both sizes have, and fills what is new. *)
LEMMA MovedBytes ==
  ASSUME TypeOK, NEW n \in Size, Reallocate(n)
  PROVE  /\ Sized(n)
         /\ \A i \in Padding..(Padding + n - 1) :
              IF i < Padding + reportedSize THEN block'[i] = block[i]
              ELSE alwaysWipeAll => block'[i] \in Marked
<1> DEFINE b == [i \in DOMAIN NewBlock(n) |->
                   IF i \in DOMAIN block THEN block[i] ELSE "heap"]
           w == Wiped(b, n, reportedSize)
<1> USE PaddingFacts
<1>1. n \in Nat /\ reportedSize \in Nat
  BY GuardAssumption, SizeFacts
<1>2. DOMAIN block = 0..(reportedSize + 2 * Padding - 1)
  BY SizeFacts DEF Reallocate
<1>3. /\ DOMAIN b = 0..(n + 2 * Padding - 1)
      /\ \A i \in 0..(n + 2 * Padding - 1) :
           /\ b[i] \in Byte
           /\ i < Padding + reportedSize => b[i] = block[i]
  <2>1. DOMAIN NewBlock(n) = 0..(n + 2 * Padding - 1)
    BY <1>1, NewBlockIs
  <2>2. \A i \in DOMAIN block : block[i] \in Byte
    BY DEF TypeOK
  <2>3. "heap" \in Byte
    BY DEF Byte
  <2> QED
    BY <1>1, <1>2, <2>1, <2>2, <2>3
<1> HIDE DEF b
<1>4. /\ DOMAIN w = DOMAIN b
      /\ \A i \in 0..(Padding - 1) : w[i] = "prefix"
      /\ \A i \in (Padding + n)..(n + 2 * Padding - 1) : w[i] = "postfix"
      /\ \A i \in Padding..(Padding + n - 1) :
           /\ i < Padding + reportedSize => w[i] = b[i]
           /\ i >= Padding + reportedSize =>
                w[i] \in IF alwaysWipeAll THEN Marked ELSE {b[i]}
  BY <1>1, <1>3, WipedIs
<1>5. Marked \subseteq Byte
  BY DEF Marked
<1>6. \A i \in Padding..(Padding + n - 1) :
         /\ w[i] \in Byte
         /\ IF i < Padding + reportedSize THEN w[i] = block[i]
            ELSE alwaysWipeAll => w[i] \in Marked
  <2> HIDE DEF w
  <2>1. ASSUME NEW i \in Padding..(Padding + n - 1)
        PROVE  /\ w[i] \in Byte
               /\ IF i < Padding + reportedSize THEN w[i] = block[i]
                  ELSE alwaysWipeAll => w[i] \in Marked
    <3>1. i \in 0..(n + 2 * Padding - 1)
      BY <1>1
    <3>2. CASE i < Padding + reportedSize
      BY <3>1, <3>2, <1>3, <1>4
    <3>3. CASE i >= Padding + reportedSize
      BY <3>1, <3>3, <1>1, <1>3, <1>4, <1>5
    <3> QED
      BY <3>1, <3>2, <3>3, <1>1
  <2> QED
    BY <2>1
<1>7. /\ block' = w /\ reportedSize' = n
      /\ UNCHANGED <<overran, stopped, options>>
  BY DEF Reallocate, w, b
<1> HIDE DEF w
<1> QED
  BY <1>3, <1>4, <1>6, <1>7 DEF Sized

(* The caller writes one byte, its own or one beside. *)
LEMMA WrittenByte ==
  ASSUME TypeOK, NEW i \in Int, (i \in Nat /\ Write(i)) \/ Overrun(i)
  PROVE  /\ IsAllocated /\ UNCHANGED <<reportedSize, outside, stopped, options>>
         /\ DOMAIN block' = DOMAIN block
         /\ \A k \in DOMAIN block :
              \/ block'[k] = block[k]
              \/ block'[k] = "data"
         /\ \/ overran'
            \/ /\ UNCHANGED overran
               /\ \A k \in DOMAIN block :
                    k \notin Padding..(Padding + reportedSize - 1)
                      => block'[k] = block[k]
<1>1. /\ IsAllocated /\ UNCHANGED <<reportedSize, outside, stopped, options>>
      /\ block' = [block EXCEPT ![Padding + i] = "data"]
  BY DEF Write, Overrun
<1>2. \/ overran'
      \/ UNCHANGED overran /\ i \in Nat /\ i < reportedSize
  BY DEF Write, Overrun
<1>3. reportedSize \in Nat /\ Padding \in Nat
  BY SizeFacts, PaddingFacts
<1> QED
  BY <1>1, <1>2, <1>3
-----------------------------------------------------------------------------
(* The invariants. *)

Flags == {outside, overran, stopped, debug, alwaysWipeAll, randomWipe}

(* Behind the allocation there is the guard and what the caller wrote there. *)
GuardBehind ==
  IsAllocated =>
    \A i \in (Padding + reportedSize)..(reportedSize + 2 * Padding - 1) :
      block[i] \in {"postfix", "data"}

IInv == TypeOK /\ GuardsIntact /\ GuardBehind /\ FreshIsMarked

(* The steps of Next, with what sizes and offsets they are taken. *)
LEMMA Steps ==
  ASSUME [Next]_vars
  PROVE  \/ \E n \in Size : Allocate(n) \/ Calloc(n)
         \/ \E n \in Size : Reallocate(n)
         \/ Deallocate
         \/ Stop
         \/ \E i \in Int : (i \in Nat /\ Write(i)) \/ Overrun(i)
         \/ UNCHANGED vars
<1>1. Offset \subseteq Nat
  BY GuardAssumption DEF Offset
<1>2. {-1} \cup Size \subseteq Int
  BY GuardAssumption
<1> QED
  BY <1>1, <1>2 DEF Next

LEMMA FlagsKept == Flags \subseteq BOOLEAN /\ [Next]_vars => Flags' \subseteq BOOLEAN
<1> SUFFICES ASSUME Flags \subseteq BOOLEAN, [Next]_vars
             PROVE  Flags' \subseteq BOOLEAN
  OBVIOUS
<1>1. /\ UNCHANGED options
      /\ outside' \in BOOLEAN
      /\ overran' \in BOOLEAN /\ stopped' \in BOOLEAN
  BY Zenon DEF Next, vars, Flags, Allocate, Calloc, Reallocate, Deallocate, Stop,
     Write, Overrun
<1> QED
  BY <1>1 DEF Flags, options

(* The guards of a sized allocation are whole. *)
LEMMA SizedIsIntact ==
  ASSUME TypeOK, NEW n \in Size, Sized(n)
  PROVE  /\ IsAllocated' /\ mmgr_validateAllocUnit' /\ GuardBehind'
         /\ reportedSize' \in Size /\ DOMAIN block' = 0..(calculateActualSize(n) - 1)
         /\ \A i \in DOMAIN block' : block'[i] \in Byte
<1> USE PaddingFacts
<1>1. n \in Nat /\ LongSize \in Nat
  BY GuardAssumption
<1>2. 0 \in DOMAIN block'
  BY <1>1 DEF Sized
<1>3. mmgr_validateAllocUnit'
  BY <1>1 DEF Sized, mmgr_validateAllocUnit
<1>4. GuardBehind'
  BY <1>1 DEF Sized, GuardBehind
<1>5. \A i \in DOMAIN block' : block'[i] \in Byte
  <2>1. ASSUME NEW i \in 0..(n + 2 * Padding - 1) PROVE block'[i] \in Byte
    <3>1. \/ i \in 0..(Padding - 1)
          \/ i \in Padding..(Padding + n - 1)
          \/ i \in (Padding + n)..(n + 2 * Padding - 1)
      BY <1>1
    <3> QED
      BY <3>1 DEF Sized, Byte
  <2> QED
    BY <2>1 DEF Sized
<1>6. DOMAIN block' = 0..(calculateActualSize(n) - 1)
  BY <1>1 DEF Sized, calculateActualSize
<1> QED
  BY <1>2, <1>3, <1>4, <1>5, <1>6 DEF IsAllocated, Sized

LEMMA SizedIsTyped ==
  ASSUME TypeOK, [Next]_vars, NEW n \in Size, Sized(n)
  PROVE  TypeOK' /\ GuardsIntact' /\ GuardBehind'
<1>1. Flags' \subseteq BOOLEAN
  BY FlagsKept DEF TypeOK, Flags
<1>2. reportedSize' = n
  BY DEF Sized
<1> QED
  BY <1>1, <1>2, SizedIsIntact DEF TypeOK, Flags, GuardsIntact, calculateActualSize

LEMMA TypeAndGuardsKept ==
  TypeOK /\ GuardsIntact /\ GuardBehind /\ [Next]_vars
    => TypeOK' /\ GuardsIntact' /\ GuardBehind'
<1> SUFFICES ASSUME TypeOK, GuardsIntact, GuardBehind, [Next]_vars
             PROVE  TypeOK' /\ GuardsIntact' /\ GuardBehind'
  OBVIOUS
<1>0. Flags' \subseteq BOOLEAN
  BY FlagsKept DEF TypeOK, Flags
<1>1. ASSUME NEW n \in Size, Allocate(n) \/ Calloc(n)
      PROVE  TypeOK' /\ GuardsIntact' /\ GuardBehind'
  BY <1>1, FreshBytes, SizedIsTyped
<1>2. ASSUME NEW n \in Size, Reallocate(n)
      PROVE  TypeOK' /\ GuardsIntact' /\ GuardBehind'
  BY <1>2, MovedBytes, SizedIsTyped
<1>3. CASE Deallocate
  <2>1. DOMAIN block' = {} /\ reportedSize' = 0
    BY <1>3 DEF Deallocate
  <2> QED
    BY <2>1, <1>0 DEF TypeOK, Flags, GuardsIntact, GuardBehind, IsAllocated
<1>4. CASE Stop
  <2>1. UNCHANGED <<reportedSize, block, overran>>
    BY <1>4 DEF Stop
  <2> QED
    BY <2>1, <1>0 DEF TypeOK, Flags, GuardsIntact, GuardBehind, IsAllocated,
       mmgr_validateAllocUnit, calculateActualSize
<1>5. ASSUME NEW i \in Int, (i \in Nat /\ Write(i)) \/ Overrun(i)
      PROVE  TypeOK' /\ GuardsIntact' /\ GuardBehind'
  <2>1. /\ IsAllocated /\ UNCHANGED reportedSize
        /\ DOMAIN block' = DOMAIN block
        /\ \A k \in DOMAIN block : block'[k] = block[k] \/ block'[k] = "data"
        /\ \/ overran'
           \/ /\ UNCHANGED overran
              /\ \A k \in DOMAIN block :
                   k \notin Padding..(Padding + reportedSize - 1)
                     => block'[k] = block[k]
    BY <1>5, WrittenByte
  <2>2. /\ reportedSize \in Nat /\ Padding \in Nat
        /\ DOMAIN block = 0..(reportedSize + 2 * Padding - 1)
    BY <2>1, SizeFacts, PaddingFacts
  <2>3. TypeOK'
    <3>1. "data" \in Byte
      BY DEF Byte
    <3> QED
      BY <3>1, <2>1, <1>0 DEF TypeOK, Flags, calculateActualSize
  <2>4. GuardsIntact'
    <3>1. CASE overran'
      BY <3>1 DEF GuardsIntact
    <3>2. CASE ~ overran'
      <4>1. /\ mmgr_validateAllocUnit
            /\ \A k \in DOMAIN block :
                 k \notin Padding..(Padding + reportedSize - 1)
                   => block'[k] = block[k]
        BY <3>2, <2>1 DEF GuardsIntact
      <4>2. mmgr_validateAllocUnit'
        <5>1. ASSUME NEW k \in 0..(Padding - 1)
              PROVE  /\ block'[k] = block[k]
                     /\ block'[Padding + reportedSize + k]
                          = block[Padding + reportedSize + k]
          <6>1. /\ k \in DOMAIN block
                /\ k \notin Padding..(Padding + reportedSize - 1)
                /\ Padding + reportedSize + k \in DOMAIN block
                /\ Padding + reportedSize + k
                     \notin Padding..(Padding + reportedSize - 1)
            BY <2>2
          <6> QED
            BY <6>1, <4>1
        <5> QED
          BY <5>1, <4>1, <2>1 DEF mmgr_validateAllocUnit
      <4> QED
        BY <4>2 DEF GuardsIntact
    <3> QED
      BY <3>1, <3>2
  <2>5. GuardBehind'
    BY <2>1, <2>2 DEF GuardBehind
  <2> QED
    BY <2>3, <2>4, <2>5
<1>6. CASE UNCHANGED vars
  BY <1>6 DEF vars, options, TypeOK, GuardsIntact, GuardBehind, IsAllocated,
     mmgr_validateAllocUnit, calculateActualSize
<1> QED
  BY <1>1, <1>2, <1>3, <1>4, <1>5, <1>6, Steps

LEMMA FreshIsMarkedKept == TypeOK /\ FreshIsMarked /\ [Next]_vars => FreshIsMarked'
<1> SUFFICES ASSUME TypeOK, FreshIsMarked, [Next]_vars, alwaysWipeAll',
                    NEW k \in Reported'
             PROVE  block'[Padding + k] \in Marked
  BY DEF FreshIsMarked, Marked
<1>0. /\ k \in Nat /\ k < reportedSize' /\ IsAllocated'
      /\ Padding \in Nat /\ reportedSize \in Nat
  BY SizeFacts, PaddingFacts, GuardAssumption DEF Reported, Offset
<1>1. ASSUME IsAllocated, alwaysWipeAll, k < reportedSize
      PROVE  block[Padding + k] \in Marked
  <2>1. k \in Reported
    BY <1>0, <1>1, SizeFacts
  <2> QED
    BY <2>1, <1>1 DEF FreshIsMarked, Marked
<1>2. ASSUME NEW n \in Size, Allocate(n) \/ Calloc(n)
      PROVE  block'[Padding + k] \in Marked
  <2>1. Sized(n) /\ (alwaysWipeAll =>
              \A i \in Padding..(Padding + n - 1) : block'[i] \in Marked)
    BY <1>2, FreshBytes
  <2>2. alwaysWipeAll /\ n \in Nat /\ k < n
    BY <2>1, <1>0, GuardAssumption DEF Sized, options
  <2> QED
    BY <1>0, <2>1, <2>2
<1>3. ASSUME NEW n \in Size, Reallocate(n)
      PROVE  block'[Padding + k] \in Marked
  <2>1. /\ Sized(n)
        /\ \A i \in Padding..(Padding + n - 1) :
             IF i < Padding + reportedSize THEN block'[i] = block[i]
             ELSE alwaysWipeAll => block'[i] \in Marked
    BY <1>3, MovedBytes
  <2>2. /\ alwaysWipeAll /\ IsAllocated /\ n \in Nat /\ k < n
        /\ Padding + k \in Padding..(Padding + n - 1)
    BY <1>3, <2>1, <1>0, GuardAssumption DEF Sized, options, Reallocate
  <2>3. CASE k < reportedSize
    BY <2>1, <2>2, <2>3, <1>0, <1>1
  <2>4. CASE ~ (k < reportedSize)
    BY <2>1, <2>2, <2>4, <1>0
  <2> QED
    BY <2>3, <2>4
<1>4. ASSUME Deallocate PROVE FALSE
  BY <1>4, <1>0 DEF Deallocate, IsAllocated
<1>5. CASE Stop
  BY <1>5, <1>0, <1>1 DEF Stop, options, IsAllocated
<1>6. ASSUME NEW i \in Int, (i \in Nat /\ Write(i)) \/ Overrun(i)
      PROVE  block'[Padding + k] \in Marked
  <2>1. /\ IsAllocated /\ alwaysWipeAll /\ UNCHANGED reportedSize
        /\ \A j \in DOMAIN block : block'[j] = block[j] \/ block'[j] = "data"
    BY <1>6, WrittenByte DEF options
  <2>2. Padding + k \in DOMAIN block
    BY <2>1, <1>0, SizeFacts
  <2>3. "data" \in Marked
    BY DEF Marked, Byte
  <2> QED
    BY <2>1, <2>2, <2>3, <1>0, <1>1
<1>7. CASE UNCHANGED vars
  BY <1>7, <1>0, <1>1 DEF vars, options, IsAllocated
<1> QED
  BY <1>2, <1>3, <1>4, <1>5, <1>6, <1>7, Steps

LEMMA Invariant == Spec => []IInv
<1>1. Init => IInv
  BY DEF Init, IInv, TypeOK, GuardsIntact, GuardBehind, FreshIsMarked, IsAllocated,
     Reported
<1>2. IInv /\ [Next]_vars => IInv'
  BY TypeAndGuardsKept, FreshIsMarkedKept DEF IInv
<1> QED
  BY <1>1, <1>2, PTL DEF Spec

(* The block always has the size that the manager has on record, two guards
   included, and every byte of it is one of those the model tells apart. *)
THEOREM TypeCorrect == Spec => []TypeOK
<1>1. IInv => TypeOK
  BY DEF IInv
<1> QED
  BY <1>1, Invariant, PTL

(* A caller that stays inside its allocation never makes mmgr_validateAllocUnit
   report damage, whatever sizes it asks for. *)
THEOREM GuardsStayIntact == Spec => []GuardsIntact
<1>1. IInv => GuardsIntact
  BY DEF IInv
<1> QED
  BY <1>1, Invariant, PTL

(* Where memory is filled, what the caller may read is what it wrote, what calloc
   cleared or the pattern: the fill leaves no byte out, for longs of 8 bytes
   too. *)
THEOREM FillLeavesNothingOut == Spec => []FreshIsMarked
<1>1. IInv => FreshIsMarked
  BY DEF IInv
<1> QED
  BY <1>1, Invariant, PTL
-----------------------------------------------------------------------------
(* What no step does. *)

LEMMA DamageIsFound == TypeOK /\ Damaged => IsAllocated /\ ~ mmgr_validateAllocUnit
<1> SUFFICES ASSUME TypeOK, NEW i \in DOMAIN block, block[i] = "data",
                    i - Padding \notin Reported
             PROVE  IsAllocated /\ ~ mmgr_validateAllocUnit
  BY DEF Damaged
<1>1. IsAllocated
  BY DEF IsAllocated
<1>2. /\ reportedSize \in Nat /\ Padding \in Nat
      /\ i \in 0..(reportedSize + 2 * Padding - 1)
      /\ i - Padding \notin 0..(reportedSize - 1)
  BY <1>1, SizeFacts, PaddingFacts
<1>3. CASE i \in 0..(Padding - 1)
  BY <1>1, <1>3 DEF mmgr_validateAllocUnit
<1>4. CASE i \in (Padding + reportedSize)..(reportedSize + 2 * Padding - 1)
  <2> DEFINE j == i - (Padding + reportedSize)
  <2>1. j \in 0..(Padding - 1) /\ Padding + reportedSize + j = i
    BY <1>2, <1>4
  <2> HIDE DEF j
  <2> QED
    BY <1>1, <2>1 DEF mmgr_validateAllocUnit
<1> QED
  BY <1>2, <1>3, <1>4

(* In a debug build, damage outlives every step of the manager: it has stopped
   at the latest when it would write the guards anew or give them away. *)
THEOREM DamageIsCaught == Spec => DamageCaught
<1>1. ASSUME TypeOK, [Next]_vars, debug, Damaged PROVE Damaged'
  <2>1. AssertFails
    BY <1>1, DamageIsFound DEF AssertFails
  <2>2. PICK i \in DOMAIN block : block[i] = "data" /\ i - Padding \notin Reported
    BY <1>1 DEF Damaged
  <2>3. ASSUME UNCHANGED reportedSize, DOMAIN block' = DOMAIN block,
               block'[i] = "data"
        PROVE  Damaged'
    BY <2>2, <2>3 DEF Damaged, Reported, IsAllocated
  <2>4. CASE \/ \E n \in Size : Allocate(n) \/ Calloc(n)
             \/ \E n \in Size : Reallocate(n)
             \/ Deallocate
    BY <2>1, <2>4 DEF Allocate, Calloc, Reallocate, Deallocate, AssertFails
  <2>5. CASE Stop
    BY <2>2, <2>3, <2>5 DEF Stop
  <2>6. ASSUME NEW k \in Int, (k \in Nat /\ Write(k)) \/ Overrun(k) PROVE Damaged'
    BY <1>1, <2>2, <2>3, <2>6, WrittenByte
  <2>7. CASE UNCHANGED vars
    BY <2>2, <2>3, <2>7 DEF vars
  <2> QED
    BY <1>1, <2>4, <2>5, <2>6, <2>7, Steps
<1>2. TypeOK /\ [Next]_vars => [debug /\ Damaged => Damaged']_vars
  BY <1>1
<1> QED
  BY <1>2, TypeCorrect, PTL DEF Spec, DamageCaught

(* The contents survive every change of the size, up to the smaller one, with
   and without the fill. *)
THEOREM ContentsSurvive == Spec => ReallocKeepsContents
<1>1. ASSUME TypeOK, [Next]_vars, IsAllocated, IsAllocated',
             NEW i \in Reported, i \in Reported'
      PROVE  \/ block'[Padding + i] = block[Padding + i]
             \/ reportedSize' = reportedSize /\ block'[Padding + i] = "data"
  <2> DEFINE Goal == \/ block'[Padding + i] = block[Padding + i]
                     \/ reportedSize' = reportedSize /\ block'[Padding + i] = "data"
  <2>1. /\ i \in Nat /\ i < reportedSize /\ i < reportedSize'
        /\ reportedSize \in Nat /\ Padding \in Nat
        /\ Padding + i \in DOMAIN block
    BY <1>1, SizeFacts, PaddingFacts DEF Reported
  <2>2. CASE \/ \E n \in Size : Allocate(n) \/ Calloc(n)
             \/ Deallocate
    BY <1>1, <2>2 DEF Allocate, Calloc, Deallocate, IsAllocated
  <2>3. ASSUME NEW n \in Size, Reallocate(n) PROVE Goal
    <3>1. /\ reportedSize' = n
          /\ \A j \in Padding..(Padding + n - 1) :
               j < Padding + reportedSize => block'[j] = block[j]
      BY <1>1, <2>3, MovedBytes DEF Sized
    <3>2. /\ Padding + i \in Padding..(Padding + n - 1)
          /\ Padding + i < Padding + reportedSize
      BY <2>1, <3>1, GuardAssumption
    <3> QED
      BY <3>1, <3>2
  <2>4. CASE Stop
    BY <2>4 DEF Stop
  <2>5. ASSUME NEW k \in Int, (k \in Nat /\ Write(k)) \/ Overrun(k) PROVE Goal
    BY <1>1, <2>1, <2>5, WrittenByte
  <2>6. CASE UNCHANGED vars
    BY <2>6 DEF vars
  <2> QED
    BY <1>1, <2>2, <2>3, <2>4, <2>5, <2>6, Steps
<1>2. TypeOK /\ [Next]_vars
        => [IsAllocated /\ IsAllocated' =>
              \A i \in Reported \cap Reported' :
                \/ block'[Padding + i] = block[Padding + i]
                \/ reportedSize' = reportedSize /\ block'[Padding + i] = "data"]_vars
  BY <1>1
<1> QED
  BY <1>2, TypeCorrect, PTL DEF Spec, ReallocKeepsContents

(* The fill ends where the allocation ends if a long has the 4 bytes that the
   loop over the pattern assumes; MCLongOf8Bytes shows what it does otherwise. *)
THEOREM FillStaysInsideOn32Bits ==
  ASSUME LongSize = 4
  PROVE  Spec => []FillStaysInside
<1> DEFINE Inv == TypeOK /\ ~ outside
<1>1. Init => Inv
  BY DEF Init, TypeOK, IsAllocated
<1>2. Inv /\ [Next]_vars => ~ outside'
  <2> SUFFICES ASSUME TypeOK, ~ outside, [Next]_vars PROVE ~ outside'
    OBVIOUS
  <2>1. ASSUME NEW n \in Nat, NEW original \in Nat PROVE ~ WritesOutside(n, original)
    <3>1. CASE n > original
      <4>1. FillTo(n, original) = Padding + n /\ Padding \in Nat
        BY <3>1, FillCovers, PaddingFacts
      <4> QED
        BY <4>1 DEF WritesOutside, calculateActualSize
    <3>2. CASE ~ (n > original)
      BY <3>2 DEF WritesOutside
    <3> QED
      BY <3>1, <3>2
  <2>2. \A n \in Size \cup {reportedSize, 0} : n \in Nat
    BY SizeFacts, GuardAssumption
  <2>3. ASSUME NEW n \in Size, Allocate(n) \/ Calloc(n) \/ Reallocate(n)
        PROVE  ~ outside'
    BY <2>1, <2>2, <2>3 DEF Allocate, Calloc, Reallocate
  <2>4. CASE Deallocate
    BY <2>1, <2>2, <2>4 DEF Deallocate
  <2>5. CASE Stop
    BY <2>5 DEF Stop
  <2>6. ASSUME NEW i \in Int, (i \in Nat /\ Write(i)) \/ Overrun(i) PROVE ~ outside'
    BY <2>6 DEF Write, Overrun
  <2>7. CASE UNCHANGED vars
    BY <2>7 DEF vars
  <2> QED
    BY <2>3, <2>4, <2>5, <2>6, <2>7, Steps
<1>3. Inv => FillStaysInside
  BY DEF FillStaysInside
<1> QED
  BY <1>1, <1>2, <1>3, TypeCorrect, PTL DEF Spec

(* mmgr_calcUnused takes no byte for unused that has been written: a long that
   matches the pattern lies inside the allocation, for the guard behind it does
   not, and its bytes are its own.  (Of a long of 8 bytes the upper half matches
   zeros.) *)
THEOREM UnusedIsNotOverstated ==
  ASSUME LongSize = 4
  PROVE  Spec => []UnusedIsUnused
<1>1. ASSUME IInv PROVE UnusedIsUnused
  <2> DEFINE Matching == {i \in Longs :
               \A j \in 0..(LongSize - 1) : block[Padding + i + j] = Pattern(j)}
             Own == [p \in Matching \X (0..3) |-> p[1] + p[2]]
  <2>1. /\ TypeOK /\ GuardBehind
        /\ reportedSize \in Nat /\ Padding \in Nat /\ Padding >= 4
    BY <1>1, SizeFacts, PaddingFacts DEF IInv
  <2>2. CASE ~ IsAllocated
    <3>1. Reported = {} /\ Longs = {} /\ UnusedBytes = {}
      BY <2>2 DEF Reported, Longs, UnusedBytes
    <3>2. mmgr_calcUnused = 4 * Cardinality({})
      BY <3>1 DEF mmgr_calcUnused
    <3> QED
      BY <3>1, <3>2, FS_EmptySet DEF UnusedIsUnused
  <2>3. CASE IsAllocated
    <3>1. /\ Reported = 0..(reportedSize - 1)
          /\ DOMAIN block = 0..(reportedSize + 2 * Padding - 1)
      BY <2>1, <2>3, SizeFacts
    <3>2. IsFiniteSet(Reported)
      BY <3>1, <2>1, FS_Interval
    <3>3. IsFiniteSet(Matching) /\ IsFiniteSet(UnusedBytes)
      <4>1. Matching \subseteq Reported /\ UnusedBytes \subseteq Reported
        BY DEF Longs, UnusedBytes
      <4> QED
        BY <4>1, <3>2, FS_Subset
    <3>4. ASSUME NEW i \in Matching, NEW j \in 0..3
          PROVE  i + j \in UnusedBytes
      <4>1. i \in 0..(reportedSize - 1) /\ block[Padding + i + j] = Pattern(j)
        BY <3>1, <3>4 DEF Longs
      <4>2. Pattern(j) \notin {"postfix", "data"}
        BY DEF Pattern, Unused
      <4>3. i + j < reportedSize
        <5>1. SUFFICES ASSUME i + j >= reportedSize PROVE FALSE
          BY <2>1, <4>1
        <5>2. Padding + i + j
                \in (Padding + reportedSize)..(reportedSize + 2 * Padding - 1)
          BY <2>1, <4>1, <5>1
        <5> QED
          BY <2>1, <2>3, <4>1, <4>2, <5>2 DEF GuardBehind
      <4>4. i + j \in Reported /\ Padding + (i + j) = Padding + i + j
        BY <2>1, <3>1, <4>1, <4>3
      <4> QED
        BY <4>1, <4>4 DEF UnusedBytes
    <3>5. \A i \in Matching : i \in Nat /\ i % 4 = 0
      BY <3>1 DEF Longs
    <3>6. Own \in Injection(Matching \X (0..3), UnusedBytes)
      <4>1. Own \in [Matching \X (0..3) -> UnusedBytes]
        BY <3>4
      <4>2. ASSUME NEW i \in Matching, NEW j \in 0..3,
                   NEW k \in Matching, NEW l \in 0..3, i + j = k + l
            PROVE  i = k /\ j = l
        <5>1. /\ i \in Nat /\ i % 4 = 0
              /\ k \in Nat /\ k % 4 = 0
          BY <3>5
        <5> QED
          BY <5>1, <4>2
      <4> HIDE DEF Matching
      <4>3. ASSUME NEW p \in Matching \X (0..3), NEW q \in Matching \X (0..3),
                   Own[p] = Own[q]
            PROVE  p = q
        <5>1. PICK i \in Matching, j \in 0..3 : p = <<i, j>>
          OBVIOUS
        <5>2. PICK k \in Matching, l \in 0..3 : q = <<k, l>>
          OBVIOUS
        <5>3. i + j = k + l
          BY <5>1, <5>2, <4>3
        <5> QED
          BY <5>1, <5>2, <5>3, <4>2
      <4> QED
        BY <4>1, <4>3 DEF Injection, IsInjective
    <3>7. /\ IsFiniteSet(0..3) /\ Cardinality(0..3) = 4
      <4>1. \A a, b \in Int :
               /\ IsFiniteSet(a..b)
               /\ Cardinality(a..b) = IF a > b THEN 0 ELSE b - a + 1
        BY FS_Interval, Zenon
      <4>2. 0 \in Int /\ 3 \in Int
        OBVIOUS
      <4>3. IsFiniteSet(0..3) /\ Cardinality(0..3) = IF 0 > 3 THEN 0 ELSE 3 - 0 + 1
        BY <4>1, <4>2, Zenon
      <4> QED
        BY <4>3
    <3>8. Cardinality(Matching \X (0..3)) = Cardinality(Matching) * 4
      BY <3>3, <3>7, FS_Product
    <3>9. Cardinality(Matching \X (0..3)) <= Cardinality(UnusedBytes)
      BY <3>3, <3>6, FS_Injection
    <3>10. Cardinality(Matching) \in Nat
      BY <3>3, FS_CardinalityType
    <3>11. mmgr_calcUnused = 4 * Cardinality(Matching)
      BY DEF mmgr_calcUnused
    <3> HIDE DEF Matching
    <3> QED
      BY <3>8, <3>9, <3>10, <3>11 DEF UnusedIsUnused
  <2> QED
    BY <2>2, <2>3
<1> QED
  BY <1>1, Invariant, PTL
=================================================================================
