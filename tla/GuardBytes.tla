----------------------------- MODULE GuardBytes -----------------------------
(***************************************************************************)
(* The bytes of one allocation of the memory manager (base/source/mmgr.cpp)*)
(* are the guards before and after what the caller gets, the pattern that  *)
(* fresh memory is filled with, and what the manager reads back from them. *)
(*                                                                         *)
(* All of it is arithmetic on sizeof(long), which is 4 on Windows and 8 on *)
(* 64-bit Linux.  The caller may write one byte beside its allocation, on  *)
(* either side (a bound of the model).  The build and the options are      *)
(* chosen once; in a release build the conditions of m_assert are not even *)
(* evaluated.                                                              *)
(***************************************************************************)
EXTENDS Integers, FiniteSets

CONSTANTS
  LongSize,      \* sizeof(long)
  paddingSize,   \* the longs of each guard
  Size           \* the sizes that are requested

ASSUME GuardAssumption ==
  /\ LongSize \in {4, 8}
  /\ paddingSize \in Nat \ {0}
  /\ Size \subseteq Nat

VARIABLES
  reportedSize,   \* of the allocation
  block,          \* its bytes from actualAddress on, none when it is freed
  outside,        \* did the manager ever write past the end of a block?
  overran,        \* did the caller write beside this allocation?
  stopped,        \* an m_assert has stopped the program
  debug,          \* the build: does m_assert do anything?
  alwaysWipeAll,  \* an option: is fresh and freed memory filled?
  randomWipe      \* an option: is it filled with a random pattern?

options == <<debug, alwaysWipeAll, randomWipe>>

vars == <<reportedSize, block, outside, overran, stopped, options>>

(* The bytes of unusedPattern, from the lowest. *)
Unused == <<"ce", "fa", "ed", "fe">>

(* A random byte is told from all others. *)
Byte == {"prefix", "postfix", "data", "heap", "00", "random"}
          \cup {Unused[j] : j \in 1..4}

Padding == paddingSize * LongSize

calculateActualSize(n) == n + 2 * Padding

IsAllocated == DOMAIN block # {}

TypeOK ==
  /\ reportedSize \in Size \cup {0}
  /\ DOMAIN block \in {{}, 0..(calculateActualSize(reportedSize) - 1)}
  /\ \A i \in DOMAIN block : block[i] \in Byte
  /\ {outside, overran, stopped, debug, alwaysWipeAll, randomWipe} \subseteq BOOLEAN

(* Without alwaysWipeAll, randomWipe says nothing. *)
Init ==
  /\ reportedSize = 0
  /\ block = [i \in {} |-> "heap"]
  /\ outside = FALSE /\ overran = FALSE /\ stopped = FALSE
  /\ debug \in BOOLEAN
  /\ alwaysWipeAll \in BOOLEAN
  /\ randomWipe \in {FALSE, alwaysWipeAll}
-----------------------------------------------------------------------------
(* wipeWithPattern. *)

(* Byte j of the long that pattern is assigned to: pattern has 32 bits. *)
Pattern(j) == IF j < 4 THEN Unused[j + 1] ELSE "00"

FillByte(j) == IF randomWipe THEN "random" ELSE Pattern(j)

(* The bytes that the loop over longs writes. *)
Bulk(length) == (length \div 4) * LongSize

(* Mutant: the fill does not start behind the old contents. *)
FillFromStart(original) == Padding

FillFrom(original) == Padding + original

FillTo(n, original) ==
  FillFrom(original) + Bulk(n - original) + ((n - original) % 4)

(* Byte i of b when the bytes of n that are not original are filled. *)
FilledByte(b, n, original, i) ==
  LET at == i - FillFrom(original)
  IN  CASE at < 0 \/ i >= FillTo(n, original) -> b[i]
        [] at \in 0..(Bulk(n - original) - 1) -> FillByte(at % LongSize)
        [] OTHER                              -> FillByte(at - Bulk(n - original))

(* Mutant: the second guard starts a byte late. *)
PostfixFromLate(n) == Padding + n + 1

PostfixFrom(n) == Padding + n

Wiped(b, n, original) ==
  [i \in DOMAIN b |->
     IF i < Padding THEN "prefix"
     ELSE IF i >= PostfixFrom(n) THEN "postfix"
     ELSE IF alwaysWipeAll /\ n > original THEN FilledByte(b, n, original, i)
     ELSE b[i]]

WritesOutside(n, original) ==
  alwaysWipeAll /\ n > original /\ FillTo(n, original) > calculateActualSize(n)

(* Mutant: the second guard is not compared. *)
mmgr_validateAllocUnit_PrefixOnly ==
  \A i \in 0..(Padding - 1) : block[i] = "prefix"

mmgr_validateAllocUnit ==
  /\ \A i \in 0..(Padding - 1) : block[i] = "prefix"
  /\ \A i \in 0..(Padding - 1) : block[Padding + reportedSize + i] = "postfix"
-----------------------------------------------------------------------------
NewBlock(n) == [i \in 0..(calculateActualSize(n) - 1) |-> "heap"]

(* mmgr_allocator of size n. *)
Allocate(n) ==
  /\ ~ IsAllocated
  /\ reportedSize' = n
  /\ block' = Wiped(NewBlock(n), n, 0)
  /\ outside' = (outside \/ WritesOutside(n, 0))
  /\ UNCHANGED <<overran, stopped, options>>

(* It clears what it has filled when the request is a calloc. *)
Calloc(n) ==
  /\ ~ IsAllocated
  /\ reportedSize' = n
  /\ block' = [i \in DOMAIN NewBlock(n) |->
                 IF i - Padding \in 0..(n - 1) THEN "00"
                 ELSE Wiped(NewBlock(n), n, 0)[i]]
  /\ outside' = (outside \/ WritesOutside(n, 0))
  /\ UNCHANGED <<overran, stopped, options>>

(* Both m_assert(mmgr_validateAllocUnit(au)) before they do anything: a debug
   build goes no further. *)
AssertFails == IsAllocated /\ debug /\ ~ mmgr_validateAllocUnit

Stop ==
  /\ AssertFails
  /\ stopped' = TRUE
  /\ UNCHANGED <<reportedSize, block, outside, overran, options>>

(* mmgr_reallocator; realloc keeps the old block, guards and all. *)
Reallocate(n) ==
  /\ IsAllocated /\ ~ AssertFails
  /\ reportedSize' = n
  /\ LET moved == [i \in DOMAIN NewBlock(n) |->
                     IF i \in DOMAIN block THEN block[i] ELSE "heap"]
     IN  block' = Wiped(moved, n, reportedSize)
  /\ outside' = (outside \/ WritesOutside(n, reportedSize))
  /\ UNCHANGED <<overran, stopped, options>>

(* Mutant: the block is not given back. *)
Deallocate_KeepsBlock ==
  /\ IsAllocated /\ ~ AssertFails
  /\ reportedSize' = 0
  /\ overran' = FALSE
  /\ UNCHANGED <<block, outside, stopped, options>>

(* mmgr_deallocator wipes the block before it frees it. *)
Deallocate ==
  /\ IsAllocated /\ ~ AssertFails
  /\ reportedSize' = 0
  /\ block' = [i \in {} |-> "heap"]
  /\ outside' = (outside \/ WritesOutside(reportedSize, 0))
  /\ overran' = FALSE
  /\ UNCHANGED <<stopped, options>>

(* The caller writes inside its allocation, or beside it. *)
Write(i) ==
  /\ IsAllocated
  /\ i < reportedSize
  /\ block' = [block EXCEPT ![Padding + i] = "data"]
  /\ UNCHANGED <<reportedSize, outside, overran, stopped, options>>

Overrun(i) ==
  /\ IsAllocated
  /\ i \in {-1, reportedSize}
  /\ block' = [block EXCEPT ![Padding + i] = "data"]
  /\ overran' = TRUE
  /\ UNCHANGED <<reportedSize, outside, stopped, options>>

Offset == UNION {0..(n - 1) : n \in Size}

Next ==
  /\ ~ stopped
  /\ \/ \E n \in Size : Allocate(n) \/ Calloc(n) \/ Reallocate(n)
     \/ Deallocate
     \/ Stop
     \/ \E i \in Offset : Write(i)
     \/ \E i \in {-1} \cup Size : Overrun(i)

Spec == Init /\ [][Next]_vars
-----------------------------------------------------------------------------
Reported == {i \in Offset : IsAllocated /\ i < reportedSize}

(* The longs that start inside the allocation; the last may reach into the
   guard. *)
Longs == {i \in Reported : i % LongSize = 0}

(* Mutant: only the lowest byte of each long is compared. *)
mmgr_calcUnused_LowByte ==
  LongSize * Cardinality({i \in Longs : block[Padding + i] = Pattern(0)})

mmgr_calcUnused ==
  LongSize * Cardinality({i \in Longs :
    \A j \in 0..(LongSize - 1) : block[Padding + i + j] = Pattern(j)})
-----------------------------------------------------------------------------
(* A caller that stays inside its allocation never makes mmgr_validateAllocUnit
   report damage: guards move with every change of the size. *)
GuardsIntact == IsAllocated /\ ~ overran => mmgr_validateAllocUnit

Damaged ==
  \E i \in DOMAIN block : block[i] = "data" /\ i - Padding \notin Reported

(* realloc writes the guards anew and free gives them away, so that damage can
   be found no more: a debug build has stopped by then. *)
DamageCaught == [][debug /\ Damaged => Damaged']_vars

(* Where memory is filled, what the caller may read is what it wrote, the
   cleared memory of calloc, or the pattern of fresh memory; never a former
   guard or the old bytes of another. *)
FreshIsMarked ==
  alwaysWipeAll =>
    \A i \in Reported :
      block[Padding + i] \in Byte \ {"prefix", "postfix", "heap"}

(* The contents survive every change of the size, up to the smaller one. *)
ReallocKeepsContents ==
  [][IsAllocated /\ IsAllocated' =>
       \A i \in Reported \cap Reported' :
         \/ block'[Padding + i] = block[Padding + i]
         \/ reportedSize' = reportedSize /\ block'[Padding + i] = "data"]_vars

(* The manager itself writes no byte outside the block it got from malloc. *)
FillStaysInside == ~ outside

UnusedBytes == {i \in Reported : \E j \in 0..3 : block[Padding + i] = Pattern(j)}

(* mmgr_calcUnused never takes a byte for unused that has been written. *)
UnusedIsUnused == mmgr_calcUnused <= Cardinality(UnusedBytes)

(* It counts every long of the allocation whose bytes are all unused: it is to
   determine how much of the memory is unused. *)
UnusedIsCounted ==
  mmgr_calcUnused >=
    LongSize * Cardinality({i \in Longs :
      \A j \in 0..(LongSize - 1) : i + j \in UnusedBytes})
=============================================================================
