--------------------------- MODULE MemoryManager ---------------------------
(***************************************************************************)
(* The tracking memory manager (base/source/mmgr.cpp): the hash table of   *)
(* allocation units, doubly linked per bucket, the reservoir of unused     *)
(* units, the blocks the reservoir is grown by, the statistics, the owner  *)
(* that mmgr_setOwner leaves in globals for the next operator new, and the *)
(* leak report that gives the blocks back during static deinitialisation.  *)
(*                                                                         *)
(* The manager has no lock: it is a single-threaded program, each of its   *)
(* calls is one step, and what interleaves is a new handler with the       *)
(* operator new that called it.  The C heap below it is external: malloc   *)
(* and realloc return any address that is not in use, or fail.             *)
(*                                                                         *)
(* m_assert is empty in a release build and has no place in the actions.   *)
(* Log output, source file and function names, allocation numbers and the  *)
(* fill patterns are left out.                                             *)
(***************************************************************************)
EXTENDS Integers, FiniteSets, Functions

CONSTANTS
  Addr,       \* the reported addresses of what the C heap can hand out
  Index,      \* the indices of hashTable
  HashIndex,  \* the index each address hashes to
  Block,      \* the addresses a block of the reservoir can have
  BlockSize,  \* units per block (256 in the code)
  Size,       \* the sizes that are requested
  Padding,    \* paddingSize * sizeof(long) * 2
  StatMod,    \* the byte statistics are unsigned int: 2^32
  Line,       \* the owners (file, line, function) callers pass
  Unknown,    \* the owner "??"
  NULL,
  NoRequest   \* pending when no operator new waits for its new handler

Unit == Block \X (0..BlockSize - 1)

Owner == Line \cup {Unknown}

Request == [owner : Owner, size : Size]

ASSUME MemoryAssumption ==
  /\ IsFiniteSet(Block)
  /\ BlockSize \in Nat \ {0}
  /\ HashIndex \in [Addr -> Index]
  /\ Size \subseteq Nat /\ 1 \in Size
  /\ Padding \in Nat
  /\ StatMod \in Nat \ {0}
  /\ NULL \notin Addr /\ NULL \notin Unit /\ NULL \notin Size
  /\ NoRequest \notin Request

VARIABLES
  heap,             \* the addresses in use in the C heap
  blocks,           \* the blocks of the reservoir that are malloc'ed
  hashTable,        \* the first unit of each bucket
  next, prev,       \* the links of each unit
  reportedAddress,  \* the address each unit tracks, NULL if none
  reportedSize,     \* and its size
  sourceLine,       \* and its owner
  reservoir,        \* the first unused unit
  reservoirBuffer,  \* the blocks recorded to be freed
  stats,            \* sMStats
  owner,            \* the globals sourceFile, sourceLine and sourceFunc
  staticDeinitTime,
  pending           \* the operator new that called its new handler

unitVars == <<hashTable, next, prev, reportedAddress, reportedSize, sourceLine>>
reservoirVars == <<blocks, reservoir, reservoirBuffer>>
vars == <<heap, unitVars, reservoirVars, stats, owner, staticDeinitTime, pending>>

sMStats ==
  [totalReportedMemory : Nat, totalActualMemory : Nat, totalAllocUnitCount : Nat,
   peakReportedMemory : Nat, peakActualMemory : Nat, peakAllocUnitCount : Nat,
   accumulatedReportedMemory : Nat, accumulatedActualMemory : Nat,
   accumulatedAllocUnitCount : Nat]

TypeOK ==
  /\ heap \subseteq Addr
  /\ blocks \subseteq Block
  /\ hashTable \in [Index -> Unit \cup {NULL}]
  /\ next \in [Unit -> Unit \cup {NULL}]
  /\ prev \in [Unit -> Unit \cup {NULL}]
  /\ reportedAddress \in [Unit -> Addr \cup {NULL}]
  /\ reportedSize \in [Unit -> Size \cup {0}]
  /\ sourceLine \in [Unit -> Owner]
  /\ reservoir \in Unit \cup {NULL}
  /\ reservoirBuffer \subseteq Block
  /\ stats \in sMStats
  /\ owner \in Owner
  /\ staticDeinitTime \in BOOLEAN
  /\ pending \in Request \cup {NoRequest}

Init ==
  /\ heap = {} /\ blocks = {}
  /\ hashTable = [i \in Index |-> NULL]
  /\ next = [u \in Unit |-> NULL]
  /\ prev = [u \in Unit |-> NULL]
  /\ reportedAddress = [u \in Unit |-> NULL]
  /\ reportedSize = [u \in Unit |-> 0]
  /\ sourceLine = [u \in Unit |-> Unknown]
  /\ reservoir = NULL /\ reservoirBuffer = {}
  /\ stats = [totalReportedMemory |-> 0, totalActualMemory |-> 0,
              totalAllocUnitCount |-> 0, peakReportedMemory |-> 0,
              peakActualMemory |-> 0, peakAllocUnitCount |-> 0,
              accumulatedReportedMemory |-> 0, accumulatedActualMemory |-> 0,
              accumulatedAllocUnitCount |-> 0]
  /\ owner = Unknown
  /\ staticDeinitTime = FALSE
  /\ pending = NoRequest
-----------------------------------------------------------------------------
(* The hash table. *)

(* S holds u and, with each unit, its next. *)
HoldsChain(S, u) ==
  /\ u # NULL => u \in S
  /\ \A w \in S : next[w] # NULL => next[w] \in S

(* The units that can be reached from u: those without which no set holds the
   chain of u. *)
Reach(u) == {v \in Unit : \A S \in SUBSET (Unit \ {v}) : ~ HoldsChain(S, u)}

Chain(i) == Reach(hashTable[i])

findAllocUnit(a) ==
  LET found == {u \in Unit : reportedAddress[u] = a /\ u \in Chain(HashIndex[a])}
  IN  IF found = {} THEN NULL ELSE CHOOSE u \in found : TRUE

(* Mutant: the unit stays the first of its bucket. *)
TableWithout_Unchanged(u, a) == hashTable

(* The table and the links when unit u, which tracks a, is unlinked. *)
TableWithout(u, a) ==
  IF hashTable[HashIndex[a]] = u
  THEN [hashTable EXCEPT ![HashIndex[a]] = next[u]] ELSE hashTable

NextWithout(u, a) ==
  IF hashTable[HashIndex[a]] # u /\ prev[u] # NULL
  THEN [next EXCEPT ![prev[u]] = next[u]] ELSE next

(* Mutant: the unit behind the removed one keeps its prev. *)
PrevWithout_Unchanged(u, a) == prev

PrevWithout(u, a) ==
  IF hashTable[HashIndex[a]] # u /\ next[u] # NULL
  THEN [prev EXCEPT ![next[u]] = prev[u]] ELSE prev

(* u, which tracks a, is linked in front of its bucket in the table t with
   the links n and p. *)
LinkFirst(u, a, t, n, p) ==
  LET first == t[HashIndex[a]]
  IN  /\ hashTable' = [t EXCEPT ![HashIndex[a]] = u]
      /\ next' = [n EXCEPT ![u] = first]
      /\ prev' = [v \in Unit |-> IF v = u THEN NULL
                                 ELSE IF v = first THEN u ELSE p[v]]
-----------------------------------------------------------------------------
(* The statistics. *)

calculateActualSize(n) == n + Padding

Larger(m, n) == IF m > n THEN m ELSE n

WithPeaks(s) ==
  [s EXCEPT !.peakReportedMemory = Larger(@, s.totalReportedMemory),
            !.peakActualMemory   = Larger(@, s.totalActualMemory),
            !.peakAllocUnitCount = Larger(@, s.totalAllocUnitCount)]

(* Mutant: the allocation is not counted. *)
AccountAllocation_Uncounted(n) ==
  stats' = WithPeaks(
    [stats EXCEPT
       !.totalReportedMemory       = (@ + n) % StatMod,
       !.totalActualMemory         = (@ + calculateActualSize(n)) % StatMod,
       !.accumulatedReportedMemory = (@ + n) % StatMod,
       !.accumulatedActualMemory   = (@ + calculateActualSize(n)) % StatMod,
       !.accumulatedAllocUnitCount = (@ + 1) % StatMod])

AccountAllocation(n) ==
  stats' = WithPeaks(
    [stats EXCEPT
       !.totalReportedMemory       = (@ + n) % StatMod,
       !.totalActualMemory         = (@ + calculateActualSize(n)) % StatMod,
       !.totalAllocUnitCount       = @ + 1,
       !.accumulatedReportedMemory = (@ + n) % StatMod,
       !.accumulatedActualMemory   = (@ + calculateActualSize(n)) % StatMod,
       !.accumulatedAllocUnitCount = (@ + 1) % StatMod])

(* The memory by which a reallocation from m to n bytes grows an allocation,
   which the code computes as an int: shrinking, and growing by 2^31 bytes or
   more, is negative and does not count. *)
Growth(m, n) ==
  LET delta == (n - m) % StatMod
  IN  IF 2 * delta < StatMod THEN delta ELSE 0

(* Mutant: a reallocation counts the whole new size as accumulated. *)
AccountReallocation_Whole(m, n) ==
  stats' = WithPeaks(
    [stats EXCEPT
       !.totalReportedMemory       = (@ - m + n) % StatMod,
       !.totalActualMemory         = (@ - calculateActualSize(m)
                                        + calculateActualSize(n)) % StatMod,
       !.accumulatedReportedMemory = (@ + n) % StatMod,
       !.accumulatedActualMemory   = (@ + Growth(m, n)) % StatMod])

AccountReallocation(m, n) ==
  stats' = WithPeaks(
    [stats EXCEPT
       !.totalReportedMemory       = (@ - m + n) % StatMod,
       !.totalActualMemory         = (@ - calculateActualSize(m)
                                        + calculateActualSize(n)) % StatMod,
       !.accumulatedReportedMemory = (@ + Growth(m, n)) % StatMod,
       !.accumulatedActualMemory   = (@ + Growth(m, n)) % StatMod])

AccountDeallocation(n) ==
  stats' = [stats EXCEPT
              !.totalReportedMemory = (@ - n) % StatMod,
              !.totalActualMemory   = (@ - calculateActualSize(n)) % StatMod,
              !.totalAllocUnitCount = @ - 1]

resetGlobals == owner' = Unknown
-----------------------------------------------------------------------------
(* mmgr_allocator. *)

(* au is the unit at the front of the reservoir and rest what is left.  An
   empty reservoir is grown by a block first; the block is recorded unless the
   realloc of reservoirBuffer fails. *)
TakeUnit(au, rest) ==
  \/ /\ reservoir # NULL
     /\ au = reservoir /\ rest = next[reservoir]
     /\ UNCHANGED <<blocks, reservoirBuffer>>
  \/ /\ reservoir = NULL
     /\ \E b \in Block \ blocks :
          /\ au = <<b, 0>>
          /\ rest = IF BlockSize > 1 THEN <<b, 1>> ELSE NULL
          /\ blocks' = blocks \cup {b}
          /\ reservoirBuffer' \in {reservoirBuffer, reservoirBuffer \cup {b}}

(* The links after TakeUnit: the units of a new block form a list. *)
Linked ==
  [u \in Unit |-> IF u[1] \in blocks THEN next[u]
                  ELSE IF u[1] \in blocks' /\ u[2] + 1 < BlockSize
                       THEN <<u[1], u[2] + 1>> ELSE NULL]

(* Size n is allocated at a for owner o. *)
Allocator(o, n, a) ==
  /\ a \in Addr \ heap
  /\ heap' = heap \cup {a}
  /\ \E au \in Unit, rest \in Unit \cup {NULL} :
       /\ TakeUnit(au, rest)
       /\ reservoir' = rest
       /\ reportedAddress' = [reportedAddress EXCEPT ![au] = a]
       /\ reportedSize' = [reportedSize EXCEPT ![au] = n]
       /\ sourceLine' = [sourceLine EXCEPT ![au] = o]
       /\ LinkFirst(au, a, hashTable, Linked, prev)
  /\ AccountAllocation(n)
  /\ resetGlobals

(* The heap has no room for a block of units, or none for the caller: then the
   unit that was taken is lost, with the address NULL and no link.  The size
   and the owner that are left in it are read by nobody. *)
AllocatorFails ==
  /\ \/ /\ reservoir = NULL
        /\ UNCHANGED <<next, reservoirVars>>
     \/ \E au \in Unit, rest \in Unit \cup {NULL} :
          /\ TakeUnit(au, rest)
          /\ reservoir' = rest
          /\ next' = [Linked EXCEPT ![au] = NULL]
  /\ UNCHANGED <<heap, hashTable, prev, reportedAddress, reportedSize,
                 sourceLine, stats>>
  /\ resetGlobals

Malloc(o, n) ==
  /\ (\E a \in Addr : Allocator(o, n, a)) \/ AllocatorFails
  /\ UNCHANGED <<staticDeinitTime, pending>>

(* Mutant: the unit stays in its bucket when the block moves. *)
Reallocator_StaysInBucket(o, n, a) ==
  LET au == findAllocUnit(a)
  IN  /\ au # NULL
      /\ \E b \in (Addr \ heap) \cup {a} :
           /\ heap' = (heap \ {a}) \cup {b}
           /\ reportedAddress' = [reportedAddress EXCEPT ![au] = b]
           /\ reportedSize' = [reportedSize EXCEPT ![au] = n]
           /\ sourceLine' = [sourceLine EXCEPT ![au] = o]
      /\ AccountReallocation(reportedSize[au], n)
      /\ UNCHANGED <<hashTable, next, prev, reservoirVars>>

(* mmgr_reallocator for an address that may or may not be allocated. *)
Reallocator(o, n, a) ==
  LET au == findAllocUnit(a)
  IN  /\ au # NULL
      /\ \E b \in (Addr \ heap) \cup {a} :
           /\ heap' = (heap \ {a}) \cup {b}
           /\ reportedAddress' = [reportedAddress EXCEPT ![au] = b]
           /\ reportedSize' = [reportedSize EXCEPT ![au] = n]
           /\ sourceLine' = [sourceLine EXCEPT ![au] = o]
           /\ IF b = a
              THEN UNCHANGED <<hashTable, next, prev>>
              ELSE LinkFirst(au, b, TableWithout(au, a), NextWithout(au, a),
                             PrevWithout(au, a))
      /\ AccountReallocation(reportedSize[au], n)
      /\ UNCHANGED reservoirVars

Realloc(o, n, a) ==
  /\ \/ Reallocator(o, n, a)
     \/ UNCHANGED <<heap, unitVars, reservoirVars, stats>>   \* it fails
  /\ resetGlobals
  /\ UNCHANGED <<staticDeinitTime, pending>>

(* Mutant: the blocks are freed although there are leaks. *)
LeakReport_DespiteLeaks(units, first) ==
  /\ blocks' = blocks \ reservoirBuffer
  /\ reservoirBuffer' = {}
  /\ reservoir' = NULL

(* dumpLeakReport: without leaks, the recorded blocks are freed, unless the
   report file cannot be opened.  first is the front of the reservoir, units
   the number of tracked units. *)
LeakReport(units, first) ==
  \/ /\ units = 0 /\ reservoirBuffer # {}
     /\ blocks' = blocks \ reservoirBuffer
     /\ reservoirBuffer' = {}
     /\ reservoir' = NULL
  \/ /\ reservoir' = first
     /\ UNCHANGED <<blocks, reservoirBuffer>>

(* Mutant: the unit goes back without the rest of the reservoir behind it. *)
Deallocator_LosesReservoir(a) ==
  LET au == findAllocUnit(a)
  IN  /\ au # NULL
      /\ heap' = heap \ {a}
      /\ hashTable' = TableWithout(au, a)
      /\ next' = [NextWithout(au, a) EXCEPT ![au] = NULL]
      /\ prev' = [PrevWithout(au, a) EXCEPT ![au] = NULL]
      /\ reportedAddress' = [reportedAddress EXCEPT ![au] = NULL]
      /\ reportedSize' = [reportedSize EXCEPT ![au] = 0]
      /\ sourceLine' = [sourceLine EXCEPT ![au] = Unknown]
      /\ AccountDeallocation(reportedSize[au])
      /\ reservoir' = au
      /\ UNCHANGED <<blocks, reservoirBuffer>>

(* mmgr_deallocator of the address a. *)
Deallocator(a) ==
  LET au == findAllocUnit(a)
  IN  /\ au # NULL
      /\ heap' = heap \ {a}
      /\ hashTable' = TableWithout(au, a)
      /\ next' = [NextWithout(au, a) EXCEPT ![au] = reservoir]
      /\ prev' = [PrevWithout(au, a) EXCEPT ![au] = NULL]
      /\ reportedAddress' = [reportedAddress EXCEPT ![au] = NULL]
      /\ reportedSize' = [reportedSize EXCEPT ![au] = 0]
      /\ sourceLine' = [sourceLine EXCEPT ![au] = Unknown]
      /\ AccountDeallocation(reportedSize[au])
      /\ IF staticDeinitTime
         THEN LeakReport(stats'.totalAllocUnitCount, au)
         ELSE reservoir' = au /\ UNCHANGED <<blocks, reservoirBuffer>>

(* free, operator delete and operator delete[] of an address that may or may
   not be allocated (the delete of NULL does as much as the latter). *)
Free(a) ==
  /\ \/ Deallocator(a)
     \/ /\ findAllocUnit(a) = NULL
        /\ UNCHANGED <<heap, unitVars, reservoirVars, stats>>
  /\ resetGlobals
  /\ UNCHANGED <<staticDeinitTime, pending>>

(* free(NULL), which writes the leak report too. *)
FreeNull ==
  /\ IF staticDeinitTime
     THEN LeakReport(stats.totalAllocUnitCount, reservoir)
     ELSE UNCHANGED reservoirVars
  /\ resetGlobals
  /\ UNCHANGED <<heap, unitVars, stats, staticDeinitTime, pending>>
-----------------------------------------------------------------------------
(* operator new and new[], which keep the owner in locals while they retry. *)

(* A request for 0 bytes is one for 1 byte. *)
AtLeastOne(n) == IF n = 0 THEN 1 ELSE n

Throws == AllocatorFails /\ pending' = NoRequest   \* no new handler: bad_alloc

(* o is the owner in the globals, or the one that the variants with a file and
   a line get as arguments.  A new handler may call the manager, but only one
   operator new waits for its handler at a time (a bound of the model). *)
OperatorNew(o, n) ==
  /\ pending = NoRequest
  /\ \/ /\ \E a \in Addr : Allocator(o, AtLeastOne(n), a)
        /\ UNCHANGED pending
     \/ Throws
     \/ /\ AllocatorFails
        /\ pending' = [owner |-> o, size |-> AtLeastOne(n)]
  /\ UNCHANGED staticDeinitTime

(* Mutant: the owner is read from the globals again. *)
RetryNew_ReadsGlobals ==
  /\ pending # NoRequest
  /\ \/ /\ \E a \in Addr : Allocator(owner, pending.size, a)
        /\ pending' = NoRequest
     \/ Throws
     \/ AllocatorFails /\ UNCHANGED pending
  /\ UNCHANGED staticDeinitTime

(* The new handler has returned. *)
RetryNew ==
  /\ pending # NoRequest
  /\ \/ /\ \E a \in Addr : Allocator(pending.owner, pending.size, a)
        /\ pending' = NoRequest
     \/ Throws
     \/ AllocatorFails /\ UNCHANGED pending
  /\ UNCHANGED staticDeinitTime

(* mmgr_setOwner. *)
SetOwner(o) ==
  /\ owner' = o
  /\ UNCHANGED <<heap, unitVars, reservoirVars, stats, staticDeinitTime, pending>>

(* The destructor of MemStaticTimeTracker. *)
StaticDeinit ==
  /\ ~ staticDeinitTime /\ pending = NoRequest
  /\ staticDeinitTime' = TRUE
  /\ LeakReport(stats.totalAllocUnitCount, reservoir)
  /\ UNCHANGED <<heap, unitVars, stats, owner, pending>>

Next ==
  \/ \E o \in Line, n \in Size : Malloc(o, n)
  \/ \E o \in Line, n \in Size, a \in Addr : Realloc(o, n, a)
  \/ \E a \in Addr : Free(a)
  \/ FreeNull
  \/ \E n \in Size, o \in Line \cup {owner} : OperatorNew(o, n)
  \/ RetryNew
  \/ \E o \in Line : SetOwner(o)
  \/ StaticDeinit

Spec == Init /\ [][Next]_vars
-----------------------------------------------------------------------------
(* What the caller relies on. *)

Tracked == {u \in Unit : reportedAddress[u] # NULL}

(* findAllocUnit finds the unit of every address that is allocated, and nothing
   for any other, whatever sequence of insertions, relocations and removals,
   at the head, in the middle or at the end of a bucket, led there. *)
LookupExact ==
  \A a \in Addr : findAllocUnit(a) # NULL <=> a \in heap

(* Walking a bucket from hashTable ends: no chain runs into a cycle, though the
   prev of a new head still points to the unit removed before it. *)
WalksEnd ==
  \A i \in Index : \A u \in Chain(i) : u \notin Reach(next[u])

(* What mmgr_validateAllAllocUnits asserts (mmgr.cpp:1611): the units counted
   bucket by bucket are as many as the statistics say; no unit is in two
   buckets, and none of them is in the reservoir. *)
ChainsCountTracked ==
  /\ \A i, j \in Index : i # j => Chain(i) \cap Chain(j) = {}
  /\ \A i \in Index : Chain(i) \cap Reach(reservoir) = {}
  /\ UNION {Chain(i) : i \in Index} = Tracked
  /\ Cardinality(Tracked) = stats.totalAllocUnitCount

(* The byte statistics are those of the tracked units, and the memory that was
   ever handed out differs from what was asked for by the padding of each
   allocation, modulo 2^32 and however the sums wrapped around on the way. *)
StatsExact ==
  LET bytes == SumFunctionOnSet(reportedSize, Tracked)
  IN  /\ stats.totalReportedMemory = bytes % StatMod
      /\ stats.totalActualMemory
           = (bytes + Padding * Cardinality(Tracked)) % StatMod
      /\ stats.accumulatedActualMemory
           = (stats.accumulatedReportedMemory
                + Padding * stats.accumulatedAllocUnitCount) % StatMod

(* No unit that can still be reached lies in a block that was freed, although
   the leak report frees blocks while static objects go on allocating; and no
   block is freed twice, as none that was is recorded to be. *)
NoDanglingUnits ==
  /\ \A u \in Reach(reservoir) \cup UNION {Chain(i) : i \in Index} :
       u[1] \in blocks
  /\ reservoirBuffer \subseteq blocks

(* The address of a failed request is NULL, hence its unit is in no table; what
   a caller can find out is that of an abstract table of allocations. *)
Table == INSTANCE AllocationTable
           WITH None <- NULL,
                table <- [a \in Addr |-> LET au == findAllocUnit(a)
                                        IN  IF au = NULL THEN NULL
                                            ELSE reportedSize[au]]

(* The hash table with its reservoir, relocations and leak report does to the
   addresses and sizes callers see no more than an abstract table of
   allocations does: no call touches an allocation it is not about. *)
ImplementsTable == Table!TableSpec

Usable(u) == u \in Tracked \/ u \in Reach(reservoir)

(* u is the one unit that a request took before it failed: the front of the
   reservoir, or of the block that was malloc'ed for it. *)
LostByFailure(u) ==
  /\ AllocatorFails
  /\ u = reservoir \/ (reservoir = NULL /\ u[2] = 0)

(* The leak report empties the reservoir, and the block of u, which it has no
   record of, stays behind. *)
LostByReport(u) ==
  /\ staticDeinitTime' /\ Tracked' = {}
  /\ reservoirBuffer # {} /\ reservoirBuffer' = {}
  /\ u[1] \notin reservoirBuffer

(* Each unit of a block stays in a bucket or in the reservoir, and those of a
   new block get there.  A request that fails loses the one unit it took and no
   other, the leak report those of a block that was never recorded, and no
   other call loses any: no move between buckets, no removal, no free of what
   is not allocated. *)
UnitsLostOnlyByFailure ==
  [][\A u \in Unit :
       u[1] \in blocks' /\ (u[1] \in blocks => Usable(u))
         => Usable(u)' \/ LostByFailure(u) \/ LostByReport(u)]_vars

(* The unit of an operator new that had to retry bears the owner of its call,
   although the failed attempts and everything the new handler did have reset
   or overwritten the globals. *)
RetryKeepsOwner ==
  [][pending # NoRequest /\ pending' = NoRequest /\ heap' # heap
       => \E u \in Tracked' \ Tracked :
            /\ sourceLine'[u] = pending.owner
            /\ reportedSize'[u] = pending.size]_vars
=============================================================================
