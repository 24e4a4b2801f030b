-------------------------- MODULE AllocationTable --------------------------
(***************************************************************************)
(* What the memory manager of base/source/mmgr.cpp promises its callers,   *)
(* without hash table, reservoir or statistics: a table of the addresses   *)
(* that are allocated, with the size that was asked for.  A request that   *)
(* fails, and one that names an address that is not in the table, leave    *)
(* the table as it is.                                                     *)
(***************************************************************************)
CONSTANTS
  Addr,   \* the addresses callers get to see
  Size,   \* the sizes they ask for
  None    \* the size of what is not allocated

VARIABLE table

TableTypeOK == table \in [Addr -> Size \cup {None}]

TableInit == table = [a \in Addr |-> None]

IsAllocated(a) == table[a] # None

(* Only the addresses of S may get another size. *)
KeepsOthers(S) == \A c \in Addr \ S : table'[c] = table[c]

Allocate(a) ==
  /\ ~ IsAllocated(a)
  /\ table'[a] \in Size
  /\ KeepsOthers({a})

Reallocate(a, b) ==
  /\ IsAllocated(a)
  /\ b = a \/ (~ IsAllocated(b) /\ table'[a] = None)
  /\ table'[b] \in Size
  /\ KeepsOthers({a, b})

Deallocate(a) ==
  /\ IsAllocated(a)
  /\ table'[a] = None
  /\ KeepsOthers({a})

TableNext ==
  /\ \E a \in Addr :
       \/ Allocate(a)
       \/ Deallocate(a)
       \/ \E b \in Addr : Reallocate(a, b)
  /\ TableTypeOK'

TableSpec == TableInit /\ [][TableNext]_table
=============================================================================
