-------------------------- MODULE MemoryManagerProofs --------------------------
(***************************************************************************)
(* Proofs about MemoryManager, for any addresses, hash function, block     *)
(* size and sizes.                                                         *)
(*                                                                         *)
(* The chains of the hash table and the reservoir are what can be reached  *)
(* over next, the least closed set.  That a unit can be reached is shown   *)
(* with the closed sets themselves: a set that is closed holds the chain,  *)
(* and a chain is closed.  Local facts about next and prev would not do,   *)
(* as a cycle beside the chain satisfies them all.                         *)
(*                                                                         *)
(* The sum of the sizes, which the statistics are compared with, is        *)
(* defined by recursion over sets of units.  Facts about it are shown from *)
(* the smallest set of units for which they would not hold.                *)
(***************************************************************************)
EXTENDS MemoryManager, FiniteSetTheorems, WellFoundedInduction, TLAPS

(* S holds u and, with each unit, the next one in the links n. *)
Closed(n, u, S) ==
  /\ u # NULL => u \in S
  /\ \A w \in S : n[w] # NULL => n[w] \in S

ReachIn(n, u) == {v \in Unit : \A S \in SUBSET Unit : Closed(n, u, S) => v \in S}

Links == [Unit -> Unit \cup {NULL}]

(* The units that track an address, when ad are the addresses. *)
TrackedIn(ad) == {u \in Unit : ad[u] # NULL}

(* The next of a tracked unit is in the same bucket, not its first, and points
   back. *)
NextPointsBack(t, n, p, ad) ==
  \A w \in TrackedIn(ad) :
    n[w] # NULL =>
      /\ n[w] \in TrackedIn(ad)
      /\ HashIndex[ad[n[w]]] = HashIndex[ad[w]]
      /\ p[n[w]] = w
      /\ n[w] # t[HashIndex[ad[w]]]

(* A bucket begins with a unit of its own. *)
HeadsTracked(t, ad) ==
  \A i \in Index :
    t[i] # NULL => t[i] \in TrackedIn(ad) /\ HashIndex[ad[t[i]]] = i

(* A unit that is not the first of its bucket is the next of its prev.  (The
   prev of a first one may point anywhere.) *)
PrevPointsForth(t, n, p, ad) ==
  \A u \in TrackedIn(ad) :
    u # t[HashIndex[ad[u]]] => p[u] \in TrackedIn(ad) /\ n[p[u]] = u

(* Every tracked unit is in the bucket its address hashes to. *)
TrackedReached(t, n, ad) ==
  \A u \in TrackedIn(ad) : u \in ReachIn(n, t[HashIndex[ad[u]]])

(* The hash table t with the links n and p. *)
TableOK(t, n, p, ad) ==
  /\ NextPointsBack(t, n, p, ad)
  /\ HeadsTracked(t, ad)
  /\ PrevPointsForth(t, n, p, ad)
  /\ TrackedReached(t, n, ad)

(* The reservoir from r on: units of the blocks that track nothing, without a
   cycle, so that the unit taken from it is not in the rest. *)
ReservoirOK(n, r, ad, bl) ==
  \A u \in ReachIn(n, r) :
    /\ ad[u] = NULL
    /\ u[1] \in bl
    /\ u \notin ReachIn(n, n[u])

(* The heap has what the units track, each address in one of them. *)
HeapTracked ==
  /\ heap = {reportedAddress[u] : u \in Tracked}
  /\ \A u, v \in Tracked : reportedAddress[u] = reportedAddress[v] => u = v

BlocksInUse ==
  /\ \A u \in Tracked : u[1] \in blocks
  /\ reservoirBuffer \subseteq blocks

UnitsCounted == Cardinality(Tracked) = stats.totalAllocUnitCount

IInv ==
  /\ TypeOK
  /\ TableOK(hashTable, next, prev, reportedAddress)
  /\ ReservoirOK(next, reservoir, reportedAddress, blocks)
  /\ HeapTracked
  /\ BlocksInUse
  /\ UnitsCounted
-----------------------------------------------------------------------------
(* What can be reached. *)

(* A chain is in every closed set. *)
LEMMA ReachLeast ==
  ASSUME NEW n, NEW u, NEW S \in SUBSET Unit, Closed(n, u, S)
  PROVE  ReachIn(n, u) \subseteq S
  BY DEF ReachIn

(* It is a closed set itself. *)
LEMMA ReachClosed ==
  ASSUME NEW n \in Links, NEW u \in Unit \cup {NULL}
  PROVE  ReachIn(n, u) \in SUBSET Unit /\ Closed(n, u, ReachIn(n, u))
<1>1. ReachIn(n, u) \in SUBSET Unit
  BY DEF ReachIn
<1>2. u # NULL => u \in ReachIn(n, u)
  BY DEF ReachIn, Closed
<1>3. ASSUME NEW w \in ReachIn(n, u), n[w] # NULL PROVE n[w] \in ReachIn(n, u)
  <2>1. w \in Unit /\ n[w] \in Unit
    BY <1>3 DEF ReachIn, Links
  <2>2. ASSUME NEW S \in SUBSET Unit, Closed(n, u, S) PROVE n[w] \in S
    BY <2>2, <1>3 DEF ReachIn, Closed
  <2> QED
    BY <2>1, <2>2 DEF ReachIn
<1> QED
  BY <1>1, <1>2, <1>3 DEF Closed

LEMMA ReachNull ==
  ASSUME NEW n
  PROVE  ReachIn(n, NULL) = {}
<1>1. Closed(n, NULL, {}) /\ {} \in SUBSET Unit
  BY DEF Closed
<1> QED
  BY <1>1, ReachLeast

LEMMA ReachStep ==
  ASSUME NEW n \in Links, NEW u \in Unit
  PROVE  ReachIn(n, u) = {u} \cup ReachIn(n, n[u])
<1>1. n[u] \in Unit \cup {NULL}
  BY DEF Links
<1>2. ReachIn(n, u) \subseteq {u} \cup ReachIn(n, n[u])
  <2>1. /\ {u} \cup ReachIn(n, n[u]) \in SUBSET Unit
        /\ Closed(n, u, {u} \cup ReachIn(n, n[u]))
    BY <1>1, ReachClosed DEF Closed
  <2> QED
    BY <2>1, ReachLeast
<1>3. u \in ReachIn(n, u)
  BY MemoryAssumption, ReachClosed DEF Closed
<1>4. ReachIn(n, n[u]) \subseteq ReachIn(n, u)
  <2>1. ReachIn(n, u) \in SUBSET Unit /\ Closed(n, n[u], ReachIn(n, u))
    BY <1>3, ReachClosed DEF Closed
  <2> QED
    BY <2>1, ReachLeast
<1> QED
  BY <1>2, <1>3, <1>4

(* What is reached from a unit that is reached is reached too. *)
LEMMA ReachOn ==
  ASSUME NEW n \in Links, NEW u \in Unit \cup {NULL}, NEW w \in ReachIn(n, u)
  PROVE  ReachIn(n, w) \subseteq ReachIn(n, u)
<1>1. Closed(n, w, ReachIn(n, u)) /\ ReachIn(n, u) \in SUBSET Unit
  BY ReachClosed DEF Closed
<1> QED
  BY <1>1, ReachLeast

(* Links beside the chain do not matter to it. *)
LEMMA ReachFrame ==
  ASSUME NEW n \in Links, NEW m \in Links, NEW u \in Unit \cup {NULL},
         \A w \in ReachIn(n, u) : m[w] = n[w]
  PROVE  ReachIn(m, u) = ReachIn(n, u)
<1>1. /\ ReachIn(n, u) \in SUBSET Unit /\ Closed(n, u, ReachIn(n, u))
      /\ ReachIn(m, u) \in SUBSET Unit /\ Closed(m, u, ReachIn(m, u))
  BY ReachClosed
<1>2. ReachIn(m, u) \subseteq ReachIn(n, u)
  <2>1. Closed(m, u, ReachIn(n, u))
    BY <1>1 DEF Closed
  <2> QED
    BY <1>1, <2>1, ReachLeast
<1>3. ReachIn(n, u) \subseteq ReachIn(m, u)
  <2>1. Closed(n, u, ReachIn(m, u))
    BY <1>1, <1>2 DEF Closed
  <2> QED
    BY <1>1, <2>1, ReachLeast
<1> QED
  BY <1>2, <1>3

LEMMA ReachIs == \A u : Reach(u) = ReachIn(next, u)
<1> SUFFICES ASSUME NEW u PROVE Reach(u) = ReachIn(next, u)
  OBVIOUS
<1>1. \A S : HoldsChain(S, u) <=> Closed(next, u, S)
  BY DEF HoldsChain, Closed
<1>2. \A v : \A S \in SUBSET Unit : v \notin S <=> S \in SUBSET (Unit \ {v})
  OBVIOUS
<1> QED
  BY <1>1, <1>2 DEF Reach, ReachIn

(* A set of numbers has a least member: what the library says of < on Nat. *)
LEMMA LeastNumber ==
  ASSUME NEW T \in SUBSET Nat, T # {}
  PROVE  \E n \in T : \A m \in T : n <= m
<1>1. IsWellFoundedOn(OpToRel(<, Nat), Nat)
  BY NatLessThanWellFounded
<1>2. \A m, n \in Nat : <<m, n>> \in OpToRel(<, Nat) <=> m < n
  BY DEF OpToRel
<1>3. PICK n \in T : \A m \in T : ~ (<<m, n>> \in OpToRel(<, Nat))
  BY <1>1, WFMin
<1>4. ASSUME NEW m \in T PROVE n <= m
  <2>1. ~ (m < n)
    BY <1>2, <1>3
  <2> QED
    BY <2>1
<1> QED
  BY <1>4

-----------------------------------------------------------------------------
(* The reservoir. *)

(* Writing the link of units that are not in it leaves it alone. *)
LEMMA ReservoirFrame ==
  ASSUME NEW n \in Links, NEW m \in Links, NEW r \in Unit \cup {NULL},
         NEW ad, NEW bd, NEW bl, NEW cl, bl \subseteq cl,
         ReservoirOK(n, r, ad, bl),
         \A w \in ReachIn(n, r) : m[w] = n[w] /\ bd[w] = ad[w]
  PROVE  ReservoirOK(m, r, bd, cl) /\ ReachIn(m, r) = ReachIn(n, r)
<1>1. ReachIn(m, r) = ReachIn(n, r)
  BY ReachFrame
<1>2. ASSUME NEW w \in ReachIn(n, r) PROVE ReachIn(m, m[w]) = ReachIn(n, n[w])
  <2>1. w \in Unit /\ n[w] \in Unit \cup {NULL} /\ m[w] = n[w]
    BY DEF ReachIn, Links
  <2>2. ReachIn(n, n[w]) \subseteq ReachIn(n, r)
    BY <2>1, ReachOn, ReachStep
  <2> QED
    BY <2>1, <2>2, ReachFrame
<1> QED
  BY <1>1, <1>2 DEF ReservoirOK

(* The first unit is not in the rest, and the rest is a reservoir. *)
LEMMA ReservoirPop ==
  ASSUME NEW n \in Links, NEW r \in Unit, NEW ad, NEW bl, ReservoirOK(n, r, ad, bl)
  PROVE  /\ ad[r] = NULL /\ r[1] \in bl
         /\ n[r] \in Unit \cup {NULL}
         /\ ReservoirOK(n, n[r], ad, bl)
         /\ r \notin ReachIn(n, n[r])
         /\ ReachIn(n, r) = {r} \cup ReachIn(n, n[r])
<1>1. ReachIn(n, r) = {r} \cup ReachIn(n, n[r])
  BY ReachStep
<1> QED
  BY <1>1 DEF ReservoirOK, Links

(* A unit that tracks nothing any more becomes the first. *)
LEMMA ReservoirPush ==
  ASSUME NEW n \in Links, NEW r \in Unit \cup {NULL}, NEW ad, NEW bl,
         ReservoirOK(n, r, ad, bl),
         NEW u \in Unit, u \notin ReachIn(n, r), ad[u] = NULL, u[1] \in bl,
         NEW m \in Links, m[u] = r, \A w \in Unit \ {u} : m[w] = n[w]
  PROVE  ReservoirOK(m, u, ad, bl) /\ ReachIn(m, u) = {u} \cup ReachIn(n, r)
<1>1. \A w \in ReachIn(n, r) : m[w] = n[w] /\ ad[w] = ad[w]
  BY DEF ReachIn
<1>2. ReservoirOK(m, r, ad, bl) /\ ReachIn(m, r) = ReachIn(n, r)
  <2>1. bl \subseteq bl
    OBVIOUS
  <2> QED
    BY <1>1, <2>1, ReservoirFrame
<1>3. ReachIn(m, u) = {u} \cup ReachIn(m, r)
  BY <1>1, ReachStep
<1> QED
  BY <1>1, <1>2, <1>3 DEF ReservoirOK
-----------------------------------------------------------------------------
(* The hash table. *)

Tables == [Index -> Unit \cup {NULL}]
Addresses == [Unit -> Addr \cup {NULL}]

(* The chain of a bucket has the tracked units that hash to it. *)
LEMMA ChainIs ==
  ASSUME NEW t \in Tables, NEW n \in Links, NEW p \in Links, NEW ad \in Addresses,
         TableOK(t, n, p, ad), NEW i \in Index
  PROVE  ReachIn(n, t[i]) = {u \in TrackedIn(ad) : HashIndex[ad[u]] = i}
<1> DEFINE C == {u \in TrackedIn(ad) : HashIndex[ad[u]] = i}
<1>1. ReachIn(n, t[i]) \subseteq C
  <2>1. C \in SUBSET Unit /\ Closed(n, t[i], C)
    BY DEF Closed, TableOK, NextPointsBack, HeadsTracked, TrackedIn
  <2> QED
    BY <2>1, ReachLeast
<1>2. C \subseteq ReachIn(n, t[i])
  BY DEF TableOK, TrackedReached
<1> QED
  BY <1>1, <1>2

(* No chain runs into a cycle: the cycle would be closed under prev, and the
   chain without it would be closed under next. *)
LEMMA ChainEnds ==
  ASSUME NEW t \in Tables, NEW n \in Links, NEW p \in Links, NEW ad \in Addresses,
         TableOK(t, n, p, ad), NEW u \in TrackedIn(ad)
  PROVE  u \notin ReachIn(n, n[u])
<1> SUFFICES ASSUME u \in ReachIn(n, n[u]) PROVE FALSE
  OBVIOUS
<1> DEFINE C == ReachIn(n, n[u])
           i == HashIndex[ad[u]]
           D == {w \in C : w \in TrackedIn(ad) /\ w # t[HashIndex[ad[w]]] /\ p[w] \in C}
<1>0. u \in Unit /\ n[u] \in Unit /\ i \in Index /\ t[i] \in Unit \cup {NULL}
  <2>1. n[u] # NULL
    BY ReachNull
  <2> QED
    BY <2>1, MemoryAssumption DEF Links, TrackedIn, Addresses, Tables
<1>1. C \in SUBSET Unit /\ Closed(n, n[u], C)
  BY <1>0, ReachClosed
<1>2. C \subseteq D
  <2>1. n[u] \in D
    BY <1>0, <1>1, MemoryAssumption DEF Closed, TableOK, NextPointsBack
  <2>2. ASSUME NEW w \in D, n[w] # NULL PROVE n[w] \in D
    <3>1. /\ n[w] \in TrackedIn(ad) /\ p[n[w]] = w
          /\ n[w] # t[HashIndex[ad[n[w]]]]
      BY <2>2 DEF TableOK, NextPointsBack
    <3>2. n[w] \in C
      BY <1>1, <2>2 DEF Closed
    <3> QED
      BY <3>1, <3>2
  <2>3. D \in SUBSET Unit /\ Closed(n, n[u], D)
    BY <1>1, <2>1, <2>2 DEF Closed
  <2> QED
    BY <2>3, ReachLeast
<1>3. ReachIn(n, t[i]) \subseteq ReachIn(n, t[i]) \ C
  <2> DEFINE R == ReachIn(n, t[i])
  <2>1. R \in SUBSET Unit /\ Closed(n, t[i], R)
    BY <1>0, ReachClosed
  <2>2. R = {v \in TrackedIn(ad) : HashIndex[ad[v]] = i}
    BY <1>0, ChainIs
  <2>3. t[i] # NULL => t[i] \notin C
    BY <1>2, <2>1, <2>2 DEF Closed
  <2>4. ASSUME NEW w \in R \ C, n[w] # NULL PROVE n[w] \in R \ C
    <3>1. n[w] \in R
      BY <2>1, <2>4 DEF Closed
    <3>2. p[n[w]] = w
      BY <2>2, <2>4 DEF TableOK, NextPointsBack
    <3> QED
      BY <1>2, <3>1, <3>2
  <2>5. R \ C \in SUBSET Unit /\ Closed(n, t[i], R \ C)
    BY <2>1, <2>3, <2>4 DEF Closed
  <2> QED
    BY <2>5, ReachLeast
<1>4. u \in ReachIn(n, t[i])
  BY DEF TableOK, TrackedReached
<1> QED
  BY <1>3, <1>4

(* Links of units that are not tracked do not matter to the table. *)
LEMMA TableFrame ==
  ASSUME NEW t \in Tables, NEW n \in Links, NEW p \in Links, NEW ad \in Addresses,
         TableOK(t, n, p, ad), NEW m \in Links, NEW q \in Links,
         \A w \in TrackedIn(ad) : m[w] = n[w] /\ q[w] = p[w]
  PROVE  TableOK(t, m, q, ad)
<1>1. ASSUME NEW i \in Index PROVE ReachIn(m, t[i]) = ReachIn(n, t[i])
  <2>1. \A w \in ReachIn(n, t[i]) : m[w] = n[w]
    BY ChainIs
  <2>2. t[i] \in Unit \cup {NULL}
    BY DEF Tables
  <2> QED
    BY <2>1, <2>2, ReachFrame
<1>2. \A u \in TrackedIn(ad) : HashIndex[ad[u]] \in Index
  BY MemoryAssumption DEF TrackedIn, Addresses
<1>3. TrackedReached(t, m, ad)
  BY <1>1, <1>2 DEF TableOK, TrackedReached
<1>4. NextPointsBack(t, m, q, ad) /\ PrevPointsForth(t, m, q, ad)
  BY DEF TableOK, NextPointsBack, PrevPointsForth
<1> QED
  BY <1>3, <1>4 DEF TableOK

(* A unit that tracks nothing is linked in front of the bucket of a. *)
LEMMA LinkedFirst ==
  ASSUME NEW t \in Tables, NEW n \in Links, NEW p \in Links, NEW ad \in Addresses,
         TableOK(t, n, p, ad), NEW u \in Unit, ad[u] = NULL, NEW a \in Addr,
         LinkFirst(u, a, t, n, p)
  PROVE  /\ hashTable' \in Tables /\ next' \in Links /\ prev' \in Links
         /\ next' = [n EXCEPT ![u] = t[HashIndex[a]]]
         /\ TableOK(hashTable', next', prev', [ad EXCEPT ![u] = a])
<1> DEFINE h == HashIndex[a]
           first == t[h]
           bd == [ad EXCEPT ![u] = a]
<1>1. /\ hashTable' = [t EXCEPT ![h] = u]
      /\ next' = [n EXCEPT ![u] = first]
      /\ prev' = [v \in Unit |-> IF v = u THEN NULL
                                 ELSE IF v = first THEN u ELSE p[v]]
  BY DEF LinkFirst
<1>2. /\ h \in Index /\ first \in Unit \cup {NULL} /\ first # u
      /\ a # NULL /\ u # NULL
  BY MemoryAssumption DEF Tables, TableOK, HeadsTracked, TrackedIn
<1>3. hashTable' \in Tables /\ next' \in Links /\ prev' \in Links
  BY <1>1, <1>2 DEF Tables, Links
<1>4. /\ TrackedIn(bd) = TrackedIn(ad) \cup {u} /\ u \notin TrackedIn(ad)
      /\ bd[u] = a /\ \A v \in TrackedIn(ad) : bd[v] = ad[v]
      /\ TrackedIn(ad) \subseteq Unit
      /\ \A v \in TrackedIn(bd) : HashIndex[bd[v]] \in Index
  BY <1>2, MemoryAssumption DEF TrackedIn, Addresses
<1>5. /\ hashTable'[h] = u /\ \A i \in Index \ {h} : hashTable'[i] = t[i]
      /\ next'[u] = first /\ \A v \in Unit \ {u} : next'[v] = n[v]
      /\ \A v \in Unit \ {u, first} : prev'[v] = p[v]
      /\ first # NULL => prev'[first] = u
  BY <1>1, <1>2 DEF Tables, Links
<1> HIDE DEF bd, h, first
<1>6. first # NULL => first \in TrackedIn(ad) /\ HashIndex[ad[first]] = h
  BY <1>2 DEF TableOK, HeadsTracked, first
<1>7. NextPointsBack(hashTable', next', prev', bd)
  <2>1. ASSUME NEW w \in TrackedIn(ad), n[w] # NULL
        PROVE  /\ n[w] \in TrackedIn(ad) /\ HashIndex[ad[n[w]]] = HashIndex[ad[w]]
               /\ prev'[n[w]] = w
               /\ n[w] # hashTable'[HashIndex[ad[w]]]
    <3>1. /\ n[w] \in TrackedIn(ad) /\ HashIndex[ad[n[w]]] = HashIndex[ad[w]]
          /\ p[n[w]] = w /\ n[w] # t[HashIndex[ad[w]]]
      BY <2>1 DEF TableOK, NextPointsBack
    <3>2. n[w] # first
      BY <1>6, <3>1, <2>1 DEF first
    <3> QED
      BY <3>1, <3>2, <1>4, <1>5
  <2>2. first # NULL =>
          /\ first \in TrackedIn(bd) /\ HashIndex[bd[first]] = HashIndex[bd[u]]
          /\ prev'[first] = u /\ first # hashTable'[HashIndex[bd[u]]]
    BY <1>2, <1>4, <1>5, <1>6 DEF h
  <2> QED
    BY <2>1, <2>2, <1>4, <1>5 DEF NextPointsBack
<1>8. HeadsTracked(hashTable', bd)
  BY <1>4, <1>5, <1>2 DEF HeadsTracked, TableOK, h
<1>9. PrevPointsForth(hashTable', next', prev', bd)
  <2>1. ASSUME NEW v \in TrackedIn(ad), v # hashTable'[HashIndex[ad[v]]]
        PROVE  prev'[v] \in TrackedIn(bd) /\ next'[prev'[v]] = v
    <3>1. CASE v = first
      BY <3>1, <1>2, <1>4, <1>5, MemoryAssumption
    <3>2. CASE v # first
      <4>1. v # t[HashIndex[ad[v]]]
        BY <2>1, <3>2, <1>4, <1>5 DEF first
      <4>2. p[v] \in TrackedIn(ad) /\ n[p[v]] = v
        BY <4>1 DEF TableOK, PrevPointsForth
      <4> QED
        BY <4>2, <3>2, <1>4, <1>5
    <3> QED
      BY <3>1, <3>2
  <2>2. u = hashTable'[HashIndex[bd[u]]]
    BY <1>4, <1>5 DEF h
  <2> QED
    BY <2>1, <2>2, <1>4 DEF PrevPointsForth
<1>10. TrackedReached(hashTable', next', bd)
  <2>1. ASSUME NEW i \in Index PROVE ReachIn(next', t[i]) = ReachIn(n, t[i])
    <3>1. \A w \in ReachIn(n, t[i]) : next'[w] = n[w]
      BY <1>4, <1>5, ChainIs
    <3>2. t[i] \in Unit \cup {NULL}
      BY DEF Tables
    <3> QED
      BY <3>1, <3>2, <1>3, ReachFrame
  <2>2. ReachIn(next', u) = {u} \cup ReachIn(n, first)
    <3>1. ReachIn(next', u) = {u} \cup ReachIn(next', first)
      BY <1>3, <1>5, ReachStep
    <3> QED
      BY <3>1, <2>1, <1>2 DEF first
  <2>3. ASSUME NEW v \in TrackedIn(ad)
        PROVE  v \in ReachIn(next', hashTable'[HashIndex[ad[v]]])
    <3>1. v \in ReachIn(n, t[HashIndex[ad[v]]]) /\ HashIndex[ad[v]] \in Index
      BY <1>4 DEF TableOK, TrackedReached
    <3> QED
      BY <3>1, <2>1, <2>2, <1>5 DEF first
  <2> QED
    BY <2>2, <2>3, <1>4, <1>5 DEF TrackedReached, h
<1> QED
  BY <1>1, <1>3, <1>7, <1>8, <1>9, <1>10 DEF TableOK, bd, first, h

(* A tracked unit is taken out of its bucket: from the front ... *)
LEMMA UnlinkedHead ==
  ASSUME NEW t \in Tables, NEW n \in Links, NEW p \in Links, NEW ad \in Addresses,
         TableOK(t, n, p, ad), NEW u \in TrackedIn(ad), t[HashIndex[ad[u]]] = u
  PROVE  TableOK([t EXCEPT ![HashIndex[ad[u]]] = n[u]], n, p, [ad EXCEPT ![u] = NULL])
<1> DEFINE h == HashIndex[ad[u]]
           s == [t EXCEPT ![h] = n[u]]
           bd == [ad EXCEPT ![u] = NULL]
<1>1. /\ h \in Index /\ u # NULL /\ u \in Unit
      /\ \A v \in TrackedIn(ad) : HashIndex[ad[v]] \in Index /\ v # NULL
  BY MemoryAssumption DEF TrackedIn, Addresses
<1>2. /\ TrackedIn(bd) = TrackedIn(ad) \ {u}
      /\ \A v \in TrackedIn(bd) : bd[v] = ad[v]
  BY DEF TrackedIn, Addresses
<1>3. s[h] = n[u] /\ \A i \in Index \ {h} : s[i] = t[i]
  BY <1>1 DEF Tables
<1> HIDE DEF bd, s
<1>4. NextPointsBack(s, n, p, bd)
  <2>1. ASSUME NEW w \in TrackedIn(ad) \ {u}, n[w] # NULL
        PROVE  /\ n[w] \in TrackedIn(ad) \ {u}
               /\ HashIndex[ad[n[w]]] = HashIndex[ad[w]]
               /\ p[n[w]] = w
               /\ n[w] # s[HashIndex[ad[w]]]
    <3>1. /\ n[w] \in TrackedIn(ad) /\ HashIndex[ad[n[w]]] = HashIndex[ad[w]]
          /\ p[n[w]] = w /\ n[w] # t[HashIndex[ad[w]]]
      BY <2>1 DEF TableOK, NextPointsBack
    <3>2. n[u] # NULL => p[n[u]] = u
      BY DEF TableOK, NextPointsBack
    <3> QED
      BY <3>1, <3>2, <2>1, <1>1, <1>3
  <2> QED
    BY <2>1, <1>2 DEF NextPointsBack
<1>5. HeadsTracked(s, bd)
  <2>1. n[u] # NULL => n[u] \in TrackedIn(ad) \ {u} /\ HashIndex[ad[n[u]]] = h
    BY DEF TableOK, NextPointsBack
  <2>2. \A i \in Index \ {h} : t[i] # NULL =>
           t[i] \in TrackedIn(ad) \ {u} /\ HashIndex[ad[t[i]]] = i
    BY DEF TableOK, HeadsTracked
  <2> QED
    BY <2>1, <2>2, <1>2, <1>3 DEF HeadsTracked
<1>6. PrevPointsForth(s, n, p, bd)
  <2>1. ASSUME NEW v \in TrackedIn(ad) \ {u}, v # s[HashIndex[ad[v]]]
        PROVE  p[v] \in TrackedIn(ad) \ {u} /\ n[p[v]] = v
    <3>1. v # t[HashIndex[ad[v]]]
      BY <2>1, <1>1, <1>3
    <3>2. p[v] \in TrackedIn(ad) /\ n[p[v]] = v
      BY <3>1 DEF TableOK, PrevPointsForth
    <3>3. n[u] # NULL => HashIndex[ad[n[u]]] = h
      BY DEF TableOK, NextPointsBack
    <3> QED
      BY <3>2, <3>3, <2>1, <1>1, <1>3
  <2> QED
    BY <2>1, <1>2 DEF PrevPointsForth
<1>7. TrackedReached(s, n, bd)
  <2>1. ReachIn(n, u) = {u} \cup ReachIn(n, n[u])
    BY <1>1, ReachStep
  <2>2. ASSUME NEW v \in TrackedIn(ad) \ {u}
        PROVE  v \in ReachIn(n, s[HashIndex[ad[v]]])
    <3>1. v \in ReachIn(n, t[HashIndex[ad[v]]]) /\ HashIndex[ad[v]] \in Index
      BY <1>1 DEF TableOK, TrackedReached
    <3> QED
      BY <3>1, <2>1, <1>3
  <2> QED
    BY <2>2, <1>2 DEF TrackedReached
<1> QED
  BY <1>4, <1>5, <1>6, <1>7 DEF TableOK, bd, s

(* ... or from behind another. *)
LEMMA UnlinkedBehind ==
  ASSUME NEW t \in Tables, NEW n \in Links, NEW p \in Links, NEW ad \in Addresses,
         TableOK(t, n, p, ad), NEW u \in TrackedIn(ad), t[HashIndex[ad[u]]] # u
  PROVE  /\ p[u] \in Unit
         /\ TableOK(t, [n EXCEPT ![p[u]] = n[u]],
                    IF n[u] # NULL THEN [p EXCEPT ![n[u]] = p[u]] ELSE p,
                    [ad EXCEPT ![u] = NULL])
<1> DEFINE h == HashIndex[ad[u]]
           b == p[u]
           m == [n EXCEPT ![b] = n[u]]
           q == IF n[u] # NULL THEN [p EXCEPT ![n[u]] = b] ELSE p
           bd == [ad EXCEPT ![u] = NULL]
<1>1. /\ h \in Index /\ u # NULL /\ u \in Unit
      /\ \A v \in TrackedIn(ad) : HashIndex[ad[v]] \in Index /\ v # NULL /\ v \in Unit
  BY MemoryAssumption DEF TrackedIn, Addresses
<1>2. /\ TrackedIn(bd) = TrackedIn(ad) \ {u}
      /\ \A v \in TrackedIn(bd) : bd[v] = ad[v]
  BY DEF TrackedIn, Addresses
<1>3. b \in TrackedIn(ad) /\ n[b] = u /\ HashIndex[ad[b]] = h
  BY <1>1 DEF TableOK, PrevPointsForth, NextPointsBack
<1>4. /\ n[u] # u /\ b # u
      /\ n[u] # NULL => /\ n[u] \in TrackedIn(ad) /\ HashIndex[ad[n[u]]] = h
                        /\ p[n[u]] = u /\ n[u] # t[h]
  <2>1. u \notin ReachIn(n, n[u])
    BY ChainEnds
  <2>2. u \in ReachIn(n, u)
    BY <1>1, ReachStep
  <2> QED
    BY <2>1, <2>2, <1>3 DEF TableOK, NextPointsBack
<1>5. /\ m \in Links /\ q \in Links
      /\ m[b] = n[u] /\ \A v \in Unit \ {b} : m[v] = n[v]
      /\ n[u] # NULL => q[n[u]] = b
      /\ \A v \in Unit \ {n[u]} : q[v] = p[v]
  BY <1>1, <1>3, <1>4 DEF Links
<1> HIDE DEF bd, m, q, b
<1>6. NextPointsBack(t, m, q, bd)
  <2>1. ASSUME NEW w \in TrackedIn(ad) \ {u}, m[w] # NULL
        PROVE  /\ m[w] \in TrackedIn(ad) \ {u}
               /\ HashIndex[ad[m[w]]] = HashIndex[ad[w]]
               /\ q[m[w]] = w
               /\ m[w] # t[HashIndex[ad[w]]]
    <3>1. CASE w = b
      BY <3>1, <2>1, <1>3, <1>4, <1>5
    <3>2. CASE w # b
      <4>1. /\ m[w] = n[w] /\ n[w] \in TrackedIn(ad)
            /\ HashIndex[ad[n[w]]] = HashIndex[ad[w]]
            /\ p[n[w]] = w /\ n[w] # t[HashIndex[ad[w]]]
        BY <3>2, <2>1, <1>1, <1>5 DEF TableOK, NextPointsBack
      <4>2. n[w] # u /\ n[w] # n[u]
        BY <4>1, <3>2, <2>1, <1>4 DEF b
      <4> QED
        BY <4>1, <4>2, <1>1, <1>5
    <3> QED
      BY <3>1, <3>2
  <2> QED
    BY <2>1, <1>2 DEF NextPointsBack
<1>7. HeadsTracked(t, bd)
  BY <1>2 DEF TableOK, HeadsTracked
<1>8. PrevPointsForth(t, m, q, bd)
  <2>1. ASSUME NEW v \in TrackedIn(ad) \ {u}, v # t[HashIndex[ad[v]]]
        PROVE  q[v] \in TrackedIn(ad) \ {u} /\ m[q[v]] = v
    <3>1. p[v] \in TrackedIn(ad) /\ n[p[v]] = v
      BY <2>1 DEF TableOK, PrevPointsForth
    <3>2. CASE v = n[u]
      BY <3>2, <1>1, <1>3, <1>4, <1>5
    <3>3. CASE v # n[u]
      <4>1. q[v] = p[v] /\ p[v] # u /\ p[v] # b
        BY <3>1, <3>3, <2>1, <1>1, <1>3, <1>5
      <4> QED
        BY <4>1, <3>1, <1>1, <1>5
    <3> QED
      BY <3>2, <3>3
  <2> QED
    BY <2>1, <1>2 DEF PrevPointsForth
<1>9. TrackedReached(t, m, bd)
  <2>1. ASSUME NEW v \in TrackedIn(ad) \ {u}, HashIndex[ad[v]] # h
        PROVE  v \in ReachIn(m, t[HashIndex[ad[v]]])
    <3> DEFINE i == HashIndex[ad[v]]
    <3>1. i \in Index /\ v \in ReachIn(n, t[i]) /\ t[i] \in Unit \cup {NULL}
      BY <1>1 DEF TableOK, TrackedReached, Tables
    <3>2. ReachIn(n, t[i]) = {w \in TrackedIn(ad) : HashIndex[ad[w]] = i}
      BY <3>1, ChainIs
    <3>3. \A w \in ReachIn(n, t[i]) : m[w] = n[w]
      BY <3>2, <2>1, <1>1, <1>3, <1>5
    <3> QED
      BY <3>1, <3>3, <1>5, ReachFrame
  <2>2. (TrackedIn(ad) \cap {w \in Unit : HashIndex[ad[w]] = h}) \ {u}
          \subseteq ReachIn(m, t[h])
    <3> DEFINE A == ReachIn(n, t[h])
               B == ReachIn(m, t[h])
    <3>1. t[h] \in Unit \cup {NULL}
      BY <1>1 DEF Tables
    <3>2. A = {w \in TrackedIn(ad) : HashIndex[ad[w]] = h}
      BY <1>1, ChainIs
    <3>3. B \in SUBSET Unit /\ Closed(m, t[h], B)
      BY <3>1, <1>5, ReachClosed
    <3>4. b \in B
      <4>1. SUFFICES ASSUME b \notin B PROVE FALSE
        OBVIOUS
      <4>2. Closed(n, t[h], B)
        BY <3>3, <4>1, <1>5 DEF Closed
      <4>3. A \subseteq B
        BY <3>3, <4>2, ReachLeast
      <4> QED
        BY <4>1, <4>3, <3>2, <1>3
    <3>5. B \cup {u} \in SUBSET Unit /\ Closed(n, t[h], B \cup {u})
      <4>1. ASSUME NEW w \in B \cup {u}, n[w] # NULL PROVE n[w] \in B \cup {u}
        <5>1. CASE w = u
          BY <5>1, <4>1, <3>3, <3>4, <1>5 DEF Closed
        <5>2. CASE w = b
          BY <5>2, <1>3
        <5>3. CASE w # u /\ w # b
          BY <5>3, <4>1, <3>3, <1>5 DEF Closed
        <5> QED
          BY <5>1, <5>2, <5>3
      <4> QED
        BY <4>1, <3>3, <1>1 DEF Closed
    <3>6. A \subseteq B \cup {u}
      BY <3>5, ReachLeast
    <3> QED
      BY <3>2, <3>6
  <2>3. ASSUME NEW v \in TrackedIn(ad) \ {u}
        PROVE  v \in ReachIn(m, t[HashIndex[ad[v]]])
    BY <2>1, <2>2, <1>1
  <2> QED
    BY <2>3, <1>2 DEF TrackedReached
<1> QED
  BY <1>1, <1>3, <1>6, <1>7, <1>8, <1>9 DEF TableOK, bd, m, q, b

(* Both, as the code does it; links of units that are not tracked stay. *)
LEMMA Unlinked ==
  ASSUME TypeOK, TableOK(hashTable, next, prev, reportedAddress), NEW u \in Tracked
  PROVE  LET a == reportedAddress[u]
         IN  /\ TableWithout(u, a) \in Tables
             /\ NextWithout(u, a) \in Links
             /\ PrevWithout(u, a) \in Links
             /\ TableOK(TableWithout(u, a), NextWithout(u, a), PrevWithout(u, a),
                        [reportedAddress EXCEPT ![u] = NULL])
             /\ \A w \in Unit \ Tracked : NextWithout(u, a)[w] = next[w]
<1> DEFINE a == reportedAddress[u]
           h == HashIndex[a]
<1>1. /\ hashTable \in Tables /\ next \in Links /\ prev \in Links
      /\ reportedAddress \in Addresses /\ u \in TrackedIn(reportedAddress)
      /\ u \in Unit /\ next[u] \in Unit \cup {NULL}
      /\ TrackedIn(reportedAddress) = Tracked
  BY DEF TypeOK, Tables, Links, Addresses, Tracked, TrackedIn
<1>2. CASE hashTable[h] = u
  <2>1. /\ TableWithout(u, a) = [hashTable EXCEPT ![h] = next[u]]
        /\ NextWithout(u, a) = next /\ PrevWithout(u, a) = prev
    BY <1>2 DEF TableWithout, NextWithout, PrevWithout
  <2>2. TableOK([hashTable EXCEPT ![h] = next[u]], next, prev,
                [reportedAddress EXCEPT ![u] = NULL])
    BY <1>1, <1>2, UnlinkedHead
  <2>3. [hashTable EXCEPT ![h] = next[u]] \in Tables
    BY <1>1 DEF Tables
  <2> QED
    BY <1>1, <2>1, <2>2, <2>3
<1>3. CASE hashTable[h] # u
  <2> DEFINE m == [next EXCEPT ![prev[u]] = next[u]]
             q == IF next[u] # NULL THEN [prev EXCEPT ![next[u]] = prev[u]] ELSE prev
  <2>1. /\ prev[u] \in Unit
        /\ TableOK(hashTable, m, q, [reportedAddress EXCEPT ![u] = NULL])
    BY <1>1, <1>3, UnlinkedBehind
  <2>2. prev[u] \in Tracked
    BY <1>1, <1>3 DEF TableOK, PrevPointsForth
  <2>3. TableWithout(u, a) = hashTable /\ NextWithout(u, a) = m /\ PrevWithout(u, a) = q
    BY <1>3, <2>1, MemoryAssumption DEF TableWithout, NextWithout, PrevWithout
  <2>4. m \in Links /\ q \in Links /\ \A w \in Unit \ Tracked : m[w] = next[w]
    BY <1>1, <2>1, <2>2 DEF Links
  <2> QED
    BY <1>1, <2>1, <2>3, <2>4
<1> QED
  BY <1>2, <1>3

(* findAllocUnit finds the one unit that tracks the address. *)
LEMMA Found ==
  ASSUME TypeOK, TableOK(hashTable, next, prev, reportedAddress), HeapTracked,
         NEW a \in Addr
  PROVE  /\ a \in heap => /\ findAllocUnit(a) \in Tracked
                          /\ reportedAddress[findAllocUnit(a)] = a
         /\ a \notin heap => findAllocUnit(a) = NULL
<1> DEFINE found == {u \in Unit : reportedAddress[u] = a /\ u \in Chain(HashIndex[a])}
<1>1. /\ hashTable \in Tables /\ next \in Links /\ prev \in Links
      /\ reportedAddress \in Addresses /\ TrackedIn(reportedAddress) = Tracked
      /\ HashIndex[a] \in Index /\ a # NULL
  BY MemoryAssumption DEF TypeOK, Tables, Links, Addresses, Tracked, TrackedIn
<1>2. Chain(HashIndex[a])
        = {u \in Tracked : HashIndex[reportedAddress[u]] = HashIndex[a]}
  BY <1>1, ChainIs, ReachIs DEF Chain
<1>3. found = {u \in Tracked : reportedAddress[u] = a}
  BY <1>1, <1>2 DEF Tracked
<1>4. findAllocUnit(a) = IF found = {} THEN NULL ELSE CHOOSE u \in found : TRUE
  BY DEF findAllocUnit
<1>5. a \in heap <=> found # {}
  BY <1>3 DEF HeapTracked
<1> HIDE DEF found
<1>6. found # {} => findAllocUnit(a) \in found
  BY <1>4
<1> QED
  BY <1>3, <1>4, <1>5, <1>6

(* It finds the unit of each address that is tracked. *)
LEMMA FoundIs ==
  ASSUME TypeOK, TableOK(hashTable, next, prev, reportedAddress), HeapTracked,
         NEW u \in Tracked
  PROVE  /\ reportedAddress[u] \in Addr /\ reportedAddress[u] \in heap
         /\ findAllocUnit(reportedAddress[u]) = u
<1>1. reportedAddress[u] \in Addr /\ reportedAddress[u] \in heap
  BY DEF TypeOK, Tracked, HeapTracked
<1> QED
  BY <1>1, Found DEF HeapTracked
-----------------------------------------------------------------------------
(* Remainders modulo StatMod, about which the provers know little when the
   divisor is not a number. *)

(* x is r more than StatMod times q. *)
Leaves(x, q, r) == q \in Int /\ r \in 0..StatMod - 1 /\ x = StatMod * q + r

LEMMA Divided == \A x \in Int : x = (x % StatMod) + StatMod * (x \div StatMod)
  BY MemoryAssumption, SMTT(30)

(* What the remainder is. *)
LEMMA Division == ASSUME NEW x \in Int PROVE Leaves(x, x \div StatMod, x % StatMod)
<1>1. x \div StatMod \in Int /\ x % StatMod \in 0..StatMod - 1
  BY MemoryAssumption
<1>2. x = (x % StatMod) + StatMod * (x \div StatMod)
  BY Divided
<1>3. PICK q \in Int, r \in 0..StatMod - 1 : q = x \div StatMod /\ r = x % StatMod
  BY <1>1
<1>4. x = r + StatMod * q
  BY <1>2, <1>3
<1>5. StatMod * q \in Int
  BY MemoryAssumption
<1>6. Leaves(x, q, r)
  BY <1>4, <1>5 DEF Leaves
<1> QED
  BY <1>3, <1>6

(* Multiples of StatMod are StatMod apart. *)
LEMMA Multiples ==
  ASSUME NEW p \in Int, NEW q \in Int, p < q
  PROVE  StatMod * p \in Int /\ StatMod * q \in Int /\ StatMod * p + StatMod <= StatMod * q
<1>1. PICK k \in Nat : k = q - p - 1
  OBVIOUS
<1>2. StatMod * p \in Int /\ StatMod * k \in Nat
  BY MemoryAssumption
<1>3. StatMod * q = StatMod * p + StatMod + StatMod * k
  BY <1>1, MemoryAssumption
<1> QED
  BY <1>2, <1>3, MemoryAssumption

(* The remainder is the only one. *)
LEMMA OneRemainder ==
  ASSUME NEW x, NEW p, NEW q, NEW r, NEW s, Leaves(x, p, r), Leaves(x, q, s)
  PROVE  r = s
<1>0. /\ p \in Int /\ q \in Int /\ r \in 0..StatMod - 1 /\ s \in 0..StatMod - 1
      /\ StatMod * p + r = StatMod * q + s
  BY DEF Leaves
<1>1. StatMod * p \in Int /\ StatMod * q \in Int /\ StatMod \in Nat
  BY <1>0, MemoryAssumption
<1>2. CASE p < q
  <2>1. StatMod * p + StatMod <= StatMod * q
    BY <1>0, <1>2, Multiples
  <2> QED
    BY <1>0, <1>1, <2>1
<1>3. CASE q < p
  <2>1. StatMod * q + StatMod <= StatMod * p
    BY <1>0, <1>3, Multiples
  <2> QED
    BY <1>0, <1>1, <2>1
<1>4. CASE p = q
  BY <1>0, <1>1, <1>4
<1> QED
  BY <1>0, <1>2, <1>3, <1>4

(* Numbers that differ by a multiple of StatMod leave the same. *)
LEMMA SameRemainder ==
  ASSUME NEW x \in Int, NEW y \in Int, NEW q \in Int, x = y + StatMod * q
  PROVE  x % StatMod = y % StatMod
<1>1. PICK d, r : Leaves(y, d, r) /\ r = y % StatMod
  BY Division
<1>2. Leaves(x, d + q, r)
  <2>1. d \in Int /\ r \in Int
    BY <1>1 DEF Leaves
  <2>2. StatMod * (d + q) = StatMod * d + StatMod * q
    BY <2>1, MemoryAssumption
  <2>3. StatMod * d \in Int /\ StatMod * q \in Int
    BY <2>1, MemoryAssumption
  <2>4. y = StatMod * d + r
    BY <1>1 DEF Leaves
  <2>5. x = StatMod * (d + q) + r
    BY <2>1, <2>2, <2>3, <2>4
  <2> QED
    BY <1>1, <2>1, <2>5 DEF Leaves
<1>3. Leaves(x, x \div StatMod, x % StatMod)
  BY Division
<1> QED
  BY <1>1, <1>2, <1>3, OneRemainder

(* A counter that was cut counts on as if it had not been, *)
LEMMA RemainderOfSum ==
  ASSUME NEW x \in Int, NEW n \in Int
  PROVE  ((x % StatMod) + n) % StatMod = (x + n) % StatMod
<1>1. PICK q \in Int, r \in Int : Leaves(x, q, r) /\ r = x % StatMod
  BY Division DEF Leaves
<1>2. x + n = (r + n) + StatMod * q
  <2>1. StatMod * q \in Int
    BY MemoryAssumption
  <2>2. x = StatMod * q + r
    BY <1>1 DEF Leaves
  <2> QED
    BY <2>1, <2>2
<1>3. (x + n) % StatMod = (r + n) % StatMod
  BY <1>2, SameRemainder
<1> QED
  BY <1>1, <1>3

(* and so does a product of it. *)
LEMMA RemainderOfProduct ==
  ASSUME NEW x \in Int, NEW n \in Int, NEW y \in Int
  PROVE  (n + x * (y % StatMod)) % StatMod = (n + x * y) % StatMod
<1>1. PICK q \in Int, r \in Int : Leaves(y, q, r) /\ r = y % StatMod
  BY Division DEF Leaves
<1>2. x * q \in Int /\ x * r \in Int /\ x * y \in Int
  OBVIOUS
<1>3. StatMod * (x * q) \in Int
  BY <1>2, MemoryAssumption
<1>4. x * y = StatMod * (x * q) + x * r
  <2>1. y = StatMod * q + r
    BY <1>1 DEF Leaves
  <2>2. x * (StatMod * q + r) = StatMod * (x * q) + x * r
    BY MemoryAssumption
  <2> QED
    BY <2>1, <2>2
<1>5. n + x * y = (n + x * r) + StatMod * (x * q)
  BY <1>2, <1>3, <1>4
<1>6. (n + x * y) % StatMod = (n + x * r) % StatMod
  BY <1>2, <1>5, SameRemainder
<1> QED
  BY <1>1, <1>6
-----------------------------------------------------------------------------
(* The statistics. *)

LEMMA Remainder == \A x \in Int : x % StatMod \in Nat
  BY MemoryAssumption

LEMMA PeaksTyped == ASSUME NEW s \in sMStats
                    PROVE  /\ WithPeaks(s) \in sMStats
                           /\ WithPeaks(s).totalAllocUnitCount = s.totalAllocUnitCount
  BY DEF WithPeaks, Larger, sMStats

(* The statistics s are those of k units of b bytes. *)
Exact(s, b, k) ==
  /\ s.totalReportedMemory = b % StatMod
  /\ s.totalActualMemory = (b + Padding * k) % StatMod
  /\ s.accumulatedActualMemory
       = (s.accumulatedReportedMemory
            + Padding * s.accumulatedAllocUnitCount) % StatMod

LEMMA PeaksExact ==
  ASSUME NEW s \in sMStats, NEW b, NEW k, Exact(s, b, k)
  PROVE  Exact(WithPeaks(s), b, k)
  BY DEF WithPeaks, Larger, sMStats, Exact

(* Bytes and units with their padding, when d bytes and e units are added. *)
LEMMA PaddedSum ==
  ASSUME NEW b \in Int, NEW k \in Int, NEW d \in Int, NEW e \in Int
  PROVE  (((b + Padding * k) % StatMod) + (d + Padding * e)) % StatMod
           = ((b + d) + Padding * (k + e)) % StatMod
<1>1. Padding * k \in Int /\ Padding * e \in Int
  BY MemoryAssumption
<1>2. PICK x \in Int, y \in Int : x = b + Padding * k /\ y = d + Padding * e
  BY <1>1
<1>3. ((x % StatMod) + y) % StatMod = (x + y) % StatMod
  BY RemainderOfSum
<1>4. Padding * (k + e) = Padding * k + Padding * e
  BY MemoryAssumption
<1>5. x + y = (b + d) + Padding * (k + e)
  BY <1>1, <1>2, <1>4
<1> QED
  BY <1>2, <1>3, <1>5

(* No unit is added. *)
LEMMA PaddedBytes ==
  ASSUME NEW b \in Int, NEW k \in Int, NEW d \in Int
  PROVE  (((b + Padding * k) % StatMod) + d) % StatMod
           = ((b + d) + Padding * k) % StatMod
<1>1. d + Padding * 0 = d /\ k + 0 = k
  BY MemoryAssumption
<1> QED
  BY <1>1, PaddedSum

(* What the accumulated memory is when g bytes are handed out, with an
   allocation and without. *)
LEMMA AccumulatedMore ==
  ASSUME NEW s \in sMStats, NEW b, NEW k, Exact(s, b, k), NEW g \in Nat
  PROVE  /\ (s.accumulatedActualMemory + (g + Padding * 1)) % StatMod
              = (((s.accumulatedReportedMemory + g) % StatMod)
                   + Padding * ((s.accumulatedAllocUnitCount + 1) % StatMod)) % StatMod
         /\ (s.accumulatedActualMemory + g) % StatMod
              = (((s.accumulatedReportedMemory + g) % StatMod)
                   + Padding * s.accumulatedAllocUnitCount) % StatMod
<1>1. PICK r \in Nat, c \in Nat :
        r = s.accumulatedReportedMemory /\ c = s.accumulatedAllocUnitCount
  BY DEF sMStats
<1>2. s.accumulatedActualMemory = (r + Padding * c) % StatMod
  BY <1>1 DEF Exact
<1>3. PICK e \in Nat : e = (c + 1) % StatMod
  BY Remainder
<1>4. Padding * c \in Int /\ Padding * e \in Int /\ Padding \in Int
  BY MemoryAssumption
<1>5. (s.accumulatedActualMemory + (g + Padding * 1)) % StatMod
        = (((r + g) % StatMod) + Padding * e) % StatMod
  <2>1. (((r + Padding * c) % StatMod) + (g + Padding * 1)) % StatMod
          = ((r + g) + Padding * (c + 1)) % StatMod
    BY PaddedSum
  <2>2. ((r + g) + Padding * e) % StatMod = ((r + g) + Padding * (c + 1)) % StatMod
    BY <1>3, <1>4, RemainderOfProduct
  <2>3. (((r + g) % StatMod) + Padding * e) % StatMod = ((r + g) + Padding * e) % StatMod
    BY <1>4, RemainderOfSum
  <2> QED
    BY <1>2, <2>1, <2>2, <2>3
<1>6. (s.accumulatedActualMemory + g) % StatMod
        = (((r + g) % StatMod) + Padding * c) % StatMod
  <2>1. (((r + Padding * c) % StatMod) + g) % StatMod = ((r + g) + Padding * c) % StatMod
    BY PaddedBytes
  <2>2. (((r + g) % StatMod) + Padding * c) % StatMod = ((r + g) + Padding * c) % StatMod
    BY <1>4, RemainderOfSum
  <2> QED
    BY <1>2, <2>1, <2>2
<1> QED
  BY <1>1, <1>3, <1>5, <1>6

LEMMA AllocationCounted ==
  ASSUME stats \in sMStats, NEW n \in Size, AccountAllocation(n)
  PROVE  /\ stats' \in sMStats
         /\ stats'.totalAllocUnitCount = stats.totalAllocUnitCount + 1
         /\ \A b, k \in Nat : Exact(stats, b, k) => Exact(stats', b + n, k + 1)
<1> DEFINE s == [stats EXCEPT
       !.totalReportedMemory       = (@ + n) % StatMod,
       !.totalActualMemory         = (@ + calculateActualSize(n)) % StatMod,
       !.totalAllocUnitCount       = @ + 1,
       !.accumulatedReportedMemory = (@ + n) % StatMod,
       !.accumulatedActualMemory   = (@ + calculateActualSize(n)) % StatMod,
       !.accumulatedAllocUnitCount = (@ + 1) % StatMod]
<1>1. n \in Nat /\ calculateActualSize(n) \in Nat
  BY MemoryAssumption DEF calculateActualSize
<1>2. /\ (stats.totalReportedMemory + n) % StatMod \in Nat
      /\ (stats.totalActualMemory + calculateActualSize(n)) % StatMod \in Nat
      /\ (stats.accumulatedReportedMemory + n) % StatMod \in Nat
      /\ (stats.accumulatedActualMemory + calculateActualSize(n)) % StatMod \in Nat
      /\ (stats.accumulatedAllocUnitCount + 1) % StatMod \in Nat
  BY <1>1, Remainder DEF sMStats
<1>3. s.totalAllocUnitCount = stats.totalAllocUnitCount + 1
  BY DEF sMStats
<1>4. stats.totalAllocUnitCount + 1 \in Nat
  BY DEF sMStats
<1>5. s \in sMStats
  BY <1>2, <1>4, Zenon DEF sMStats
<1>6. stats' = WithPeaks(s)
  BY DEF AccountAllocation
<1>7. /\ s.totalReportedMemory = (stats.totalReportedMemory + n) % StatMod
      /\ s.totalActualMemory = (stats.totalActualMemory + calculateActualSize(n)) % StatMod
      /\ s.accumulatedReportedMemory = (stats.accumulatedReportedMemory + n) % StatMod
      /\ s.accumulatedActualMemory
           = (stats.accumulatedActualMemory + calculateActualSize(n)) % StatMod
      /\ s.accumulatedAllocUnitCount = (stats.accumulatedAllocUnitCount + 1) % StatMod
  BY DEF sMStats
<1> HIDE DEF s
<1>8. ASSUME NEW b \in Nat, NEW k \in Nat, Exact(stats, b, k)
      PROVE  Exact(s, b + n, k + 1)
  <2>1. calculateActualSize(n) = n + Padding * 1
    BY MemoryAssumption DEF calculateActualSize
  <2>2. s.totalReportedMemory = (b + n) % StatMod
    BY <1>1, <1>7, <1>8, RemainderOfSum DEF Exact
  <2>3. s.totalActualMemory = ((b + n) + Padding * (k + 1)) % StatMod
    <3>1. (((b + Padding * k) % StatMod) + (n + Padding * 1)) % StatMod
            = ((b + n) + Padding * (k + 1)) % StatMod
      BY <1>1, PaddedSum
    <3> QED
      BY <1>7, <1>8, <2>1, <3>1 DEF Exact
  <2>4. s.accumulatedActualMemory
          = (s.accumulatedReportedMemory
               + Padding * s.accumulatedAllocUnitCount) % StatMod
    BY <1>1, <1>7, <1>8, <2>1, AccumulatedMore
  <2> QED
    BY <2>2, <2>3, <2>4 DEF Exact
<1> QED
  BY <1>3, <1>5, <1>6, <1>8, PeaksTyped, PeaksExact

LEMMA ReallocationCounted ==
  ASSUME stats \in sMStats, NEW m \in Nat, NEW n \in Size, AccountReallocation(m, n)
  PROVE  /\ stats' \in sMStats
         /\ stats'.totalAllocUnitCount = stats.totalAllocUnitCount
         /\ \A b, k \in Nat : Exact(stats, m + b, k) => Exact(stats', n + b, k)
<1> DEFINE s == [stats EXCEPT
       !.totalReportedMemory       = (@ - m + n) % StatMod,
       !.totalActualMemory         = (@ - calculateActualSize(m)
                                        + calculateActualSize(n)) % StatMod,
       !.accumulatedReportedMemory = (@ + Growth(m, n)) % StatMod,
       !.accumulatedActualMemory   = (@ + Growth(m, n)) % StatMod]
<1>1. /\ n \in Nat /\ calculateActualSize(n) \in Nat /\ calculateActualSize(m) \in Nat
      /\ Growth(m, n) \in Nat
  <2>1. n \in Nat /\ calculateActualSize(n) \in Nat /\ calculateActualSize(m) \in Nat
    BY MemoryAssumption DEF calculateActualSize
  <2>2. (n - m) % StatMod \in Nat
    BY <2>1, Remainder
  <2> QED
    BY <2>1, <2>2 DEF Growth
<1>2. /\ (stats.totalReportedMemory - m + n) % StatMod \in Nat
      /\ (stats.totalActualMemory - calculateActualSize(m)
            + calculateActualSize(n)) % StatMod \in Nat
      /\ (stats.accumulatedReportedMemory + Growth(m, n)) % StatMod \in Nat
      /\ (stats.accumulatedActualMemory + Growth(m, n)) % StatMod \in Nat
  BY <1>1, Remainder DEF sMStats
<1>3. s \in sMStats /\ s.totalAllocUnitCount = stats.totalAllocUnitCount
  BY <1>2 DEF sMStats
<1>4. stats' = WithPeaks(s)
  BY DEF AccountReallocation
<1>5. /\ s.totalReportedMemory = (stats.totalReportedMemory - m + n) % StatMod
      /\ s.totalActualMemory = (stats.totalActualMemory - calculateActualSize(m)
                                  + calculateActualSize(n)) % StatMod
      /\ s.accumulatedReportedMemory
           = (stats.accumulatedReportedMemory + Growth(m, n)) % StatMod
      /\ s.accumulatedActualMemory
           = (stats.accumulatedActualMemory + Growth(m, n)) % StatMod
      /\ s.accumulatedAllocUnitCount = stats.accumulatedAllocUnitCount
  BY DEF sMStats
<1> HIDE DEF s
<1>6. ASSUME NEW b \in Nat, NEW k \in Nat, Exact(stats, m + b, k)
      PROVE  Exact(s, n + b, k)
  <2>1. PICK d \in Int : d = n - m
    BY <1>1
  <2>2. /\ stats.totalReportedMemory - m + n = stats.totalReportedMemory + d
        /\ stats.totalActualMemory - calculateActualSize(m) + calculateActualSize(n)
             = stats.totalActualMemory + d
        /\ (m + b) + d = n + b
    BY <1>1, <2>1, MemoryAssumption DEF calculateActualSize, sMStats
  <2>3. s.totalReportedMemory = (n + b) % StatMod
    BY <1>5, <1>6, <2>2, RemainderOfSum DEF Exact
  <2>4. s.totalActualMemory = ((n + b) + Padding * k) % StatMod
    <3>1. ((((m + b) + Padding * k) % StatMod) + d) % StatMod
            = (((m + b) + d) + Padding * k) % StatMod
      BY PaddedBytes
    <3> QED
      BY <1>5, <1>6, <2>2, <3>1 DEF Exact
  <2>5. s.accumulatedActualMemory
          = (s.accumulatedReportedMemory
               + Padding * s.accumulatedAllocUnitCount) % StatMod
    BY <1>1, <1>5, <1>6, AccumulatedMore
  <2> QED
    BY <2>3, <2>4, <2>5 DEF Exact
<1> QED
  BY <1>3, <1>4, <1>6, PeaksTyped, PeaksExact

LEMMA DeallocationCounted ==
  ASSUME stats \in sMStats, NEW n \in Nat, stats.totalAllocUnitCount > 0,
         AccountDeallocation(n)
  PROVE  /\ stats' \in sMStats
         /\ stats'.totalAllocUnitCount = stats.totalAllocUnitCount - 1
         /\ \A b, k \in Nat : Exact(stats, n + b, k + 1) => Exact(stats', b, k)
<1>1. calculateActualSize(n) \in Nat
  BY MemoryAssumption DEF calculateActualSize
<1>2. /\ (stats.totalReportedMemory - n) % StatMod \in Nat
      /\ (stats.totalActualMemory - calculateActualSize(n)) % StatMod \in Nat
  BY <1>1, Remainder DEF sMStats
<1>3. /\ stats.totalAllocUnitCount - 1 \in Nat
      /\ stats'.totalAllocUnitCount = stats.totalAllocUnitCount - 1
  BY DEF AccountDeallocation, sMStats
<1>4. stats' \in sMStats
  BY <1>2, <1>3 DEF AccountDeallocation, sMStats
<1>5. ASSUME NEW b \in Nat, NEW k \in Nat, Exact(stats, n + b, k + 1)
      PROVE  Exact(stats', b, k)
  <2>1. /\ stats'.totalReportedMemory = (stats.totalReportedMemory + (-n)) % StatMod
        /\ stats'.totalActualMemory
             = (stats.totalActualMemory + (-n + Padding * (-1))) % StatMod
        /\ stats'.accumulatedReportedMemory = stats.accumulatedReportedMemory
        /\ stats'.accumulatedActualMemory = stats.accumulatedActualMemory
        /\ stats'.accumulatedAllocUnitCount = stats.accumulatedAllocUnitCount
    <3>1. /\ stats.totalReportedMemory - n = stats.totalReportedMemory + (-n)
          /\ stats.totalActualMemory - calculateActualSize(n)
               = stats.totalActualMemory + (-n + Padding * (-1))
      BY MemoryAssumption DEF calculateActualSize, sMStats
    <3> QED
      BY <3>1 DEF AccountDeallocation, sMStats
  <2>2. (n + b) + (-n) = b /\ (k + 1) + (-1) = k
    OBVIOUS
  <2>3. stats'.totalReportedMemory = b % StatMod
    BY <1>5, <2>1, <2>2, RemainderOfSum DEF Exact
  <2>4. stats'.totalActualMemory = (b + Padding * k) % StatMod
    <3>1. ((((n + b) + Padding * (k + 1)) % StatMod) + (-n + Padding * (-1))) % StatMod
            = (((n + b) + (-n)) + Padding * ((k + 1) + (-1))) % StatMod
      BY PaddedSum
    <3> QED
      BY <1>5, <2>1, <2>2, <3>1 DEF Exact
  <2> QED
    BY <1>5, <2>1, <2>3, <2>4 DEF Exact
<1> QED
  BY <1>3, <1>4, <1>5

LEMMA UnitsFinite == IsFiniteSet(Unit) /\ \A S \in SUBSET Unit : IsFiniteSet(S)
<1>1. IsFiniteSet(0..(BlockSize - 1))
  BY MemoryAssumption, FS_Interval
<1>2. IsFiniteSet(Unit)
  BY <1>1, MemoryAssumption, FS_Product DEF Unit
<1> QED
  BY <1>2, FS_Subset
-----------------------------------------------------------------------------
(* Sums over sets of units.  SumFunctionOnSet is a function that is defined by
   recursion over subsets; what it computes is shown from the smallest set of
   units for which it would compute something else. *)

LEMMA OneLess ==
  ASSUME NEW S \in SUBSET Unit, NEW u \in S
  PROVE  /\ Cardinality(S) \in Nat /\ S \ {u} \in SUBSET Unit
         /\ Cardinality(S \ {u}) = Cardinality(S) - 1
  BY UnitsFinite, FS_CardinalityType, FS_RemoveElement

(* Sets of units have a smallest counterexample. *)
LEMMA Smallest ==
  ASSUME NEW B \in SUBSET (SUBSET Unit), B # {}
  PROVE  \E S \in B : \A u \in S : S \ {u} \notin B
<1> DEFINE T == {Cardinality(S) : S \in B}
<1>1. T \in SUBSET Nat /\ T # {}
  BY UnitsFinite, FS_CardinalityType
<1>2. PICK n \in T : \A m \in T : n <= m
  <2> HIDE DEF T
  <2> QED
    BY <1>1, LeastNumber
<1>3. PICK S \in B : Cardinality(S) = n
  BY <1>2
<1>4. ASSUME NEW u \in S, S \ {u} \in B PROVE FALSE
  <2>1. Cardinality(S \ {u}) \in T
    BY <1>4
  <2>2. n <= n - 1 /\ n \in Nat
    BY <1>1, <1>2, <1>3, <2>1, OneLess
  <2> QED
    BY <2>2
<1> QED
  BY <1>4

Picked(S) == CHOOSE u \in S : TRUE

(* g is the sum of f over each set of D: what one unit of it adds to the sum
   over the others. *)
Sums(g, f, D) ==
  g = [S \in D |-> IF S = {} THEN 0 ELSE f[Picked(S)] + g[S \ {Picked(S)}]]

(* SumFunctionOnSet is taken from such a function, if there is one. *)
LEMMA SumIs ==
  \A f, S : SumFunctionOnSet(f, S) = (CHOOSE g : Sums(g, f, SUBSET S))[S]
  BY DEF SumFunctionOnSet, FoldFunctionOnSet, MapThenFoldSet, Sums, Picked

(* There is such a function on the sets of up to n units, for each n: one on
   those of up to n - 1 units gives one on those of n. *)
LEMMA SumsExist == \A f : \E g : Sums(g, f, SUBSET Unit)
<1> TAKE f
<1> DEFINE UpTo(n) == {S \in SUBSET Unit : Cardinality(S) <= n}
           B == {n \in Nat : ~ \E g : Sums(g, f, UpTo(n))}
<1>1. B = {}
  <2> SUFFICES ASSUME B # {} PROVE FALSE
    OBVIOUS
  <2>1. PICK n \in B : \A m \in B : n <= m
    <3>1. B \in SUBSET Nat
      OBVIOUS
    <3> HIDE DEF B
    <3> QED
      BY <3>1, LeastNumber
  <2>2. CASE n = 0
    <3> DEFINE g == [S \in UpTo(0) |-> 0]
    <3>1. \A S \in UpTo(0) : S = {}
      BY UnitsFinite, FS_CardinalityType, FS_EmptySet
    <3>2. Sums(g, f, UpTo(0))
      BY <3>1 DEF Sums
    <3> QED
      BY <2>1, <2>2, <3>2
  <2>3. CASE n # 0
    <3>1. n \in Nat /\ n - 1 \in Nat
      BY <2>1, <2>3
    <3>0. n - 1 \notin B
      <4> HIDE DEF B
      <4> QED
        BY <2>1, <3>1
    <3>2. PICK h : Sums(h, f, UpTo(n - 1))
      BY <3>1, <3>0
    <3> DEFINE g == [S \in UpTo(n) |-> IF S = {} THEN 0
                                       ELSE f[Picked(S)] + h[S \ {Picked(S)}]]
    <3>3. ASSUME NEW S \in UpTo(n), S # {}
          PROVE  S \ {Picked(S)} \in UpTo(n - 1)
      <4>1. Picked(S) \in S
        BY <3>3 DEF Picked
      <4> QED
        BY <3>1, <4>1, OneLess
    <3>4. UpTo(n - 1) \subseteq UpTo(n)
      BY <3>1, UnitsFinite, FS_CardinalityType
    <3>5. ASSUME NEW S \in UpTo(n - 1) PROVE g[S] = h[S]
      <4>1. h[S] = IF S = {} THEN 0 ELSE f[Picked(S)] + h[S \ {Picked(S)}]
        <5>1. h = [R \in UpTo(n - 1) |->
                     IF R = {} THEN 0 ELSE f[Picked(R)] + h[R \ {Picked(R)}]]
          BY <3>2 DEF Sums
        <5> HIDE DEF UpTo
        <5> QED
          BY <5>1
      <4> QED
        BY <3>4, <4>1
    <3>6. \A S \in UpTo(n) : S # {} => g[S \ {Picked(S)}] = h[S \ {Picked(S)}]
      BY <3>3, <3>5
    <3>7. Sums(g, f, UpTo(n))
      <4> HIDE DEF UpTo
      <4> QED
        BY <3>6 DEF Sums
    <3> QED
      BY <2>1, <3>7
  <2> QED
    BY <2>2, <2>3
<1>2. Cardinality(Unit) \in Nat /\ UpTo(Cardinality(Unit)) = SUBSET Unit
  BY UnitsFinite, FS_Subset, FS_CardinalityType
<1> QED
  BY <1>1, <1>2

(* It has its value at each set. *)
LEMMA SumsOn ==
  ASSUME NEW g, NEW f, NEW D, Sums(g, f, D), NEW S \in D
  PROVE  g[S] = IF S = {} THEN 0 ELSE f[Picked(S)] + g[S \ {Picked(S)}]
<1>1. g = [R \in D |-> IF R = {} THEN 0 ELSE f[Picked(R)] + g[R \ {Picked(R)}]]
  BY DEF Sums
<1> QED
  BY <1>1

(* There is no other. *)
LEMMA SumsAgree ==
  ASSUME NEW g, NEW h, NEW f, NEW V \in SUBSET Unit,
         Sums(g, f, SUBSET Unit), Sums(h, f, SUBSET V)
  PROVE  h[V] = g[V]
<1> DEFINE B == {S \in SUBSET V : h[S] # g[S]}
<1>1. B = {}
  <2> SUFFICES ASSUME B # {} PROVE FALSE
    OBVIOUS
  <2>1. B \in SUBSET (SUBSET Unit)
    OBVIOUS
  <2>2. PICK S \in B : \A u \in S : S \ {u} \notin B
    <3> HIDE DEF B
    <3> QED
      BY <2>1, Smallest
  <2>3. /\ g[S] = IF S = {} THEN 0 ELSE f[Picked(S)] + g[S \ {Picked(S)}]
        /\ h[S] = IF S = {} THEN 0 ELSE f[Picked(S)] + h[S \ {Picked(S)}]
    BY <2>1, SumsOn
  <2>4. S # {} => Picked(S) \in S
    BY DEF Picked
  <2>5. S # {} => h[S \ {Picked(S)}] = g[S \ {Picked(S)}]
    BY <2>2, <2>4
  <2> QED
    BY <2>2, <2>3, <2>5
<1> QED
  BY <1>1

(* The sum over a set of units, by its parts. *)
LEMMA SumUnfolds ==
  ASSUME NEW f, NEW S \in SUBSET Unit
  PROVE  SumFunctionOnSet(f, S) =
           IF S = {} THEN 0
           ELSE f[Picked(S)] + SumFunctionOnSet(f, S \ {Picked(S)})
<1>1. PICK g : Sums(g, f, SUBSET Unit)
  BY SumsExist
<1>2. ASSUME NEW R \in SUBSET Unit PROVE SumFunctionOnSet(f, R) = g[R]
  <2> DEFINE h == [T \in SUBSET R |-> g[T]]
             k == CHOOSE e : Sums(e, f, SUBSET R)
  <2>1. ASSUME NEW T \in SUBSET R
        PROVE  g[T] = IF T = {} THEN 0 ELSE f[Picked(T)] + h[T \ {Picked(T)}]
    <3>1. T \in SUBSET Unit /\ T \ {Picked(T)} \in SUBSET R
      OBVIOUS
    <3>2. h[T \ {Picked(T)}] = g[T \ {Picked(T)}]
      BY <3>1
    <3>3. g[T] = IF T = {} THEN 0 ELSE f[Picked(T)] + g[T \ {Picked(T)}]
      BY <1>1, <3>1, SumsOn
    <3> QED
      BY <3>2, <3>3
  <2>2. Sums(h, f, SUBSET R)
    BY <2>1 DEF Sums
  <2>3. Sums(k, f, SUBSET R)
    BY <2>2
  <2>4. k[R] = g[R]
    <3> HIDE DEF k
    <3> QED
      BY <1>1, <2>3, SumsAgree
  <2> QED
    BY <2>4, SumIs
<1> QED
  BY <1>1, <1>2, SumsOn

LEMMA SumEmpty == \A f : SumFunctionOnSet(f, {}) = 0
  BY SumUnfolds

(* A sum of sizes is a number. *)
LEMMA SumTyped ==
  ASSUME NEW f \in [Unit -> Nat], NEW S \in SUBSET Unit
  PROVE  SumFunctionOnSet(f, S) \in Nat
<1> DEFINE B == {R \in SUBSET Unit : SumFunctionOnSet(f, R) \notin Nat}
<1>1. B = {}
  <2> SUFFICES ASSUME B # {} PROVE FALSE
    OBVIOUS
  <2>1. B \in SUBSET (SUBSET Unit)
    OBVIOUS
  <2>2. PICK R \in B : \A u \in R : R \ {u} \notin B
    <3> HIDE DEF B
    <3> QED
      BY <2>1, Smallest
  <2>3. CASE R = {}
    BY <2>2, <2>3, SumEmpty
  <2>4. CASE R # {}
    <3>1. Picked(R) \in R
      BY <2>4 DEF Picked
    <3>2. SumFunctionOnSet(f, R \ {Picked(R)}) \in Nat /\ f[Picked(R)] \in Nat
      BY <2>2, <3>1
    <3>3. SumFunctionOnSet(f, R) = f[Picked(R)] + SumFunctionOnSet(f, R \ {Picked(R)})
      BY <2>2, <2>4, SumUnfolds
    <3> QED
      BY <2>2, <3>2, <3>3
  <2> QED
    BY <2>3, <2>4
<1> QED
  BY <1>1

(* Functions that agree on a set have the same sum over it. *)
LEMMA SumSame ==
  ASSUME NEW f, NEW g, NEW S \in SUBSET Unit, \A u \in S : f[u] = g[u]
  PROVE  SumFunctionOnSet(f, S) = SumFunctionOnSet(g, S)
<1> DEFINE B == {R \in SUBSET S : SumFunctionOnSet(f, R) # SumFunctionOnSet(g, R)}
<1>1. B = {}
  <2> SUFFICES ASSUME B # {} PROVE FALSE
    OBVIOUS
  <2>1. B \in SUBSET (SUBSET Unit)
    OBVIOUS
  <2>2. PICK R \in B : \A u \in R : R \ {u} \notin B
    <3> HIDE DEF B
    <3> QED
      BY <2>1, Smallest
  <2>3. CASE R = {}
    BY <2>2, <2>3, SumEmpty
  <2>4. CASE R # {}
    <3>1. Picked(R) \in R
      BY <2>4 DEF Picked
    <3>2. /\ SumFunctionOnSet(f, R \ {Picked(R)}) = SumFunctionOnSet(g, R \ {Picked(R)})
          /\ f[Picked(R)] = g[Picked(R)]
      BY <2>2, <3>1
    <3>3. /\ SumFunctionOnSet(f, R) = f[Picked(R)] + SumFunctionOnSet(f, R \ {Picked(R)})
          /\ SumFunctionOnSet(g, R) = g[Picked(R)] + SumFunctionOnSet(g, R \ {Picked(R)})
      BY <2>2, <2>4, SumUnfolds
    <3> QED
      BY <2>2, <3>2, <3>3
  <2> QED
    BY <2>3, <2>4
<1> QED
  BY <1>1

(* The sum does not depend on which unit is counted first. *)
LEMMA SumWithout ==
  ASSUME NEW f \in [Unit -> Nat], NEW S \in SUBSET Unit, NEW u \in S
  PROVE  SumFunctionOnSet(f, S) = f[u] + SumFunctionOnSet(f, S \ {u})
<1> DEFINE Sum(R) == SumFunctionOnSet(f, R)
           B == {R \in SUBSET Unit : \E v \in R : Sum(R) # f[v] + Sum(R \ {v})}
<1>0. \A R \in SUBSET Unit : Sum(R) \in Nat
  BY SumTyped
<1>1. B = {}
  <2> SUFFICES ASSUME B # {} PROVE FALSE
    OBVIOUS
  <2>1. B \in SUBSET (SUBSET Unit)
    OBVIOUS
  <2>2. PICK R \in B : \A v \in R : R \ {v} \notin B
    <3> HIDE DEF B
    <3> QED
      BY <2>1, Smallest
  <2>3. PICK v \in R : Sum(R) # f[v] + Sum(R \ {v})
    BY <2>2
  <2>4. PICK w \in R : Sum(R) = f[w] + Sum(R \ {w})
    <3>1. Picked(R) \in R
      BY <2>3 DEF Picked
    <3>2. Sum(R) = f[Picked(R)] + Sum(R \ {Picked(R)})
      BY <2>1, <2>2, <2>3, SumUnfolds
    <3> QED
      BY <3>1, <3>2
  <2>5. v # w
    BY <2>3, <2>4
  <2>6. /\ Sum(R \ {v}) = f[w] + Sum((R \ {v}) \ {w})
        /\ Sum(R \ {w}) = f[v] + Sum((R \ {w}) \ {v})
    BY <2>1, <2>2, <2>5
  <2>7. (R \ {v}) \ {w} = (R \ {w}) \ {v}
    OBVIOUS
  <2>8. PICK c \in Nat : c = Sum((R \ {w}) \ {v})
    BY <2>2, <1>0
  <2>9. PICK a \in Nat, b \in Nat : a = f[v] /\ b = f[w]
    BY <2>2
  <2>10. Sum(R \ {v}) = b + c /\ Sum(R \ {w}) = a + c
    BY <2>6, <2>7, <2>8, <2>9
  <2>11. Sum(R) = b + (a + c) /\ Sum(R) # a + (b + c)
    BY <2>3, <2>4, <2>9, <2>10
  <2>12. b + (a + c) = a + (b + c)
    OBVIOUS
  <2> QED
    BY <2>11, <2>12
<1> QED
  BY <1>1

(* What a sum is when one unit of it has another size. *)
LEMMA SumReplaced ==
  ASSUME NEW f \in [Unit -> Nat], NEW g \in [Unit -> Nat], NEW S \in SUBSET Unit,
         NEW u \in Unit, \A v \in S \ {u} : g[v] = f[v]
  PROVE  SumFunctionOnSet(g, S \cup {u}) = g[u] + SumFunctionOnSet(f, S \ {u})
<1>1. PICK T : T = S \cup {u}
  OBVIOUS
<1>2. T \in SUBSET Unit /\ u \in T /\ T \ {u} = S \ {u} /\ S \ {u} \in SUBSET Unit
  BY <1>1
<1>3. SumFunctionOnSet(g, T) = g[u] + SumFunctionOnSet(g, T \ {u})
  BY <1>2, SumWithout
<1>4. SumFunctionOnSet(g, S \ {u}) = SumFunctionOnSet(f, S \ {u})
  BY <1>2, SumSame
<1> QED
  BY <1>1, <1>2, <1>3, <1>4
-----------------------------------------------------------------------------
(* The reservoir's own steps. *)

(* The unit that is taken tracks nothing and is not in what is left of the
   reservoir, be it the front of a list or of a new block. *)
LEMMA TakenUnit ==
  ASSUME IInv, NEW au \in Unit, NEW rest \in Unit \cup {NULL}, TakeUnit(au, rest)
  PROVE  /\ blocks' \subseteq Block /\ blocks \subseteq blocks'
         /\ reservoirBuffer' \subseteq blocks' /\ au[1] \in blocks'
         /\ reportedAddress[au] = NULL
         /\ Linked \in Links
         /\ \A w \in Unit : w[1] \in blocks => Linked[w] = next[w]
         /\ ReservoirOK(Linked, rest, reportedAddress, blocks')
         /\ au \notin ReachIn(Linked, rest)
         /\ ReachIn(next, reservoir) \subseteq {au} \cup ReachIn(Linked, rest)
         /\ \A w \in Unit : w[1] \in blocks' /\ w[1] \notin blocks
                             => w = au \/ w \in ReachIn(Linked, rest)
         /\ au = reservoir \/ (reservoir = NULL /\ au[2] = 0)
<1>1. /\ next \in Links /\ blocks \subseteq Block /\ reservoirBuffer \subseteq blocks
      /\ reservoir \in Unit \cup {NULL}
      /\ ReservoirOK(next, reservoir, reportedAddress, blocks)
  BY DEF IInv, TypeOK, Links, BlocksInUse
<1>2. /\ Linked \in Links
      /\ \A w \in Unit : w[1] \in blocks => Linked[w] = next[w]
  <2>1. ASSUME NEW w \in Unit, w[2] + 1 < BlockSize
        PROVE  <<w[1], w[2] + 1>> \in Unit
    BY <2>1, MemoryAssumption DEF Unit
  <2> QED
    BY <1>1, <2>1 DEF Linked, Links
<1>3. CASE /\ reservoir # NULL
           /\ au = reservoir /\ rest = next[reservoir]
           /\ UNCHANGED <<blocks, reservoirBuffer>>
  <2>1. /\ reportedAddress[au] = NULL /\ au[1] \in blocks
        /\ ReservoirOK(next, rest, reportedAddress, blocks)
        /\ au \notin ReachIn(next, rest)
        /\ ReachIn(next, reservoir) = {au} \cup ReachIn(next, rest)
    BY <1>1, <1>3, ReservoirPop
  <2>2. \A w \in ReachIn(next, rest) : Linked[w] = next[w]
    BY <1>2, <2>1 DEF ReservoirOK, ReachIn
  <2>3. /\ ReservoirOK(Linked, rest, reportedAddress, blocks)
        /\ ReachIn(Linked, rest) = ReachIn(next, rest)
    BY <1>1, <1>2, <2>1, <2>2, ReservoirFrame
  <2> QED
    BY <1>1, <1>2, <1>3, <2>1, <2>3
<1>4. ASSUME reservoir = NULL, NEW b \in Block \ blocks,
             au = <<b, 0>>,
             rest = IF BlockSize > 1 THEN <<b, 1>> ELSE NULL,
             blocks' = blocks \cup {b},
             reservoirBuffer' \in {reservoirBuffer, reservoirBuffer \cup {b}}
      PROVE  /\ reportedAddress[au] = NULL
             /\ ReservoirOK(Linked, rest, reportedAddress, blocks')
             /\ au \notin ReachIn(Linked, rest)
             /\ ReachIn(next, reservoir) = {}
             /\ \A w \in Unit : w[1] = b => w = au \/ w \in ReachIn(Linked, rest)
             /\ au[2] = 0
  <2> DEFINE From(j) == {<<b, k>> : k \in j..(BlockSize - 1)}
  <2>1. \A u \in Unit : u[1] = b => reportedAddress[u] = NULL
    BY <1>4 DEF IInv, BlocksInUse, Tracked
  <2>2. ASSUME NEW j \in 1..BlockSize,
               NEW r, r = IF j < BlockSize THEN <<b, j>> ELSE NULL
        PROVE  ReachIn(Linked, r) \subseteq From(j)
    <3>1. From(j) \in SUBSET Unit
      BY MemoryAssumption DEF Unit
    <3>2. ASSUME NEW w \in From(j), Linked[w] # NULL PROVE Linked[w] \in From(j)
      <4>1. PICK k \in j..(BlockSize - 1) : w = <<b, k>>
        OBVIOUS
      <4>2. w \in Unit /\ w[1] = b /\ w[2] = k
        BY <3>1, <4>1
      <4>3. Linked[w] = <<b, k + 1>> /\ k + 1 < BlockSize
        BY <1>4, <3>2, <4>2 DEF Linked
      <4>4. k + 1 \in j..(BlockSize - 1)
        BY <4>1, <4>3, MemoryAssumption
      <4> QED
        BY <4>3, <4>4
    <3>3. r # NULL => r \in From(j)
      BY <2>2, MemoryAssumption
    <3>4. Closed(Linked, r, From(j))
      BY <3>2, <3>3 DEF Closed
    <3> HIDE DEF From
    <3> QED
      BY <3>1, <3>4, ReachLeast
  <2>3. ReachIn(Linked, rest) \subseteq From(1)
    BY <1>4, <2>2, MemoryAssumption
  <2>4. au \notin From(1) /\ au[1] = b
    BY <1>4
  <2>5. ASSUME NEW w \in From(1)
        PROVE  w \in Unit /\ w[1] = b /\ w \notin ReachIn(Linked, Linked[w])
    <3>1. PICK k \in 1..(BlockSize - 1) : w = <<b, k>>
      OBVIOUS
    <3>2. w \in Unit /\ w[1] = b /\ w[2] = k
      BY <3>1, MemoryAssumption DEF Unit
    <3>3. Linked[w] = IF k + 1 < BlockSize THEN <<b, k + 1>> ELSE NULL
      BY <1>4, <3>2 DEF Linked
    <3>4. ReachIn(Linked, Linked[w]) \subseteq From(k + 1)
      BY <3>1, <3>3, <2>2, MemoryAssumption
    <3>5. w \notin From(k + 1)
      BY <3>1
    <3> QED
      BY <3>2, <3>4, <3>5
  <2>6. ReachIn(next, reservoir) = {}
    BY <1>4, ReachNull
  <2> HIDE DEF From
  <2>7. ReservoirOK(Linked, rest, reportedAddress, blocks')
    BY <1>4, <2>1, <2>3, <2>5 DEF ReservoirOK
  <2>8. au \notin ReachIn(Linked, rest) /\ reportedAddress[au] = NULL
    BY <2>1, <2>3, <2>4
  <2>9. ASSUME NEW w \in Unit, w[1] = b, w # au, w \notin ReachIn(Linked, rest)
        PROVE  FALSE
    <3> DEFINE Missed == {k \in 1..(BlockSize - 1) : <<b, k>> \notin ReachIn(Linked, rest)}
    <3>1. w = <<b, w[2]>> /\ w[2] \in 1..(BlockSize - 1) /\ w[2] \in Missed
      BY <1>4, <2>9, MemoryAssumption DEF Unit
    <3>2. Missed \in SUBSET Nat /\ Missed # {}
      BY <3>1
    <3>3. PICK k \in Missed : \A j \in Missed : k <= j
      <4> HIDE DEF Missed
      <4> QED
        BY <3>2, LeastNumber
    <3>4. /\ k \in 1..(BlockSize - 1) /\ <<b, k>> \notin ReachIn(Linked, rest)
          /\ rest = <<b, 1>> /\ rest \in Unit
      BY <1>4, <3>3, MemoryAssumption DEF Unit
    <3>5. Closed(Linked, rest, ReachIn(Linked, rest))
      BY <1>2, <3>4, ReachClosed
    <3>6. k # 1
      BY <3>4, <3>5, MemoryAssumption DEF Closed
    <3>7. <<b, k - 1>> \in ReachIn(Linked, rest) /\ <<b, k - 1>> \in Unit
      BY <3>3, <3>4, <3>6, MemoryAssumption DEF Unit
    <3>8. Linked[<<b, k - 1>>] = <<b, k>>
      BY <1>4, <3>4, <3>6, <3>7, MemoryAssumption DEF Linked
    <3>9. <<b, k>> # NULL
      BY <3>4, MemoryAssumption DEF Unit
    <3> QED
      BY <3>4, <3>5, <3>7, <3>8, <3>9 DEF Closed
  <2> QED
    BY <1>4, <2>6, <2>7, <2>8, <2>9
<1>5. CASE /\ reservoir = NULL
           /\ \E b \in Block \ blocks :
                /\ au = <<b, 0>>
                /\ rest = IF BlockSize > 1 THEN <<b, 1>> ELSE NULL
                /\ blocks' = blocks \cup {b}
                /\ reservoirBuffer' \in {reservoirBuffer, reservoirBuffer \cup {b}}
  <2>1. PICK b \in Block \ blocks :
                /\ au = <<b, 0>>
                /\ rest = IF BlockSize > 1 THEN <<b, 1>> ELSE NULL
                /\ blocks' = blocks \cup {b}
                /\ reservoirBuffer' \in {reservoirBuffer, reservoirBuffer \cup {b}}
    BY <1>5
  <2>2. /\ blocks' \subseteq Block /\ blocks \subseteq blocks'
        /\ reservoirBuffer' \subseteq blocks' /\ au[1] \in blocks'
    BY <1>1, <2>1
  <2> QED
    BY <1>2, <1>4, <1>5, <2>1, <2>2
<1> QED
  BY <1>3, <1>5 DEF TakeUnit

(* The leak report frees blocks only when no unit is tracked, and the reservoir
   is empty then. *)
LEMMA LeakReported ==
  ASSUME NEW units \in Nat, NEW first \in Unit \cup {NULL}, NEW n \in Links, NEW ad,
         LeakReport(units, first), reservoirBuffer \subseteq blocks, blocks \subseteq Block,
         units = 0 => TrackedIn(ad) = {},
         \A u \in TrackedIn(ad) : u[1] \in blocks,
         ReservoirOK(n, first, ad, blocks)
  PROVE  /\ blocks' \subseteq Block /\ reservoirBuffer' \subseteq blocks'
         /\ reservoirBuffer' \subseteq Block
         /\ \A u \in TrackedIn(ad) : u[1] \in blocks'
         /\ reservoir' \in Unit \cup {NULL}
         /\ ReservoirOK(n, reservoir', ad, blocks')
         /\ blocks' \subseteq blocks
         /\ \A u \in ReachIn(n, first) :
              u[1] \in blocks' =>
                \/ u \in ReachIn(n, reservoir')
                \/ /\ TrackedIn(ad) = {} /\ u[1] \notin reservoirBuffer
                   /\ reservoirBuffer # {} /\ reservoirBuffer' = {}
<1>1. CASE /\ units = 0 /\ reservoirBuffer # {}
           /\ blocks' = blocks \ reservoirBuffer
           /\ reservoirBuffer' = {}
           /\ reservoir' = NULL
  BY <1>1, ReachNull DEF ReservoirOK
<1>2. CASE reservoir' = first /\ UNCHANGED <<blocks, reservoirBuffer>>
  BY <1>2
<1> QED
  BY <1>1, <1>2 DEF LeakReport
-----------------------------------------------------------------------------
(* The calls. *)

(* No unit is lost but as UnitsLostOnlyByFailure says. *)
UnitsKept ==
  \A u \in Unit :
    u[1] \in blocks' /\ (u[1] \in blocks => u \in Tracked \/ u \in ReachIn(next, reservoir))
      => \/ u \in Tracked' \/ u \in ReachIn(next', reservoir')
         \/ LostByFailure(u) \/ LostByReport(u)

(* What an allocation does: one unit more tracks its address, with its size and
   its owner. *)
Allocated(au, o, n, a) ==
  /\ reportedAddress[au] = NULL
  /\ heap' = heap \cup {a} /\ a \notin heap
  /\ reportedAddress' = [reportedAddress EXCEPT ![au] = a]
  /\ reportedSize' = [reportedSize EXCEPT ![au] = n]
  /\ sourceLine' = [sourceLine EXCEPT ![au] = o]
  /\ AccountAllocation(n)
  /\ Tracked' = Tracked \cup {au}

LEMMA AllocatorDoes ==
  ASSUME IInv, NEW o \in Owner, NEW n \in Size, NEW a \in Addr, Allocator(o, n, a),
         staticDeinitTime' \in BOOLEAN, pending' \in Request \cup {NoRequest}
  PROVE  IInv' /\ UnitsKept /\ \E au \in Unit : Allocated(au, o, n, a)
<1>1. PICK au \in Unit, rest \in Unit \cup {NULL} :
        /\ TakeUnit(au, rest)
        /\ reservoir' = rest
        /\ reportedAddress' = [reportedAddress EXCEPT ![au] = a]
        /\ reportedSize' = [reportedSize EXCEPT ![au] = n]
        /\ sourceLine' = [sourceLine EXCEPT ![au] = o]
        /\ LinkFirst(au, a, hashTable, Linked, prev)
  BY DEF Allocator
<1>2. /\ a \notin heap /\ heap' = heap \cup {a} /\ AccountAllocation(n)
      /\ owner' = Unknown
  BY DEF Allocator, resetGlobals
<1>3. /\ hashTable \in Tables /\ next \in Links /\ prev \in Links
      /\ reportedAddress \in Addresses /\ TrackedIn(reportedAddress) = Tracked
      /\ Tracked \subseteq Unit /\ a # NULL
      /\ TableOK(hashTable, next, prev, reportedAddress)
      /\ \A u \in Tracked : u[1] \in blocks
  BY MemoryAssumption DEF IInv, TypeOK, Tables, Links, Addresses, TrackedIn, Tracked,
     BlocksInUse
<1>4. /\ blocks' \subseteq Block /\ blocks \subseteq blocks'
      /\ reservoirBuffer' \subseteq blocks' /\ au[1] \in blocks'
      /\ reportedAddress[au] = NULL
      /\ Linked \in Links
      /\ \A w \in Unit : w[1] \in blocks => Linked[w] = next[w]
      /\ ReservoirOK(Linked, rest, reportedAddress, blocks')
      /\ au \notin ReachIn(Linked, rest)
      /\ ReachIn(next, reservoir) \subseteq {au} \cup ReachIn(Linked, rest)
      /\ \A w \in Unit : w[1] \in blocks' /\ w[1] \notin blocks
                          => w = au \/ w \in ReachIn(Linked, rest)
  BY <1>1, TakenUnit
<1>5. TableOK(hashTable, Linked, prev, reportedAddress)
  BY <1>3, <1>4, TableFrame
<1>6. /\ hashTable' \in Tables /\ next' \in Links /\ prev' \in Links
      /\ next' = [Linked EXCEPT ![au] = hashTable[HashIndex[a]]]
      /\ TableOK(hashTable', next', prev', reportedAddress')
  <2>1. LinkFirst(au, a, hashTable, Linked, prev) /\ reportedAddress[au] = NULL
    BY <1>1, <1>4
  <2>2. /\ hashTable' \in Tables /\ next' \in Links /\ prev' \in Links
        /\ next' = [Linked EXCEPT ![au] = hashTable[HashIndex[a]]]
        /\ TableOK(hashTable', next', prev', [reportedAddress EXCEPT ![au] = a])
    BY <2>1, <1>3, <1>4, <1>5, LinkedFirst
  <2> QED
    BY <2>2, <1>1
<1>7. /\ ReservoirOK(next', reservoir', reportedAddress', blocks')
      /\ ReachIn(next', reservoir') = ReachIn(Linked, rest)
  <2>1. \A w \in ReachIn(Linked, rest) :
           next'[w] = Linked[w] /\ reportedAddress'[w] = reportedAddress[w]
    BY <1>1, <1>3, <1>4, <1>6 DEF Links, Addresses, ReachIn
  <2>2. /\ ReservoirOK(next', rest, reportedAddress', blocks')
        /\ ReachIn(next', rest) = ReachIn(Linked, rest)
    <3>1. /\ Linked \in Links /\ next' \in Links
          /\ ReservoirOK(Linked, rest, reportedAddress, blocks')
      BY <1>4, <1>6
    <3> QED
      BY <2>1, <3>1, ReservoirFrame
  <2> QED
    BY <2>2, <1>1
<1>8. /\ Tracked' = Tracked \cup {au} /\ au \notin Tracked
      /\ reportedAddress'[au] = a
      /\ \A u \in Tracked : reportedAddress'[u] = reportedAddress[u]
  BY <1>1, <1>3, <1>4 DEF Tracked, Addresses
<1>9. HeapTracked'
  BY <1>2, <1>8 DEF IInv, HeapTracked
<1>10. BlocksInUse'
  BY <1>3, <1>4, <1>8 DEF BlocksInUse
<1>11. stats' \in sMStats /\ UnitsCounted'
  <2>1. /\ stats' \in sMStats
        /\ stats'.totalAllocUnitCount = stats.totalAllocUnitCount + 1
    BY <1>2, AllocationCounted DEF IInv, TypeOK
  <2>2. Cardinality(Tracked \cup {au}) = Cardinality(Tracked) + 1
    BY <1>3, <1>8, UnitsFinite, FS_AddElement
  <2> QED
    BY <2>1, <2>2, <1>8 DEF UnitsCounted, IInv
<1>12. TypeOK'
  <2>1. heap' \subseteq Addr /\ owner' \in Owner /\ reservoir' \in Unit \cup {NULL}
    BY <1>1, <1>2 DEF IInv, TypeOK, Owner
  <2>2. /\ reportedAddress' \in [Unit -> Addr \cup {NULL}]
        /\ reportedSize' \in [Unit -> Size \cup {0}]
        /\ sourceLine' \in [Unit -> Owner]
    BY <1>1 DEF IInv, TypeOK
  <2> QED
    BY <2>1, <2>2, <1>4, <1>6, <1>11 DEF TypeOK, Tables, Links
<1>13. UnitsKept
  BY <1>4, <1>7, <1>8 DEF UnitsKept
<1> QED
  BY <1>1, <1>2, <1>4, <1>6, <1>7, <1>8, <1>9, <1>10, <1>11, <1>12, <1>13
  DEF IInv, Allocated

(* A failed request loses at most the unit it took and changes nothing else. *)
LEMMA AllocatorFailsDoes ==
  ASSUME IInv, AllocatorFails, staticDeinitTime' \in BOOLEAN,
         pending' \in Request \cup {NoRequest}
  PROVE  /\ IInv' /\ UnitsKept
         /\ UNCHANGED <<heap, reportedAddress, reportedSize, stats>>
<1>1. /\ UNCHANGED <<heap, hashTable, prev, reportedAddress, reportedSize,
                     sourceLine, stats>>
      /\ owner' = Unknown
  BY DEF AllocatorFails, resetGlobals
<1>2. /\ hashTable \in Tables /\ next \in Links /\ prev \in Links
      /\ reportedAddress \in Addresses /\ TrackedIn(reportedAddress) = Tracked
      /\ Tracked \subseteq Unit
      /\ TableOK(hashTable, next, prev, reportedAddress)
      /\ \A u \in Tracked : u[1] \in blocks
  BY DEF IInv, TypeOK, Tables, Links, Addresses, TrackedIn, Tracked, BlocksInUse
<1>3. /\ Tracked' = Tracked /\ HeapTracked' /\ UnitsCounted'
  BY <1>1 DEF IInv, HeapTracked, UnitsCounted, Tracked
<1>4. CASE reservoir = NULL /\ UNCHANGED <<next, reservoirVars>>
  BY <1>1, <1>3, <1>4 DEF reservoirVars, IInv, TypeOK, BlocksInUse, Owner, UnitsKept
<1>5. CASE \E au \in Unit, rest \in Unit \cup {NULL} :
             /\ TakeUnit(au, rest)
             /\ reservoir' = rest
             /\ next' = [Linked EXCEPT ![au] = NULL]
  <2>1. PICK au \in Unit, rest \in Unit \cup {NULL} :
             /\ TakeUnit(au, rest)
             /\ reservoir' = rest
             /\ next' = [Linked EXCEPT ![au] = NULL]
    BY <1>5
  <2>2. /\ blocks' \subseteq Block /\ blocks \subseteq blocks'
        /\ reservoirBuffer' \subseteq blocks'
        /\ reportedAddress[au] = NULL
        /\ Linked \in Links
        /\ \A w \in Unit : w[1] \in blocks => Linked[w] = next[w]
        /\ ReservoirOK(Linked, rest, reportedAddress, blocks')
        /\ au \notin ReachIn(Linked, rest)
        /\ ReachIn(next, reservoir) \subseteq {au} \cup ReachIn(Linked, rest)
        /\ \A w \in Unit : w[1] \in blocks' /\ w[1] \notin blocks
                            => w = au \/ w \in ReachIn(Linked, rest)
        /\ au = reservoir \/ (reservoir = NULL /\ au[2] = 0)
    BY <2>1, TakenUnit
  <2>3. next' \in Links /\ \A w \in Unit \ {au} : next'[w] = Linked[w]
    BY <2>1, <2>2 DEF Links
  <2>4. TableOK(hashTable, next', prev, reportedAddress)
    <3>1. \A w \in Tracked : next'[w] = next[w]
      BY <1>2, <2>2, <2>3 DEF Tracked
    <3> QED
      BY <3>1, <1>2, <2>3, TableFrame
  <2>5. /\ ReservoirOK(next', rest, reportedAddress, blocks')
        /\ ReachIn(next', rest) = ReachIn(Linked, rest)
    <3>1. \A w \in ReachIn(Linked, rest) :
             next'[w] = Linked[w] /\ reportedAddress[w] = reportedAddress[w]
      BY <2>2, <2>3 DEF ReachIn
    <3>2. /\ Linked \in Links /\ next' \in Links /\ blocks' \subseteq blocks'
          /\ ReservoirOK(Linked, rest, reportedAddress, blocks')
      BY <2>2, <2>3
    <3> QED
      BY <3>1, <3>2, ReservoirFrame
  <2>6. BlocksInUse'
    BY <1>2, <1>3, <2>2 DEF BlocksInUse
  <2>7. TypeOK'
    BY <1>1, <2>1, <2>2, <2>3 DEF IInv, TypeOK, Links, Owner
  <2>8. LostByFailure(au)
    BY <2>2 DEF LostByFailure
  <2>9. UnitsKept
    BY <1>3, <2>1, <2>2, <2>5, <2>8 DEF UnitsKept
  <2> QED
    BY <1>1, <1>3, <2>1, <2>4, <2>5, <2>6, <2>7, <2>9 DEF IInv
<1> QED
  BY <1>1, <1>4, <1>5 DEF AllocatorFails

(* A reallocation moves the one unit that tracks a to b. *)
Reallocated(au, n, a, b) ==
  /\ au \in Tracked /\ reportedAddress[au] = a /\ a \in heap
  /\ b = a \/ b \notin heap
  /\ heap' = (heap \ {a}) \cup {b}
  /\ reportedAddress' = [reportedAddress EXCEPT ![au] = b]
  /\ reportedSize' = [reportedSize EXCEPT ![au] = n]
  /\ AccountReallocation(reportedSize[au], n)
  /\ Tracked' = Tracked

LEMMA ReallocatorDoes ==
  ASSUME IInv, NEW o \in Owner, NEW n \in Size, NEW a \in Addr, Reallocator(o, n, a),
         owner' \in Owner, UNCHANGED <<staticDeinitTime, pending>>
  PROVE  /\ IInv' /\ UnitsKept
         /\ \E au \in Unit, b \in Addr : Reallocated(au, n, a, b)
<1> DEFINE au == findAllocUnit(a)
<1>1. PICK b \in (Addr \ heap) \cup {a} :
           /\ heap' = (heap \ {a}) \cup {b}
           /\ reportedAddress' = [reportedAddress EXCEPT ![au] = b]
           /\ reportedSize' = [reportedSize EXCEPT ![au] = n]
           /\ sourceLine' = [sourceLine EXCEPT ![au] = o]
           /\ IF b = a
              THEN UNCHANGED <<hashTable, next, prev>>
              ELSE LinkFirst(au, b, TableWithout(au, a), NextWithout(au, a),
                             PrevWithout(au, a))
  BY DEF Reallocator
<1>2. /\ au # NULL /\ AccountReallocation(reportedSize[au], n)
      /\ UNCHANGED reservoirVars
  BY DEF Reallocator
<1>3. /\ au \in Tracked /\ reportedAddress[au] = a /\ a \in heap
  BY <1>2, Found DEF IInv
<1>4. /\ hashTable \in Tables /\ next \in Links /\ prev \in Links
      /\ reportedAddress \in Addresses /\ TrackedIn(reportedAddress) = Tracked
      /\ Tracked \subseteq Unit /\ b \in Addr /\ b # NULL /\ au \in Unit
      /\ reservoir \in Unit \cup {NULL}
      /\ TableOK(hashTable, next, prev, reportedAddress)
      /\ ReservoirOK(next, reservoir, reportedAddress, blocks)
  BY <1>3, MemoryAssumption DEF IInv, TypeOK, Tables, Links, Addresses, TrackedIn, Tracked
<1> HIDE DEF au
<1>5. /\ Tracked' = Tracked /\ reportedAddress'[au] = b
      /\ \A u \in Unit \ {au} : reportedAddress'[u] = reportedAddress[u]
  BY <1>1, <1>3, <1>4 DEF Tracked, Addresses
<1>6. /\ hashTable' \in Tables /\ next' \in Links /\ prev' \in Links
      /\ TableOK(hashTable', next', prev', reportedAddress')
      /\ \A w \in Unit \ Tracked : next'[w] = next[w]
  <2>1. CASE b = a
    <3>1. reportedAddress' = reportedAddress
      BY <1>1, <1>3, <1>4, <2>1 DEF Addresses
    <3> QED
      BY <3>1, <1>1, <1>4, <2>1
  <2>2. CASE b # a
    <3> DEFINE t == TableWithout(au, a)
               m == NextWithout(au, a)
               p == PrevWithout(au, a)
               ad == [reportedAddress EXCEPT ![au] = NULL]
    <3>1. /\ t \in Tables /\ m \in Links /\ p \in Links /\ TableOK(t, m, p, ad)
          /\ \A w \in Unit \ Tracked : m[w] = next[w]
      BY <1>3, <1>4, Unlinked DEF IInv
    <3>2. /\ ad \in Addresses /\ ad[au] = NULL
          /\ [ad EXCEPT ![au] = b] = reportedAddress'
      BY <1>1, <1>4 DEF Addresses
    <3>3. LinkFirst(au, b, t, m, p)
      BY <1>1, <2>2
    <3> HIDE DEF t, m, p, ad
    <3>4. /\ hashTable' \in Tables /\ next' \in Links /\ prev' \in Links
          /\ next' = [m EXCEPT ![au] = t[HashIndex[b]]]
          /\ TableOK(hashTable', next', prev', [ad EXCEPT ![au] = b])
      BY <3>1, <3>2, <3>3, <1>4, LinkedFirst
    <3>5. \A w \in Unit \ Tracked : next'[w] = m[w]
      BY <3>1, <3>4, <1>3, <1>4 DEF Links
    <3> QED
      BY <3>1, <3>2, <3>4, <3>5
  <2> QED
    BY <2>1, <2>2
<1>7. /\ ReservoirOK(next', reservoir, reportedAddress', blocks)
      /\ ReachIn(next', reservoir) = ReachIn(next, reservoir)
  <2>1. \A w \in ReachIn(next, reservoir) :
           next'[w] = next[w] /\ reportedAddress'[w] = reportedAddress[w]
    BY <1>3, <1>4, <1>5, <1>6 DEF ReservoirOK, ReachIn, Tracked
  <2> QED
    BY <2>1, <1>4, <1>6, ReservoirFrame
<1>8. HeapTracked'
  <2>1. ASSUME NEW x \in heap' PROVE \E u \in Tracked : reportedAddress'[u] = x
    <3>1. CASE x = b
      BY <3>1, <1>3, <1>5
    <3>2. CASE x # b
      <4>1. PICK u \in Tracked : reportedAddress[u] = x
        BY <1>1, <2>1, <3>2 DEF IInv, HeapTracked
      <4>2. u # au
        BY <4>1, <1>1, <1>3, <2>1, <3>2
      <4> QED
        BY <4>1, <4>2, <1>4, <1>5
    <3> QED
      BY <3>1, <3>2
  <2>2. ASSUME NEW u \in Tracked PROVE reportedAddress'[u] \in heap'
    BY <1>1, <1>3, <1>4, <1>5 DEF IInv, HeapTracked
  <2>3. ASSUME NEW u \in Tracked, NEW v \in Tracked,
               reportedAddress'[u] = reportedAddress'[v]
        PROVE  u = v
    <3>1. \A w \in Tracked \ {au} : reportedAddress'[w] = reportedAddress[w]
                                  /\ reportedAddress[w] \in heap
                                  /\ reportedAddress[w] # a
      BY <1>3, <1>4, <1>5 DEF IInv, HeapTracked
    <3> QED
      BY <3>1, <2>3, <1>1, <1>5 DEF IInv, HeapTracked
  <2> QED
    BY <2>1, <2>2, <2>3, <1>5 DEF HeapTracked
<1>9. stats' \in sMStats /\ UnitsCounted'
  <2>1. reportedSize[au] \in Nat
    BY <1>4, MemoryAssumption DEF IInv, TypeOK
  <2>2. /\ stats' \in sMStats
        /\ stats'.totalAllocUnitCount = stats.totalAllocUnitCount
    BY <1>2, <2>1, ReallocationCounted DEF IInv, TypeOK
  <2> QED
    BY <2>2, <1>5 DEF UnitsCounted, IInv
<1>10. TypeOK'
  <2>1. /\ heap' \subseteq Addr
        /\ reportedAddress' \in [Unit -> Addr \cup {NULL}]
        /\ reportedSize' \in [Unit -> Size \cup {0}]
        /\ sourceLine' \in [Unit -> Owner]
    BY <1>1, <1>4 DEF IInv, TypeOK
  <2> QED
    BY <2>1, <1>2, <1>6, <1>9 DEF IInv, TypeOK, Tables, Links, reservoirVars
<1>11. BlocksInUse' /\ UNCHANGED <<blocks, reservoir>>
  BY <1>2, <1>5 DEF IInv, BlocksInUse, reservoirVars
<1>12. IInv'
  BY <1>6, <1>7, <1>8, <1>9, <1>10, <1>11 DEF IInv
<1>13. b \in Addr /\ Reallocated(au, n, a, b)
  BY <1>1, <1>2, <1>3, <1>4, <1>5 DEF Reallocated
<1>14. UnitsKept
  BY <1>5, <1>7, <1>11 DEF UnitsKept
<1> QED
  BY <1>12, <1>13, <1>14, <1>4

(* A deallocation frees a, and the one unit that tracks it tracks nothing. *)
Deallocated(au, a) ==
  /\ au \in Tracked /\ reportedAddress[au] = a /\ a \in heap
  /\ heap' = heap \ {a}
  /\ reportedAddress' = [reportedAddress EXCEPT ![au] = NULL]
  /\ reportedSize' = [reportedSize EXCEPT ![au] = 0]
  /\ AccountDeallocation(reportedSize[au])
  /\ Tracked' = Tracked \ {au}

LEMMA DeallocatorDoes ==
  ASSUME IInv, NEW a \in Addr, Deallocator(a),
         owner' \in Owner, UNCHANGED <<staticDeinitTime, pending>>
  PROVE  IInv' /\ UnitsKept /\ \E au \in Unit : Deallocated(au, a)
<1>0. PICK au : au = findAllocUnit(a)
  OBVIOUS
<1> DEFINE n == NextWithout(au, a)
           p == PrevWithout(au, a)
           ad == [reportedAddress EXCEPT ![au] = NULL]
<1>1. /\ au # NULL
      /\ heap' = heap \ {a}
      /\ hashTable' = TableWithout(au, a)
      /\ next' = [n EXCEPT ![au] = reservoir]
      /\ prev' = [p EXCEPT ![au] = NULL]
      /\ reportedAddress' = ad
      /\ reportedSize' = [reportedSize EXCEPT ![au] = 0]
      /\ sourceLine' = [sourceLine EXCEPT ![au] = Unknown]
      /\ AccountDeallocation(reportedSize[au])
      /\ IF staticDeinitTime
         THEN LeakReport(stats'.totalAllocUnitCount, au)
         ELSE reservoir' = au /\ UNCHANGED <<blocks, reservoirBuffer>>
  BY <1>0 DEF Deallocator
<1>2. /\ au \in Tracked /\ reportedAddress[au] = a /\ a \in heap
  BY <1>0, <1>1, Found DEF IInv
<1>3. /\ hashTable \in Tables /\ next \in Links /\ prev \in Links
      /\ reportedAddress \in Addresses
      /\ Tracked \subseteq Unit /\ au \in Unit
      /\ reservoir \in Unit \cup {NULL}
      /\ TableOK(hashTable, next, prev, reportedAddress)
      /\ ReservoirOK(next, reservoir, reportedAddress, blocks)
      /\ reservoirBuffer \subseteq blocks /\ blocks \subseteq Block
      /\ \A u \in Tracked : u[1] \in blocks
  BY <1>2 DEF IInv, TypeOK, Tables, Links, Addresses, Tracked, BlocksInUse
<1>4. /\ TableWithout(au, a) \in Tables /\ n \in Links /\ p \in Links
      /\ TableOK(TableWithout(au, a), n, p, ad)
      /\ \A w \in Unit \ Tracked : n[w] = next[w]
  BY <1>2, <1>3, Unlinked DEF IInv
<1> HIDE DEF n, p
<1>5. /\ ad \in Addresses /\ TrackedIn(ad) = Tracked \ {au} /\ Tracked' = Tracked \ {au}
      /\ \A u \in Unit \ {au} : ad[u] = reportedAddress[u]
      /\ ad[au] = NULL
  BY <1>1, <1>3 DEF Addresses, TrackedIn, Tracked
<1> HIDE DEF ad
<1>6. next' \in Links /\ prev' \in Links
  BY <1>1, <1>3, <1>4 DEF Links
<1>7. TableOK(hashTable', next', prev', reportedAddress')
  <2>1. \A w \in TrackedIn(ad) : next'[w] = n[w] /\ prev'[w] = p[w]
    BY <1>1, <1>3, <1>4, <1>5 DEF Links
  <2>2. TableOK(TableWithout(au, a), next', prev', ad)
    BY <2>1, <1>4, <1>5, <1>6, TableFrame
  <2> QED
    BY <2>2, <1>1
<1>8. /\ ReservoirOK(next', au, ad, blocks)
      /\ ReachIn(next', au) = {au} \cup ReachIn(next, reservoir)
  <2>1. \A w \in ReachIn(next, reservoir) :
           w \in Unit \ Tracked /\ n[w] = next[w] /\ ad[w] = reportedAddress[w]
    BY <1>2, <1>3, <1>4, <1>5 DEF ReservoirOK, ReachIn, Tracked
  <2>2. /\ ReservoirOK(n, reservoir, ad, blocks)
        /\ ReachIn(n, reservoir) = ReachIn(next, reservoir)
    <3>1. /\ next \in Links /\ n \in Links /\ reservoir \in Unit \cup {NULL}
          /\ ReservoirOK(next, reservoir, reportedAddress, blocks)
          /\ \A w \in ReachIn(next, reservoir) :
               n[w] = next[w] /\ ad[w] = reportedAddress[w]
      BY <2>1, <1>3, <1>4
    <3> QED
      BY <3>1, ReservoirFrame
  <2>3. au \notin ReachIn(n, reservoir) /\ ad[au] = NULL /\ au[1] \in blocks
    BY <2>1, <2>2, <1>2, <1>3, <1>5
  <2>4. /\ ReservoirOK(next', au, ad, blocks)
        /\ ReachIn(next', au) = {au} \cup ReachIn(n, reservoir)
    <3>1. /\ n \in Links /\ reservoir \in Unit \cup {NULL} /\ au \in Unit
          /\ ReservoirOK(n, reservoir, ad, blocks)
      BY <2>2, <1>3, <1>4
    <3>2. /\ next' \in Links /\ next'[au] = reservoir
          /\ \A w \in Unit \ {au} : next'[w] = n[w]
      BY <1>1, <1>3, <1>4, <1>6 DEF Links
    <3> QED
      BY <2>3, <3>1, <3>2, ReservoirPush
  <2> QED
    BY <2>2, <2>4
<1>9. /\ stats' \in sMStats /\ UnitsCounted'
  <2>1. reportedSize[au] \in Nat
    <3>1. \A u \in Unit : reportedSize[u] \in Nat
      <4>1. reportedSize \in [Unit -> Size \cup {0}]
        BY DEF IInv, TypeOK
      <4>2. \A k \in Size \cup {0} : k \in Nat
        BY MemoryAssumption
      <4> QED
        BY <4>1, <4>2
    <3> QED
      BY <3>1, <1>3
  <2>2. /\ Cardinality(Tracked) \in Nat /\ IsFiniteSet(Tracked)
        /\ Cardinality(Tracked \ {au}) = Cardinality(Tracked) - 1
        /\ Cardinality(Tracked) # 0
    BY <1>2, <1>3, UnitsFinite, FS_RemoveElement, FS_CardinalityType, FS_EmptySet
  <2>3. stats.totalAllocUnitCount > 0
    BY <2>2 DEF IInv, UnitsCounted
  <2>4. /\ stats' \in sMStats
        /\ stats'.totalAllocUnitCount = stats.totalAllocUnitCount - 1
    BY <1>1, <2>1, <2>3, DeallocationCounted DEF IInv, TypeOK
  <2> QED
    BY <2>2, <2>4, <1>5 DEF UnitsCounted, IInv
<1>10. /\ blocks' \subseteq Block /\ reservoirBuffer' \subseteq blocks'
       /\ reservoirBuffer' \subseteq Block
       /\ \A u \in TrackedIn(ad) : u[1] \in blocks'
       /\ reservoir' \in Unit \cup {NULL}
       /\ ReservoirOK(next', reservoir', ad, blocks')
       /\ blocks' \subseteq blocks
       /\ \A u \in ReachIn(next', au) :
            u[1] \in blocks' => u \in ReachIn(next', reservoir') \/ LostByReport(u)
  <2>1. /\ stats'.totalAllocUnitCount \in Nat
        /\ stats'.totalAllocUnitCount = 0 => TrackedIn(ad) = {}
    <3>1. stats'.totalAllocUnitCount = Cardinality(Tracked \ {au})
      BY <1>5, <1>9 DEF UnitsCounted
    <3>2. IsFiniteSet(Tracked \ {au})
      BY <1>3, UnitsFinite
    <3> QED
      BY <3>1, <3>2, <1>5, FS_CardinalityType, FS_EmptySet
  <2>2. \A u \in TrackedIn(ad) : u[1] \in blocks
    BY <1>3, <1>5
  <2>3. CASE staticDeinitTime
    <3>1. LeakReport(stats'.totalAllocUnitCount, au)
      BY <1>1, <2>3
    <3>2. staticDeinitTime' /\ Tracked' = TrackedIn(ad)
      BY <2>3, <1>5
    <3>3. /\ blocks' \subseteq Block /\ reservoirBuffer' \subseteq blocks'
          /\ reservoirBuffer' \subseteq Block
          /\ \A u \in TrackedIn(ad) : u[1] \in blocks'
          /\ reservoir' \in Unit \cup {NULL}
          /\ ReservoirOK(next', reservoir', ad, blocks')
          /\ blocks' \subseteq blocks
          /\ \A u \in ReachIn(next', au) :
               u[1] \in blocks' =>
                 \/ u \in ReachIn(next', reservoir')
                 \/ /\ TrackedIn(ad) = {} /\ u[1] \notin reservoirBuffer
                    /\ reservoirBuffer # {} /\ reservoirBuffer' = {}
      BY <3>1, <2>1, <2>2, <1>3, <1>6, <1>8, LeakReported
    <3> QED
      BY <3>2, <3>3 DEF LostByReport
  <2>4. CASE ~ staticDeinitTime
    BY <1>1, <2>2, <2>4, <1>3, <1>8
  <2> QED
    BY <2>3, <2>4
<1>11. HeapTracked'
  <2>1. \A u \in Tracked \ {au} : reportedAddress[u] # a
    BY <1>2 DEF IInv, HeapTracked
  <2>2. \A u \in Tracked \ {au} : reportedAddress'[u] = reportedAddress[u]
    BY <1>1, <1>3, <1>5
  <2> QED
    BY <2>1, <2>2, <1>1, <1>2, <1>5 DEF IInv, HeapTracked
<1>12. TypeOK'
  <2>1. /\ heap' \subseteq Addr
        /\ reportedAddress' \in [Unit -> Addr \cup {NULL}]
        /\ reportedSize' \in [Unit -> Size \cup {0}]
        /\ sourceLine' \in [Unit -> Owner]
    BY <1>1, <1>3, <1>5 DEF IInv, TypeOK, Addresses, Owner
  <2>2. hashTable' \in Tables
    BY <1>1, <1>4
  <2> QED
    BY <2>1, <2>2, <1>6, <1>9, <1>10 DEF IInv, TypeOK, Tables, Links
<1>13. BlocksInUse'
  BY <1>5, <1>10 DEF BlocksInUse
<1>14. IInv'
  BY <1>1, <1>7, <1>9, <1>10, <1>11, <1>12, <1>13 DEF IInv
<1>15. Deallocated(au, a)
  BY <1>1, <1>2, <1>5 DEF Deallocated, ad
<1>16. UnitsKept
  BY <1>5, <1>8, <1>10 DEF UnitsKept
<1> QED
  BY <1>14, <1>15, <1>16, <1>3

(* A call that finds nothing to do. *)
LEMMA NothingDone ==
  ASSUME IInv, UNCHANGED <<heap, unitVars, reservoirVars, stats>>,
         owner' \in Owner, staticDeinitTime' \in BOOLEAN,
         pending' \in Request \cup {NoRequest}
  PROVE  IInv' /\ UnitsKept /\ UNCHANGED <<heap, reportedAddress, reportedSize, stats>>
<1>1. /\ UNCHANGED <<heap, hashTable, next, prev, reportedAddress, reportedSize>>
      /\ UNCHANGED <<sourceLine, blocks, reservoir, reservoirBuffer, stats>>
  BY DEF unitVars, reservoirVars
<1>2. TypeOK'
  BY <1>1 DEF IInv, TypeOK
<1>3. Tracked' = Tracked
  BY <1>1 DEF Tracked
<1> QED
  BY <1>1, <1>2, <1>3 DEF IInv, HeapTracked, BlocksInUse, UnitsCounted, UnitsKept

(* The leak report of free(NULL) and of the static deinitialisation. *)
LEMMA LeakReportDoes ==
  ASSUME IInv, LeakReport(stats.totalAllocUnitCount, reservoir),
         UNCHANGED <<heap, unitVars, stats, pending>>,
         owner' \in Owner, staticDeinitTime' \in BOOLEAN, staticDeinitTime'
  PROVE  IInv' /\ UnitsKept /\ UNCHANGED <<heap, reportedAddress, reportedSize, stats>>
<1>1. /\ UNCHANGED <<heap, hashTable, next, prev, reportedAddress, reportedSize>>
      /\ UNCHANGED <<sourceLine, stats, pending>>
  BY DEF unitVars
<1>2. /\ stats.totalAllocUnitCount \in Nat /\ reservoir \in Unit \cup {NULL}
      /\ next \in Links /\ reservoirBuffer \subseteq blocks /\ blocks \subseteq Block
      /\ ReservoirOK(next, reservoir, reportedAddress, blocks)
      /\ TrackedIn(reportedAddress) = Tracked /\ Tracked \subseteq Unit
      /\ \A u \in Tracked : u[1] \in blocks
  BY DEF IInv, TypeOK, sMStats, Links, BlocksInUse, TrackedIn, Tracked
<1>3. stats.totalAllocUnitCount = 0 => Tracked = {}
  <2>1. IsFiniteSet(Tracked) /\ Cardinality(Tracked) = stats.totalAllocUnitCount
    BY <1>2, UnitsFinite DEF IInv, UnitsCounted
  <2> QED
    BY <2>1, FS_EmptySet
<1>4. /\ blocks' \subseteq Block /\ reservoirBuffer' \subseteq blocks'
      /\ reservoirBuffer' \subseteq Block
      /\ \A u \in Tracked : u[1] \in blocks'
      /\ reservoir' \in Unit \cup {NULL}
      /\ ReservoirOK(next, reservoir', reportedAddress, blocks')
      /\ blocks' \subseteq blocks
      /\ \A u \in ReachIn(next, reservoir) :
           u[1] \in blocks' =>
             \/ u \in ReachIn(next, reservoir')
             \/ /\ Tracked = {} /\ u[1] \notin reservoirBuffer
                /\ reservoirBuffer # {} /\ reservoirBuffer' = {}
  BY <1>2, <1>3, LeakReported
<1>5. Tracked' = Tracked
  BY <1>1 DEF Tracked
<1>6. TypeOK'
  BY <1>1, <1>4 DEF IInv, TypeOK
<1>7. UnitsKept
  BY <1>1, <1>4, <1>5 DEF UnitsKept, LostByReport
<1> QED
  BY <1>1, <1>4, <1>5, <1>6, <1>7 DEF IInv, HeapTracked, BlocksInUse, UnitsCounted

(* What a step does to the allocations. *)
Effect ==
  \/ \E au \in Unit, o \in Owner, n \in Size, a \in Addr : Allocated(au, o, n, a)
  \/ \E au \in Unit, n \in Size, a, b \in Addr : Reallocated(au, n, a, b)
  \/ \E au \in Unit, a \in Addr : Deallocated(au, a)
  \/ UNCHANGED <<heap, reportedAddress, reportedSize, stats>>

LEMMA StepDoes == IInv /\ [Next]_vars => IInv' /\ UnitsKept /\ Effect
<1> SUFFICES ASSUME IInv, [Next]_vars PROVE IInv' /\ UnitsKept /\ Effect
  OBVIOUS
<1>0. /\ Unknown \in Owner /\ Line \subseteq Owner /\ owner \in Owner
      /\ staticDeinitTime \in BOOLEAN /\ pending \in Request \cup {NoRequest}
      /\ \A n \in Size : AtLeastOne(n) \in Size
  BY MemoryAssumption DEF IInv, TypeOK, Owner, AtLeastOne
<1>1. ASSUME NEW o \in Line, NEW n \in Size, Malloc(o, n) PROVE IInv' /\ UnitsKept /\ Effect
  <2>1. staticDeinitTime' \in BOOLEAN /\ pending' \in Request \cup {NoRequest}
    BY <1>0, <1>1 DEF Malloc
  <2>2. ASSUME NEW a \in Addr, Allocator(o, n, a) PROVE IInv' /\ UnitsKept /\ Effect
    BY <2>1, <2>2, <1>0, AllocatorDoes DEF Effect
  <2>3. CASE AllocatorFails
    BY <2>1, <2>3, AllocatorFailsDoes DEF Effect
  <2> QED
    BY <2>2, <2>3, <1>1 DEF Malloc
<1>2. ASSUME NEW o \in Line, NEW n \in Size, NEW a \in Addr, Realloc(o, n, a)
      PROVE  IInv' /\ UnitsKept /\ Effect
  <2>1. owner' \in Owner /\ UNCHANGED <<staticDeinitTime, pending>>
    BY <1>0, <1>2 DEF Realloc, resetGlobals
  <2>2. CASE Reallocator(o, n, a)
    BY <2>1, <2>2, <1>0, ReallocatorDoes DEF Effect
  <2>3. CASE UNCHANGED <<heap, unitVars, reservoirVars, stats>>
    BY <2>1, <2>3, <1>0, NothingDone DEF Effect
  <2> QED
    BY <2>2, <2>3, <1>2 DEF Realloc
<1>3. ASSUME NEW a \in Addr, Free(a) PROVE IInv' /\ UnitsKept /\ Effect
  <2>1. owner' \in Owner /\ UNCHANGED <<staticDeinitTime, pending>>
    BY <1>0, <1>3 DEF Free, resetGlobals
  <2>2. CASE Deallocator(a)
    BY <2>1, <2>2, <1>0, DeallocatorDoes DEF Effect
  <2>3. CASE UNCHANGED <<heap, unitVars, reservoirVars, stats>>
    BY <2>1, <2>3, <1>0, NothingDone DEF Effect
  <2> QED
    BY <2>2, <2>3, <1>3 DEF Free
<1>4. CASE FreeNull
  <2>1. /\ owner' \in Owner /\ UNCHANGED <<staticDeinitTime, pending>>
        /\ UNCHANGED <<heap, unitVars, stats>>
    BY <1>0, <1>4 DEF FreeNull, resetGlobals
  <2>2. CASE staticDeinitTime /\ LeakReport(stats.totalAllocUnitCount, reservoir)
    BY <2>1, <2>2, <1>0, LeakReportDoes DEF Effect
  <2>3. CASE UNCHANGED reservoirVars
    BY <2>1, <2>3, <1>0, NothingDone DEF Effect
  <2> QED
    BY <2>2, <2>3, <1>4 DEF FreeNull
<1>5. ASSUME NEW n \in Size, NEW o \in Line \cup {owner}, OperatorNew(o, n)
      PROVE  IInv' /\ UnitsKept /\ Effect
  <2>1. o \in Owner /\ AtLeastOne(n) \in Size
    BY <1>0
  <2>2. staticDeinitTime' \in BOOLEAN /\ pending' \in Request \cup {NoRequest}
    BY <1>0, <1>5, <2>1 DEF OperatorNew, Throws, Request
  <2>3. ASSUME NEW a \in Addr, Allocator(o, AtLeastOne(n), a) PROVE IInv' /\ UnitsKept /\ Effect
    BY <2>1, <2>2, <2>3, AllocatorDoes DEF Effect
  <2>4. CASE AllocatorFails
    BY <2>2, <2>4, AllocatorFailsDoes DEF Effect
  <2> QED
    BY <2>3, <2>4, <1>5 DEF OperatorNew, Throws
<1>6. CASE RetryNew
  <2>1. pending.owner \in Owner /\ pending.size \in Size
    BY <1>0, <1>6 DEF RetryNew, Request
  <2>2. staticDeinitTime' \in BOOLEAN /\ pending' \in Request \cup {NoRequest}
    BY <1>0, <1>6 DEF RetryNew, Throws
  <2>3. ASSUME NEW a \in Addr, Allocator(pending.owner, pending.size, a)
        PROVE  IInv' /\ UnitsKept /\ Effect
    BY <2>1, <2>2, <2>3, AllocatorDoes DEF Effect
  <2>4. CASE AllocatorFails
    BY <2>2, <2>4, AllocatorFailsDoes DEF Effect
  <2> QED
    BY <2>3, <2>4, <1>6 DEF RetryNew, Throws
<1>7. ASSUME NEW o \in Line, SetOwner(o) PROVE IInv' /\ UnitsKept /\ Effect
  <2>1. /\ UNCHANGED <<heap, unitVars, reservoirVars, stats>> /\ owner' \in Owner
        /\ staticDeinitTime' \in BOOLEAN /\ pending' \in Request \cup {NoRequest}
    BY <1>0, <1>7 DEF SetOwner
  <2> QED
    BY <2>1, NothingDone DEF Effect
<1>8. CASE StaticDeinit
  <2>1. /\ UNCHANGED <<heap, unitVars, stats, pending>> /\ owner' \in Owner
        /\ staticDeinitTime' \in BOOLEAN /\ staticDeinitTime'
        /\ LeakReport(stats.totalAllocUnitCount, reservoir)
    BY <1>0, <1>8 DEF StaticDeinit
  <2> QED
    BY <2>1, LeakReportDoes DEF Effect
<1>9. CASE UNCHANGED vars
  <2>1. /\ UNCHANGED <<heap, unitVars, reservoirVars, stats>> /\ owner' \in Owner
        /\ staticDeinitTime' \in BOOLEAN /\ pending' \in Request \cup {NoRequest}
    BY <1>0, <1>9 DEF vars
  <2> QED
    BY <2>1, NothingDone DEF Effect
<1> QED
  BY <1>1, <1>2, <1>3, <1>4, <1>5, <1>6, <1>7, <1>8, <1>9 DEF Next

LEMMA InitiallyTrue == Init => IInv
<1> SUFFICES ASSUME Init PROVE IInv
  OBVIOUS
<1>1. TypeOK
  BY DEF Init, TypeOK, sMStats, Owner
<1>2. Tracked = {} /\ TrackedIn(reportedAddress) = {}
  BY DEF Init, Tracked, TrackedIn
<1>3. TableOK(hashTable, next, prev, reportedAddress)
  BY <1>2 DEF Init, TableOK, NextPointsBack, HeadsTracked, PrevPointsForth,
     TrackedReached
<1>4. ReservoirOK(next, reservoir, reportedAddress, blocks)
  BY ReachNull DEF Init, ReservoirOK
<1>5. HeapTracked /\ BlocksInUse /\ UnitsCounted
  BY <1>2, FS_EmptySet DEF Init, HeapTracked, BlocksInUse, UnitsCounted
<1> QED
  BY <1>1, <1>3, <1>4, <1>5 DEF IInv

LEMMA Invariant == Spec => []IInv
<1>1. IInv /\ [Next]_vars => IInv'
  BY StepDoes
<1> QED
  BY <1>1, InitiallyTrue, PTL DEF Spec
-----------------------------------------------------------------------------
(* The theorems. *)

(* The manager's state has its type, for any C heap, hash function and block
   size: no counter of the statistics gets below zero, and no unit is given a
   link or an address that is none (mmgr_allocator, mmgr_reallocator and
   mmgr_deallocator). *)
THEOREM TypeCorrect == Spec => []TypeOK
<1>1. IInv => TypeOK
  BY DEF IInv
<1> QED
  BY <1>1, Invariant, PTL

(* findAllocUnit finds the unit of every address that is allocated and of no
   other, in whatever order units were linked in front of their buckets, moved
   between them and unlinked. *)
THEOREM LookupIsExact == Spec => []LookupExact
<1>1. IInv => LookupExact
  <2> SUFFICES ASSUME IInv, NEW a \in Addr
               PROVE  findAllocUnit(a) # NULL <=> a \in heap
    BY DEF LookupExact
  <2>1. \A u \in Tracked : u # NULL
    BY MemoryAssumption DEF Tracked
  <2> QED
    BY <2>1, Found DEF IInv
<1> QED
  BY <1>1, Invariant, PTL

(* What can be reached in a state of the invariant: a bucket has the tracked
   units whose addresses hash to it, and the reservoir none of them. *)
LEMMA WhatIsReached ==
  ASSUME IInv
  PROVE  /\ \A i \in Index : Chain(i) = {u \in Tracked : HashIndex[reportedAddress[u]] = i}
         /\ \A u \in Tracked : HashIndex[reportedAddress[u]] \in Index
         /\ \A u \in Reach(reservoir) : u \notin Tracked /\ u[1] \in blocks
<1>1. /\ hashTable \in Tables /\ next \in Links /\ prev \in Links
      /\ reportedAddress \in Addresses /\ TrackedIn(reportedAddress) = Tracked
      /\ TableOK(hashTable, next, prev, reportedAddress)
  BY DEF IInv, TypeOK, Tables, Links, Addresses, TrackedIn, Tracked
<1>2. ASSUME NEW i \in Index
      PROVE  Chain(i) = {u \in Tracked : HashIndex[reportedAddress[u]] = i}
  <2>1. ReachIn(next, hashTable[i]) = {u \in Tracked : HashIndex[reportedAddress[u]] = i}
    BY <1>1, ChainIs
  <2> QED
    BY <2>1, ReachIs DEF Chain
<1>3. \A u \in Tracked : HashIndex[reportedAddress[u]] \in Index
  BY MemoryAssumption DEF IInv, TypeOK, Tracked
<1>4. ASSUME NEW u \in Reach(reservoir) PROVE u \notin Tracked /\ u[1] \in blocks
  <2>1. u \in ReachIn(next, reservoir)
    BY ReachIs
  <2> QED
    BY <2>1 DEF IInv, ReservoirOK, Tracked
<1> QED
  BY <1>2, <1>3, <1>4

(* Walking a bucket ends, although removing the head of a bucket does not touch
   the prev of the unit behind it (mmgr_deallocator, mmgr_reallocator). *)
THEOREM EveryWalkEnds == Spec => []WalksEnd
<1>1. IInv => WalksEnd
  <2> SUFFICES ASSUME IInv, NEW i \in Index, NEW u \in Chain(i)
               PROVE  u \notin Reach(next[u])
    BY DEF WalksEnd
  <2>1. /\ hashTable \in Tables /\ next \in Links /\ prev \in Links
        /\ reportedAddress \in Addresses /\ TrackedIn(reportedAddress) = Tracked
        /\ TableOK(hashTable, next, prev, reportedAddress)
    BY DEF IInv, TypeOK, Tables, Links, Addresses, TrackedIn, Tracked
  <2>2. u \in Tracked
    BY WhatIsReached
  <2>3. u \notin ReachIn(next, next[u])
    BY <2>1, <2>2, ChainEnds
  <2> QED
    BY <2>3, ReachIs
<1> QED
  BY <1>1, Invariant, PTL

(* The count that mmgr_validateAllAllocUnits makes over all buckets is the
   statistics' count, as every unit is in one bucket or in the reservoir or
   lost, never in two of them. *)
THEOREM EveryUnitCountsOnce == Spec => []ChainsCountTracked
<1>1. IInv => ChainsCountTracked
  <2> SUFFICES ASSUME IInv PROVE ChainsCountTracked
    OBVIOUS
  <2>1. \A i, j \in Index : i # j => Chain(i) \cap Chain(j) = {}
    BY WhatIsReached
  <2>2. \A i \in Index : Chain(i) \cap Reach(reservoir) = {}
    BY WhatIsReached
  <2>3. UNION {Chain(i) : i \in Index} = Tracked
    BY WhatIsReached
  <2> QED
    BY <2>1, <2>2, <2>3 DEF ChainsCountTracked, IInv, UnitsCounted
<1> QED
  BY <1>1, Invariant, PTL

(* Nothing that is reached lies in a block that dumpLeakReport has freed, and
   the blocks it will free have not been freed before. *)
THEOREM NoUnitDangles == Spec => []NoDanglingUnits
<1>1. IInv => NoDanglingUnits
  <2> SUFFICES ASSUME IInv PROVE NoDanglingUnits
    OBVIOUS
  <2>1. \A i \in Index : \A u \in Chain(i) : u[1] \in blocks
    BY WhatIsReached DEF IInv, BlocksInUse
  <2>2. \A u \in UNION {Chain(i) : i \in Index} : u[1] \in blocks
    BY <2>1
  <2> QED
    BY <2>2, WhatIsReached DEF NoDanglingUnits, IInv, BlocksInUse
<1> QED
  BY <1>1, Invariant, PTL

(* An operator new that is served only after its new handler has run gives the
   unit the owner and the size of its own call: it keeps them in locals, while
   the globals are reset by the failed attempt and by whatever the handler
   allocates. *)
THEOREM RetryBearsItsOwner == Spec => RetryKeepsOwner
<1> DEFINE Kept ==
      pending # NoRequest /\ pending' = NoRequest /\ heap' # heap
        => \E u \in Tracked' \ Tracked :
             /\ sourceLine'[u] = pending.owner
             /\ reportedSize'[u] = pending.size
<1>1. IInv /\ [Next]_vars => [Kept]_vars
  <2> SUFFICES ASSUME IInv, [Next]_vars,
                      pending # NoRequest, pending' = NoRequest, heap' # heap
               PROVE  \E u \in Tracked' \ Tracked :
                        sourceLine'[u] = pending.owner /\ reportedSize'[u] = pending.size
    OBVIOUS
  <2>1. RetryNew
    BY DEF Next, vars, Malloc, Realloc, Free, FreeNull, OperatorNew, SetOwner,
       StaticDeinit
  <2>2. PICK a \in Addr : Allocator(pending.owner, pending.size, a)
    BY <2>1 DEF RetryNew, Throws, AllocatorFails
  <2>3. /\ pending.owner \in Owner /\ pending.size \in Size
        /\ staticDeinitTime' \in BOOLEAN /\ pending' \in Request \cup {NoRequest}
    BY <2>1 DEF IInv, TypeOK, Request, RetryNew
  <2>4. PICK au \in Unit : Allocated(au, pending.owner, pending.size, a)
    BY <2>2, <2>3, AllocatorDoes
  <2>5. /\ sourceLine'[au] = pending.owner /\ reportedSize'[au] = pending.size
        /\ au \in Tracked' /\ au \notin Tracked
    BY <2>4 DEF Allocated, IInv, TypeOK, Tracked
  <2> QED
    BY <2>5
<1> QED
  BY <1>1, Invariant, PTL DEF Spec, RetryKeepsOwner

(* What is usable, over ReachIn. *)
LEMMA UsableIs == \A u : Usable(u) <=> u \in Tracked \/ u \in ReachIn(next, reservoir)
  BY ReachIs DEF Usable

LEMMA UsableNextIs ==
  \A u : Usable(u)' <=> u \in Tracked' \/ u \in ReachIn(next', reservoir')
<1>1. Reach(reservoir)'
        = {v \in Unit : \A S \in SUBSET (Unit \ {v}) : ~ Closed(next', reservoir', S)}
  BY DEF Reach, HoldsChain, Closed
<1>2. \A v : \A S \in SUBSET Unit : v \notin S <=> S \in SUBSET (Unit \ {v})
  OBVIOUS
<1>3. Reach(reservoir)' = ReachIn(next', reservoir')
  BY <1>1, <1>2 DEF ReachIn
<1> QED
  BY <1>3 DEF Usable

(* No unit of a block is lost, for any hash function and any size of a block,
   but the one that a request had taken when it failed and those of a block
   without a record when the leak report empties the reservoir. *)
THEOREM UnitsAreNotLost == Spec => UnitsLostOnlyByFailure
<1> DEFINE Kept ==
      \A u \in Unit :
        u[1] \in blocks' /\ (u[1] \in blocks => Usable(u))
          => Usable(u)' \/ LostByFailure(u) \/ LostByReport(u)
<1>1. IInv /\ [Next]_vars => [Kept]_vars
  <2> SUFFICES ASSUME IInv, [Next]_vars,
                      NEW u \in Unit, u[1] \in blocks', u[1] \in blocks => Usable(u)
               PROVE  Usable(u)' \/ LostByFailure(u) \/ LostByReport(u)
    BY Zenon
  <2>1. UnitsKept
    BY StepDoes
  <2>2. \/ u \in Tracked' \/ u \in ReachIn(next', reservoir')
        \/ LostByFailure(u) \/ LostByReport(u)
    BY <2>1, UsableIs DEF UnitsKept
  <2>3. Usable(u)' <=> u \in Tracked' \/ u \in ReachIn(next', reservoir')
    BY UsableNextIs
  <2> QED
    BY <2>2, <2>3
<1> QED
  BY <1>1, Invariant, PTL DEF Spec, UnitsLostOnlyByFailure
-----------------------------------------------------------------------------
(* The statistics are those of the tracked units. *)

Bytes == SumFunctionOnSet(reportedSize, Tracked)

LEMMA StatsExactIs == StatsExact <=> Exact(stats, Bytes, Cardinality(Tracked))
  BY DEF StatsExact, Exact, Bytes

LEMMA StatsStayExact == IInv /\ StatsExact /\ [Next]_vars => StatsExact'
<1> SUFFICES ASSUME IInv, StatsExact, [Next]_vars PROVE StatsExact'
  OBVIOUS
<1>1. IInv' /\ Effect
  BY StepDoes
<1>2. PICK f, T : f = reportedSize /\ T = Tracked
  OBVIOUS
<1>3. PICK g, V : g = reportedSize' /\ V = Tracked'
  OBVIOUS
<1>4. /\ f \in [Unit -> Nat] /\ T \in SUBSET Unit
      /\ g \in [Unit -> Nat] /\ V \in SUBSET Unit
      /\ stats \in sMStats
  <2>1. Size \cup {0} \subseteq Nat
    BY MemoryAssumption
  <2> QED
    BY <1>1, <1>2, <1>3, <2>1 DEF IInv, TypeOK, Tracked
<1>5. /\ Cardinality(T) \in Nat /\ IsFiniteSet(T)
      /\ Cardinality(T) = stats.totalAllocUnitCount
  BY <1>2, <1>4, UnitsFinite, FS_CardinalityType DEF IInv, UnitsCounted
<1>6. Exact(stats, SumFunctionOnSet(f, T), Cardinality(T))
  BY <1>2, StatsExactIs DEF Bytes
<1>7. SUFFICES Exact(stats', SumFunctionOnSet(g, V), Cardinality(V))
  BY <1>3 DEF StatsExact, Exact
<1>8. ASSUME NEW au \in Unit, NEW o \in Owner, NEW n \in Size, NEW a \in Addr,
             Allocated(au, o, n, a)
      PROVE  Exact(stats', SumFunctionOnSet(g, V), Cardinality(V))
  <2>1. /\ au \notin T /\ T \ {au} = T /\ V = T \cup {au} /\ g[au] = n
        /\ \A v \in T \ {au} : g[v] = f[v]
        /\ AccountAllocation(n) /\ n \in Nat
    BY <1>2, <1>3, <1>4, <1>8, MemoryAssumption DEF Allocated, Tracked
  <2>2. PICK b \in Nat, k \in Nat : b = SumFunctionOnSet(f, T) /\ k = Cardinality(T)
    BY <1>4, <1>5, SumTyped
  <2>3. SumFunctionOnSet(g, V) = b + n
    <3>1. SumFunctionOnSet(g, T \cup {au}) = g[au] + SumFunctionOnSet(f, T \ {au})
      BY <1>4, <2>1, SumReplaced
    <3> QED
      BY <2>1, <2>2, <3>1
  <2>4. Cardinality(V) = k + 1
    BY <1>5, <2>1, <2>2, FS_AddElement
  <2>5. Exact(stats', b + n, k + 1)
    BY <1>4, <1>6, <2>1, <2>2, AllocationCounted
  <2> QED
    BY <2>3, <2>4, <2>5
<1>9. ASSUME NEW au \in Unit, NEW n \in Size, NEW a \in Addr, NEW b \in Addr,
             Reallocated(au, n, a, b)
      PROVE  Exact(stats', SumFunctionOnSet(g, V), Cardinality(V))
  <2>0. \A v \in T \ {au} : g[v] = f[v]
    BY <1>2, <1>3, <1>4, <1>9 DEF Reallocated
  <2>1. /\ au \in T /\ V = T /\ T \cup {au} = T /\ g[au] = n
        /\ AccountReallocation(f[au], n) /\ n \in Nat /\ f[au] \in Nat
        /\ T \ {au} \in SUBSET Unit
    BY <1>2, <1>3, <1>4, <1>9, MemoryAssumption DEF Reallocated
  <2>2. PICK r \in Nat, k \in Nat :
          r = SumFunctionOnSet(f, T \ {au}) /\ k = Cardinality(T)
    BY <1>4, <1>5, <2>1, SumTyped
  <2>3. SumFunctionOnSet(f, T) = f[au] + r
    BY <1>4, <2>1, <2>2, SumWithout
  <2>4. SumFunctionOnSet(g, V) = n + r
    <3>1. SumFunctionOnSet(g, T \cup {au}) = g[au] + SumFunctionOnSet(f, T \ {au})
      BY <1>4, <2>0, SumReplaced
    <3> QED
      BY <2>1, <2>2, <3>1
  <2>5. Exact(stats', n + r, k)
    BY <1>4, <1>6, <2>1, <2>2, <2>3, ReallocationCounted
  <2> QED
    BY <2>1, <2>2, <2>4, <2>5
<1>10. ASSUME NEW au \in Unit, NEW a \in Addr, Deallocated(au, a)
       PROVE  Exact(stats', SumFunctionOnSet(g, V), Cardinality(V))
  <2>1. /\ au \in T /\ V = T \ {au} /\ V \in SUBSET Unit
        /\ \A v \in V : g[v] = f[v]
        /\ AccountDeallocation(f[au]) /\ f[au] \in Nat
    BY <1>2, <1>3, <1>4, <1>10 DEF Deallocated
  <2>2. PICK r \in Nat : r = SumFunctionOnSet(f, V)
    BY <1>4, SumTyped
  <2>3. SumFunctionOnSet(f, T) = f[au] + r
    BY <1>4, <2>1, <2>2, SumWithout
  <2>4. SumFunctionOnSet(g, V) = r
    BY <1>4, <2>1, <2>2, SumSame
  <2>5. PICK k \in Nat : k = Cardinality(V) /\ Cardinality(T) = k + 1
    <3>1. Cardinality(T \ {au}) = Cardinality(T) - 1 /\ Cardinality(T \ {au}) \in Nat
      BY <1>4, <1>5, <2>1, OneLess, UnitsFinite, FS_CardinalityType
    <3> QED
      BY <1>5, <2>1, <3>1
  <2>6. stats.totalAllocUnitCount > 0
    BY <1>5, <2>5
  <2>7. Exact(stats', r, k)
    BY <1>4, <1>6, <2>1, <2>3, <2>5, <2>6, DeallocationCounted
  <2> QED
    BY <2>4, <2>5, <2>7
<1>11. CASE UNCHANGED <<heap, reportedAddress, reportedSize, stats>>
  <2>1. g = f /\ V = T /\ stats' = stats
    BY <1>2, <1>3, <1>11 DEF Tracked
  <2> QED
    BY <1>6, <2>1
<1> QED
  BY <1>1, <1>8, <1>9, <1>10, <1>11 DEF Effect

(* The memory the statistics report is what the tracked units have, for any
   paddings, any width of the counters and any history of allocations, moves
   and deallocations, those whose size changes included: an unsigned counter
   that wrapped around on the way up comes back on the way down
   (mmgr_allocator, mmgr_reallocator and mmgr_deallocator). *)
THEOREM StatisticsAreExact == Spec => []StatsExact
<1>1. Init => StatsExact
  <2> SUFFICES ASSUME Init PROVE StatsExact
    OBVIOUS
  <2>1. Tracked = {} /\ Bytes = 0 /\ Cardinality(Tracked) = 0
    <3>1. Tracked = {}
      BY DEF Init, Tracked
    <3> QED
      BY <3>1, SumEmpty, FS_EmptySet DEF Bytes
  <2>2. 0 % StatMod = 0 /\ Padding * 0 = 0 /\ 0 + 0 = 0
    BY MemoryAssumption
  <2>3. Exact(stats, 0, 0)
    BY <2>2 DEF Init, Exact
  <2> QED
    BY <2>1, <2>3, StatsExactIs
<1> QED
  BY <1>1, StatsStayExact, Invariant, PTL DEF Spec
-----------------------------------------------------------------------------
(* The manager implements the table of allocations. *)

(* The sizes of tracked units are sizes that were asked for. *)
SizesTracked == \A u \in Tracked : reportedSize[u] \in Size

LEMMA SizesStayTracked == Spec => []SizesTracked
<1>1. Init => SizesTracked
  BY DEF Init, SizesTracked, Tracked
<1>2. IInv /\ SizesTracked /\ [Next]_vars => SizesTracked'
  <2> SUFFICES ASSUME IInv, SizesTracked, [Next]_vars PROVE SizesTracked'
    OBVIOUS
  <2>1. /\ reportedSize \in [Unit -> Size \cup {0}] /\ Tracked \subseteq Unit
        /\ Effect
    BY StepDoes DEF IInv, TypeOK, Tracked
  <2>2. ASSUME NEW au \in Unit, NEW o \in Owner, NEW n \in Size, NEW a \in Addr,
               Allocated(au, o, n, a)
        PROVE  SizesTracked'
    BY <2>1, <2>2 DEF Allocated, SizesTracked
  <2>3. ASSUME NEW au \in Unit, NEW n \in Size, NEW a \in Addr, NEW b \in Addr,
               Reallocated(au, n, a, b)
        PROVE  SizesTracked'
    BY <2>1, <2>3 DEF Reallocated, SizesTracked
  <2>4. ASSUME NEW au \in Unit, NEW a \in Addr, Deallocated(au, a) PROVE SizesTracked'
    BY <2>1, <2>4 DEF Deallocated, SizesTracked
  <2>5. CASE UNCHANGED <<heap, reportedAddress, reportedSize, stats>>
    BY <2>5 DEF SizesTracked, Tracked
  <2> QED
    BY <2>1, <2>2, <2>3, <2>4, <2>5 DEF Effect
<1> QED
  BY <1>1, <1>2, Invariant, PTL DEF Spec

(* The table that the callers see. *)
SizeAt ==
  [a \in Addr |-> LET au == findAllocUnit(a)
                  IN  IF au = NULL THEN NULL ELSE reportedSize[au]]

(* It has the sizes sz of the units that track the addresses ad. *)
HasSizes(tab, ad, sz) ==
  /\ tab = [a \in Addr |-> tab[a]]
  /\ \A u \in TrackedIn(ad) :
       ad[u] \in Addr /\ sz[u] \in Size /\ tab[ad[u]] = sz[u]
  /\ \A a \in Addr : tab[a] = NULL \/ \E u \in TrackedIn(ad) : ad[u] = a
  /\ \A u, v \in TrackedIn(ad) : ad[u] = ad[v] => u = v

LEMMA TableHasSizes ==
  IInv /\ SizesTracked => HasSizes(SizeAt, reportedAddress, reportedSize)
<1> SUFFICES ASSUME IInv, SizesTracked
             PROVE  HasSizes(SizeAt, reportedAddress, reportedSize)
  OBVIOUS
<1>1. TrackedIn(reportedAddress) = Tracked /\ \A u \in Tracked : u # NULL
  BY MemoryAssumption DEF Tracked, TrackedIn
<1>2. \A a \in Addr : SizeAt[a] = IF findAllocUnit(a) = NULL THEN NULL
                                 ELSE reportedSize[findAllocUnit(a)]
  BY DEF SizeAt
<1>3. SizeAt = [a \in Addr |-> SizeAt[a]]
  BY DEF SizeAt
<1>4. ASSUME NEW u \in Tracked
      PROVE  /\ reportedAddress[u] \in Addr /\ reportedSize[u] \in Size
             /\ SizeAt[reportedAddress[u]] = reportedSize[u]
  BY <1>1, <1>2, FoundIs DEF IInv, SizesTracked
<1>5. ASSUME NEW a \in Addr
      PROVE  SizeAt[a] = NULL \/ \E u \in Tracked : reportedAddress[u] = a
  BY <1>2, Found DEF IInv
<1>6. \A u, v \in Tracked : reportedAddress[u] = reportedAddress[v] => u = v
  BY DEF IInv, HeapTracked
<1> QED
  BY <1>1, <1>3, <1>4, <1>5, <1>6 DEF HasSizes

LEMMA TableTyped == IInv /\ SizesTracked => SizeAt \in [Addr -> Size \cup {NULL}]
<1> SUFFICES ASSUME IInv, SizesTracked PROVE SizeAt \in [Addr -> Size \cup {NULL}]
  OBVIOUS
<1>1. ASSUME NEW a \in Addr PROVE SizeAt[a] \in Size \cup {NULL}
  BY TableHasSizes DEF HasSizes
<1>2. SizeAt = [a \in Addr |-> SizeAt[a]]
  BY DEF SizeAt
<1> QED
  BY <1>1, <1>2

(* A step of the table, from s to t. *)
TableStep(s, t) ==
  \E a \in Addr :
    \/ s[a] = NULL /\ t[a] \in Size /\ t = [s EXCEPT ![a] = t[a]]
    \/ s[a] # NULL /\ t = [s EXCEPT ![a] = NULL]
    \/ \E b \in Addr :
         /\ s[a] # NULL /\ (b = a \/ s[b] = NULL) /\ t[b] \in Size
         /\ t = [s EXCEPT ![a] = NULL, ![b] = t[b]]

(* Two tables that have the same sizes are equal. *)
LEMMA SameSizes ==
  ASSUME NEW s, NEW t, NEW ad, NEW sz, HasSizes(s, ad, sz), HasSizes(t, ad, sz)
  PROVE  s = t
<1>1. s = [a \in Addr |-> s[a]] /\ t = [a \in Addr |-> t[a]]
  BY DEF HasSizes
<1>2. ASSUME NEW a \in Addr PROVE s[a] = t[a]
  BY DEF HasSizes
<1> QED
  BY <1>1, <1>2

(* Nothing but the size at address a changes with the unit that tracks it. *)
LEMMA OneSizeMore ==
  ASSUME NEW s, NEW t, NEW ad, NEW sz, HasSizes(s, ad, sz),
         NEW bd, NEW cz, HasSizes(t, bd, cz),
         NEW au, NEW a \in Addr, NEW n,
         TrackedIn(bd) = TrackedIn(ad) \cup {au}, bd[au] = a, cz[au] = n,
         \A u \in TrackedIn(ad) : ad[u] # a /\ bd[u] = ad[u] /\ cz[u] = sz[u]
  PROVE  s[a] = NULL /\ t[a] = n /\ t = [s EXCEPT ![a] = n]
<1>1. s[a] = NULL /\ t[a] = n
  BY DEF HasSizes
<1>2. ASSUME NEW b \in Addr, b # a PROVE t[b] = s[b]
  <2>1. CASE \E u \in TrackedIn(ad) : ad[u] = b
    BY <2>1 DEF HasSizes
  <2>2. CASE ~ \E u \in TrackedIn(ad) : ad[u] = b
    <3>1. s[b] = NULL
      BY <2>2 DEF HasSizes
    <3>2. ~ \E u \in TrackedIn(bd) : bd[u] = b
      BY <1>2, <2>2
    <3>3. t[b] = NULL
      BY <3>2 DEF HasSizes
    <3> QED
      BY <3>1, <3>3
  <2> QED
    BY <2>1, <2>2
<1>3. s = [b \in Addr |-> s[b]] /\ t = [b \in Addr |-> t[b]]
  BY DEF HasSizes
<1> QED
  BY <1>1, <1>2, <1>3

LEMMA OneSizeLess ==
  ASSUME NEW s, NEW ad \in Addresses, NEW sz \in [Unit -> Nat],
         HasSizes(s, ad, sz), NEW au \in TrackedIn(ad)
  PROVE  /\ s[ad[au]] # NULL
         /\ HasSizes([s EXCEPT ![ad[au]] = NULL],
                     [ad EXCEPT ![au] = NULL], [sz EXCEPT ![au] = 0])
<1> DEFINE bd == [ad EXCEPT ![au] = NULL]
           cz == [sz EXCEPT ![au] = 0]
           a == ad[au]
           t == [s EXCEPT ![a] = NULL]
<1>1. /\ TrackedIn(bd) = TrackedIn(ad) \ {au}
      /\ \A u \in TrackedIn(bd) : u # au /\ bd[u] = ad[u] /\ cz[u] = sz[u]
  BY DEF TrackedIn, Addresses
<1>2. /\ a \in Addr /\ s[a] = sz[au] /\ sz[au] \in Size
      /\ s = [b \in Addr |-> s[b]]
  BY DEF HasSizes
<1>3. /\ t = [b \in Addr |-> t[b]] /\ t[a] = NULL
      /\ \A b \in Addr \ {a} : t[b] = s[b]
  BY <1>2
<1>4. \A u \in TrackedIn(bd) : u \in TrackedIn(ad) /\ ad[u] # a
  BY <1>1 DEF HasSizes
<1> HIDE DEF bd, cz, t
<1>5. \A u \in TrackedIn(bd) : bd[u] \in Addr /\ cz[u] \in Size /\ t[bd[u]] = cz[u]
  BY <1>1, <1>3, <1>4 DEF HasSizes
<1>6. ASSUME NEW b \in Addr PROVE t[b] = NULL \/ \E u \in TrackedIn(bd) : bd[u] = b
  <2>1. CASE b = a
    BY <1>3, <2>1
  <2>2. CASE b # a
    <3>1. s[b] = NULL \/ \E u \in TrackedIn(ad) : ad[u] = b
      BY DEF HasSizes
    <3> QED
      BY <3>1, <2>2, <1>1, <1>3
  <2> QED
    BY <2>1, <2>2
<1>7. \A u, v \in TrackedIn(bd) : bd[u] = bd[v] => u = v
  BY <1>1 DEF HasSizes
<1>8. HasSizes(t, bd, cz)
  BY <1>3, <1>5, <1>6, <1>7 DEF HasSizes
<1> QED
  BY <1>2, <1>8, MemoryAssumption DEF bd, cz, t

(* A step of the manager is one of the table, or changes nothing in it. *)
LEMMA StepIsTableStep ==
  IInv /\ SizesTracked /\ SizesTracked' /\ [Next]_vars
    => TableStep(SizeAt, SizeAt') \/ SizeAt' = SizeAt
<1> SUFFICES ASSUME IInv, SizesTracked, SizesTracked', [Next]_vars
             PROVE  TableStep(SizeAt, SizeAt') \/ SizeAt' = SizeAt
  OBVIOUS
<1>1. IInv' /\ Effect
  BY StepDoes
<1>2. PICK s, ad, sz : s = SizeAt /\ ad = reportedAddress /\ sz = reportedSize
  OBVIOUS
<1>3. PICK t, bd, cz : t = SizeAt' /\ bd = reportedAddress' /\ cz = reportedSize'
  OBVIOUS
<1>4. ad \in Addresses /\ sz \in [Unit -> Nat] /\ TrackedIn(ad) = Tracked
  <2>1. Size \cup {0} \subseteq Nat /\ sz \in [Unit -> Size \cup {0}]
    BY <1>2, MemoryAssumption DEF IInv, TypeOK
  <2> QED
    BY <1>2, <2>1 DEF IInv, TypeOK, Addresses, TrackedIn, Tracked
<1>5. HasSizes(s, ad, sz)
  BY <1>2, TableHasSizes
<1>6. HasSizes(t, bd, cz)
  <2>1. HasSizes(SizeAt, reportedAddress, reportedSize)'
    BY <1>1, TableHasSizes, PTL
  <2>2. HasSizes(SizeAt', reportedAddress', reportedSize')
    BY <2>1 DEF HasSizes, TrackedIn
  <2> QED
    BY <2>2, <1>3
<1>7. \A u \in Tracked : ad[u] \in heap /\ ad[u] # NULL
  BY <1>2 DEF IInv, HeapTracked, Tracked
<1>8. ASSUME NEW au \in Unit, NEW o \in Owner, NEW n \in Size, NEW a \in Addr,
             Allocated(au, o, n, a)
      PROVE  TableStep(s, t)
  <2>1. /\ TrackedIn(bd) = TrackedIn(ad) \cup {au} /\ bd[au] = a /\ cz[au] = n
        /\ \A u \in TrackedIn(ad) : ad[u] # a /\ bd[u] = ad[u] /\ cz[u] = sz[u]
    BY <1>2, <1>3, <1>4, <1>7, <1>8, MemoryAssumption DEF Allocated,
       TrackedIn, Addresses
  <2>2. s[a] = NULL /\ t[a] = n /\ t = [s EXCEPT ![a] = n]
    BY <1>5, <1>6, <2>1, OneSizeMore
  <2> QED
    BY <2>2 DEF TableStep
<1>9. ASSUME NEW au \in Unit, NEW a \in Addr, Deallocated(au, a)
      PROVE  TableStep(s, t)
  <2>1. /\ au \in TrackedIn(ad) /\ ad[au] = a
        /\ HasSizes(t, [ad EXCEPT ![au] = NULL], [sz EXCEPT ![au] = 0])
    BY <1>2, <1>3, <1>4, <1>6, <1>9 DEF Deallocated
  <2>2. /\ s[a] # NULL
        /\ HasSizes([s EXCEPT ![a] = NULL],
                    [ad EXCEPT ![au] = NULL], [sz EXCEPT ![au] = 0])
    BY <2>1, <1>4, <1>5, OneSizeLess
  <2>3. t = [s EXCEPT ![a] = NULL]
    BY <2>1, <2>2, SameSizes
  <2> QED
    BY <2>2, <2>3 DEF TableStep
<1>10. ASSUME NEW au \in Unit, NEW n \in Size, NEW a \in Addr, NEW b \in Addr,
              Reallocated(au, n, a, b)
       PROVE  TableStep(s, t)
  <2>0. PICK m, md, mz : /\ m = [s EXCEPT ![a] = NULL]
                         /\ md = [ad EXCEPT ![au] = NULL]
                         /\ mz = [sz EXCEPT ![au] = 0]
    OBVIOUS
  <2>1. /\ au \in TrackedIn(ad) /\ au \in Unit /\ ad[au] = a
        /\ b = a \/ b \notin heap
        /\ bd = [ad EXCEPT ![au] = b] /\ cz = [sz EXCEPT ![au] = n]
    BY <1>2, <1>3, <1>4, <1>10 DEF Reallocated
  <2>2. s[a] # NULL /\ HasSizes(m, md, mz)
    BY <2>0, <2>1, <1>4, <1>5, OneSizeLess
  <2>3. b = a \/ s[b] = NULL
    BY <2>1, <1>4, <1>5, <1>7 DEF HasSizes
  <2>4. /\ TrackedIn(md) = TrackedIn(ad) \ {au}
        /\ \A u \in TrackedIn(md) : md[u] = ad[u] /\ mz[u] = sz[u]
    BY <2>0, <2>1, <1>4 DEF TrackedIn, Addresses
  <2>5. /\ TrackedIn(bd) = TrackedIn(md) \cup {au} /\ bd[au] = b /\ cz[au] = n
        /\ \A u \in TrackedIn(md) : md[u] # b /\ bd[u] = md[u] /\ cz[u] = mz[u]
    <3>1. /\ TrackedIn(bd) = TrackedIn(ad) /\ bd[au] = b /\ cz[au] = n
          /\ \A u \in TrackedIn(ad) \ {au} : bd[u] = ad[u] /\ cz[u] = sz[u]
      BY <2>1, <1>4, MemoryAssumption DEF TrackedIn, Addresses
    <3>2. \A u \in TrackedIn(ad) \ {au} : ad[u] # b
      BY <2>1, <1>4, <1>5, <1>7 DEF HasSizes
    <3> QED
      BY <2>1, <2>4, <3>1, <3>2
  <2>6. m[b] = NULL /\ t[b] = n /\ t = [m EXCEPT ![b] = n]
    <3>1. HasSizes(m, md, mz) /\ b \in Addr
      BY <2>2
    <3> QED
      BY <3>1, <1>6, <2>5, OneSizeMore
  <2>7. t = [s EXCEPT ![a] = NULL, ![b] = t[b]]
    BY <2>0, <2>6
  <2> QED
    BY <2>2, <2>3, <2>6, <2>7 DEF TableStep
<1>11. TableStep(s, t) \/ t = s
  <2>1. UNCHANGED <<heap, reportedAddress, reportedSize, stats>> => t = s
    BY <1>2, <1>3, <1>5, <1>6, SameSizes
  <2> QED
    BY <1>1, <1>8, <1>9, <1>10, <2>1 DEF Effect
<1> QED
  BY <1>2, <1>3, <1>11

(* The calls of the manager, with hash table, reservoir, retries and leak
   report, do to the addresses and sizes callers see what an abstract table of
   allocations does: a step of mmgr_allocator, mmgr_reallocator or
   mmgr_deallocator is one of its steps, and every other changes nothing. *)
THEOREM ImplementsItsTable == Spec => ImplementsTable
<1>1. Init => Table!TableInit
  <2> SUFFICES ASSUME Init PROVE Table!TableInit
    OBVIOUS
  <2>1. IInv /\ heap = {}
    BY InitiallyTrue DEF Init
  <2>2. \A a \in Addr : findAllocUnit(a) = NULL
    BY <2>1, Found DEF IInv
  <2> QED
    BY <2>2 DEF Table!TableInit
<1>2. ASSUME IInv, SizesTracked, SizesTracked', [Next]_vars
      PROVE  TableStep(SizeAt, SizeAt') => Table!TableNext
  <2>1. SizeAt' \in [Addr -> Size \cup {NULL}]
    <3>1. IInv'
      BY <1>2, StepDoes
    <3>2. (SizeAt \in [Addr -> Size \cup {NULL}])'
      BY <1>2, <3>1, TableTyped, PTL
    <3> QED
      BY <3>2
  <2>2. PICK s, t : s = SizeAt /\ t = SizeAt'
    OBVIOUS
  <2>3. SUFFICES ASSUME TableStep(s, t) PROVE Table!TableNext
    BY <2>2
  <2>4. \E a \in Addr :
          \/ /\ s[a] = NULL /\ t[a] \in Size
             /\ \A c \in Addr \ {a} : t[c] = s[c]
          \/ /\ s[a] # NULL /\ t[a] = NULL
             /\ \A c \in Addr \ {a} : t[c] = s[c]
          \/ \E b \in Addr :
               /\ s[a] # NULL /\ (b = a \/ (s[b] = NULL /\ t[a] = NULL))
               /\ t[b] \in Size
               /\ \A c \in Addr \ {a, b} : t[c] = s[c]
    <3>1. s = [a \in Addr |-> s[a]]
      BY <2>2 DEF SizeAt
    <3> QED
      BY <2>3, <3>1 DEF TableStep
  <2> QED
    BY <2>1, <2>2, <2>4 DEF SizeAt, Table!TableNext, Table!TableTypeOK, Table!Allocate,
       Table!Deallocate, Table!Reallocate, Table!IsAllocated, Table!KeepsOthers
<1>3. IInv /\ SizesTracked /\ SizesTracked' /\ [Next]_vars
        => [Table!TableNext]_SizeAt
  BY <1>2, StepIsTableStep
<1> QED
  BY <1>1, <1>3, Invariant, SizesStayTracked, PTL
  DEF Spec, ImplementsTable, Table!TableSpec, SizeAt
=============================================================================
