---------------------------- MODULE ByteValuesProofs ----------------------------
(***************************************************************************)
(* ByteContainers implements ByteValues, for any number of containers,     *)
(* blocks and bytes: what a call does to blocks is what ByteValues says of *)
(* that call with values.                                                  *)
(*                                                                         *)
(* First come the lemmas on what each operation does to the bytes that can *)
(* be read in a container, then, call by call, that these bytes are those  *)
(* of the action of ByteValues.                                            *)
(***************************************************************************)
EXTENDS ByteContainersProofs
-----------------------------------------------------------------------------
(* The bytes of a container. *)

(* What byte i of the block at d reads as. *)
Reads(h, d, i) ==
  IF d # NULL /\ h[d] # Free /\ i <= Len(h[d]) THEN h[d][i] ELSE Garbage

(* The value of self, and what it keeps, in the heap h. *)
ValueIn(h, self) == Bytes(h, self.data, 0, self.m_size)

KeptIn(h, self) ==
  IF self.data = NULL THEN <<>>
  ELSE Bytes(h, self.data, self.m_size, BlockSize(self) - self.m_size)

LEMMA BytesRead ==
  ASSUME NEW h \in Heaps, NEW d \in Addr \cup {NULL}, NEW from \in Nat, NEW n \in Nat
  PROVE  /\ Bytes(h, d, from, n) \in Block /\ Len(Bytes(h, d, from, n)) = n
         /\ \A i \in 1..n : Bytes(h, d, from, n)[i] = Reads(h, d, from + i)
<1>1. \A i \in 1..n : Bytes(h, d, from, n)[i] = Reads(h, d, from + i)
  BY DEF Bytes, Reads
<1> QED
  BY <1>1, BytesAre

LEMMA Concatenated ==
  ASSUME NEW v \in Block, NEW k \in Block
  PROVE  /\ v \o k \in Block /\ Len(v \o k) = Len(v) + Len(k)
         /\ Len(v) \in Nat /\ Len(k) \in Nat
         /\ DOMAIN (v \o k) = 1..(Len(v) + Len(k))
         /\ DOMAIN v = 1..Len(v) /\ DOMAIN k = 1..Len(k)
         /\ \A i \in 1..Len(v) : (v \o k)[i] = v[i]
         /\ \A j \in 1..Len(k) : (v \o k)[Len(v) + j] = k[j]
  BY DEF Block

LEMMA ValueRead ==
  ASSUME NEW h \in Heaps, NEW self \in Array \cup Buffer
  PROVE  /\ ValueIn(h, self) \in Block /\ Len(ValueIn(h, self)) = self.m_size
         /\ self.m_size \in Nat
         /\ DOMAIN ValueIn(h, self) = 1..self.m_size
         /\ \A i \in 1..self.m_size : ValueIn(h, self)[i] = Reads(h, self.data, i)
<1>1. self.data \in Addr \cup {NULL} /\ self.m_size \in Nat
  BY DEF Array, Buffer
<1>2. PICK d, n : d = self.data /\ n = self.m_size
  OBVIOUS
<1>3. /\ Bytes(h, d, 0, n) \in Block /\ Len(Bytes(h, d, 0, n)) = n
      /\ \A i \in 1..n : Bytes(h, d, 0, n)[i] = Reads(h, d, 0 + i)
  <2>1. d \in Addr \cup {NULL} /\ n \in Nat /\ 0 \in Nat
    BY <1>1, <1>2
  <2> QED
    BY <2>1, BytesRead
<1>4. \A i \in 1..n : 0 + i = i
  OBVIOUS
<1>5. DOMAIN Bytes(h, d, 0, n) = 1..n
  BY DEF Bytes
<1> QED
  BY <1>1, <1>2, <1>3, <1>4, <1>5 DEF ValueIn

(* What is kept behind the last element goes on to the end of the block. *)
LEMMA OldRead ==
  ASSUME NEW h \in Heaps, NEW self \in Array \cup Buffer, Fitting(self, h),
         NEW i \in Nat \ {0}
  PROVE  \/ /\ i \in DOMAIN (ValueIn(h, self) \o KeptIn(h, self))
            /\ (ValueIn(h, self) \o KeptIn(h, self))[i] = Reads(h, self.data, i)
         \/ i > self.m_size /\ Reads(h, self.data, i) = Garbage
<1>1. self.data \in Addr \cup {NULL} /\ self.m_size \in Nat /\ BlockSize(self) \in Nat
  BY DEF Array, Buffer, BlockSize
<1>2. PICK v, k : v = ValueIn(h, self) /\ k = KeptIn(h, self)
  OBVIOUS
<1>3. /\ v \in Block /\ Len(v) = self.m_size
      /\ \A j \in 1..self.m_size : v[j] = Reads(h, self.data, j)
  BY <1>2, ValueRead
<1>4. CASE self.data # NULL /\ self.m_size <= BlockSize(self)
  <2>1. PICK d, m, n : d = self.data /\ m = self.m_size /\ n = BlockSize(self) - self.m_size
    OBVIOUS
  <2>2. d \in Addr \cup {NULL} /\ m \in Nat /\ n \in Nat
    BY <1>1, <1>4, <2>1
  <2>3. /\ k \in Block /\ Len(k) = n
        /\ \A j \in 1..n : k[j] = Reads(h, d, m + j)
    <3>1. k = Bytes(h, d, m, n)
      BY <1>2, <1>4, <2>1 DEF KeptIn
    <3> QED
      BY <2>2, <3>1, BytesRead
  <2>4. /\ DOMAIN (v \o k) = 1..(m + n)
        /\ \A j \in 1..m : (v \o k)[j] = v[j]
        /\ \A j \in 1..n : (v \o k)[m + j] = k[j]
    <3>1. v \in Block /\ k \in Block /\ Len(v) = m /\ Len(k) = n
      BY <1>3, <2>1, <2>3
    <3> QED
      BY <3>1, Concatenated
  <2>5. CASE i <= m
    <3>1. i \in 1..m /\ i \in 1..(m + n)
      BY <2>2, <2>5
    <3> QED
      BY <1>2, <1>3, <2>1, <2>4, <3>1
  <2>6. CASE i > m /\ i <= m + n
    <3>1. PICK j \in 1..n : i = m + j
      <4>1. i - m \in 1..n /\ i = m + (i - m)
        BY <2>2, <2>6
      <4> QED
        BY <4>1
    <3>2. i \in 1..(m + n)
      BY <2>2, <2>6
    <3> QED
      BY <1>2, <2>1, <2>3, <2>4, <3>1, <3>2
  <2>7. CASE i > m + n
    <3>1. Len(h[d]) = m + n /\ i > m
      BY <1>1, <1>4, <2>1, <2>2, <2>7 DEF Fitting, Capacity, BlockSize
    <3>2. ~ (i <= Len(h[d]))
      BY <2>2, <2>7, <3>1
    <3> QED
      BY <2>1, <3>1, <3>2 DEF Reads
  <2> QED
    BY <2>2, <2>5, <2>6, <2>7
<1>5. CASE self.data = NULL \/ self.m_size > BlockSize(self)
  <2>1. k = <<>>
    <3>1. CASE self.data = NULL
      BY <1>2, <3>1 DEF KeptIn
    <3>2. CASE self.data # NULL /\ self.m_size > BlockSize(self)
      <4>1. PICK n : n = BlockSize(self) - self.m_size
        OBVIOUS
      <4>2. n \in Int /\ n < 0
        BY <1>1, <3>2, <4>1
      <4>3. 1..n = {}
        BY <4>2
      <4>4. Bytes(h, self.data, self.m_size, n) = <<>>
        BY <4>3 DEF Bytes
      <4> QED
        BY <1>2, <3>2, <4>1, <4>4 DEF KeptIn
    <3> QED
      BY <1>5, <3>1, <3>2
  <2>2. v \o k = v
    BY <1>3, <2>1 DEF Block
  <2>3. CASE i <= self.m_size
    <3>1. i \in 1..self.m_size /\ DOMAIN v = 1..self.m_size
      BY <1>1, <1>3, <2>3 DEF Block
    <3> QED
      BY <1>2, <1>3, <2>2, <3>1
  <2>4. CASE i > self.m_size
    <3>1. Reads(h, self.data, i) = Garbage
      <4>1. CASE self.data = NULL
        BY <4>1 DEF Reads
      <4>2. CASE self.data # NULL
        <5>1. Len(h[self.data]) = BlockSize(self)
          BY <4>2 DEF Fitting, Capacity, BlockSize
        <5>2. ~ (i <= Len(h[self.data]))
          BY <1>1, <1>5, <2>4, <4>2, <5>1
        <5> QED
          BY <5>2 DEF Reads
      <4> QED
        BY <4>1, <4>2
    <3> QED
      BY <2>4, <3>1
  <2> QED
    BY <1>1, <2>3, <2>4
<1> QED
  BY <1>1, <1>4, <1>5
LEMMA Same ==
  ASSUME NEW s \in Block, NEW t \in Block, Len(s) = Len(t),
         \A i \in 1..Len(s) : s[i] = t[i]
  PROVE  s = t
  BY DEF Block

-----------------------------------------------------------------------------
(* What the operations do to the bytes that can be read. *)

(* From r to q, the block that r has stays as it is, or is freed. *)
Leaves(q, r) ==
  q.heap = r.heap \/ (r.self.data # NULL => q.heap[r.self.data] = Free)

LEMMA MovesRead ==
  ASSUME NEW rest \in SUBSET Addr, NEW r, Sound(r, rest), NEW s \in Block,
         NEW p \in Moves(r, s)
  PROVE  /\ p.heap \in Heaps /\ p.failed = r.failed /\ p.fault = r.fault
         /\ p \in Runs /\ p.self.kind = r.self.kind
         /\ \A i \in 1..Len(s) : Reads(p.heap, p.self.data, i) = s[i]
         /\ r.self.data # NULL => p.heap[r.self.data] = Free
<1>1. PICK a \in Addr :
        /\ r.heap[a] = Free
        /\ p = [r EXCEPT !.heap = [Released(r).heap EXCEPT ![a] = s], !.self.data = a]
  BY DEF Moves
<1>2. /\ r \in Runs /\ r.self \in Array \cup Buffer /\ r.self.data \in Addr \cup {NULL}
      /\ a # NULL /\ s # Free
  BY <1>1, ObjectsAssumption DEF Sound, Runs, Array, Buffer, Block
<1>3. /\ Released(r).heap \in Heaps
      /\ \A b \in Addr : Released(r).heap[b] # Free <=> b \in rest
  BY ReleasedIs
<1>4. PICK h : h = [Released(r).heap EXCEPT ![a] = s]
  OBVIOUS
<1>5. h \in Heaps /\ h[a] = s /\ \A b \in Addr \ {a} : h[b] = Released(r).heap[b]
  BY <1>3, <1>4 DEF Heaps
<1>6. p = [r EXCEPT !.heap = h, !.self.data = a]
  BY <1>1, <1>4
<1>7. PICK self : self = [r.self EXCEPT !.data = a]
  OBVIOUS
<1>8. p = [heap |-> h, self |-> self, failed |-> r.failed, fault |-> r.fault]
  BY <1>2, <1>6, <1>7 DEF Runs
<1>9. self \in Array \cup Buffer /\ self.data = a /\ self.kind = r.self.kind
  BY <1>2, <1>7 DEF Array, Buffer
<1>10. /\ p.heap = h /\ p.self = self /\ p.failed = r.failed /\ p.fault = r.fault
       /\ p \in Runs
  BY <1>2, <1>5, <1>8, <1>9 DEF Runs
<1>11. r.self.data # NULL => h[r.self.data] = Free
  BY <1>1, <1>2, <1>3, <1>5 DEF Sound
<1>12. \A i \in 1..Len(s) : Reads(h, a, i) = s[i]
  BY <1>2, <1>5 DEF Reads, Block
<1> QED
  BY <1>5, <1>9, <1>10, <1>11, <1>12

LEMMA ReleasedHeap ==
  ASSUME NEW rest \in SUBSET Addr, NEW r, Sound(r, rest)
  PROVE  /\ Released(r).heap \in Heaps
         /\ \A a \in rest : Released(r).heap[a] = heap[a]
         /\ r.self.data # NULL => Released(r).heap[r.self.data] = Free
<1>1. /\ Released(r).heap \in Heaps
      /\ \A a \in Addr : Released(r).heap[a] # Free <=> a \in rest
      /\ \A a \in rest : Released(r).heap[a] = heap[a]
  BY ReleasedIs
<1>2. r.self.data \in Addr \cup {NULL} /\ r.self.data \notin rest
  BY DEF Sound, Runs, Array, Buffer
<1> QED
  BY <1>1, <1>2

LEMMA FailedIs ==
  ASSUME NEW r \in Runs
  PROVE  Failed(r).heap = r.heap /\ Failed(r).self = r.self /\ Failed(r).failed
  BY DEF Failed, Runs

LEMMA ArrayMovesRead ==
  ASSUME NEW rest \in SUBSET Addr, NEW r, Sound(r, rest), r.self.kind = "array",
         NEW s \in Block, NEW q \in ArrayMoves(r, s)
  PROVE  \/ q.failed /\ q.heap = r.heap /\ q.self = r.self
         \/ /\ q.failed = r.failed /\ q.self.m_size = Len(s)
            /\ \A i \in 1..Len(s) : Reads(q.heap, q.self.data, i) = s[i]
            /\ r.self.data # NULL => q.heap[r.self.data] = Free
<1>1. r \in Runs
  BY DEF Sound
<1>2. CASE q = Failed(r)
  BY <1>1, <1>2, FailedIs
<1>3. ASSUME NEW p \in Moves(r, s), q = [p EXCEPT !.self.m_size = Len(s)]
      PROVE  /\ q.failed = r.failed /\ q.self.m_size = Len(s)
             /\ \A i \in 1..Len(s) : Reads(q.heap, q.self.data, i) = s[i]
             /\ r.self.data # NULL => q.heap[r.self.data] = Free
  <2>1. /\ p.heap \in Heaps /\ p.failed = r.failed /\ p.fault = r.fault
        /\ p \in Runs /\ p.self.kind = r.self.kind
        /\ \A i \in 1..Len(s) : Reads(p.heap, p.self.data, i) = s[i]
        /\ r.self.data # NULL => p.heap[r.self.data] = Free
    BY MovesRead
  <2>2. PICK self : /\ self = [p.self EXCEPT !.m_size = Len(s)]
                    /\ q = [p EXCEPT !.self = self]
    BY <1>3, <2>1 DEF Runs
  <2>3. self.data = p.self.data /\ self.m_size = Len(s)
    BY <2>1, <2>2 DEF Runs, Array, Buffer
  <2>4. q.heap = p.heap /\ q.failed = p.failed /\ q.self = self
    BY <2>1, <2>2 DEF Runs
  <2> QED
    BY <2>1, <2>3, <2>4
<1> QED
  BY <1>2, <1>3 DEF ArrayMoves

LEMMA BufferMovesRead ==
  ASSUME NEW rest \in SUBSET Addr, NEW r, Sound(r, rest), r.self.kind = "buffer",
         NEW s \in Block, NEW m \in Nat, NEW q \in BufferMoves(r, s, m)
  PROVE  \/ q.failed /\ q.heap = r.heap /\ q.self = r.self
         \/ /\ q.failed = r.failed /\ q.self.m_size = m
            /\ \A i \in 1..Len(s) : Reads(q.heap, q.self.data, i) = s[i]
            /\ r.self.data # NULL => q.heap[r.self.data] = Free
<1>1. r \in Runs
  BY DEF Sound
<1>2. CASE q = Failed(r)
  BY <1>1, <1>2, FailedIs
<1>3. ASSUME NEW p \in Moves(r, s),
             q = [p EXCEPT !.self.m_size = m, !.self.m_capacity = Len(s)]
      PROVE  /\ q.failed = r.failed /\ q.self.m_size = m
             /\ \A i \in 1..Len(s) : Reads(q.heap, q.self.data, i) = s[i]
             /\ r.self.data # NULL => q.heap[r.self.data] = Free
  <2>1. /\ p.heap \in Heaps /\ p.failed = r.failed /\ p.fault = r.fault
        /\ p \in Runs /\ p.self.kind = r.self.kind
        /\ \A i \in 1..Len(s) : Reads(p.heap, p.self.data, i) = s[i]
        /\ r.self.data # NULL => p.heap[r.self.data] = Free
    BY MovesRead
  <2>2. PICK self : /\ self = [p.self EXCEPT !.m_size = m, !.m_capacity = Len(s)]
                    /\ q = [p EXCEPT !.self = self]
    BY <1>3, <2>1 DEF Runs
  <2>3. self.data = p.self.data /\ self.m_size = m
    <3>1. p.self \in Buffer
      BY <2>1 DEF Runs, Array, Buffer
    <3> QED
      BY <2>2, <3>1 DEF Buffer
  <2>4. q.heap = p.heap /\ q.failed = p.failed /\ q.self = self
    BY <2>1, <2>2 DEF Runs
  <2> QED
    BY <2>1, <2>3, <2>4
<1> QED
  BY <1>2, <1>3 DEF BufferMoves

(* What a reallocation to n bytes copies when m stay, and what it does not. *)
LEMMA KeptRead ==
  ASSUME NEW h \in Heaps, NEW d \in Addr \cup {NULL}, NEW m \in Nat, NEW n \in Nat, m <= n
  PROVE  /\ Bytes(h, d, 0, m) \o Unwritten(n - m) \in Block
         /\ Len(Bytes(h, d, 0, m) \o Unwritten(n - m)) = n
         /\ \A i \in 1..n : (Bytes(h, d, 0, m) \o Unwritten(n - m))[i] =
                              IF i <= m THEN Reads(h, d, i) ELSE Garbage
<1>0. PICK s : s = Bytes(h, d, 0, m) \o Unwritten(n - m)
  OBVIOUS
<1>1. PICK u, v : u = Bytes(h, d, 0, m) /\ v = Unwritten(n - m)
  OBVIOUS
<1>2. 0 \in Nat /\ n - m \in Nat
  OBVIOUS
<1>3. /\ u \in Block /\ Len(u) = m
      /\ \A i \in 1..m : u[i] = Reads(h, d, i)
  <2>1. \A i \in 1..m : u[i] = Reads(h, d, 0 + i)
    BY <1>1, <1>2, BytesRead
  <2> QED
    BY <1>1, <1>2, <2>1, BytesAre
<1>4. v \in Block /\ Len(v) = n - m /\ \A j \in 1..(n - m) : v[j] = Garbage
  BY <1>1, <1>2, UnwrittenIs DEF Unwritten
<1>5. /\ s \in Block /\ Len(s) = Len(u) + Len(v)
      /\ \A i \in 1..Len(u) : s[i] = u[i]
      /\ \A j \in 1..Len(v) : s[Len(u) + j] = v[j]
  BY <1>0, <1>1, <1>3, <1>4, Concatenated
<1>6. ASSUME NEW i \in 1..n, i > m PROVE s[i] = Garbage
  <2>1. PICK j \in 1..(n - m) : i = m + j
    <3>1. i - m \in 1..(n - m) /\ i = m + (i - m)
      BY <1>6
    <3> QED
      BY <3>1
  <2> QED
    BY <1>3, <1>4, <1>5, <2>1
<1>7. /\ s \in Block /\ Len(s) = n
      /\ \A i \in 1..n : s[i] = IF i <= m THEN Reads(h, d, i) ELSE Garbage
  BY <1>3, <1>4, <1>5, <1>6
<1> QED
  BY <1>0, <1>7

(* The array went on with n bytes: those it had, and garbage; or with those it
   had. *)
HasReallocated(q, r, n) ==
  \/ /\ q.heap = r.heap /\ q.self = r.self
     /\ q.failed \/ q.self.m_size = n
  \/ /\ q.failed = r.failed /\ q.self.m_size = n
     /\ \A i \in 1..n :
          Reads(q.heap, q.self.data, i) =
            IF i <= r.self.m_size THEN Reads(r.heap, r.self.data, i) ELSE Garbage
     /\ r.self.data # NULL => q.heap[r.self.data] = Free

LEMMA ArrayReallocatedRead ==
  ASSUME NEW rest \in SUBSET Addr, NEW r, Sound(r, rest), r.self.kind = "array",
         NEW n \in Nat, NEW q \in ArrayReallocated(r, n)
  PROVE  HasReallocated(q, r, n)
<1>1. /\ r.heap \in Heaps /\ r.self.m_size \in Nat
      /\ r.self.data \in Addr \cup {NULL}
  BY DEF Sound, Runs, Array, Buffer
<1>2. CASE r.self.m_size = n /\ r.self.data # NULL
  BY <1>2 DEF ArrayReallocated, HasReallocated
<1>3. CASE ~ (r.self.m_size = n /\ r.self.data # NULL)
  <2>1. PICK m : m = Smaller(r.self.m_size, n)
    OBVIOUS
  <2>2. m \in Nat /\ m <= n /\ \A i \in 1..n : i <= m <=> i <= r.self.m_size
    BY <1>1, <2>1 DEF Smaller
  <2>3. PICK s : s = Bytes(r.heap, r.self.data, 0, m) \o Unwritten(n - m)
    OBVIOUS
  <2>4. PICK h, d : h = r.heap /\ d = r.self.data
    OBVIOUS
  <2>5. /\ s \in Block /\ Len(s) = n
        /\ \A i \in 1..n : s[i] = IF i <= m THEN Reads(h, d, i) ELSE Garbage
    <3>1. h \in Heaps /\ d \in Addr \cup {NULL} /\ s = Bytes(h, d, 0, m) \o Unwritten(n - m)
      BY <1>1, <2>3, <2>4
    <3>2. /\ Bytes(h, d, 0, m) \o Unwritten(n - m) \in Block
          /\ Len(Bytes(h, d, 0, m) \o Unwritten(n - m)) = n
          /\ \A i \in 1..n : (Bytes(h, d, 0, m) \o Unwritten(n - m))[i] =
                               IF i <= m THEN Reads(h, d, i) ELSE Garbage
      BY <2>2, <3>1, KeptRead
    <3> QED
      BY <3>1, <3>2
  <2>6. q \in ArrayMoves(r, s)
    <3>1. Len(Bytes(r.heap, r.self.data, 0, m)) = m
      BY <1>1, <2>2, BytesAre
    <3> QED
      BY <1>3, <2>1, <2>3, <3>1 DEF ArrayReallocated
  <2>7. \/ q.failed /\ q.heap = r.heap /\ q.self = r.self
        \/ /\ q.failed = r.failed /\ q.self.m_size = Len(s)
           /\ \A i \in 1..Len(s) : Reads(q.heap, q.self.data, i) = s[i]
           /\ r.self.data # NULL => q.heap[r.self.data] = Free
    BY <2>5, <2>6, ArrayMovesRead
  <2> QED
    BY <2>2, <2>4, <2>5, <2>7 DEF HasReallocated
<1> QED
  BY <1>2, <1>3

(* The buffer's block holds n bytes: those it had, and garbage. *)
HasBeenCut(q, r, n) ==
  \/ q.heap = r.heap /\ q.self = r.self
  \/ /\ q.failed = r.failed
     /\ q.self.m_size = Smaller(r.self.m_size, n)
     /\ \A i \in 1..n :
          Reads(q.heap, q.self.data, i) =
            IF i <= r.self.m_size THEN Reads(r.heap, r.self.data, i) ELSE Garbage
     /\ r.self.data # NULL => q.heap[r.self.data] = Free

LEMMA BufferReallocatedRead ==
  ASSUME NEW rest \in SUBSET Addr, NEW r, Sound(r, rest), r.self.kind = "buffer",
         NEW n \in Nat, NEW q \in BufferReallocated(r, n)
  PROVE  HasBeenCut(q, r, n)
<1>1. /\ r.heap \in Heaps /\ r.self.m_size \in Nat
      /\ r.self.data \in Addr \cup {NULL}
  BY DEF Sound, Runs, Array, Buffer
<1>2. CASE HasCapacity(r.self, n)
  BY <1>2 DEF BufferReallocated, HasBeenCut
<1>3. CASE ~ HasCapacity(r.self, n)
  <2>1. PICK m : m = Smaller(r.self.m_size, n)
    OBVIOUS
  <2>2. /\ m \in Nat /\ m <= n /\ m <= r.self.m_size
        /\ \A i \in 1..n : i <= m <=> i <= r.self.m_size
    BY <1>1, <2>1 DEF Smaller
  <2>3. PICK s : s = Bytes(r.heap, r.self.data, 0, m) \o Unwritten(n - m)
    OBVIOUS
  <2>4. PICK h, d : h = r.heap /\ d = r.self.data
    OBVIOUS
  <2>5. /\ s \in Block /\ Len(s) = n
        /\ \A i \in 1..n : s[i] = IF i <= m THEN Reads(h, d, i) ELSE Garbage
    <3>1. h \in Heaps /\ d \in Addr \cup {NULL} /\ s = Bytes(h, d, 0, m) \o Unwritten(n - m)
      BY <1>1, <2>3, <2>4
    <3>2. /\ Bytes(h, d, 0, m) \o Unwritten(n - m) \in Block
          /\ Len(Bytes(h, d, 0, m) \o Unwritten(n - m)) = n
          /\ \A i \in 1..n : (Bytes(h, d, 0, m) \o Unwritten(n - m))[i] =
                               IF i <= m THEN Reads(h, d, i) ELSE Garbage
      BY <2>2, <3>1, KeptRead
    <3> QED
      BY <3>1, <3>2
  <2>6. q \in BufferMoves(r, s, m)
    BY <1>3, <2>1, <2>3 DEF BufferReallocated
  <2>7. \/ q.failed /\ q.heap = r.heap /\ q.self = r.self
        \/ /\ q.failed = r.failed /\ q.self.m_size = m
           /\ \A i \in 1..Len(s) : Reads(q.heap, q.self.data, i) = s[i]
           /\ r.self.data # NULL => q.heap[r.self.data] = Free
    BY <2>2, <2>5, <2>6, BufferMovesRead
  <2> QED
    BY <2>1, <2>2, <2>4, <2>5, <2>7 DEF HasBeenCut
<1> QED
  BY <1>2, <1>3

HasResized(q, r, n) ==
  \/ Thrown(q) /\ q.heap = r.heap /\ q.self = r.self
  \/ /\ ~ Thrown(q) /\ q.self.m_size = n /\ Leaves(q, r)
     /\ \A i \in 1..n :
          \/ Reads(q.heap, q.self.data, i) = Reads(r.heap, r.self.data, i)
          \/ i > r.self.m_size /\ Reads(q.heap, q.self.data, i) = Garbage

LEMMA BufferResizedRead ==
  ASSUME NEW rest \in SUBSET Addr, NEW r, Sound(r, rest), r.self.kind = "buffer",
         ~ r.failed, NEW n \in Nat, NEW q \in BufferResized(r, n)
  PROVE  HasResized(q, r, n)
<1>1. PICK p \in BufferReallocated(r, n) :
        q = IF Thrown(p) THEN p ELSE [p EXCEPT !.self.m_size = n]
  BY DEF BufferResized
<1>2. /\ Sound(p, rest) /\ p.self.kind = "buffer"
      /\ \/ p.failed /\ p.self = r.self
         \/ p.failed = r.failed /\ p.self.data # NULL /\ p.self.m_capacity = n
  BY BufferReallocatedSound
<1>3. \/ p.heap = r.heap /\ p.self = r.self
      \/ /\ p.failed = r.failed
         /\ \A i \in 1..n :
              Reads(p.heap, p.self.data, i) =
                IF i <= r.self.m_size THEN Reads(r.heap, r.self.data, i) ELSE Garbage
         /\ r.self.data # NULL => p.heap[r.self.data] = Free
  <2>1. HasBeenCut(p, r, n)
    BY BufferReallocatedRead
  <2> QED
    BY <2>1 DEF HasBeenCut
<1>4. CASE Thrown(p)
  BY <1>1, <1>2, <1>3, <1>4 DEF Thrown, HasResized
<1>5. CASE ~ Thrown(p)
  <2>1. p \in Runs /\ p.self \in Buffer /\ r.self.m_size \in Nat
    BY <1>2 DEF Sound, Runs, Array, Buffer
  <2>2. /\ q.heap = p.heap /\ q.self.data = p.self.data /\ q.self.m_size = n
        /\ ~ Thrown(q)
    BY <1>1, <1>5, <2>1 DEF Runs, Buffer, Thrown
  <2>3. Leaves(q, r)
    BY <1>3, <2>2 DEF Leaves
  <2>4. \A i \in 1..n : ~ (i <= r.self.m_size) => i > r.self.m_size
    BY <2>1
  <2> QED
    BY <1>3, <2>2, <2>3, <2>4 DEF HasResized
<1> QED
  BY <1>4, <1>5

(* append, which reads its operand when the old block is freed. *)
HasAppended(q, r, s) ==
  \/ Thrown(q) /\ q.heap = r.heap /\ q.self = r.self
  \/ /\ q.self.m_size = r.self.m_size + Len(s)
     /\ \A i \in 1..r.self.m_size :
          Reads(q.heap, q.self.data, i) = Reads(r.heap, r.self.data, i)
     /\ \A i \in 1..Len(s) :
          Reads(q.heap, q.self.data, r.self.m_size + i) = s[i]

LEMMA ArrayAppendedRead ==
  ASSUME NEW rest \in SUBSET Addr, NEW r, Sound(r, rest), r.self.kind = "array",
         NEW src \in Operands, NEW q \in ArrayAppended(r, src), q.fault = "none",
         NEW s, s = Operand(Released(r).heap, src)
  PROVE  HasAppended(q, r, s)
<1>1. /\ r.heap \in Heaps /\ r.self \in Array \cup Buffer /\ Released(r).heap \in Heaps
  BY ReleasedIs DEF Sound, Runs
<1>2. PICK v : v = ValueIn(r.heap, r.self)
  OBVIOUS
<1>3. /\ v \in Block /\ Len(v) = r.self.m_size /\ r.self.m_size \in Nat
      /\ \A i \in 1..r.self.m_size : v[i] = Reads(r.heap, r.self.data, i)
  BY <1>1, <1>2, ValueRead
<1>4. s \in Block
  BY <1>1, OperandIs
<1>5. /\ v \o s \in Block /\ Len(v \o s) = Len(v) + Len(s) /\ Len(s) \in Nat
      /\ \A i \in 1..Len(v) : (v \o s)[i] = v[i]
      /\ \A j \in 1..Len(s) : (v \o s)[Len(v) + j] = s[j]
  BY <1>3, <1>4, Concatenated
<1>6. PICK p \in ArrayMoves(r, v \o s) :
        q = IF p.failed /\ ~ Thrown(p) THEN Crashed(p, "null") ELSE p
  BY <1>2 DEF ArrayAppended, ValueIn
<1>7. /\ Sound(p, rest)
      /\ \/ p.failed /\ p.heap = r.heap /\ p.self = r.self
         \/ /\ p.failed = r.failed /\ p.self.m_size = Len(v \o s)
            /\ \A i \in 1..Len(v \o s) : Reads(p.heap, p.self.data, i) = (v \o s)[i]
  <2>1. PICK t : t = v \o s
    OBVIOUS
  <2>2. t \in Block /\ p \in ArrayMoves(r, t)
    BY <1>5, <1>6, <2>1
  <2>3. Sound(p, rest)
    BY <2>2, ArrayMovesSound
  <2>4. \/ p.failed /\ p.heap = r.heap /\ p.self = r.self
        \/ /\ p.failed = r.failed /\ p.self.m_size = Len(t)
           /\ \A i \in 1..Len(t) : Reads(p.heap, p.self.data, i) = t[i]
    BY <2>2, ArrayMovesRead
  <2> QED
    BY <2>1, <2>3, <2>4
<1>8. q = p /\ (p.failed => Thrown(p))
  <2>1. p \in Runs
    BY <1>7 DEF Sound
  <2>2. Crashed(p, "null").fault # "none"
    BY <2>1 DEF Crashed, Runs
  <2> QED
    BY <1>6, <2>2
<1>9. CASE p.failed /\ p.heap = r.heap /\ p.self = r.self
  BY <1>8, <1>9 DEF HasAppended
<1>10. CASE /\ p.self.m_size = Len(v \o s)
            /\ \A i \in 1..Len(v \o s) : Reads(p.heap, p.self.data, i) = (v \o s)[i]
  <2>1. ASSUME NEW i \in 1..r.self.m_size
        PROVE  Reads(p.heap, p.self.data, i) = Reads(r.heap, r.self.data, i)
    <3>1. i \in 1..Len(v) /\ i \in 1..Len(v \o s)
      BY <1>3, <1>5
    <3> QED
      BY <1>3, <1>5, <1>10, <3>1
  <2>2. ASSUME NEW i \in 1..Len(s)
        PROVE  Reads(p.heap, p.self.data, r.self.m_size + i) = s[i]
    <3>1. Len(v) + i \in 1..Len(v \o s)
      BY <1>3, <1>5
    <3> QED
      BY <1>3, <1>5, <1>10, <3>1
  <2> QED
    BY <1>3, <1>5, <1>8, <1>10, <2>1, <2>2 DEF HasAppended
<1> QED
  BY <1>7, <1>9, <1>10

(* Bytes that were stored are read in their place, the others where they were. *)
HasStored(t, r, at, s) ==
  /\ t.self = r.self
  /\ s # <<>> => at >= 0
  /\ \A i \in Nat \ {0} :
       Reads(t.heap, t.self.data, i) =
         IF i - at \in DOMAIN s THEN s[i - at] ELSE Reads(r.heap, r.self.data, i)

LEMMA StoredRead ==
  ASSUME NEW rest \in SUBSET Addr, NEW r, Sound(r, rest), NEW at \in Int,
         NEW s \in Block, NEW t, t = Stored(r, at, s), t.fault = "none"
  PROVE  HasStored(t, r, at, s)
<1>1. /\ r \in Runs /\ r.heap \in Heaps /\ r.self \in Array \cup Buffer
      /\ r.self.data \in Addr \cup {NULL} /\ r.fault = "none"
  BY DEF Sound, Runs, Array, Buffer
<1>2. CASE s = <<>>
  <2>1. t = r /\ DOMAIN s = {}
    BY <1>2 DEF Stored
  <2> QED
    BY <1>2, <2>1 DEF HasStored
<1>3. CASE s # <<>> /\ r.self.data = NULL
  <2>1. t = [r EXCEPT !.fault = "null"]
    BY <1>3 DEF Stored, Crashed
  <2> QED
    BY <1>1, <2>1 DEF Runs
<1>4. CASE /\ s # <<>> /\ r.self.data # NULL
           /\ at < 0 \/ at + Len(s) > Len(r.heap[r.self.data])
  <2>1. t = [r EXCEPT !.fault = "outside"]
    BY <1>4 DEF Stored, Crashed
  <2> QED
    BY <1>1, <2>1 DEF Runs
<1>5. CASE /\ s # <<>> /\ r.self.data # NULL
           /\ ~ (at < 0 \/ at + Len(s) > Len(r.heap[r.self.data]))
  <2>1. PICK d, b : d = r.self.data /\ b = r.heap[d]
    OBVIOUS
  <2>2. PICK n : n = [i \in DOMAIN b |-> IF i - at \in DOMAIN s THEN s[i - at] ELSE b[i]]
    OBVIOUS
  <2>3. d \in Addr /\ d # NULL /\ b \in Block /\ b # Free
    BY <1>1, <1>5, <2>1 DEF Sound, Fitting, Heaps
  <2>4. /\ Len(b) \in Nat /\ DOMAIN b = 1..Len(b)
        /\ DOMAIN s = 1..Len(s) /\ Len(s) \in Nat
    BY <2>3 DEF Block
  <2>5. t = [r EXCEPT !.heap[d] = n]
    BY <1>1, <1>5, <2>1, <2>2 DEF Stored, Runs
  <2>6. t.self = r.self /\ t.heap[d] = n
    BY <1>1, <2>3, <2>5 DEF Runs, Heaps
  <2>7. n \in Block /\ Len(n) = Len(b) /\ n # Free
    <3>1. \A i \in 1..Len(b) : b[i] \in Value
      BY <2>3 DEF Block
    <3>2. \A i \in 1..Len(s) : s[i] \in Value
      BY DEF Block
    <3>3. n \in [1..Len(b) -> Value]
      BY <2>2, <2>4, <3>1, <3>2
    <3>4. n \in Seq(Value)
      BY <2>4, <3>3
    <3> QED
      BY <2>4, <3>3, <3>4, ObjectsAssumption DEF Block
  <2>8. ASSUME NEW i \in Nat \ {0}
        PROVE  Reads(t.heap, d, i) =
                 IF i - at \in DOMAIN s THEN s[i - at] ELSE Reads(r.heap, d, i)
    <3>1. CASE i <= Len(b)
      <4>1. i \in 1..Len(b)
        BY <2>4, <3>1
      <4>2. n[i] = IF i - at \in DOMAIN s THEN s[i - at] ELSE b[i]
        BY <2>2, <2>4, <4>1
      <4> QED
        BY <2>1, <2>3, <2>6, <2>7, <3>1, <4>2 DEF Reads
    <3>2. CASE ~ (i <= Len(b))
      <4>1. i - at \notin DOMAIN s
        BY <1>5, <2>1, <2>4, <3>2
      <4> QED
        BY <2>1, <2>6, <2>7, <3>2, <4>1 DEF Reads
    <3> QED
      BY <3>1, <3>2
  <2> QED
    BY <1>5, <2>1, <2>6, <2>8 DEF HasStored
<1> QED
  BY <1>2, <1>3, <1>4, <1>5
-----------------------------------------------------------------------------
(* The bytes of operands. *)

LEMMA ValueOfLiving ==
  ASSUME Owned, NEW p \in Living
  PROVE  /\ p \in Obj /\ object[p] \in Array \cup Buffer /\ heap \in Heaps
         /\ ValueOf(p) = ValueIn(heap, object[p]) /\ KeptBy(p) = KeptIn(heap, object[p])
         /\ ValueOf(p) \in Block /\ ValueOf(p) # Dead
         /\ Len(ValueOf(p)) = object[p].m_size /\ object[p].m_size \in Nat
<1>1. /\ p \in Obj /\ object[p] \in Array \cup Buffer /\ heap \in Heaps
      /\ object[p] # Dead
  BY OthersAre DEF Owned, TypeOK, Heaps, Living
<1>2. ValueOf(p) = ValueIn(heap, object[p]) /\ KeptBy(p) = KeptIn(heap, object[p])
  BY <1>1 DEF ValueOf, KeptBy, ValueIn, KeptIn
<1>3. /\ ValueIn(heap, object[p]) \in Block
      /\ Len(ValueIn(heap, object[p])) = object[p].m_size /\ object[p].m_size \in Nat
  BY <1>1, ValueRead
<1> QED
  BY <1>1, <1>2, <1>3, ObjectsAssumption

LEMMA BytesSame ==
  ASSUME NEW h, NEW h2, NEW d, d # NULL => h[d] = h2[d], NEW from, NEW n
  PROVE  Bytes(h, d, from, n) = Bytes(h2, d, from, n)
<1>1. CASE d = NULL
  BY <1>1 DEF Bytes
<1>2. CASE d # NULL
  BY <1>2 DEF Bytes
<1> QED
  BY <1>1, <1>2

(* What operands are when a call is made. *)
LEMMA MeantIs ==
  ASSUME Owned
  PROVE  /\ \A s \in Chunk : Given(s) \in Sources /\ Meant(Given(s)) = s /\ s \in Block
         /\ \A p \in Living : Contents(p) \in Sources /\ Meant(Contents(p)) = ValueOf(p)
<1>1. ASSUME NEW s \in Chunk PROVE Meant(Given(s)) = s
  <2>1. Given(s).data = Caller /\ Given(s).bytes = s
    BY DEF Given
  <2> QED
    BY <2>1 DEF Meant, Operand
<1>2. ASSUME NEW p \in Living PROVE Meant(Contents(p)) = ValueOf(p)
  <2>1. PICK d, m : d = object[p].data /\ m = object[p].m_size
    OBVIOUS
  <2>2. d \in Addr \cup {NULL} /\ m \in Nat /\ ValueOf(p) = Bytes(heap, d, 0, m)
    BY <2>1, ValueOfLiving DEF Array, Buffer, ValueIn
  <2>3. /\ Contents(p).data = d /\ Contents(p).from = 0
        /\ Contents(p).bytes = Unwritten(m)
    BY <2>1 DEF Contents, Pointed
  <2>4. d # Caller
    BY <2>2, ObjectsAssumption
  <2>5. Len(Unwritten(m)) = m
    BY <2>2, UnwrittenIs
  <2> QED
    BY <2>2, <2>3, <2>4, <2>5 DEF Meant, Operand
<1> QED
  BY <1>1, <1>2, LiveIs, OperandsAre DEF Sources

(* Whatever a call on o has done to its own block before it reads its operand,
   it gets what was meant, or, from a block of its own, as many bytes of
   garbage. *)
LEMMA SourceRead ==
  ASSUME Owned, NEW o \in Obj, NEW h \in Heaps, \A a \in Others(o) : h[a] = heap[a],
         \/ o \notin Living
         \/ h = heap
         \/ object[o].data # NULL => h[object[o].data] = Free,
         NEW src \in Sources \cup References
  PROVE  /\ src \in SafeOperands /\ src \in Operands
         /\ Operand(h, src) \in Block /\ Len(Operand(h, src)) = Len(src.bytes)
         /\ Meant(src) \in Block /\ Len(Meant(src)) = Len(src.bytes)
         /\ \/ Operand(h, src) = Meant(src)
            \/ /\ o \in Living /\ IsPartOf(src, o)
               /\ Operand(h, src) = Unwritten(Len(Meant(src)))
<1>1. src \in SafeOperands /\ src \in Operands
  BY OperandsAre DEF SafeOperands
<1>2. heap \in Heaps
  BY DEF Owned, TypeOK, Heaps
<1>3. /\ Operand(h, src) \in Block /\ Len(Operand(h, src)) = Len(src.bytes)
      /\ Meant(src) \in Block /\ Len(Meant(src)) = Len(src.bytes)
  BY <1>1, <1>2, OperandIs DEF Meant
<1>4. CASE src.data = Caller
  BY <1>1, <1>3, <1>4 DEF Operand, Meant
<1>5. CASE src.data # Caller
  <2>1. PICK p \in Living : src.data = object[p].data
    BY <1>5, LiveIs DEF Sources, References, Given, Contents, Element, Pointed
  <2>2. PICK d, from, n : d = src.data /\ from = src.from /\ n = Len(src.bytes)
    OBVIOUS
  <2>3. Operand(h, src) = Bytes(h, d, from, n) /\ Meant(src) = Bytes(heap, d, from, n)
    BY <1>5, <2>2 DEF Operand, Meant
  <2>4. CASE d = NULL \/ h[d] = heap[d]
    <3>1. Bytes(h, d, from, n) = Bytes(heap, d, from, n)
      BY <2>4, BytesSame
    <3> QED
      BY <1>1, <1>3, <2>3, <3>1
  <2>5. CASE ~ (d = NULL \/ h[d] = heap[d])
    <3>1. p = o
      <4>1. p # o => d \in Others(o)
        BY <2>1, <2>2, <2>5 DEF Others
      <4> QED
        BY <2>5, <4>1
    <3>2. h[d] = Free
      BY <2>1, <2>2, <2>5, <3>1
    <3>3. Bytes(h, d, from, n) = Unwritten(n)
      BY <3>2 DEF Bytes, Unwritten
    <3>4. IsPartOf(src, o)
      BY <2>1, <2>2, <2>5, <3>1 DEF IsPartOf
    <3> QED
      BY <1>1, <1>3, <2>1, <2>2, <2>3, <3>1, <3>3, <3>4
  <2> QED
    BY <2>4, <2>5
<1> QED
  BY <1>4, <1>5

LEMMA UnwrittenValues ==
  ASSUME NEW n
  PROVE  Values!Unwritten(n) = Unwritten(n)
  BY DEF Values!Unwritten, Unwritten

(* ByteValues says the same of what is read. *)
LEMMA SourceIsRead ==
  ASSUME Owned, NEW o \in Living, NEW h \in Heaps, \A a \in Others(o) : h[a] = heap[a],
         h = heap \/ (object[o].data # NULL => h[object[o].data] = Free),
         NEW src \in Sources \cup References
  PROVE  /\ Operand(h, src) \in Block /\ Len(Operand(h, src)) = Len(src.bytes)
         /\ Operand(h, src) \in Values!Read(Meant(src), IsPartOf(src, o))
<1>1. o \in Obj
  BY ValueOfLiving
<1>2. /\ Operand(h, src) \in Block /\ Len(Operand(h, src)) = Len(src.bytes)
      /\ \/ Operand(h, src) = Meant(src)
         \/ /\ IsPartOf(src, o)
            /\ Operand(h, src) = Unwritten(Len(Meant(src)))
  BY <1>1, SourceRead
<1> QED
  BY <1>2, UnwrittenValues DEF Values!Read
-----------------------------------------------------------------------------
(* How a call ends: in the blocks, and in the values. *)

OnlyOne(o) ==
  \A p \in Obj \ {o} : ValueOf(p)' = ValueOf(p) /\ KeptBy(p)' = KeptBy(p)

LEMMA BecomesIs ==
  ASSUME NEW o \in Obj, NEW w, fault' = "none", OnlyOne(o), ValueOf(o)' = w
  PROVE  Values!Becomes(o, w)
  BY DEF OnlyOne, Values!Becomes, Values!OnlyChanges

LEMMA OthersStay ==
  ASSUME Owned, NEW o \in Obj,
         \A p \in Obj \ {o} : object'[p] = object[p],
         \A a \in Others(o) : heap'[a] = heap[a]
  PROVE  OnlyOne(o)
<1> SUFFICES ASSUME NEW p \in Obj \ {o}
             PROVE  ValueOf(p)' = ValueOf(p) /\ KeptBy(p)' = KeptBy(p)
  BY DEF OnlyOne
<1>1. object'[p] = object[p]
  OBVIOUS
<1>2. CASE object[p] = Dead
  BY <1>1, <1>2 DEF ValueOf, KeptBy
<1>3. CASE object[p] # Dead
  <2>1. PICK s : s = object[p]
    OBVIOUS
  <2>2. s.data # NULL => heap'[s.data] = heap[s.data]
    BY <1>3, <2>1 DEF Others, Living
  <2>3. \A from, n : Bytes(heap', s.data, from, n) = Bytes(heap, s.data, from, n)
    BY <2>2, BytesSame
  <2>4. ValueOf(p)' = Bytes(heap', s.data, 0, s.m_size)
    BY <1>1, <1>3, <2>1 DEF ValueOf
  <2>5. KeptBy(p)' = IF s.data = NULL THEN <<>>
                     ELSE Bytes(heap', s.data, s.m_size, BlockSize(s) - s.m_size)
    BY <1>1, <1>3, <2>1 DEF KeptBy, BlockSize
  <2>6. /\ ValueOf(p) = Bytes(heap, s.data, 0, s.m_size)
        /\ KeptBy(p) = IF s.data = NULL THEN <<>>
                       ELSE Bytes(heap, s.data, s.m_size, BlockSize(s) - s.m_size)
    BY <1>3, <2>1 DEF ValueOf, KeptBy
  <2> QED
    BY <2>3, <2>4, <2>5, <2>6
<1> QED
  BY <1>2, <1>3

(* The container of o is r's, unless the call crashed. *)
LEMMA EndsIn ==
  ASSUME Owned, NEW o \in Obj, NEW r, Done(r, Others(o)), Ends(o, r)
  PROVE  \/ r.fault # "none" /\ Values!Crash
         \/ /\ r.fault = "none" /\ Sound(r, Others(o)) /\ r.heap \in Heaps
            /\ r.self \in Array \cup Buffer
            /\ Values!Becomes(o, ValueIn(r.heap, r.self))
<1>1. /\ r \in Runs /\ fault' = r.fault
      /\ r.fault = "none" => heap' = r.heap /\ object' = [object EXCEPT ![o] = r.self]
      /\ r.fault # "none" => UNCHANGED <<heap, object>>
  BY DEF Ends, Done
<1>2. CASE r.fault = "none"
  <2>1. Sound(r, Others(o)) /\ r.heap \in Heaps /\ r.self \in Array \cup Buffer
    BY <1>1, <1>2 DEF Done, Runs
  <2>2. \A a \in Others(o) : heap'[a] = heap[a]
    BY <1>1, <1>2, <2>1 DEF Sound
  <2>3. /\ object'[o] = r.self /\ \A p \in Obj \ {o} : object'[p] = object[p]
    BY <1>1, <1>2 DEF Owned, TypeOK
  <2>4. OnlyOne(o)
    BY <2>2, <2>3, OthersStay
  <2>5. r.self # Dead
    BY <2>1, ObjectsAssumption
  <2>6. ValueOf(o)' = ValueIn(r.heap, r.self)
    BY <1>1, <1>2, <2>3, <2>5 DEF ValueOf, ValueIn
  <2> QED
    BY <1>1, <1>2, <2>1, <2>4, <2>6, BecomesIs
<1>3. CASE r.fault # "none"
  <2>1. ~ allocatorThrows
    BY <1>3 DEF Done, Sound
  <2>2. \A p : ValueOf(p)' = ValueOf(p)
    BY <1>1, <1>3 DEF ValueOf
  <2>3. fault' # "none"
    BY <1>1, <1>3
  <2> QED
    BY <1>3, <2>1, <2>2, <2>3 DEF Values!Crash
<1> QED
  BY <1>2, <1>3

LEMMA ValueIs ==
  ASSUME NEW h \in Heaps, NEW self \in Array \cup Buffer, NEW s \in Block,
         self.m_size = Len(s), \A i \in 1..Len(s) : Reads(h, self.data, i) = s[i]
  PROVE  ValueIn(h, self) = s
<1>1. PICK w : w = ValueIn(h, self)
  OBVIOUS
<1>2. /\ w \in Block /\ Len(w) = self.m_size
      /\ \A i \in 1..self.m_size : w[i] = Reads(h, self.data, i)
  BY <1>1, ValueRead
<1>3. w = s
  BY <1>2, Same
<1> QED
  BY <1>1, <1>3

LEMMA EmptyIs ==
  ASSUME NEW h, NEW self, self.m_size = 0
  PROVE  ValueIn(h, self) = <<>>
<1>1. 1..0 = {}
  OBVIOUS
<1> QED
  BY <1>1 DEF ValueIn, Bytes

(* The bytes s behind those that are there. *)
LEMMA ExtendedIs ==
  ASSUME NEW h \in Heaps, NEW self \in Array \cup Buffer, NEW v \in Block, NEW s \in Block,
         self.m_size = Len(v) + Len(s),
         \A i \in 1..Len(v) : Reads(h, self.data, i) = v[i],
         \A i \in 1..Len(s) : Reads(h, self.data, Len(v) + i) = s[i]
  PROVE  ValueIn(h, self) = v \o s
<1>1. /\ v \o s \in Block /\ Len(v \o s) = Len(v) + Len(s)
      /\ Len(s) \in Nat /\ Len(v) \in Nat
      /\ \A i \in 1..Len(v) : (v \o s)[i] = v[i]
      /\ \A j \in 1..Len(s) : (v \o s)[Len(v) + j] = s[j]
  BY Concatenated
<1>2. PICK u : u = v \o s
  OBVIOUS
<1>3. ASSUME NEW i \in 1..Len(u) PROVE Reads(h, self.data, i) = u[i]
  <2>1. CASE i <= Len(v)
    BY <1>1, <1>2, <2>1
  <2>2. CASE ~ (i <= Len(v))
    <3>1. PICK j \in 1..Len(s) : i = Len(v) + j
      <4>1. i - Len(v) \in 1..Len(s) /\ i = Len(v) + (i - Len(v))
        BY <1>1, <1>2, <2>2
      <4> QED
        BY <4>1
    <3> QED
      BY <1>1, <1>2, <3>1
  <2> QED
    BY <2>1, <2>2
<1>4. u \in Block /\ self.m_size = Len(u)
  BY <1>1, <1>2
<1>5. ValueIn(h, self) = u
  BY <1>3, <1>4, ValueIs
<1> QED
  BY <1>2, <1>5

(* The container is gone. *)
LEMMA DestroyedIs ==
  ASSUME Owned, NEW o \in Obj, NEW r, Sound(r, Others(o)),
         Ends(o, [Released(r) EXCEPT !.self = Dead])
  PROVE  Values!Becomes(o, Dead)
<1>1. /\ Released(r).heap \in Heaps
      /\ \A a \in Others(o) : Released(r).heap[a] = heap[a]
      /\ Released(r) = [r EXCEPT !.heap = Released(r).heap, !.self.data = NULL]
  BY OthersAre, ReleasedIs
<1>2. r \in Runs /\ r.fault = "none"
  BY DEF Sound
<1>3. PICK h, p : h = Released(r).heap /\ p = Released(r)
  OBVIOUS
<1>4. PICK t : t = [p EXCEPT !.self = Dead]
  OBVIOUS
<1>5. t.heap = h /\ t.self = Dead /\ t.fault = "none"
  BY <1>1, <1>2, <1>3, <1>4 DEF Runs
<1>6. Ends(o, t)
  BY <1>3, <1>4
<1>7. heap' = h /\ object' = [object EXCEPT ![o] = Dead] /\ fault' = "none"
  BY <1>5, <1>6 DEF Ends
<1>8. /\ object'[o] = Dead /\ \A p2 \in Obj \ {o} : object'[p2] = object[p2]
  BY <1>7 DEF Owned, TypeOK
<1>9. OnlyOne(o)
  BY <1>1, <1>3, <1>7, <1>8, OthersStay
<1>10. ValueOf(o)' = Dead
  BY <1>8 DEF ValueOf
<1> QED
  BY <1>7, <1>9, <1>10, BecomesIs
-----------------------------------------------------------------------------
(* What the calls have in common. *)

LEMMA LiveBegun ==
  ASSUME Owned, NEW o \in Living, NEW r, r = Begun(object[o])
  PROVE  /\ o \in Obj /\ Others(o) \in SUBSET Addr /\ heap \in Heaps
         /\ object[o] \in Array \cup Buffer /\ object[o].m_size \in Nat
         /\ Fitting(object[o], heap)
         /\ Sound(r, Others(o)) /\ r.self = object[o] /\ r.heap = heap /\ ~ r.failed
         /\ ValueOf(o) = ValueIn(heap, object[o]) /\ KeptBy(o) = KeptIn(heap, object[o])
         /\ ValueOf(o) \in Block /\ Len(ValueOf(o)) = object[o].m_size
         /\ \A i \in 1..object[o].m_size : ValueOf(o)[i] = Reads(heap, object[o].data, i)
<1>1. Others(o) \in SUBSET Addr /\ o \in Obj
  BY OthersAre DEF Living
<1>2. r.heap = heap
  BY DEF Begun
<1>3. Fitting(object[o], heap)
  BY DEF Owned
<1>4. /\ object[o] \in Array \cup Buffer /\ heap \in Heaps
      /\ ValueOf(o) = ValueIn(heap, object[o]) /\ KeptBy(o) = KeptIn(heap, object[o])
      /\ ValueOf(o) \in Block /\ ValueOf(o) # Dead
      /\ Len(ValueOf(o)) = object[o].m_size /\ object[o].m_size \in Nat
  BY ValueOfLiving
<1>5. \A i \in 1..object[o].m_size : ValueOf(o)[i] = Reads(heap, object[o].data, i)
  BY <1>4, ValueRead
<1>6. Sound(r, Others(o)) /\ r.self = object[o] /\ ~ r.failed
  BY BegunSound
<1> QED
  BY <1>1, <1>2, <1>3, <1>4, <1>5, <1>6

(* The value of o in ByteValues. *)
LEMMA TheValue ==
  ASSUME NEW o \in Obj
  PROVE  /\ [p \in Obj |-> ValueOf(p)][o] = ValueOf(o)
         /\ [p \in Obj |-> KeptBy(p)][o] = KeptBy(o)
  OBVIOUS

LEMMA SoundIsDone ==
  ASSUME NEW rest, NEW r, Sound(r, rest)
  PROVE  Done(r, rest) /\ r.fault = "none" /\ r \in Runs
         /\ r.heap \in Heaps /\ r.self \in Array \cup Buffer
         /\ r.self.m_size \in Nat /\ \A a \in rest : r.heap[a] = heap[a]
  BY DEF Sound, Done, Runs, Array, Buffer

LEMMA CallKeeps ==
  ASSUME Owned, NEW o \in Living, NEW q, Sound(q, Others(o)), Ends(o, q),
         q.heap = heap, q.self = object[o]
  PROVE  Values!Becomes(o, ValueOf(o))
<1>1. o \in Obj /\ ValueOf(o) = ValueIn(heap, object[o])
  BY ValueOfLiving
<1>2. Values!Becomes(o, ValueIn(q.heap, q.self))
  BY <1>1, SoundIsDone, EndsIn
<1> QED
  BY <1>1, <1>2

LEMMA CallEmpties ==
  ASSUME Owned, NEW o \in Living, NEW q, Sound(q, Others(o)), Ends(o, q),
         q.self.m_size = 0
  PROVE  Values!Becomes(o, <<>>)
<1>1. o \in Obj
  BY ValueOfLiving
<1>2. Values!Becomes(o, ValueIn(q.heap, q.self))
  BY <1>1, SoundIsDone, EndsIn
<1> QED
  BY <1>2, EmptyIs

LEMMA CallBecomes ==
  ASSUME Owned, NEW o \in Living, NEW q, Done(q, Others(o)), Ends(o, q), NEW s \in Block,
         q.fault = "none" =>
           /\ q.self.m_size = Len(s)
           /\ \A i \in 1..Len(s) : Reads(q.heap, q.self.data, i) = s[i]
  PROVE  Values!Becomes(o, s) \/ Values!Crash
<1>1. o \in Obj
  BY ValueOfLiving
<1>2. \/ q.fault # "none" /\ Values!Crash
      \/ /\ q.fault = "none" /\ q.heap \in Heaps /\ q.self \in Array \cup Buffer
         /\ Values!Becomes(o, ValueIn(q.heap, q.self))
  BY <1>1, EndsIn
<1> QED
  BY <1>2, ValueIs

(* The container goes on with the bytes it had, and garbage behind them. *)
LEMMA CallResizes ==
  ASSUME Owned, NEW o \in Living, NEW q, Sound(q, Others(o)), Ends(o, q),
         NEW n, q.self.m_size = n,
         \A i \in 1..n :
           \/ Reads(q.heap, q.self.data, i) = Reads(heap, object[o].data, i)
           \/ i > object[o].m_size /\ Reads(q.heap, q.self.data, i) = Garbage
  PROVE  Values!Resize(o, n)
<1>1. /\ o \in Obj /\ heap \in Heaps /\ object[o] \in Array \cup Buffer
      /\ Fitting(object[o], heap) /\ object[o].m_size \in Nat
      /\ ValueOf(o) = ValueIn(heap, object[o]) /\ KeptBy(o) = KeptIn(heap, object[o])
      /\ Len(ValueOf(o)) = object[o].m_size
  BY LiveBegun
<1>2. /\ q.heap \in Heaps /\ q.self \in Array \cup Buffer /\ n \in Nat
      /\ Values!Becomes(o, ValueIn(q.heap, q.self))
  BY <1>1, SoundIsDone, EndsIn
<1>3. PICK w : w = ValueIn(q.heap, q.self)
  OBVIOUS
<1>4. /\ w \in Block /\ Len(w) = n /\ DOMAIN w = 1..n
      /\ \A i \in 1..n : w[i] = Reads(q.heap, q.self.data, i)
  BY <1>2, <1>3, ValueRead
<1>5. PICK old : old = ValueOf(o) \o KeptBy(o)
  OBVIOUS
<1>6. ASSUME NEW i \in 1..n
      PROVE  \/ i \in DOMAIN old /\ w[i] = old[i]
             \/ i > Len(ValueOf(o)) /\ w[i] = Garbage
  <2>1. i \in Nat \ {0}
    BY <1>2
  <2>2. \/ i \in DOMAIN old /\ old[i] = Reads(heap, object[o].data, i)
        \/ i > object[o].m_size /\ Reads(heap, object[o].data, i) = Garbage
    BY <1>1, <1>5, <2>1, OldRead
  <2> QED
    BY <1>1, <1>4, <2>2
<1>7. Values!OnlyChanges(o) /\ ValueOf(o)' = w
  BY <1>1, <1>2, <1>3 DEF Values!Becomes
<1>8. PICK v, k : v = [p \in Obj |-> ValueOf(p)][o] /\ k = [p \in Obj |-> KeptBy(p)][o]
  OBVIOUS
<1>9. v = ValueOf(o) /\ old = v \o k
  BY <1>1, <1>5, <1>8, TheValue
<1>10. /\ Len(w) = n
       /\ \A i \in 1..n :
            \/ i \in DOMAIN (v \o k) /\ w[i] = (v \o k)[i]
            \/ i > Len(v) /\ w[i] = Garbage
  BY <1>4, <1>6, <1>9
<1>11. [p \in Obj |-> ValueOf(p)]'[o] = w
  BY <1>1, <1>7
<1> QED
  BY <1>7, <1>8, <1>10, <1>11 DEF Values!Resize

(* The bytes s are stored at index at of a container that has not moved. *)
LEMMA CallWrites ==
  ASSUME Owned, NEW o \in Living, NEW r, Sound(r, Others(o)), r.heap = heap,
         r.self = object[o], NEW at \in Int, NEW s \in Block,
         NEW t, t = Stored(r, at, s), Done(t, Others(o)), Ends(o, t)
  PROVE  Values!Write(o, at, s)
<1>1. /\ o \in Obj /\ Others(o) \in SUBSET Addr /\ object[o].m_size \in Nat
      /\ object[o] \in Array \cup Buffer
      /\ ValueOf(o) \in Block /\ Len(ValueOf(o)) = object[o].m_size
      /\ \A i \in 1..object[o].m_size : ValueOf(o)[i] = Reads(heap, object[o].data, i)
  BY LiveBegun
<1>2. PICK v : v = [p \in Obj |-> ValueOf(p)][o]
  OBVIOUS
<1>3. /\ v = ValueOf(o) /\ v \in Block /\ Len(v) = object[o].m_size
      /\ DOMAIN v = 1..Len(v)
  BY <1>1, <1>2 DEF Block
<1>4. PICK w : w = [i \in DOMAIN v |-> IF i - at \in DOMAIN s THEN s[i - at] ELSE v[i]]
  OBVIOUS
<1>5. w \in Block /\ Len(w) = object[o].m_size
  <2>1. \A i \in 1..Len(v) : v[i] \in Value
    BY <1>3 DEF Block
  <2>2. \A j \in DOMAIN s : s[j] \in Value
    BY DEF Block
  <2>3. w \in [1..object[o].m_size -> Value]
    BY <1>3, <1>4, <2>1, <2>2
  <2>4. w \in Seq(Value)
    BY <1>1, <2>3
  <2> QED
    BY <1>1, <2>3, <2>4 DEF Block
<1>6. ASSUME t.fault = "none"
      PROVE  /\ t.self.m_size = Len(w)
             /\ \A i \in 1..Len(w) : Reads(t.heap, t.self.data, i) = w[i]
  <2>1. HasStored(t, r, at, s)
    BY <1>1, <1>6, StoredRead
  <2>2. ASSUME NEW i \in 1..Len(w) PROVE Reads(t.heap, t.self.data, i) = w[i]
    <3>1. i \in Nat \ {0} /\ i \in DOMAIN v /\ i \in 1..object[o].m_size
      BY <1>1, <1>3, <1>5
    <3>2. Reads(t.heap, t.self.data, i) =
            IF i - at \in DOMAIN s THEN s[i - at] ELSE Reads(heap, object[o].data, i)
      BY <2>1, <3>1 DEF HasStored
    <3>3. v[i] = Reads(heap, object[o].data, i)
      BY <1>1, <1>3, <3>1
    <3> QED
      BY <1>4, <3>1, <3>2, <3>3
  <2> QED
    BY <1>5, <2>1, <2>2 DEF HasStored
<1>7. Values!Becomes(o, w) \/ Values!Crash
  BY <1>5, <1>6, CallBecomes
<1> QED
  BY <1>2, <1>4, <1>7 DEF Values!Write

(* Swaps and moves: the members change hands, the blocks stay. *)
LEMMA Exchanged ==
  ASSUME Owned, NEW o \in Obj, NEW p \in Living, NEW self \in Array \cup Buffer,
         object' = [object EXCEPT ![o] = object[p], ![p] = self], heap' = heap
  PROVE  /\ p \in Obj
         /\ o # p => ValueOf(o)' = ValueOf(p) /\ KeptBy(o)' = KeptBy(p)
         /\ ValueOf(p)' = ValueIn(heap, self) /\ KeptBy(p)' = KeptIn(heap, self)
         /\ \A q \in Obj \ {o, p} : ValueOf(q)' = ValueOf(q) /\ KeptBy(q)' = KeptBy(q)
<1>1. /\ p \in Obj /\ object[p] \in Array \cup Buffer
      /\ object[p] # Dead /\ self # Dead
  BY OthersAre, ObjectsAssumption DEF Living
<1>2. /\ object'[p] = self /\ (o # p => object'[o] = object[p])
      /\ \A q \in Obj \ {o, p} : object'[q] = object[q]
  BY <1>1 DEF Owned, TypeOK
<1>3. ASSUME NEW q \in Obj \ {o, p}
      PROVE  ValueOf(q)' = ValueOf(q) /\ KeptBy(q)' = KeptBy(q)
  <2>1. object'[q] = object[q]
    BY <1>2
  <2> QED
    BY <2>1 DEF ValueOf, KeptBy, BlockSize
<1>4. ASSUME o # p PROVE ValueOf(o)' = ValueOf(p) /\ KeptBy(o)' = KeptBy(p)
  <2>1. object'[o] = object[p]
    BY <1>2, <1>4
  <2> QED
    BY <2>1 DEF ValueOf, KeptBy, BlockSize
<1>5. ValueOf(p)' = ValueIn(heap, self) /\ KeptBy(p)' = KeptIn(heap, self)
  BY <1>1, <1>2 DEF ValueOf, KeptBy, ValueIn, KeptIn, BlockSize
<1> QED
  BY <1>1, <1>3, <1>4, <1>5

LEMMA CallSwaps ==
  ASSUME Owned, fault = "none", NEW o \in Living, NEW p \in Living, Swap(o, p)
  PROVE  Values!Swap(o, p)
<1>1. /\ o \in Obj /\ object[o] \in Array \cup Buffer
      /\ ValueOf(o) = ValueIn(heap, object[o]) /\ KeptBy(o) = KeptIn(heap, object[o])
  BY ValueOfLiving
<1>2. /\ p \in Obj /\ fault' = "none"
      /\ o # p => ValueOf(o)' = ValueOf(p) /\ KeptBy(o)' = KeptBy(p)
      /\ ValueOf(p)' = ValueOf(o) /\ KeptBy(p)' = KeptBy(o)
      /\ \A q \in Obj \ {o, p} : ValueOf(q)' = ValueOf(q) /\ KeptBy(q)' = KeptBy(q)
  <2>1. heap' = heap /\ object' = [object EXCEPT ![o] = object[p], ![p] = object[o]]
    BY DEF Swap
  <2>2. fault' = "none"
    BY DEF Swap
  <2> QED
    BY <1>1, <2>1, <2>2, Exchanged
<1>3. [q \in Obj |-> ValueOf(q)]' =
        [[q \in Obj |-> ValueOf(q)] EXCEPT ![o] = [q \in Obj |-> ValueOf(q)][p],
                                           ![p] = [q \in Obj |-> ValueOf(q)][o]]
  BY <1>1, <1>2
<1>4. [q \in Obj |-> KeptBy(q)]' =
        [[q \in Obj |-> KeptBy(q)] EXCEPT ![o] = [q \in Obj |-> KeptBy(q)][p],
                                          ![p] = [q \in Obj |-> KeptBy(q)][o]]
  BY <1>1, <1>2
<1> QED
  BY <1>2, <1>3, <1>4 DEF Values!Swap

LEMMA CallMoves ==
  ASSUME Owned, fault = "none", NEW o \in Obj \ Living, NEW p \in Living,
         NEW self \in {NoArray, NoBuffer},
         object' = [object EXCEPT ![o] = object[p], ![p] = self],
         UNCHANGED <<heap, fault, allocatorThrows>>
  PROVE  Values!MoveTo(o, p)
<1>1. self \in Array \cup Buffer /\ self.data = NULL /\ self.m_size = 0
  BY NewContainers
<1>2. ValueIn(heap, self) = <<>> /\ KeptIn(heap, self) = <<>>
  BY <1>1, EmptyIs DEF KeptIn
<1>3. /\ p \in Obj /\ fault' = "none" /\ o # p
      /\ ValueOf(o)' = ValueOf(p) /\ KeptBy(o)' = KeptBy(p)
      /\ ValueOf(p)' = <<>> /\ KeptBy(p)' = <<>>
      /\ \A q \in Obj \ {o, p} : ValueOf(q)' = ValueOf(q) /\ KeptBy(q)' = KeptBy(q)
  BY <1>1, <1>2, Exchanged
<1>4. ValueOf(o) = Dead
  BY DEF ValueOf, Living
<1>5. [q \in Obj |-> ValueOf(q)]' =
        [[q \in Obj |-> ValueOf(q)] EXCEPT ![o] = [q \in Obj |-> ValueOf(q)][p],
                                           ![p] = <<>>]
  BY <1>3
<1>6. [q \in Obj |-> KeptBy(q)]' =
        [[q \in Obj |-> KeptBy(q)] EXCEPT ![o] = [q \in Obj |-> KeptBy(q)][p],
                                          ![p] = <<>>]
  BY <1>3
<1> QED
  BY <1>3, <1>4, <1>5, <1>6 DEF Values!MoveTo

(* A construction ends with the container that r has, or without one. *)
LEMMA Creates ==
  ASSUME Owned, NEW o \in Obj \ Living, NEW r, Done(r, Others(o)),
         Thrown(r) => Sound(r, Others(o)), Constructs(o, r), NEW s,
         r.fault = "none" /\ ~ Thrown(r) =>
           \/ ValueIn(r.heap, r.self) = s
           \/ /\ ~ allocatorThrows /\ s = Unwritten(Len(s))
              /\ ValueIn(r.heap, r.self) = <<>>
  PROVE  Values!Create(o, s)
<1>1. [p \in Obj |-> ValueOf(p)][o] = Dead
  BY DEF ValueOf, Living
<1>2. CASE Thrown(r)
  <2>1. Values!Becomes(o, Dead)
    BY <1>2, DestroyedIs DEF Constructs
  <2>2. allocatorThrows
    BY <1>2 DEF Thrown
  <2> QED
    BY <1>1, <2>1, <2>2 DEF Values!Create, Values!Thrown
<1>3. CASE ~ Thrown(r)
  <2>1. \/ Values!Crash
        \/ r.fault = "none" /\ Values!Becomes(o, ValueIn(r.heap, r.self))
    BY <1>3, EndsIn DEF Constructs
  <2>2. \/ Values!Crash \/ Values!Becomes(o, s)
        \/ ~ allocatorThrows /\ s = Values!Unwritten(Len(s)) /\ Values!Becomes(o, <<>>)
    BY <1>3, <2>1, UnwrittenValues
  <2> QED
    BY <1>1, <2>2 DEF Values!Create
<1> QED
  BY <1>2, <1>3
-----------------------------------------------------------------------------
(* The constructors. *)

LEMMA NewBegun ==
  ASSUME Owned, NEW o \in Obj \ Living, NEW self \in {NoArray, NoBuffer},
         NEW r, r = Begun(self)
  PROVE  /\ Others(o) \in SUBSET Addr /\ o \in Obj /\ heap \in Heaps
         /\ Sound(r, Others(o)) /\ r.fault = "none" /\ ~ r.failed /\ ~ Thrown(r)
         /\ r.self = self /\ r.heap = heap
         /\ r.self.m_size = 0 /\ r.self.data = NULL /\ r.self.kind = self.kind
<1>1. r.heap = heap /\ heap \in Heaps
  BY DEF Begun, Owned, TypeOK, Heaps
<1>2. Sound(r, Others(o)) /\ r.self = self /\ ~ r.failed
  BY NewContainers, BegunNewSound
<1>3. Others(o) \in SUBSET Addr
  BY OthersAre
<1> QED
  BY <1>1, <1>2, <1>3, NewContainers DEF Sound, Thrown

LEMMA CreatesEmpty ==
  ASSUME Owned, NEW o \in Obj \ Living, NEW self \in {NoArray, NoBuffer},
         Constructs(o, Begun(self)), NEW s,
         s = <<>> \/ (~ allocatorThrows /\ s = Unwritten(Len(s)))
  PROVE  Values!Create(o, s)
<1>1. PICK r : r = Begun(self)
  OBVIOUS
<1>2. Sound(r, Others(o)) /\ ~ Thrown(r) /\ ValueIn(r.heap, r.self) = <<>>
  BY <1>1, NewBegun, EmptyIs
<1> QED
  BY <1>1, <1>2, SoundIsDone, Creates

(* Operands that are not there. *)
LEMMA NothingMeant ==
  ASSUME Owned, NEW src \in Sources \cup References, src.data = NULL \/ src.bytes = <<>>
  PROVE  /\ Meant(src) = Unwritten(Len(Meant(src)))
         /\ Meant(src) = <<>> \/ ~ allocatorThrows
<1>1. src \in SafeOperands /\ heap \in Heaps
  BY OperandsAre DEF Owned, TypeOK, Heaps
<1>2. Meant(src) \in Block /\ Len(Meant(src)) = Len(src.bytes)
  BY <1>1, OperandIs DEF SafeOperands, Meant
<1>3. CASE src.bytes = <<>>
  <2>1. Meant(src) = <<>>
    BY <1>2, <1>3 DEF Block
  <2>2. Unwritten(0) = <<>>
    BY UnwrittenIs DEF Block
  <2>3. Len(<<>>) = 0
    OBVIOUS
  <2> QED
    BY <2>1, <2>2, <2>3
<1>4. CASE src.bytes # <<>>
  <2>1. src.data = NULL /\ src.data # Caller /\ ~ allocatorThrows
    BY <1>1, <1>4, ObjectsAssumption DEF SafeOperands
  <2>2. Meant(src) = Unwritten(Len(src.bytes))
    BY <2>1 DEF Meant, Operand, Bytes, Unwritten
  <2> QED
    BY <1>2, <2>1, <2>2
<1> QED
  BY <1>3, <1>4

LEMMA GarbageIs ==
  ASSUME NEW h \in Heaps, NEW self \in Array \cup Buffer,
         \A i \in 1..self.m_size : Reads(h, self.data, i) = Garbage
  PROVE  ValueIn(h, self) = Unwritten(self.m_size)
<1>1. PICK n \in Nat : n = self.m_size
  BY DEF Array, Buffer
<1>2. PICK s : s = Unwritten(n)
  OBVIOUS
<1>3. s \in Block /\ Len(s) = n /\ \A i \in 1..n : s[i] = Garbage
  BY <1>2, UnwrittenIs DEF Unwritten
<1>4. ValueIn(h, self) = s
  BY <1>1, <1>3, ValueIs
<1> QED
  BY <1>1, <1>2, <1>4

LEMMA ArrayOfCountCreates ==
  ASSUME Owned, NEW o \in Obj \ Living, NEW n \in Nat, ArrayOfCount(o, n)
  PROVE  Values!Create(o, Unwritten(n))
<1>1. PICK r : r = Begun(NoArray)
  OBVIOUS
<1>2. /\ Others(o) \in SUBSET Addr /\ heap \in Heaps
      /\ Sound(r, Others(o)) /\ ~ r.failed /\ r.self.kind = "array"
      /\ r.heap = heap /\ r.self.m_size = 0 /\ r.self.data = NULL
  BY <1>1, NewBegun, NewContainers
<1>3. PICK q \in ArrayReallocated(r, n) : Constructs(o, q)
  BY <1>1 DEF ArrayOfCount
<1>4. Sound(q, Others(o)) /\ HasReallocated(q, r, n)
  BY <1>2, <1>3, ArrayReallocatedSound, ArrayReallocatedRead
<1>5. q.heap \in Heaps /\ q.self \in Array \cup Buffer /\ Done(q, Others(o))
  BY <1>4, SoundIsDone
<1>6. Unwritten(n) \in Block /\ Len(Unwritten(n)) = n
  BY UnwrittenIs
<1>7. CASE q.self = r.self /\ q.failed
  <2>1. ValueIn(q.heap, q.self) = <<>>
    BY <1>2, <1>7, EmptyIs
  <2>2. ~ Thrown(q) => ~ allocatorThrows
    BY <1>7 DEF Thrown
  <2> QED
    BY <1>3, <1>4, <1>5, <1>6, <2>1, <2>2, Creates
<1>8. CASE ~ (q.self = r.self /\ q.failed)
  <2>1. \A i \in 1..q.self.m_size : Reads(q.heap, q.self.data, i) = Garbage
    BY <1>2, <1>4, <1>8 DEF HasReallocated
  <2>2. q.self.m_size = n
    BY <1>4, <1>8 DEF HasReallocated
  <2>3. ValueIn(q.heap, q.self) = Unwritten(n)
    BY <1>5, <2>1, <2>2, GarbageIs
  <2> QED
    BY <1>3, <1>4, <1>5, <2>3, Creates
<1> QED
  BY <1>7, <1>8

LEMMA ArrayCopyCreates ==
  ASSUME Owned, NEW o \in Obj \ Living, NEW src \in Sources, ArrayCopyOf(o, src)
  PROVE  Values!Create(o, Meant(src))
<1>1. PICK r : r = Begun(NoArray)
  OBVIOUS
<1>2. /\ Others(o) \in SUBSET Addr /\ heap \in Heaps /\ o \in Obj
      /\ Sound(r, Others(o)) /\ ~ r.failed /\ r.self.kind = "array"
      /\ r.heap = heap /\ r.self.m_size = 0 /\ r.self.data = NULL
  BY <1>1, NewBegun, NewContainers
<1>3. PICK n : n = Len(src.bytes)
  OBVIOUS
<1>4. n \in Nat /\ src \in Operands /\ src \in SafeOperands
  BY <1>3, OperandsAre DEF SafeOperands, Operands, Block
<1>5. PICK q \in ArrayReallocated(r, n) : Constructs(o, ThenStored(q, 0, src))
  BY <1>1, <1>3 DEF ArrayCopyOf
<1>6. /\ Sound(q, Others(o))
      /\ \/ q.failed /\ q.self = r.self
         \/ q.failed = r.failed /\ q.self.data # NULL /\ q.self.m_size = n
      /\ q.self.kind = "array"
  BY <1>2, <1>4, <1>5, ArrayReallocatedSound
<1>7. /\ q \in Runs /\ q.heap \in Heaps /\ q.self \in Array \cup Buffer /\ q.fault = "none"
      /\ \A a \in Others(o) : q.heap[a] = heap[a]
  BY <1>6, SoundIsDone
<1>8. PICK t : t = ThenStored(q, 0, src)
  OBVIOUS
<1>9. /\ Done(t, Others(o)) /\ (Thrown(t) => Sound(t, Others(o)))
      /\ t.self = q.self /\ t.failed = q.failed
  <2>1. \/ Thrown(q)
        \/ ~ allocatorThrows
        \/ src.bytes = <<>>
        \/ q.self.data # NULL /\ 0 >= 0 /\ 0 + Len(src.bytes) <= Capacity(q.self)
    BY <1>3, <1>4, <1>6 DEF Thrown, Capacity
  <2> QED
    BY <1>2, <1>4, <1>6, <1>8, <2>1, ThenStoredDone
<1>10. PICK s : s = Operand(q.heap, src)
  OBVIOUS
<1>11. s = Meant(src) /\ s \in Block /\ Len(s) = n
  BY <1>2, <1>3, <1>7, <1>10, SourceRead
<1>12. ASSUME t.fault = "none", ~ Thrown(t) PROVE ValueIn(t.heap, t.self) = s
  <2>1. t = Stored(q, 0, s)
    BY <1>8, <1>9, <1>10, <1>12 DEF ThenStored, Thrown
  <2>2. t.heap \in Heaps
    BY <1>9 DEF Done, Runs
  <2>3. CASE s = <<>> /\ q.self = r.self
    BY <1>2, <1>9, <2>3, EmptyIs
  <2>4. CASE s # <<>> /\ q.self = r.self
    <3>1. t = [q EXCEPT !.fault = "null"]
      BY <1>2, <2>1, <2>4 DEF Stored, Crashed
    <3>2. t.fault = "null"
      BY <1>7, <3>1 DEF Runs
    <3> QED
      BY <1>12, <3>2
  <2>5. CASE q.self # r.self
    <3>1. t.self.m_size = Len(s)
      BY <1>6, <1>9, <1>11, <2>5
    <3>2. HasStored(t, q, 0, s)
      <4>1. 0 \in Int
        OBVIOUS
      <4> QED
        BY <1>2, <1>6, <1>11, <1>12, <2>1, <4>1, StoredRead
    <3>3. \A i \in 1..Len(s) : Reads(t.heap, t.self.data, i) = s[i]
      <4>1. \A i \in 1..Len(s) : i \in Nat \ {0} /\ i - 0 = i /\ i \in DOMAIN s
        BY <1>11 DEF Block
      <4> QED
        BY <3>2, <4>1 DEF HasStored
    <3> QED
      BY <1>7, <1>9, <1>11, <2>2, <3>1, <3>3, ValueIs
  <2> QED
    BY <2>3, <2>4, <2>5
<1> QED
  BY <1>5, <1>8, <1>9, <1>11, <1>12, Creates

LEMMA ArrayOfBytesCreates ==
  ASSUME Owned, NEW o \in Obj \ Living, NEW src \in Sources, ArrayOfBytes(o, src)
  PROVE  Values!Create(o, Meant(src))
<1>1. CASE src.data = NULL \/ src.bytes = <<>>
  <2>1. Constructs(o, Begun(NoArray))
    BY <1>1 DEF ArrayOfBytes
  <2> QED
    BY <1>1, <2>1, NothingMeant, CreatesEmpty
<1>2. CASE ~ (src.data = NULL \/ src.bytes = <<>>)
  <2>1. PICK r : r = Begun(NoArray)
    OBVIOUS
  <2>2. /\ Others(o) \in SUBSET Addr /\ heap \in Heaps /\ o \in Obj
        /\ Sound(r, Others(o)) /\ ~ r.failed /\ r.self.kind = "array"
        /\ r.heap = heap /\ r.self.m_size = 0 /\ r.self.data = NULL
    BY <2>1, NewBegun, NewContainers
  <2>3. PICK q \in ArrayAppended(r, src) : Constructs(o, q)
    BY <1>2, <2>1 DEF ArrayOfBytes
  <2>4. src \in Operands
    BY OperandsAre DEF SafeOperands
  <2>5. Done(q, Others(o)) /\ (Thrown(q) => Sound(q, Others(o)))
    BY <2>2, <2>3, <2>4, ArrayAppendedDone
  <2>6. PICK h, s : h = Released(r).heap /\ s = Operand(h, src)
    OBVIOUS
  <2>7. h \in Heaps /\ \A a \in Others(o) : h[a] = heap[a]
    <3>1. /\ Released(r).heap \in Heaps
          /\ \A a \in Others(o) : Released(r).heap[a] = heap[a]
      BY <2>2, ReleasedHeap
    <3> QED
      BY <2>6, <3>1
  <2>8. s = Meant(src) /\ s \in Block
    BY <2>2, <2>6, <2>7, SourceRead
  <2>9. ASSUME q.fault = "none", ~ Thrown(q) PROVE ValueIn(q.heap, q.self) = s
    <3>1. /\ q.self.m_size = r.self.m_size + Len(s)
          /\ \A i \in 1..Len(s) : Reads(q.heap, q.self.data, r.self.m_size + i) = s[i]
      <4>1. s = Operand(Released(r).heap, src)
        BY <2>6
      <4>2. HasAppended(q, r, s)
        BY <2>2, <2>3, <2>4, <2>9, <4>1, ArrayAppendedRead
      <4> QED
        BY <2>9, <4>2 DEF HasAppended
    <3>2. /\ q.self.m_size = Len(s)
          /\ \A i \in 1..Len(s) : Reads(q.heap, q.self.data, i) = s[i]
      <4>1. Len(s) \in Nat /\ 0 + Len(s) = Len(s) /\ \A i \in 1..Len(s) : 0 + i = i
        BY <2>8 DEF Block
      <4> QED
        BY <2>2, <3>1, <4>1
    <3>3. q.heap \in Heaps /\ q.self \in Array \cup Buffer
      BY <2>5 DEF Done, Runs
    <3> QED
      BY <2>8, <3>2, <3>3, ValueIs
  <2> QED
    BY <2>3, <2>5, <2>8, <2>9, Creates
<1> QED
  BY <1>1, <1>2

LEMMA BufferOfCountCreates ==
  ASSUME Owned, NEW o \in Obj \ Living, NEW n \in Nat, BufferOfCount(o, n)
  PROVE  Values!Create(o, Unwritten(n))
<1>1. PICK r : r = Begun(NoBuffer)
  OBVIOUS
<1>2. /\ Others(o) \in SUBSET Addr /\ heap \in Heaps
      /\ Sound(r, Others(o)) /\ ~ r.failed /\ r.self.kind = "buffer"
      /\ r.heap = heap /\ r.self.m_size = 0 /\ r.self.data = NULL
  BY <1>1, NewBegun, NewContainers
<1>3. PICK q \in BufferResized(r, n) : Constructs(o, q)
  BY <1>1 DEF BufferOfCount
<1>4. Sound(q, Others(o)) /\ HasResized(q, r, n)
  BY <1>2, <1>3, BufferResizedSound, BufferResizedRead
<1>5. q.heap \in Heaps /\ q.self \in Array \cup Buffer /\ Done(q, Others(o))
  BY <1>4, SoundIsDone
<1>6. ASSUME ~ Thrown(q) PROVE ValueIn(q.heap, q.self) = Unwritten(n)
  <2>1. \A i \in 1..n : Reads(r.heap, r.self.data, i) = Garbage
    BY <1>2 DEF Reads
  <2>2. q.self.m_size = n /\ \A i \in 1..n : Reads(q.heap, q.self.data, i) = Garbage
    BY <1>4, <1>6, <2>1 DEF HasResized
  <2> QED
    BY <1>5, <2>2, GarbageIs
<1> QED
  BY <1>3, <1>4, <1>5, <1>6, Creates

(* reset: the operand is read in a heap h in which the old block may be gone. *)
HasReset(q, r, src, rest) ==
  \/ /\ q = r
     /\ src.data = NULL \/ src.bytes = <<>>
  \/ Thrown(q) /\ q.heap = r.heap /\ q.self = r.self
  \/ src.bytes # <<>> /\
     \E h \in Heaps :
       /\ h = r.heap \/ (r.self.data # NULL => h[r.self.data] = Free)
       /\ \A a \in rest : h[a] = heap[a]
       /\ q.self.m_size = Len(Operand(h, src))
       /\ \A i \in 1..Len(Operand(h, src)) :
            Reads(q.heap, q.self.data, i) = Operand(h, src)[i]

(* Unless it was left by bad_alloc or crashed, a copy was stored. *)
LEMMA CopyIs ==
  ASSUME NEW q \in Runs, ~ Thrown(q), NEW at, NEW src, NEW s, s = Operand(q.heap, src)
  PROVE  /\ ThenStored(q, at, src) = Stored(q, at, s)
         /\ ThenCopied(q, at, src).fault = "none" => ThenCopied(q, at, src) = Stored(q, at, s)
<1>1. Crashed(q, "null").fault = "null"
  BY DEF Crashed, Runs
<1> QED
  BY <1>1 DEF ThenStored, ThenCopied

LEMMA BufferResetRead ==
  ASSUME NEW rest \in SUBSET Addr, NEW r, Sound(r, rest), r.self.kind = "buffer",
         ~ r.failed, NEW src \in SafeOperands, NEW q \in BufferReset(r, src),
         q.fault = "none"
  PROVE  HasReset(q, r, src, rest)
<1>1. CASE src.data = NULL \/ src.bytes = <<>>
  BY <1>1 DEF BufferReset, HasReset
<1>2. CASE ~ (src.data = NULL \/ src.bytes = <<>>)
  <2>1. PICK n : n = Len(src.bytes)
    OBVIOUS
  <2>2. n \in Nat /\ src \in Operands
    BY <2>1 DEF SafeOperands, Operands, Block
  <2>3. PICK p \in BufferResized(r, n) : q = ThenCopied(p, 0, src)
    BY <1>2, <2>1 DEF BufferReset
  <2>4. Sound(p, rest) /\ p \in Runs /\ p.heap \in Heaps
    BY <2>2, <2>3, BufferResizedSound DEF Sound, Runs
  <2>5. HasResized(p, r, n)
    BY <2>2, <2>3, BufferResizedRead
  <2>6. CASE Thrown(p)
    <3>1. q = p
      BY <2>3, <2>6 DEF ThenCopied
    <3> QED
      BY <2>5, <2>6, <3>1 DEF HasResized, HasReset
  <2>7. CASE ~ Thrown(p)
    <3>1. PICK s : s = Operand(p.heap, src)
      OBVIOUS
    <3>2. s \in Block /\ Len(s) = n
      BY <2>1, <2>2, <2>4, <3>1, OperandIs
    <3>3. q = Stored(p, 0, s)
      BY <2>3, <2>4, <2>7, <3>1, CopyIs
    <3>4. /\ q.self = p.self
          /\ \A i \in Nat \ {0} :
               Reads(q.heap, q.self.data, i) =
                 IF i - 0 \in DOMAIN s THEN s[i - 0] ELSE Reads(p.heap, p.self.data, i)
      <4>1. 0 \in Int
        OBVIOUS
      <4>2. HasStored(q, p, 0, s)
        BY <2>4, <3>2, <3>3, <4>1, StoredRead
      <4> QED
        BY <4>2 DEF HasStored
    <3>5. \A i \in 1..n : Reads(q.heap, q.self.data, i) = s[i]
      <4>1. DOMAIN s = 1..n
        BY <3>2 DEF Block
      <4>2. \A i \in 1..n : i \in Nat \ {0} /\ i - 0 = i
        BY <2>2
      <4> QED
        BY <3>4, <4>1, <4>2
    <3>6. p.self.m_size = n /\ Leaves(p, r)
      BY <2>5, <2>7 DEF HasResized
    <3>7. \A a \in rest : p.heap[a] = heap[a]
      BY <2>4 DEF Sound
    <3>8. p.heap = r.heap \/ (r.self.data # NULL => p.heap[r.self.data] = Free)
      BY <3>6 DEF Leaves
    <3>9. /\ q.self.m_size = Len(Operand(p.heap, src))
          /\ \A i \in 1..Len(Operand(p.heap, src)) :
               Reads(q.heap, q.self.data, i) = Operand(p.heap, src)[i]
      BY <3>1, <3>2, <3>4, <3>5, <3>6
    <3> QED
      BY <1>2, <2>4, <3>7, <3>8, <3>9 DEF HasReset
  <2> QED
    BY <2>6, <2>7
<1> QED
  BY <1>1, <1>2

LEMMA BufferCopyCreates ==
  ASSUME Owned, NEW o \in Obj \ Living, NEW src \in Sources, BufferCopyOf(o, src)
  PROVE  Values!Create(o, Meant(src))
<1>1. PICK r : r = Begun(NoBuffer)
  OBVIOUS
<1>2. /\ Others(o) \in SUBSET Addr /\ heap \in Heaps /\ o \in Obj
      /\ Sound(r, Others(o)) /\ ~ r.failed /\ r.self.kind = "buffer"
      /\ r.heap = heap /\ r.self = NoBuffer /\ r.self.m_size = 0
  BY <1>1, NewBegun, NewContainers
<1>3. PICK q \in BufferReset(r, src) : Constructs(o, q)
  BY <1>1 DEF BufferCopyOf
<1>4. src \in SafeOperands
  BY OperandsAre
<1>5. Done(q, Others(o)) /\ (Thrown(q) => Sound(q, Others(o)))
  BY <1>2, <1>3, <1>4, BufferResetDone
<1>6. q.heap \in Heaps /\ q.self \in Array \cup Buffer
  BY <1>5 DEF Done, Runs
<1>7. ASSUME q.fault = "none", ~ Thrown(q)
      PROVE  \/ ValueIn(q.heap, q.self) = Meant(src)
             \/ /\ ~ allocatorThrows /\ Meant(src) = Unwritten(Len(Meant(src)))
                /\ ValueIn(q.heap, q.self) = <<>>
  <2>1. HasReset(q, r, src, Others(o))
    BY <1>2, <1>3, <1>4, <1>7, BufferResetRead
  <2>2. CASE q = r /\ (src.data = NULL \/ src.bytes = <<>>)
    BY <1>2, <2>2, EmptyIs, NothingMeant
  <2>3. ASSUME NEW h \in Heaps, \A a \in Others(o) : h[a] = heap[a],
               q.self.m_size = Len(Operand(h, src)),
               \A i \in 1..Len(Operand(h, src)) :
                 Reads(q.heap, q.self.data, i) = Operand(h, src)[i]
        PROVE  ValueIn(q.heap, q.self) = Meant(src)
    <3>1. Operand(h, src) = Meant(src) /\ Meant(src) \in Block
      BY <1>2, <2>3, SourceRead
    <3> QED
      BY <1>6, <2>3, <3>1, ValueIs
  <2> QED
    BY <1>7, <2>1, <2>2, <2>3 DEF HasReset
<1> QED
  BY <1>3, <1>5, <1>7, Creates

LEMMA CreationsAre ==
  ASSUME Owned, fault = "none", NEW o \in Obj \ Live
  PROVE  CreationsAreOfValues(o)
<1>1. o \in Obj \ Living /\ Live = Living
  BY LiveIs
<1>2. Constructs(o, Begun(NoArray)) \/ Constructs(o, Begun(NoBuffer))
        => Values!Create(o, <<>>)
  BY <1>1, CreatesEmpty
<1>3. ASSUME NEW n \in 0..MaxSize, ArrayOfCount(o, n) \/ BufferOfCount(o, n)
      PROVE  Values!Create(o, Unwritten(n))
  BY <1>1, <1>3, ArrayOfCountCreates, BufferOfCountCreates
<1>4. \A src \in Sources : ArrayOfBytes(o, src) => Values!Create(o, Meant(src))
  BY <1>1, ArrayOfBytesCreates
<1>5. ASSUME NEW s \in Chunk, ArrayCopyOf(o, Given(s)) \/ BufferCopyOf(o, Given(s))
      PROVE  Values!Create(o, s)
  <2>1. Given(s) \in Sources /\ Meant(Given(s)) = s
    BY MeantIs
  <2>2. Values!Create(o, Meant(Given(s)))
    BY <1>1, <1>5, <2>1, ArrayCopyCreates, BufferCopyCreates
  <2> QED
    BY <2>1, <2>2
<1>6. ASSUME NEW p \in Live, ArrayCopyOf(o, Contents(p)) \/ BufferCopyOf(o, Contents(p))
      PROVE  Values!Create(o, ValueOf(p))
  <2>1. Contents(p) \in Sources /\ Meant(Contents(p)) = ValueOf(p)
    BY <1>1, MeantIs
  <2>2. Values!Create(o, Meant(Contents(p)))
    BY <1>1, <1>6, <2>1, ArrayCopyCreates, BufferCopyCreates
  <2> QED
    BY <2>1, <2>2
<1>7. ASSUME NEW p \in Live, ArrayMovedFrom(o, p) \/ BufferMovedFrom(o, p)
      PROVE  Values!MoveTo(o, p)
  BY <1>1, <1>7, CallMoves DEF ArrayMovedFrom, BufferMovedFrom
<1> QED
  BY <1>2, <1>3, <1>4, <1>5, <1>6, <1>7 DEF CreationsAreOfValues
-----------------------------------------------------------------------------
(* What both kinds have. *)

LEMMA CallsOfEitherAre ==
  ASSUME Owned, fault = "none", NEW o \in Live
  PROVE  CallsOfEitherAreOfValues(o)
<1>1. PICK r : r = Begun(object[o])
  OBVIOUS
<1>2. /\ o \in Living /\ o \in Obj /\ Others(o) \in SUBSET Addr
      /\ object[o] \in Array \cup Buffer /\ object[o].m_size \in Nat
      /\ Sound(r, Others(o)) /\ r.self = object[o] /\ r.heap = heap
  BY <1>1, LiveIs, LiveBegun
<1>3. Destroy(o) => Values!Destroy(o)
  BY <1>1, <1>2, DestroyedIs DEF Destroy, Values!Destroy
<1>4. \A p \in Live : Swap(o, p) => Values!Swap(o, p)
  BY <1>2, LiveIs, CallSwaps
<1>5. ASSUME NEW b \in Byte, Fill(o, b)
      PROVE  Values!Write(o, 0, [i \in 1..object[o].m_size |-> b])
  <2>1. PICK s : s = [i \in 1..object[o].m_size |-> b]
    OBVIOUS
  <2>2. s \in Seq(Value) /\ Len(s) = object[o].m_size
    BY <1>2, <2>1 DEF Value
  <2>3. s \in Block /\ 0 + Len(s) <= object[o].m_size /\ 0 \in Int /\ 0 \in Nat
    BY <1>2, <2>1, <2>2 DEF Block
  <2>4. PICK t : t = Stored(r, 0, s)
    OBVIOUS
  <2>5. Done(t, Others(o)) /\ Ends(o, t)
    BY <1>1, <1>5, <2>1, <2>3, <2>4, WriteDone DEF Fill
  <2> QED
    BY <1>2, <2>1, <2>3, <2>4, <2>5, CallWrites
<1>6. ASSUME NEW i \in 0..(object[o].m_size - 1), NEW b \in Byte, WriteElement(o, i, b)
      PROVE  Values!Write(o, i, <<b>>)
  <2>1. i \in Nat /\ i \in Int /\ i < object[o].m_size /\ i + 1 <= object[o].m_size
    BY <1>2
  <2>2. <<b>> \in Seq(Value) /\ Len(<<b>>) = 1
    BY DEF Value
  <2>3. PICK s : s = <<b>>
    OBVIOUS
  <2>4. s \in Block /\ Len(s) = 1 /\ i + Len(s) <= object[o].m_size
    BY <2>1, <2>2, <2>3 DEF Block
  <2>5. PICK t : t = Stored(r, i, s)
    OBVIOUS
  <2>6. Done(t, Others(o)) /\ Ends(o, t)
    BY <1>1, <1>6, <2>1, <2>3, <2>4, <2>5, WriteDone DEF WriteElement
  <2> QED
    BY <1>2, <2>1, <2>3, <2>4, <2>5, <2>6, CallWrites
<1>7. ASSUME NEW i \in 0..(object[o].m_size - 1), NEW b \in Byte, b = 0, Emplace(o, i)
      PROVE  Values!Write(o, i, <<b>>)
  BY <1>6, <1>7 DEF Emplace
<1> QED
  BY <1>3, <1>4, <1>5, <1>6, <1>7 DEF CallsOfEitherAreOfValues
-----------------------------------------------------------------------------
(* What arrays have. *)

LEMMA CallExtends ==
  ASSUME Owned, NEW o \in Living, NEW q, Done(q, Others(o)), Ends(o, q), NEW x \in Block,
         NEW s, NEW own, x \in Values!Read(s, own),
         q.fault = "none" =>
           /\ q.self.m_size = object[o].m_size + Len(x)
           /\ \A i \in 1..object[o].m_size :
                Reads(q.heap, q.self.data, i) = Reads(heap, object[o].data, i)
           /\ \A i \in 1..Len(x) :
                Reads(q.heap, q.self.data, object[o].m_size + i) = x[i]
  PROVE  Values!Extend(o, s, own)
<1>1. /\ o \in Obj /\ ValueOf(o) \in Block /\ Len(ValueOf(o)) = object[o].m_size
      /\ \A i \in 1..object[o].m_size : ValueOf(o)[i] = Reads(heap, object[o].data, i)
  BY LiveBegun
<1>2. \/ Values!Crash
      \/ /\ q.fault = "none" /\ q.heap \in Heaps /\ q.self \in Array \cup Buffer
         /\ Values!Becomes(o, ValueIn(q.heap, q.self))
  BY <1>1, EndsIn
<1>3. PICK v : v = ValueOf(o)
  OBVIOUS
<1>4. ASSUME q.fault = "none", q.heap \in Heaps, q.self \in Array \cup Buffer
      PROVE  ValueIn(q.heap, q.self) = v \o x
  <2>1. PICK h, self, m : h = q.heap /\ self = q.self /\ m = object[o].m_size
    OBVIOUS
  <2>2. /\ self.m_size = m + Len(x)
        /\ \A i \in 1..m : Reads(h, self.data, i) = v[i]
        /\ \A i \in 1..Len(x) : Reads(h, self.data, m + i) = x[i]
    BY <1>1, <1>3, <1>4, <2>1
  <2>3. h \in Heaps /\ self \in Array \cup Buffer /\ v \in Block /\ Len(v) = m
    BY <1>1, <1>3, <1>4, <2>1
  <2>4. ValueIn(h, self) = v \o x
    BY <2>2, <2>3, ExtendedIs
  <2> QED
    BY <2>1, <2>4
<1>5. Values!Crash \/ Values!Becomes(o, v \o x)
  BY <1>2, <1>4
<1>6. v = [p \in Obj |-> ValueOf(p)][o]
  BY <1>1, <1>3
<1> QED
  BY <1>5, <1>6 DEF Values!Extend

(* The container keeps its value. *)
LEMMA CallIsThrown ==
  ASSUME Owned, NEW o \in Living, NEW q, Sound(q, Others(o)), Ends(o, q),
         Thrown(q), q.heap = heap, q.self = object[o], NEW s, NEW own
  PROVE  Values!Extend(o, s, own)
<1>1. Values!Becomes(o, ValueOf(o)) /\ allocatorThrows /\ o \in Obj
  BY CallKeeps, ValueOfLiving DEF Thrown
<1>2. [p \in Obj |-> ValueOf(p)][o] = ValueOf(o)
  BY <1>1
<1> QED
  BY <1>1, <1>2 DEF Values!Extend, Values!Thrown

LEMMA ArrayAssignIs ==
  ASSUME Owned, NEW o \in Living, object[o].kind = "array", NEW p \in Living,
         ArrayAssign(o, p)
  PROVE  Values!Assign(o, p)
<1>1. PICK r, c : r = Begun(object[o]) /\ c = CleanedUp(r)
  OBVIOUS
<1>2. /\ o \in Obj /\ Others(o) \in SUBSET Addr /\ heap \in Heaps
      /\ Sound(r, Others(o)) /\ r.self = object[o] /\ r.heap = heap
  BY <1>1, LiveBegun
<1>3. Sound(c, Others(o)) /\ c.self.kind = "array" /\ c.self.m_size = 0
  BY <1>1, <1>2, CleanedUpSound, NewContainers
<1>4. c.heap \in Heaps /\ \A a \in Others(o) : c.heap[a] = heap[a]
  BY <1>3, SoundIsDone
<1>5. PICK s : s = IF p = o THEN <<>> ELSE Operand(c.heap, Contents(p))
  OBVIOUS
<1>6. s \in Block /\ s = IF p = o THEN <<>> ELSE ValueOf(p)
  <2>1. CASE p = o
    BY <1>5, <2>1 DEF Block
  <2>2. CASE p # o
    <3>1. PICK h, g, d, m : h = c.heap /\ g = heap /\ d = object[p].data /\ m = object[p].m_size
      OBVIOUS
    <3>2. d # NULL => h[d] = g[d]
      BY <1>4, <2>2, <3>1 DEF Others
    <3>3. Bytes(h, d, 0, m) = Bytes(heap, d, 0, m)
      <4>1. Bytes(h, d, 0, m) = Bytes(g, d, 0, m)
        BY <3>2 DEF Bytes
      <4> QED
        BY <3>1, <4>1
    <3>4. /\ d \in Addr \cup {NULL} /\ m \in Nat
          /\ ValueOf(p) = Bytes(heap, d, 0, m) /\ ValueOf(p) \in Block
      BY <3>1, ValueOfLiving DEF Array, Buffer, ValueIn
    <3>5. /\ Contents(p).data = d /\ Contents(p).from = 0
          /\ Contents(p).bytes = Unwritten(m)
      BY <3>1 DEF Contents, Pointed
    <3>6. d # Caller /\ Len(Unwritten(m)) = m
      BY <3>4, UnwrittenIs, ObjectsAssumption
    <3>7. Operand(c.heap, Contents(p)) = Bytes(h, d, 0, m)
      BY <3>1, <3>5, <3>6 DEF Operand
    <3> QED
      BY <1>5, <2>2, <3>3, <3>4, <3>7
  <2> QED
    BY <2>1, <2>2
<1>7. PICK q \in ArrayMoves(c, s) :
        Ends(o, IF q.failed /\ ~ Thrown(q) /\ s # <<>> THEN Crashed(q, "null") ELSE q)
  BY <1>1, <1>5 DEF ArrayAssign
<1>8. Sound(q, Others(o)) /\ q \in Runs
  BY <1>2, <1>3, <1>6, <1>7, ArrayMovesSound DEF Sound
<1>9. \/ q.failed /\ q.self = c.self
      \/ /\ q.self.m_size = Len(s)
         /\ \A i \in 1..Len(s) : Reads(q.heap, q.self.data, i) = s[i]
  <2>1. Others(o) \in SUBSET Addr /\ s \in Block
    BY <1>2, <1>6
  <2> QED
    BY <1>3, <1>7, <2>1, ArrayMovesRead
<1>10. PICK w : w = IF p = o THEN <<>> ELSE [x \in Obj |-> ValueOf(x)][p]
  OBVIOUS
<1>11. w = s
  BY <1>6, <1>10, ValueOfLiving
<1>12. CASE q.failed /\ ~ Thrown(q) /\ s # <<>>
  <2>1. PICK t : t = Crashed(q, "null")
    OBVIOUS
  <2>2. t = [q EXCEPT !.fault = "null"] /\ ~ allocatorThrows /\ Ends(o, t)
    BY <1>7, <1>12, <2>1 DEF Crashed, Thrown
  <2>3. Done(t, Others(o)) /\ t.fault # "none"
    BY <1>8, <2>2 DEF Done, Runs
  <2>4. Values!Crash
    BY <1>2, <2>2, <2>3, EndsIn
  <2> QED
    BY <2>4 DEF Values!Assign
<1>13. CASE ~ (q.failed /\ ~ Thrown(q) /\ s # <<>>)
  <2>1. Ends(o, q)
    BY <1>7, <1>13
  <2>2. CASE q.failed /\ q.self = c.self
    <3>1. Values!Becomes(o, <<>>)
      BY <1>3, <1>8, <2>1, <2>2, CallEmpties
    <3>2. allocatorThrows \/ w = <<>>
      BY <1>11, <1>13, <2>2 DEF Thrown
    <3> QED
      BY <1>10, <3>1, <3>2 DEF Values!Assign, Values!Thrown
  <2>3. CASE ~ (q.failed /\ q.self = c.self)
    <3>1. Values!Becomes(o, s) \/ Values!Crash
      BY <1>6, <1>8, <1>9, <2>1, <2>3, SoundIsDone, CallBecomes
    <3> QED
      BY <1>10, <1>11, <3>1 DEF Values!Assign
  <2> QED
    BY <2>2, <2>3
<1> QED
  BY <1>12, <1>13

LEMMA ArrayAllocateIs ==
  ASSUME Owned, NEW o \in Living, object[o].kind = "array", NEW n \in Nat,
         ArrayAllocate(o, n)
  PROVE  Values!Allocate(o, n)
<1>1. PICK r, c : r = Begun(object[o]) /\ c = CleanedUp(r)
  OBVIOUS
<1>2. o \in Obj /\ Others(o) \in SUBSET Addr /\ Sound(r, Others(o)) /\ r.self = object[o]
  BY <1>1, LiveBegun
<1>3. Sound(c, Others(o)) /\ c.self.kind = "array" /\ c.self.m_size = 0
  BY <1>1, <1>2, CleanedUpSound, NewContainers
<1>4. PICK s : s = Unwritten(n)
  OBVIOUS
<1>5. s \in Block /\ Len(s) = n
  BY <1>4, UnwrittenIs
<1>6. PICK q \in ArrayMoves(c, s) : Ends(o, q)
  BY <1>1, <1>4 DEF ArrayAllocate
<1>7. Sound(q, Others(o))
  BY <1>2, <1>3, <1>5, <1>6, ArrayMovesSound
<1>8. \/ q.self = c.self
      \/ /\ q.self.m_size = Len(s)
         /\ \A i \in 1..Len(s) : Reads(q.heap, q.self.data, i) = s[i]
  BY <1>2, <1>3, <1>5, <1>6, ArrayMovesRead
<1>9. CASE q.self = c.self
  BY <1>3, <1>6, <1>7, <1>9, CallEmpties DEF Values!Allocate
<1>10. CASE q.self # c.self
  <2>1. ValueIn(q.heap, q.self) = s
    BY <1>5, <1>7, <1>8, <1>10, SoundIsDone, ValueIs
  <2>2. Values!Becomes(o, s)
    BY <1>2, <1>6, <1>7, <2>1, SoundIsDone, EndsIn
  <2> QED
    BY <1>4, <2>2, UnwrittenValues DEF Values!Allocate
<1> QED
  BY <1>9, <1>10

LEMMA ArrayReallocateIs ==
  ASSUME Owned, NEW o \in Living, object[o].kind = "array", NEW n \in Nat,
         ArrayReallocate(o, n)
  PROVE  Values!Resize(o, n)
<1>1. PICK r : r = Begun(object[o])
  OBVIOUS
<1>2. /\ o \in Obj /\ Others(o) \in SUBSET Addr /\ Sound(r, Others(o))
      /\ r.self = object[o] /\ r.heap = heap /\ r.self.kind = "array"
      /\ object[o].m_size \in Nat
  BY <1>1, LiveBegun
<1>3. PICK q \in ArrayReallocated(r, n) : Ends(o, q)
  BY <1>1 DEF ArrayReallocate
<1>4. Sound(q, Others(o)) /\ HasReallocated(q, r, n)
  BY <1>2, <1>3, ArrayReallocatedSound, ArrayReallocatedRead
<1>5. CASE q.heap = r.heap /\ q.self = r.self
  <2>1. Values!Becomes(o, ValueOf(o))
    BY <1>2, <1>3, <1>4, <1>5, CallKeeps
  <2> QED
    BY <1>2, <2>1, TheValue DEF Values!Resize
<1>6. CASE ~ (q.heap = r.heap /\ q.self = r.self)
  <2>1. \A i \in 1..n : ~ (i <= object[o].m_size) => i > object[o].m_size
    BY <1>2
  <2>2. /\ q.self.m_size = n
        /\ \A i \in 1..n :
             \/ Reads(q.heap, q.self.data, i) = Reads(heap, object[o].data, i)
             \/ i > object[o].m_size /\ Reads(q.heap, q.self.data, i) = Garbage
    BY <1>2, <1>4, <1>6, <2>1 DEF HasReallocated
  <2> QED
    BY <1>3, <1>4, <2>2, CallResizes
<1> QED
  BY <1>5, <1>6

LEMMA ArrayAppendIs ==
  ASSUME Owned, NEW o \in Living, object[o].kind = "array", NEW src \in Sources,
         ArrayAppend(o, src)
  PROVE  Values!Extend(o, Meant(src), IsPartOf(src, o))
<1>1. PICK r : r = Begun(object[o])
  OBVIOUS
<1>2. /\ o \in Obj /\ Others(o) \in SUBSET Addr /\ Sound(r, Others(o))
      /\ r.self = object[o] /\ r.heap = heap /\ r.self.kind = "array"
  BY <1>1, LiveBegun
<1>3. src \in Operands
  BY OperandsAre DEF SafeOperands
<1>4. PICK q \in ArrayAppended(r, src) : Ends(o, q)
  BY <1>1 DEF ArrayAppend
<1>5. Done(q, Others(o)) /\ (Thrown(q) => Sound(q, Others(o)))
  BY <1>2, <1>3, <1>4, ArrayAppendedDone
<1>6. PICK h, x : h = Released(r).heap /\ x = Operand(h, src)
  OBVIOUS
<1>7. /\ h \in Heaps /\ \A a \in Others(o) : h[a] = heap[a]
      /\ object[o].data # NULL => h[object[o].data] = Free
  <2>1. /\ Released(r).heap \in Heaps
        /\ \A a \in Others(o) : Released(r).heap[a] = heap[a]
        /\ r.self.data # NULL => Released(r).heap[r.self.data] = Free
    BY <1>2, ReleasedHeap
  <2> QED
    BY <1>2, <1>6, <2>1
<1>8. x \in Block /\ x \in Values!Read(Meant(src), IsPartOf(src, o))
  BY <1>6, <1>7, SourceIsRead
<1>9. q.fault = "none" => HasAppended(q, r, x)
  <2>1. x = Operand(Released(r).heap, src)
    BY <1>6
  <2> QED
    BY <1>2, <1>3, <1>4, <2>1, ArrayAppendedRead
<1>10. CASE Thrown(q) /\ q.heap = r.heap /\ q.self = r.self
  BY <1>2, <1>4, <1>5, <1>10, CallIsThrown
<1>11. CASE ~ (Thrown(q) /\ q.heap = r.heap /\ q.self = r.self)
  <2>1. q.fault = "none" =>
          /\ q.self.m_size = object[o].m_size + Len(x)
          /\ \A i \in 1..object[o].m_size :
               Reads(q.heap, q.self.data, i) = Reads(heap, object[o].data, i)
          /\ \A i \in 1..Len(x) :
               Reads(q.heap, q.self.data, object[o].m_size + i) = x[i]
    BY <1>2, <1>9, <1>11 DEF HasAppended
  <2> QED
    BY <1>4, <1>5, <1>8, <2>1, CallExtends
<1> QED
  BY <1>10, <1>11

(* A container that was given s behind what it read before. *)
HasCopied(t, q, m, s) ==
  /\ t.self = q.self
  /\ \A i \in 1..m : Reads(t.heap, t.self.data, i) = Reads(q.heap, q.self.data, i)
  /\ \A i \in 1..Len(s) : Reads(t.heap, t.self.data, m + i) = s[i]

LEMMA CopiedBehindRead ==
  ASSUME NEW rest \in SUBSET Addr, NEW q, Sound(q, rest), NEW m \in Nat,
         NEW s \in Block, NEW t, t = Stored(q, m, s), t.fault = "none"
  PROVE  HasCopied(t, q, m, s)
<1>1. m \in Int /\ DOMAIN s = 1..Len(s)
  BY DEF Block
<1>2. /\ t.self = q.self
      /\ \A i \in Nat \ {0} :
           Reads(t.heap, t.self.data, i) =
             IF i - m \in DOMAIN s THEN s[i - m] ELSE Reads(q.heap, q.self.data, i)
  <2>1. HasStored(t, q, m, s)
    BY <1>1, StoredRead
  <2> QED
    BY <2>1 DEF HasStored
<1>3. \A i \in 1..m : i \in Nat \ {0} /\ i - m \notin DOMAIN s
  BY <1>1
<1>4. \A i \in 1..Len(s) : m + i \in Nat \ {0} /\ (m + i) - m = i
  OBVIOUS
<1> QED
  BY <1>1, <1>2, <1>3, <1>4 DEF HasCopied

(* push_back: whether or not there was memory, the last byte is written. *)
LEMMA ArrayPushes ==
  ASSUME Owned, NEW o \in Living, object[o].kind = "array",
         NEW src \in SafeOperands, Len(src.bytes) = 1, ArrayPushBack(o, src),
         NEW s, Operand(heap, src) = s, NEW own,
         \A h \in Heaps :
           /\ \A a \in Others(o) : h[a] = heap[a]
           /\ h = heap \/ (object[o].data # NULL => h[object[o].data] = Free)
           => Operand(h, src) \in Values!Read(s, own)
  PROVE  Values!PushBack(o, s, own)
<1>1. PICK r : r = Begun(object[o])
  OBVIOUS
<1>2. /\ o \in Obj /\ Others(o) \in SUBSET Addr /\ Sound(r, Others(o))
      /\ r.self = object[o] /\ r.heap = heap /\ r.self.kind = "array" /\ ~ r.failed
      /\ ValueOf(o) \in Block /\ Len(ValueOf(o)) = object[o].m_size
      /\ object[o].m_size \in Nat
      /\ \A i \in 1..object[o].m_size : ValueOf(o)[i] = Reads(heap, object[o].data, i)
  BY <1>1, LiveBegun
<1>3. PICK m \in Nat : m = object[o].m_size
  BY <1>2
<1>4. PICK n \in Nat : n = m + 1
  OBVIOUS
<1>5. PICK q \in ArrayReallocated(r, n) : Ends(o, ThenStored(q, q.self.m_size - 1, src))
  BY <1>1, <1>3, <1>4 DEF ArrayPushBack
<1>6. /\ Sound(q, Others(o)) /\ q.self.kind = "array"
      /\ \/ q.failed /\ q.self = r.self
         \/ q.failed = r.failed /\ q.self.data # NULL /\ q.self.m_size = n
  BY <1>2, <1>5, ArrayReallocatedSound
<1>7. q.self.m_size \in Nat /\ q \in Runs /\ q.heap \in Heaps
  BY <1>6, SoundIsDone
<1>8. PICK at \in Int : at = q.self.m_size - 1
  BY <1>7
<1>9. PICK t : t = ThenStored(q, at, src)
  OBVIOUS
<1>10. src \in Operands /\ Ends(o, t)
  BY <1>5, <1>8, <1>9 DEF SafeOperands
<1>11. Done(t, Others(o))
  <2>1. \/ Thrown(q)
        \/ ~ allocatorThrows
        \/ src.bytes = <<>>
        \/ q.self.data # NULL /\ at >= 0 /\ at + Len(src.bytes) <= Capacity(q.self)
    BY <1>2, <1>3, <1>4, <1>6, <1>8 DEF Thrown, Capacity
  <2> QED
    BY <1>2, <1>6, <1>9, <1>10, <2>1, ThenStoredDone
<1>12. HasReallocated(q, r, n)
  BY <1>2, <1>5, ArrayReallocatedRead
<1>13. PICK x : x = Operand(q.heap, src)
  OBVIOUS
<1>14. x \in Block /\ Len(x) = 1
  BY <1>7, <1>10, <1>13, OperandIs
<1>15. CASE Thrown(q)
  <2>1. t = q /\ q.failed
    BY <1>9, <1>15 DEF ThenStored, Thrown
  <2>2. q.heap = heap /\ q.self = object[o]
    BY <1>2, <1>12, <2>1 DEF HasReallocated
  <2> QED
    BY <1>6, <1>10, <1>15, <2>1, <2>2, CallIsThrown DEF Values!PushBack
<1>16. CASE ~ Thrown(q)
  <2>1. t = Stored(q, at, x)
    BY <1>9, <1>13, <1>16 DEF ThenStored
  (* There was no memory. *)
  <2>2. CASE q.heap = r.heap /\ q.self = r.self
    <3>1. q.failed /\ at = m - 1 /\ ~ allocatorThrows /\ x = s
      <4>1. at = m - 1
        BY <1>2, <1>3, <1>8, <2>2
      <4>2. q.failed
        BY <1>2, <1>3, <1>4, <1>12, <2>2 DEF HasReallocated
      <4> QED
        BY <1>2, <1>13, <1>16, <2>2, <4>1, <4>2 DEF Thrown
    <3>2. PICK v : v = [p \in Obj |-> ValueOf(p)][o]
      OBVIOUS
    <3>3. v = ValueOf(o) /\ v \in Block /\ Len(v) = m
      BY <1>2, <1>3, <3>2
    <3>4. PICK w : w = [v EXCEPT ![Len(v)] = s[1]]
      OBVIOUS
    <3>5. t.fault = "none" => HasStored(t, q, at, x)
      BY <1>2, <1>6, <1>14, <2>1, StoredRead
    <3>6. x # <<>> /\ DOMAIN x = {1} /\ x[1] \in Value
      <4>1. x \in Seq(Value) /\ DOMAIN x = 1..Len(x)
        BY <1>14 DEF Block
      <4>2. 1..1 = {1}
        OBVIOUS
      <4>3. DOMAIN x = {1} /\ 1 \in 1..Len(x)
        BY <1>14, <4>1, <4>2
      <4>4. x[1] \in Value
        BY <4>1, <4>3
      <4>5. x # <<>>
        BY <1>14
      <4> QED
        BY <4>3, <4>4, <4>5
    <3>7. CASE m = 0
      <4>1. t.fault # "none"
        BY <3>1, <3>5, <3>6, <3>7 DEF HasStored
      <4> QED
        BY <1>2, <1>10, <1>11, <4>1, EndsIn DEF Values!PushBack, Values!Extend
    <3>8. CASE m # 0
      <4>1. w \in Block /\ Len(w) = m
        BY <3>1, <3>3, <3>4, <3>6, <3>8 DEF Block
      <4>2. ASSUME t.fault = "none"
            PROVE  /\ t.self.m_size = Len(w)
                   /\ \A i \in 1..Len(w) : Reads(t.heap, t.self.data, i) = w[i]
        <5>1. t.self = object[o]
          BY <1>2, <2>2, <3>5, <4>2 DEF HasStored
        <5>2. ASSUME NEW i \in 1..m PROVE Reads(t.heap, t.self.data, i) = w[i]
          <6>1. i \in Nat \ {0}
            OBVIOUS
          <6>2. Reads(t.heap, t.self.data, i) =
                  IF i - at \in DOMAIN x THEN x[i - at] ELSE Reads(heap, object[o].data, i)
            BY <1>2, <2>2, <3>5, <4>2, <6>1 DEF HasStored
          <6>3. v[i] = Reads(heap, object[o].data, i)
            BY <1>2, <1>3, <3>3
          <6>4. CASE i = m
            <7>1. i - at = 1
              BY <3>1, <6>4
            <7>2. w[i] = s[1]
              BY <3>3, <3>4, <6>4 DEF Block
            <7> QED
              BY <3>1, <3>6, <6>2, <7>1, <7>2
          <6>5. CASE i # m
            <7>1. i - at # 1
              BY <3>1, <6>5
            <7>2. w[i] = v[i]
              BY <3>3, <3>4, <6>5 DEF Block
            <7> QED
              BY <3>6, <6>2, <6>3, <7>1, <7>2
          <6> QED
            BY <6>4, <6>5
        <5> QED
          BY <1>3, <4>1, <5>1, <5>2
      <4>3. Values!Becomes(o, w) \/ Values!Crash
        BY <1>10, <1>11, <4>1, <4>2, CallBecomes
      <4>4. v # <<>>
        BY <3>3, <3>8
      <4> QED
        BY <3>1, <3>2, <3>4, <4>3, <4>4 DEF Values!PushBack, Values!Extend
    <3> QED
      BY <3>7, <3>8
  <2>3. CASE ~ (q.heap = r.heap /\ q.self = r.self)
    <3>1. /\ q.self.m_size = n
          /\ \A i \in 1..n :
               Reads(q.heap, q.self.data, i) =
                 IF i <= m THEN Reads(heap, object[o].data, i) ELSE Garbage
          /\ object[o].data # NULL => q.heap[object[o].data] = Free
      BY <1>2, <1>3, <1>12, <2>3 DEF HasReallocated
    <3>2. at = m /\ n = m + Len(x)
      BY <1>4, <1>8, <1>14, <3>1
    <3>3. x \in Values!Read(s, own)
      <4>1. \A a \in Others(o) : q.heap[a] = heap[a]
        BY <1>6, SoundIsDone
      <4> QED
        BY <1>7, <1>13, <3>1, <4>1
    <3>4. t.fault = "none" => HasCopied(t, q, m, x)
      <4>1. t = Stored(q, m, x)
        BY <2>1, <3>2
      <4> QED
        BY <1>2, <1>6, <1>14, <4>1, CopiedBehindRead
    <3>5. t.fault = "none" =>
            /\ t.self.m_size = m + Len(x)
            /\ \A i \in 1..m :
                 Reads(t.heap, t.self.data, i) = Reads(heap, object[o].data, i)
            /\ \A i \in 1..Len(x) : Reads(t.heap, t.self.data, m + i) = x[i]
      BY <3>1, <3>2, <3>4 DEF HasCopied
    <3>6. Values!Extend(o, s, own)
      BY <1>3, <1>10, <1>11, <1>14, <3>3, <3>5, CallExtends
    <3> QED
      BY <3>6 DEF Values!PushBack
  <2> QED
    BY <2>2, <2>3
<1> QED
  BY <1>15, <1>16

LEMMA ArrayPushBackIs ==
  ASSUME Owned, NEW o \in Living, object[o].kind = "array", NEW src \in References,
         ArrayPushBack(o, src)
  PROVE  Values!PushBack(o, Meant(src), IsPartOf(src, o))
<1>1. src \in SafeOperands /\ Len(src.bytes) = 1
  BY OperandsAre
<1>2. ASSUME NEW h \in Heaps, \A a \in Others(o) : h[a] = heap[a],
             h = heap \/ (object[o].data # NULL => h[object[o].data] = Free)
      PROVE  Operand(h, src) \in Values!Read(Meant(src), IsPartOf(src, o))
  BY <1>2, SourceIsRead
<1>3. PICK s, own : s = Meant(src) /\ own = IsPartOf(src, o)
  OBVIOUS
<1>4. Operand(heap, src) = s
  BY <1>3 DEF Meant
<1>5. Values!PushBack(o, s, own)
  BY <1>1, <1>2, <1>3, <1>4, ArrayPushes
<1> QED
  BY <1>3, <1>5

LEMMA ArrayEmplaceBackIs ==
  ASSUME Owned, NEW o \in Living, object[o].kind = "array", ArrayEmplaceBack(o)
  PROVE  Values!PushBack(o, <<0>>, FALSE)
<1>1. PICK src, s : src = Given(<<0>>) /\ s = <<0>>
  OBVIOUS
<1>2. src \in SafeOperands /\ Len(src.bytes) = 1
  <2>1. Given(<<0>>) \in References
    BY ObjectsAssumption DEF References
  <2> QED
    BY <1>1, <2>1, OperandsAre
<1>3. \A h : Operand(h, src) = s
  BY <1>1 DEF Operand, Given
<1>4. \A h : Operand(h, src) \in Values!Read(s, FALSE)
  BY <1>3 DEF Values!Read
<1>5. ArrayPushBack(o, src)
  BY <1>1 DEF ArrayEmplaceBack
<1>6. Values!PushBack(o, s, FALSE)
  BY <1>2, <1>3, <1>4, <1>5, ArrayPushes
<1> QED
  BY <1>1, <1>6

LEMMA CallsOfArraysAre ==
  ASSUME Owned, fault = "none", NEW o \in Live, IsArray(o)
  PROVE  CallsOfArraysAreOfValues(o)
<1>1. o \in Living /\ object[o].kind = "array" /\ Live = Living
  BY LiveIs DEF IsArray, IsA
<1>2. \A p \in Live : ArrayAssign(o, p) => Values!Assign(o, p)
  BY <1>1, ArrayAssignIs
<1>3. ASSUME NEW n \in 0..MaxSize
      PROVE  /\ ArrayAllocate(o, n) => Values!Allocate(o, n)
             /\ ArrayReallocate(o, n) => Values!Resize(o, n)
  BY <1>1, ArrayAllocateIs, ArrayReallocateIs
<1>4. \A src \in Sources :
        ArrayAppend(o, src) => Values!Extend(o, Meant(src), IsPartOf(src, o))
  BY <1>1, ArrayAppendIs
<1>5. \A src \in References :
        ArrayPushBack(o, src) => Values!PushBack(o, Meant(src), IsPartOf(src, o))
  BY <1>1, ArrayPushBackIs
<1>6. ArrayEmplaceBack(o) => Values!PushBack(o, <<0>>, FALSE)
  BY <1>1, ArrayEmplaceBackIs
<1>7. PICK r : r = Begun(object[o])
  OBVIOUS
<1>8. /\ o \in Obj /\ Others(o) \in SUBSET Addr /\ Sound(r, Others(o))
      /\ r.self = object[o] /\ r.heap = heap /\ r.self.kind = "array"
  BY <1>1, <1>7, LiveBegun
<1>9. ASSUME NEW at \in 0..MaxSize, NEW s \in Chunk, ArraySetRange(o, at, Given(s))
      PROVE  Values!Write(o, at, s)
  <2>1. s \in Block /\ Given(s).bytes = s /\ Operand(heap, Given(s)) = s
    <3>1. s \in Block
      BY OperandsAre
    <3>2. Given(s).data = Caller /\ Given(s).bytes = s
      BY DEF Given
    <3>3. Operand(heap, Given(s)) = s
      BY <3>2 DEF Operand
    <3> QED
      BY <3>1, <3>2, <3>3
  <2>2. at \in Nat /\ at \in Int
    OBVIOUS
  <2>3. PICK t : t = Stored(r, at, s)
    OBVIOUS
  <2>4. at + Len(s) <= object[o].m_size /\ Ends(o, t)
    BY <1>7, <1>9, <2>1, <2>3 DEF ArraySetRange
  <2>5. Done(t, Others(o))
    BY <1>7, <2>1, <2>2, <2>3, <2>4, WriteDone
  <2> QED
    BY <1>1, <1>8, <2>1, <2>2, <2>3, <2>4, <2>5, CallWrites
<1>10. ASSUME ArrayClear(o) PROVE Values!Clear(o)
  <2>1. PICK c : c = CleanedUp(r)
    OBVIOUS
  <2>2. Sound(c, Others(o)) /\ c.self.m_size = 0
    BY <1>8, <2>1, CleanedUpSound, NewContainers
  <2>3. Ends(o, c)
    BY <1>7, <1>10, <2>1 DEF ArrayClear
  <2> QED
    BY <1>1, <2>2, <2>3, CallEmpties DEF Values!Clear
<1> QED
  BY <1>2, <1>3, <1>4, <1>5, <1>6, <1>9, <1>10 DEF CallsOfArraysAreOfValues
-----------------------------------------------------------------------------
(* What buffers have. *)

LEMMA LiveBuffer ==
  ASSUME Owned, NEW o \in Living, object[o].kind = "buffer", NEW r, r = Begun(object[o])
  PROVE  /\ o \in Obj /\ Others(o) \in SUBSET Addr /\ Sound(r, Others(o))
         /\ r.self = object[o] /\ r.heap = heap /\ ~ r.failed /\ r.self.kind = "buffer"
         /\ object[o].m_size \in Nat
  BY LiveBegun

LEMMA BufferDeallocateIs ==
  ASSUME Owned, NEW o \in Living, object[o].kind = "buffer", BufferDeallocate(o)
  PROVE  Values!Clear(o)
<1>1. PICK r, d : r = Begun(object[o]) /\ d = Deallocated(r)
  OBVIOUS
<1>2. /\ Others(o) \in SUBSET Addr /\ Sound(r, Others(o)) /\ r.self.kind = "buffer"
      /\ ~ r.failed
  BY <1>1, LiveBuffer
<1>3. Sound(d, Others(o)) /\ d.self = NoBuffer
  BY <1>1, <1>2, DeallocatedSound
<1>4. d.self.m_size = 0 /\ Ends(o, d)
  BY <1>1, <1>3, NewContainers DEF BufferDeallocate
<1> QED
  BY <1>3, <1>4, CallEmpties DEF Values!Clear

LEMMA BufferAllocateIs ==
  ASSUME Owned, NEW o \in Living, object[o].kind = "buffer", NEW n \in Nat,
         BufferAllocate(o, n)
  PROVE  Values!Clear(o)
<1>1. PICK r, d : r = Begun(object[o]) /\ d = Deallocated(r)
  OBVIOUS
<1>2. /\ Others(o) \in SUBSET Addr /\ Sound(r, Others(o)) /\ r.self.kind = "buffer"
      /\ ~ r.failed
  BY <1>1, LiveBuffer
<1>3. CASE HasCapacity(object[o], n)
  <2>1. PICK self : self = [r.self EXCEPT !.m_size = 0]
    OBVIOUS
  <2>2. r \in Runs /\ r.self \in Buffer /\ Fitting(r.self, r.heap)
    BY <1>2 DEF Sound, Runs, Array, Buffer
  <2>3. PICK t : t = [r EXCEPT !.self = self]
    OBVIOUS
  <2>4. Ends(o, t)
    <3>1. Ends(o, [r EXCEPT !.self.m_size = 0])
      BY <1>1, <1>3 DEF BufferAllocate
    <3> QED
      BY <2>1, <2>2, <2>3, <3>1 DEF Runs
  <2>5. /\ self \in Buffer /\ self.m_size = 0 /\ self.data = r.self.data
        /\ self.m_capacity = r.self.m_capacity /\ self.kind = "buffer"
    BY <2>1, <2>2 DEF Buffer
  <2>6. t \in Runs /\ t.self = self /\ t.heap = r.heap /\ t.fault = r.fault
    BY <2>2, <2>3, <2>5 DEF Runs
  <2>7. Fitting(self, r.heap)
    BY <1>2, <2>2, <2>5 DEF Fitting, Capacity, Buffer
  <2>8. Sound(t, Others(o)) /\ t.self.m_size = 0
    BY <1>2, <2>5, <2>6, <2>7 DEF Sound
  <2> QED
    BY <2>4, <2>8, CallEmpties DEF Values!Clear
<1>4. CASE ~ HasCapacity(object[o], n)
  <2>1. Sound(d, Others(o)) /\ d.self.kind = "buffer" /\ d.self.m_size = 0
    <3>1. Sound(d, Others(o)) /\ d.self = NoBuffer
      BY <1>1, <1>2, DeallocatedSound
    <3> QED
      BY <3>1, NewContainers
  <2>2. PICK s : s = Unwritten(n)
    OBVIOUS
  <2>3. PICK q \in BufferMoves(d, s, 0) : Ends(o, q)
    BY <1>1, <1>4, <2>2 DEF BufferAllocate
  <2>4. s \in Block /\ 0 \in Nat /\ 0 <= Len(s)
    BY <2>2, UnwrittenIs
  <2>5. Sound(q, Others(o)) /\ q.self.m_size = 0
    BY <1>2, <2>1, <2>3, <2>4, BufferMovesSound
  <2> QED
    BY <2>3, <2>5, CallEmpties DEF Values!Clear
<1> QED
  BY <1>3, <1>4

LEMMA BufferReallocateIs ==
  ASSUME Owned, NEW o \in Living, object[o].kind = "buffer", NEW n \in Nat,
         BufferReallocate(o, n)
  PROVE  Values!Resize(o, Smaller(n, object[o].m_size))
<1>1. PICK r : r = Begun(object[o])
  OBVIOUS
<1>2. /\ o \in Obj /\ Others(o) \in SUBSET Addr /\ Sound(r, Others(o))
      /\ r.self = object[o] /\ r.heap = heap /\ r.self.kind = "buffer"
      /\ object[o].m_size \in Nat
  BY <1>1, LiveBuffer
<1>3. PICK q \in BufferReallocated(r, n) : Ends(o, q)
  BY <1>1 DEF BufferReallocate
<1>4. Sound(q, Others(o)) /\ HasBeenCut(q, r, n)
  BY <1>2, <1>3, BufferReallocatedSound, BufferReallocatedRead
<1>5. CASE q.heap = r.heap /\ q.self = r.self
  <2>1. Values!Becomes(o, ValueOf(o))
    BY <1>2, <1>3, <1>4, <1>5, CallKeeps
  <2> QED
    BY <1>2, <2>1, TheValue DEF Values!Resize
<1>6. CASE ~ (q.heap = r.heap /\ q.self = r.self)
  <2>1. PICK m : m = object[o].m_size
    OBVIOUS
  <2>2. PICK k : k = Smaller(n, m)
    OBVIOUS
  <2>3. m \in Nat /\ k \in Nat /\ k <= n /\ k <= m /\ Smaller(m, n) = k
    BY <1>2, <2>1, <2>2 DEF Smaller
  <2>4. /\ q.self.m_size = k
        /\ \A i \in 1..n :
             Reads(q.heap, q.self.data, i) =
               IF i <= m THEN Reads(heap, object[o].data, i) ELSE Garbage
    BY <1>2, <1>4, <1>6, <2>1, <2>3 DEF HasBeenCut
  <2>5. \A i \in 1..k : i \in 1..n /\ i <= m
    BY <2>3
  <2>6. \A i \in 1..k : Reads(q.heap, q.self.data, i) = Reads(heap, object[o].data, i)
    BY <2>4, <2>5
  <2> QED
    BY <1>3, <1>4, <2>1, <2>2, <2>4, <2>6, CallResizes
<1> QED
  BY <1>5, <1>6

LEMMA BufferResizeIs ==
  ASSUME Owned, NEW o \in Living, object[o].kind = "buffer", NEW n \in Nat,
         BufferResize(o, n)
  PROVE  Values!Resize(o, n)
<1>1. PICK r : r = Begun(object[o])
  OBVIOUS
<1>2. /\ o \in Obj /\ Others(o) \in SUBSET Addr /\ Sound(r, Others(o))
      /\ r.self = object[o] /\ r.heap = heap /\ r.self.kind = "buffer" /\ ~ r.failed
  BY <1>1, LiveBuffer
<1>3. PICK q \in BufferResized(r, n) : Ends(o, q)
  BY <1>1 DEF BufferResize
<1>4. Sound(q, Others(o)) /\ HasResized(q, r, n)
  BY <1>2, <1>3, BufferResizedSound, BufferResizedRead
<1>5. CASE Thrown(q) /\ q.heap = r.heap /\ q.self = r.self
  <2>1. Values!Becomes(o, ValueOf(o))
    BY <1>2, <1>3, <1>4, <1>5, CallKeeps
  <2> QED
    BY <1>2, <2>1, TheValue DEF Values!Resize
<1>6. CASE ~ (Thrown(q) /\ q.heap = r.heap /\ q.self = r.self)
  <2>1. /\ q.self.m_size = n
        /\ \A i \in 1..n :
             \/ Reads(q.heap, q.self.data, i) = Reads(heap, object[o].data, i)
             \/ i > object[o].m_size /\ Reads(q.heap, q.self.data, i) = Garbage
    BY <1>2, <1>4, <1>6 DEF HasResized
  <2> QED
    BY <1>3, <1>4, <2>1, CallResizes
<1> QED
  BY <1>5, <1>6

(* An operand that is not there or empty, bad_alloc, or the bytes of the operand. *)
LEMMA BufferResetIs ==
  ASSUME Owned, NEW o \in Living, object[o].kind = "buffer", NEW src \in Sources,
         BufferResetTo(o, src)
  PROVE  Values!Reset(o, Meant(src), IsPartOf(src, o))
<1>1. PICK r : r = Begun(object[o])
  OBVIOUS
<1>2. /\ o \in Obj /\ Others(o) \in SUBSET Addr /\ Sound(r, Others(o))
      /\ r.self = object[o] /\ r.heap = heap /\ r.self.kind = "buffer" /\ ~ r.failed
  BY <1>1, LiveBuffer
<1>3. PICK q \in BufferReset(r, src) : Ends(o, q)
  BY <1>1 DEF BufferResetTo
<1>4. src \in SafeOperands
  BY OperandsAre
<1>5. Done(q, Others(o)) /\ (Thrown(q) => Sound(q, Others(o)))
  BY <1>2, <1>3, <1>4, BufferResetDone
<1>6. CASE q.fault # "none"
  BY <1>2, <1>3, <1>5, <1>6, EndsIn DEF Values!Reset
<1>7. CASE q.fault = "none"
  <2>1. HasReset(q, r, src, Others(o))
    BY <1>2, <1>3, <1>4, <1>7, BufferResetRead
  <2>2. PICK v : v = [p \in Obj |-> ValueOf(p)][o]
    OBVIOUS
  <2>3. v = ValueOf(o)
    BY <1>2, <2>2
  <2>4. CASE q = r /\ (src.data = NULL \/ src.bytes = <<>>)
    <3>1. Meant(src) = Unwritten(Len(Meant(src)))
      BY <2>4, NothingMeant
    <3>2. Values!Becomes(o, v)
      BY <1>2, <1>3, <2>3, <2>4, CallKeeps
    <3> QED
      BY <2>2, <3>1, <3>2, UnwrittenValues DEF Values!Reset
  <2>5. CASE Thrown(q) /\ q.heap = r.heap /\ q.self = r.self
    <3>1. Values!Becomes(o, v)
      BY <1>2, <1>3, <1>5, <2>3, <2>5, CallKeeps
    <3> QED
      BY <2>2, <2>5, <3>1 DEF Values!Reset, Thrown
  <2>6. ASSUME src.bytes # <<>>, NEW h \in Heaps,
               h = r.heap \/ (r.self.data # NULL => h[r.self.data] = Free),
               \A a \in Others(o) : h[a] = heap[a],
               q.self.m_size = Len(Operand(h, src)),
               \A i \in 1..Len(Operand(h, src)) :
                 Reads(q.heap, q.self.data, i) = Operand(h, src)[i]
        PROVE  Values!Reset(o, Meant(src), IsPartOf(src, o))
    <3>1. PICK x, s, own : x = Operand(h, src) /\ s = Meant(src) /\ own = IsPartOf(src, o)
      OBVIOUS
    <3>2. h = heap \/ (object[o].data # NULL => h[object[o].data] = Free)
      BY <1>2, <2>6
    <3>3. x \in Block /\ Len(x) = Len(src.bytes) /\ x \in Values!Read(s, own)
      BY <2>6, <3>1, <3>2, SourceIsRead
    <3>4. s \in Block /\ Len(s) = Len(src.bytes)
      <4>1. heap \in Heaps
        BY DEF Owned, TypeOK, Heaps
      <4> QED
        BY <1>4, <3>1, <4>1, OperandIs DEF Meant, SafeOperands
    <3>5. s # <<>>
      <4>1. src.bytes \in Block
        BY <1>4 DEF SafeOperands, Operands
      <4>2. Len(src.bytes) # 0
        BY <2>6, <4>1 DEF Block
      <4> QED
        BY <3>4, <4>2
    <3>6. Values!Becomes(o, x) \/ Values!Crash
      BY <1>3, <1>5, <2>6, <3>1, <3>3, CallBecomes
    <3>7. Values!Reset(o, s, own)
      BY <3>3, <3>5, <3>6 DEF Values!Reset
    <3> QED
      BY <3>1, <3>7
  <2> QED
    BY <2>1, <2>4, <2>5, <2>6 DEF HasReset
<1> QED
  BY <1>6, <1>7

(* append and push_back: resized, then given the operand. *)
LEMMA BufferExtends ==
  ASSUME Owned, NEW o \in Living, object[o].kind = "buffer",
         NEW src \in Sources \cup References, NEW m \in Nat, m = object[o].m_size,
         NEW n \in Nat, n = m + Len(src.bytes), NEW q \in BufferResized(Begun(object[o]), n),
         NEW t, t = ThenCopied(q, m, src), Ends(o, t)
  PROVE  Values!Extend(o, Meant(src), IsPartOf(src, o))
<1>1. PICK r : r = Begun(object[o])
  OBVIOUS
<1>2. /\ o \in Obj /\ Others(o) \in SUBSET Addr /\ Sound(r, Others(o))
      /\ r.self = object[o] /\ r.heap = heap /\ r.self.kind = "buffer" /\ ~ r.failed
  BY <1>1, LiveBuffer
<1>3. src \in SafeOperands /\ src \in Operands
  BY OperandsAre DEF SafeOperands
<1>4. Sound(q, Others(o)) /\ q \in Runs /\ q.heap \in Heaps
  BY <1>1, <1>2, BufferResizedSound DEF Sound, Runs
<1>5. Done(t, Others(o))
  <2>1. \/ Thrown(q)
        \/ ~ allocatorThrows
        \/ q.self.data # NULL /\ q.self.kind = "buffer" /\ q.self.m_capacity = n
    BY <1>1, <1>2, BufferResizedSound
  <2>2. \/ Thrown(q)
        \/ ~ allocatorThrows
        \/ q.self.data # NULL /\ m + Len(src.bytes) <= Capacity(q.self)
    BY <2>1 DEF Capacity
  <2> QED
    BY <1>2, <1>3, <1>4, <2>2, ThenCopiedDone
<1>6. HasResized(q, r, n)
  BY <1>1, <1>2, BufferResizedRead
<1>7. CASE Thrown(q)
  <2>1. t = q
    BY <1>7 DEF ThenCopied
  <2>2. q.heap = heap /\ q.self = object[o]
    BY <1>2, <1>6, <1>7 DEF HasResized
  <2> QED
    BY <1>4, <1>7, <2>1, <2>2, CallIsThrown
<1>8. CASE ~ Thrown(q)
  <2>1. PICK x : x = Operand(q.heap, src)
    OBVIOUS
  <2>2. /\ q.self.m_size = n /\ Leaves(q, r)
        /\ \A i \in 1..n :
             \/ Reads(q.heap, q.self.data, i) = Reads(heap, object[o].data, i)
             \/ i > m /\ Reads(q.heap, q.self.data, i) = Garbage
    BY <1>2, <1>6, <1>8 DEF HasResized
  <2>3. /\ x \in Block /\ Len(x) = Len(src.bytes)
        /\ x \in Values!Read(Meant(src), IsPartOf(src, o))
    <3>1. \A a \in Others(o) : q.heap[a] = heap[a]
      BY <1>4 DEF Sound
    <3>2. q.heap = heap \/ (object[o].data # NULL => q.heap[object[o].data] = Free)
      BY <1>2, <2>2 DEF Leaves
    <3> QED
      BY <1>4, <2>1, <3>1, <3>2, SourceIsRead
  <2>4. t.fault = "none" => t = Stored(q, m, x)
    BY <1>4, <1>8, <2>1, CopyIs
  <2>5. t.fault = "none" => HasCopied(t, q, m, x)
    BY <1>2, <1>4, <2>3, <2>4, CopiedBehindRead
  <2>6. n = m + Len(x) /\ \A i \in 1..m : i \in 1..n /\ ~ (i > m)
    <3>1. Len(x) \in Nat
      BY <2>3 DEF Block
    <3> QED
      BY <2>3, <3>1
  <2>7. t.fault = "none" =>
          /\ t.self.m_size = object[o].m_size + Len(x)
          /\ \A i \in 1..object[o].m_size :
               Reads(t.heap, t.self.data, i) = Reads(heap, object[o].data, i)
          /\ \A i \in 1..Len(x) :
               Reads(t.heap, t.self.data, object[o].m_size + i) = x[i]
    BY <2>2, <2>5, <2>6 DEF HasCopied
  <2> QED
    BY <1>5, <2>3, <2>7, CallExtends
<1> QED
  BY <1>7, <1>8

LEMMA CallsOfBuffersAre ==
  ASSUME Owned, fault = "none", NEW o \in Live, IsBuffer(o)
  PROVE  CallsOfBuffersAreOfValues(o)
<1>1. o \in Living /\ object[o].kind = "buffer" /\ object[o].m_size \in Nat
  <2>1. o \in Living /\ object[o].kind = "buffer"
    BY LiveIs DEF IsBuffer, IsA
  <2> QED
    BY <2>1, LiveBuffer
<1>2. ASSUME NEW n \in 0..MaxSize
      PROVE  /\ BufferAllocate(o, n) => Values!Clear(o)
             /\ BufferReallocate(o, n) => Values!Resize(o, Smaller(n, object[o].m_size))
             /\ BufferResize(o, n) => Values!Resize(o, n)
  BY <1>1, BufferAllocateIs, BufferReallocateIs, BufferResizeIs
<1>3. BufferDeallocate(o) => Values!Clear(o)
  BY <1>1, BufferDeallocateIs
<1>4. PICK m \in Nat : m = object[o].m_size
  BY <1>1
<1>5. ASSUME NEW src \in Sources
      PROVE  /\ BufferResetTo(o, src) => Values!Reset(o, Meant(src), IsPartOf(src, o))
             /\ BufferAppend(o, src) => Values!Extend(o, Meant(src), IsPartOf(src, o))
  <2>1. PICK n \in Nat : n = m + Len(src.bytes)
    BY OperandsAre DEF SafeOperands, Operands, Block
  <2>2. ASSUME BufferAppend(o, src)
        PROVE  Values!Extend(o, Meant(src), IsPartOf(src, o))
    <3>1. PICK q \in BufferResized(Begun(object[o]), n) : Ends(o, ThenCopied(q, m, src))
      BY <1>4, <2>1, <2>2 DEF BufferAppend
    <3> QED
      BY <1>1, <1>4, <2>1, <3>1, BufferExtends
  <2> QED
    BY <1>1, <2>2, BufferResetIs
<1>6. ASSUME NEW src \in References, BufferPushBack(o, src)
      PROVE  Values!Extend(o, Meant(src), IsPartOf(src, o))
  <2>1. Len(src.bytes) = 1
    BY OperandsAre
  <2>2. PICK n \in Nat : n = m + 1 /\ n = m + Len(src.bytes)
    BY <2>1
  <2>3. PICK q \in BufferResized(Begun(object[o]), n) : Ends(o, ThenCopied(q, m, src))
    BY <1>4, <1>6, <2>2 DEF BufferPushBack
  <2> QED
    BY <1>1, <1>4, <2>2, <2>3, BufferExtends
<1>7. BufferEmplaceBack(o) => Values!Resize(o, object[o].m_size + 1)
  BY <1>1, BufferResizeIs DEF BufferEmplaceBack
<1> QED
  BY <1>2, <1>3, <1>5, <1>6, <1>7 DEF CallsOfBuffersAreOfValues
-----------------------------------------------------------------------------
(* Every call of a container is the action of ByteValues of that very call, on
   the operand as it was when the call was made: for any number of variables,
   blocks and bytes, with both allocators and whatever allocations fail,
   although blocks move under the containers and an operand is read when its
   block may have been freed. *)
THEOREM ImplementsItsValues == Spec => ImplementsValues
<1>1. Owned /\ Next => CallsAreOfValues
  <2> SUFFICES ASSUME Owned, Next PROVE CallsAreOfValues
    OBVIOUS
  <2>1. fault = "none"
    BY DEF Next
  <2> QED
    BY <2>1, CreationsAre, CallsOfEitherAre, CallsOfArraysAre, CallsOfBuffersAre
    DEF CallsAreOfValues
<1>2. Owned /\ [Next]_objectVars => [CallsAreOfValues]_objectVars
  BY <1>1
<1> QED
  BY <1>2, EveryBlockOwned, PTL DEF Spec, ImplementsValues
=============================================================================
