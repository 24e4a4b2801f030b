# lag-smartcard: models and proofs

This directory models two libraries of the repository in TLA+:

* `src/smartcard`: a thin layer over PC/SC (WinSCard) that lists terminals,
  waits for cards, and opens, resets and closes connections to them;
* `src/base`: buffers, hex conversion, and a tracking memory manager (`mmgr.cpp`).

TLC checks the models on small instances, and the TLA+ proof system proves their
type invariants, safety invariants and action properties for every value of the
constants: any number of readers, cards, callers, containers, addresses or bytes.
The repository has no tests and its README is one
line long, so the code is the only source.  Comments and names in it are quoted
where the code departs from them.

Commands, in this directory: `tlc -workers 2 -config MCCareful.cfg MCSmartCardProvider`
for a run (the others are listed below), `tlapm SmartCardProviderProofs.tla` for proofs;
the other proofs are in ApduExchangeProofs, MemoryManagerProofs, GuardBytesProofs,
ByteHeapArrayProofs, ByteContainersProofs, ByteValuesProofs and CommandApduProofs.

## 1. The system

| component | state | operations | it is correct if |
|---|---|---|---|
| `SmartCardProvider` | its context, the list of terminals | initialize, cleanup, refresh, create_card_connection, destroy_card_connection | it loses no context; every object it makes is freed once; create ends |
| `CardConnection` | pointer `m_impl` to context, terminal, handle, protocol, `is_connected`, ATR | connect, reconnect, disconnect, swap, implicit copy, cleanup, transmit | `is_connected`, ATR and protocol agree with the session the resource manager keeps; no session is closed by, or orphaned through, a connection it does not belong to |
| `transmit` | the command object, the response | one or two exchanges with the card | what it returns belongs to what was sent; nothing is executed twice; the response fits |
| resource manager and cards (external) | contexts, sessions, cards | the `SCard...` calls | - |
| memory manager: units | hash table, unit lists, reservoir, blocks, statistics, owner globals | malloc, calloc, realloc, free, new, delete, setOwner, static deinitialisation | lookup is exact, lists are sound, statistics add up, no block is used after it is freed |
| memory manager: bytes | guards and fill of each allocation | wipe, validate, calcUnused | it damages no byte of the caller, marks what is fresh, and counts what is unused |
| memory manager: log, report, flags | text files, option flags | formatting | (not modelled) |
| `ByteHeapArray`, `ByteBuffer` | pointer to an owned block, size, capacity | construct, copy, move, assign, append, push_back, resize, reserve, reset | each block has one owner; a container changes no other's value, and its own as asked; size at most capacity |
| `Allocator` | none | allocate, deallocate | (part of the containers) |
| `CommandAPDU` | that of its base `ByteHeapArray` | constructors, destructor | what is made is what was asked for, or can be told from it; freed once |
| hex | none | byte_array_of, hex_string_of | ends; the two are inverse |
| `Atr`, `ByteArray`, `MemoryView`, `Memory`, `MemoryHandle`, assert | fixed arrays or nothing | index arithmetic | (not modelled, an ATR is one value of the connection model) |
| `heap_buffer.hpp`, Lua interface | - | - | the files are empty |

Interactions.  The provider makes connections and hands them to the client by
value; from then on the two share only the context value, which each connection
copied when it was made.  A connection is a pointer that the implicit copy
operations duplicate and that no destructor frees.  The resource manager keeps
sessions by handle value and uses a value again once it is closed.  Cards come
and go, other applications share and reset them, and the service can be
stopped.  The memory manager is reached through `Allocator` and the macros
TSG_ALLOC and TSG_FREE, which call mmgr_allocator and mmgr_deallocator, and
through the global operators new and delete.  mmgr_setOwner, a public function
that nothing in the repository calls, leaves the owner of the next `new` in three
globals; a new handler that `new` calls may call the manager again; and the
destructor of a static object starts the leak reports.  A build without
`TSG_USE_MEMORY_MANAGER` has operator new[] instead, which throws where the
manager answers NULL; the containers behave differently in the two builds.
Commands are ByteHeapArrays, filled by `hex` when they are made from a string.

What is hard.  connect and reconnect make two requests and the world moves in
between; create_card_connection waits up to two seconds per terminal;
`is_connected` is asked by some callers and not by others; a handle value
outlives its session in the object that held it; the second exchange of
transmit may be preceded by another caller's command; a failed exchange has an
empty response whose status word is read all the same; the bucket lists of the
memory manager leave stale `prev` links; a failed request loses a unit; the
leak report frees the blocks of units in the middle of deinitialisation; and
pattern arithmetic mixes 4 with `sizeof(long)`.  The containers free their old
block before they read operands that may lie in it, go on after an allocation
that failed, and are left half way by one that throws; and the loop that parses
a string counts with eight bits.  PROJECT.json lists these at
their lines, with the properties that cover each.

## 2. The modules

```
PCSC  <-  CardConnection  <-  SmartCardProvider  <-  SmartCardProviderProofs
                                                 <-  MCSmartCardProvider
ApduExchange   <-  MCApduExchange,  ApduExchangeProofs
AllocationTable  <= (implemented by)  MemoryManager  <-  MCMemoryManager,  MemoryManagerProofs
GuardBytes     <-  MCGuardBytes,  GuardBytesProofs
ByteObjects    <-  ByteHeapArray, ByteBuffer
ByteHeapArray, ByteBuffer  <-  ByteContainers  <-  MCByteContainers
ByteValues  <= (implemented by)  ByteContainers
ByteHeapArray, Hex  <-  CommandApdu  <-  MCCommandApdu
ByteHeapArray  <-  ByteHeapArrayProofs
ByteContainers, ByteHeapArrayProofs  <-  ByteContainersProofs  <-  ByteValuesProofs
CommandApdu, ByteHeapArrayProofs     <-  CommandApduProofs
```

`A <- B` reads: B extends A.

### PCSC (external)

The resource manager as the library uses it: `contexts`, the `card` in each
reader, and for each handle a `session` (context, reader, card, protocol) or
`Closed`.  One operator per WinSCard call *in the case in which it succeeds*,
since a failing call changes nothing here; what the caller then does is in the
caller's module.  Environment: a card is inserted or removed, another
application resets a card (every session on it is detached until
`SCardReconnect`), the service stops (every context and handle dies).

### CardConnection and SmartCardProvider

| code | model |
|---|---|
| `CardConnection::m_impl` | `m_impl[c]`, an address or `Null` |
| `CardConnectionImpl` at an address | `impl[i]`, `Null` when it is not allocated |
| `active_protocol`, a local of connect and reconnect | `active[c]`, `NoCall` between calls |
| `ProviderImpl` | `provider` |
| the loop of create_card_connection | `polling`: whose result it will be, which terminals are left |

`connect` is `Connect` (SCardConnect, handle, `is_connected`) followed by
`FinishCall` (ATR and protocol); `reconnect` is `Reconnect` and `FinishCall`.
create_card_connection is `CreateCardConnection`, one step of `Poll` per
terminal, and either `PollReturns` or `PollEnds`.  All other operations are one
step: they make at most one call to the resource manager, and what they do
around it touches only their own object.  A call that returns before it has
assigned anything is a stuttering step and has no action.

What can go wrong with the request for the ATR is in `AtrOutcomes`: the old
ATR stays if it fails or times out, and, because `reader_state` is not
initialised (card_connection_winscard.cpp:42), it can also be garbage.
`StatusReliable = TRUE` is the environment in which it always answers.

The client is a parameter.  `Careful = TRUE` asks `is_connected` before it
disconnects or reconnects (as destroy_card_connection does), makes no copies,
releases the context after its connections and initialises once per cleanup.
`Careful = FALSE` calls anything that can be called, copies connections, and
cleans them up behind the provider's back; the only things it does not do are
use freed objects and enter one object from two threads.

### ApduExchange

`Transmit` is transmit up to the choice of the second command, `Retry` and
`FetchRest` are the second exchange.  A CommandAPDU is its bytes but the last, and
the last: an Le, a byte of the header or the data (`"own"`), or what the retry
makes of such a byte (`"overwritten"`).  What the card executes is a `Request`: the
caller, the bytes, and whether that is the command that was `asked` for, since one
whose last byte was overwritten is another command, which nobody issued.  A
response is its length, its status word, and the request whose data it carries.

The card wants an Le of each command (`right`), which a command it executes may
change, and keeps bytes with the Le to fetch them (`waiting`).  It executes a
command, refuses it with 6Cxx for a wrong or missing Le, keeps data for GET
RESPONSE, or is not reached; GET RESPONSE it answers, wholly or in part, or refuses
with 6Cxx likewise.  Any answer may be lost.  A wrong Le may so come about after
transmit has learned the right one, by another caller's command or GET RESPONSE in
between; `met` and `fetched` are the history of just that, and only the properties
read them.

The response of a failed exchange is empty, and `get_sw1` reads two bytes in front
of it; a response longer than 256 bytes has its status word behind the array.  In
both cases it is not `Readable` and reads as any value.

### MemoryManager, AllocationTable

Every entry point of the manager is one step, because the manager has no lock
and no callback but the new handler.  `OperatorNew` therefore has two steps when
the heap is exhausted: `pending` is the request (owner and size, which the code
keeps in locals) while the new handler runs and may call anything.  Units are
pairs (block, position).  `Allocator`, `Reallocator` and `Deallocator` are the
three functions `mmgr_...`, `TakeUnit` and `Linked` the growth of the reservoir,
`TableWithout`, `NextWithout`, `PrevWithout` and `LinkFirst` the list surgery
with the stale `prev` the code leaves; `LeakReport` is dumpLeakReport.  What the
log and the asserts do is left out: m_assert is empty in a release build.

`AllocationTable` is what callers are promised: a function from addresses to
sizes.  It is implemented through `findAllocUnit`: the table of an address is the
size in the unit that the lookup finds.  A unit that is lost by the lists, or found
under an address that was not freed, is a step the abstract table cannot make.

`UnitsLostOnlyByFailure` says where a unit of a block may get lost, and names the
two ways: `LostByFailure`, the one unit that a failing request has taken, and
`LostByReport`, the units of a block that the failed realloc of `reservoirBuffer`
left without a record, when the leak report empties the reservoir.  Units of a new
block have to get into the reservoir too, all but the one that is used.

### GuardBytes

The bytes of one allocation from `actualAddress` on: guard, contents, guard.
`Wiped` is wipeWithPattern, `mmgr_validateAllocUnit` and `mmgr_calcUnused` are
the functions of that name.  `LongSize` is `sizeof(long)`.  `Init` chooses the
build (`debug`: does m_assert do anything?) and the options `alwaysWipeAll` and
`randomWipe`; a STRESS_TEST build has both on, others the first only.  `Overrun` is
the caller writing the byte in front of or behind its allocation, `Stop` the
m_assert at the start of a reallocation or deallocation that finds the damage.
A release build does not even evaluate the condition: the guards are written
anew, or freed, and the damage is gone.  alwaysValidateAll does not help there:
mmgr.cpp:605 says it validates "each time we enter this software", but the
calls are at the end of the functions, after the guards were written.

### ByteObjects, ByteHeapArray, ByteBuffer, ByteContainers, ByteValues

ByteObjects has what the two containers share: `heap`, the blocks with their
bytes; `object`, the container in each variable of the client (its pointer, size
and capacity); `fault`, how the program crashed; and `allocatorThrows`, the build.
An operation of a container is computed as a record (`Begun`, `Released`, `Moves`,
`Stored`: the heap, the container, whether an allocation failed, whether it
crashed), step by step in the order of the code, and `Ends` makes it the next
state.  A failed allocation is one outcome of `ArrayMoves` and `BufferMoves`;
`Thrown` says that it has left the operation, otherwise the operation goes on, as
the code does.  One action is one call, because a container is used by one
thread and nothing calls back.

Operands are references: `Given` bytes of the client, or a pointer into a block
that is read when the code reads it.  So `append` of an array to itself reads
freed memory.  Undefined behaviour is what a build does: reading freed memory, or
behind a block, yields `Garbage`, which equals no byte that was written; writing
through a null pointer or outside the block is a crash, after which nothing
happens.  (A write outside a block may of course also damage something else; no
claim is made about the time after it.)  The asserts of the containers are those
of a release build.

ByteContainers is the client: containers of both kinds in a few variables, every
public operation, operands from itself, from the other container and from the
client.  ByteValues is the abstract specification: each variable has a *value*, a sequence
of bytes, there are no blocks, and there is one action per call, with what the call
was given as its parameters: `Extend(o, s, own)` is append of the bytes `s`, `Assign(o,
p)` copy assignment, and so on.  `ImplementsValues` is a refinement call by call: a
step that is append of an operand in ByteContainers is `Extend` in ByteValues of
what that operand was when the call was made (`Meant`), and no other action will do.
Each action names its failures.  A call that is left by bad_alloc changes nothing
(an assignment empties), and where nothing is thrown `PushBack` of an array is the one
call that loses a byte, as it overwrites the last one for want of memory.  An operand
that is part of the container it is given to may turn into garbage (`Read`).  The
refinement maps a container to the bytes its elements read as, and to those
it keeps behind the last one (a ByteBuffer whose `allocate` kept its block shows
them again after `resize`).

### Hex, CommandApdu

Hex has the tables and the conversion of hex.hpp; `Continues`, `ByteAt` and
`NextPos` are condition, body and counter of the loop in byte_array_of.
CommandApdu runs the constructors of CommandAPDU: `todo` is the calls that are
left, each of which is a step and may fail, an iteration of the loop likewise.
A throw replaces what is left by the destruction, which cleans up twice, since
~CommandAPDU calls the destructor of its base explicitly.  `intended` is what the
client asked for, and `GetResponse` the command that transmit makes itself.

## 3. The runs

| run | question and answer | bounds |
|---|---|---|
| careful_client | Does a client that keeps to the discipline ever see objects, contexts, handles, ATR or protocol come apart?  No.  `CarefulInv` is the invariant of the proofs, checked here too. | 2 readers, 2 cards, 1 context, 2 handles, 2 connections, 2 objects |
| careless_client | What is left for a client without discipline, while the service may stop?  A connection whose handle died stays connected (`StaleStaysConnected`), and a session is lost under a connection only by the service, the context, or another holder of the same handle value. | 1 reader, 1 card, 1 context, 2 handles, 2 connections, 2 objects |
| calls_return | Does every connect, reconnect and create_card_connection end?  Yes, also when the service stops and requests go unanswered. | 2 readers, 1 card, 1 handle, 2 connections, 1 object |
| apdu_exchange | What can the second exchange of transmit return or repeat?  Data of the command its caller asked for, or of the other one that the overwritten object then shows, and over GET RESPONSE those of *another* caller in between; a refusal only for a command without an Le, after a status word that was not in the array, or when another caller came in between; a double execution only after a failed exchange that reads as 6Cxx. | 2 callers, 2 commands, 2 values of Le, responses of 256 bytes |
| long_response | Does every response fit into `ResponseAPDU`?  **No** (finding 1). | 1 caller, 1 command, 1 value of Le, responses of 2 and 258 bytes |
| memory_manager | Do table, reservoir, blocks and leak report stay consistent, and which units get lost?  The unit of a failing request, and those of a block without a record. | 3 addresses, 2 of them in one bucket, 2 blocks of 2 units |
| allocation_table | Does the manager implement the abstract table, and do the byte sums agree with the units when they wrap? | 3 addresses in one bucket, a block of 3 units, sizes 1 and 2, sums modulo 3 |
| guard_bytes | Are guards and fill right through growth, shrinking and writes?  Is damage found before it is overwritten?  In a debug build, yes. | sizes 0, 1, 5, 9; guards of 4 longs of 4 bytes; one byte beside the allocation |
| byte_containers | Do containers own their blocks, and does each call do to the values what ByteValues says of that call, whatever it is given and whatever fails?  Yes; without crashes only if allocation throws, and without losing a byte to push_back likewise. | 2 variables, 3 blocks, sizes up to 2, 2 byte values |
| command_apdu | Which commands come out of the constructors when allocations fail, and do they come out?  The intended one or a shorter one; the intended one if allocation throws; for strings shorter than 256 characters. | 1 command, data of 0, 1, 255 and 256 bytes, strings of 0 to 3, 255 and 256 characters, all digits |
| long_of_8_bytes | Does the fill stay inside its block with 8-byte longs?  **No** (finding 2). | size 40 |
| unused_bytes | Is unused memory counted as unused?  **No** (finding 3). | sizes 0, 1, 5, 9 |

Why the bounds are enough.  Two connections, two objects and two handles are what it
takes for a handle value to be reused while an old copy of it exists; two readers
and two cards for a card to move between terminals during a poll and for a
connection to find another card than its session had; one context, because the
properties about contexts relate one context to one provider, and establishing a
second one while the first is alive is excluded for the careful client (with the
careless one, a context that is released and established again has the same value,
the harder case).  Three units in one bucket give a chain a head, a middle and an
end, and blocks of two units make three allocations outgrow a block.  The sizes of
GuardBytes put the start of the fill before, at and behind a multiple of four and
leave every kind of tail.  Two variables let a container be copied, moved and
assigned between two and to itself, and a third block is there to move to while both
own one; with sizes up to 2 a container of one byte can append itself or another,
grow, be cut, and lose its last byte to push_back, and one of two has a byte that
stays when the other is written or cut.  Two callers let one come in between the two
exchanges of the other, two values of Le make one of them wrong, and two commands
tell a caller's own from another of its own.  The lengths of CommandApdu are those
around the limits of its two counters of eight bits; bytes are converted digit by
digit, so that each digit in each place is enough.  The byte sums of
allocation_table are modulo 3: two allocations make them wrap, a growth by 1 is
counted as such, and shrinking by 1 is 2, which as a signed number is negative and
adds nothing.

Bounds in the models: `Listings` contains no reader twice; only one operator new
waits for its new handler at a time; transmit sends at most two commands, as the
code does; `StatMod` stands for 2^32; `BlockSize` for 256; the peaks and the
unit count are not reduced, as they are bounded by the units.

Fairness.  `calls_return` has `WF(Poll)` and `WF(Complete(c))`: a step of a call
that has begun is taken sometime, because SCardGetStatusChange gets a timeout of
2000 ms and the library waits for nothing else.  `command_apdu` has `WF(Program)`:
a constructor computes and waits for nothing.  Clients, cards and the service owe
nobody a step.

`CHECK_DEADLOCK` is left on where a client can always make another call.  It is
off in guard_bytes, byte_containers and command_apdu, where the program stops
after a failed assertion or a crash.

Mutants.  Next to a definition some modules have operators called
`Definition_WhatIsWrong`, with the comment "Mutant".  They are not part of any
specification; each is a plausible bug in the code the definition stands for.
PROJECT.json says which property notices which; put in place of the definition, the
mutant makes TLC find that property violated.

### Findings

1. `response_apdu.hpp:17` sets the maximum length of a response to 256, but a short
   response has up to 256 bytes of data *and* two of status word.  The constructor
   copies all of them over the end of `m_data`, and get_sw1 and get_sw2 read
   behind the array.
2. `mmgr.cpp:409` says "a long is guaranteed to be 4 bytes".  Where it has eight, the
   fill of an allocation writes twice as far as it should, and for 36 bytes or more
   (with the default guards) past the end of the block.
3. `mmgr.cpp:1627` offers mmgr_calcUnused to determine how much memory is unused, but
   after a reallocation the pattern starts at the old size, and unless that is a
   multiple of four nothing behind it is counted.

## 4. The proofs

A theorem holds for every value of the constants that satisfies the named
assumptions of its modules: finite sets where the code has arrays or counters,
markers that differ from values, and what is said below.  PROJECT.json lists the
theorems with the properties they state.  A proof about an invariant has one
lemma per action, or per function that the actions share, and under it one
step per conjunct that it can disturb.

### SmartCardProviderProofs

* `TypeCorrect`: `Spec => []TypeOK`, for any client and service;
* `CarefulCorrect`: `Careful /\ ~ServiceMayStop => (Spec => []CarefulInv)`;
* `OwnershipCorrect`, `HandleCorrect`, `NoSharedHandle`, `AtrCorrect`,
  `ProtocolCorrect`, `ContextCorrect`: the conjuncts of `CarefulInv` that a client
  relies on, as theorems of their own;
* `OrphanedByDestroyOnly`, `StaleStays`, `SessionsLostByHolders`: what a step may
  never do, for any client and service;
* `CallsComeNearer`: the steps behind `CallsReturn`.  Nobody else disturbs a call
  that is between its two requests, or the loop of create_card_connection, whose own
  steps end it or leave fewer terminals.

None of the invariants is inductive alone:

* `AtrMatchesCard` speaks of quiet connections only, so the end of a call has to
  establish it.  `FinishCall` reads the card that is in the *reader*, and
  `AttachedToCard` says that an attached session is attached to just that card,
  however many cards were swapped since `SCardConnect`;
* `ProtocolMatchesSession` is established by `FinishCall` from the local
  `active_protocol`; `CallsInProgress` says that this is still what the session
  negotiated, although another connection may have reset the card;
* a step on one connection must not disturb the session of another one, which is
  `HandlesNotShared`; that in turn holds because SCardConnect returns a handle
  value that is closed while a connected object's handle is open
  (`ConnectedHandleIsOpen`), whatever stale values unconnected objects hold;
* `ContextsAccounted` makes the release of the context harmless: there are no
  objects then (`ConnectionsOwnImpls`, and the discipline);
* `CallsHaveObjects` keeps the object of a call in progress from being freed.

`Careful` and `~ServiceMayStop` are needed: careless_client shows states in
which `ConnectedHandleIsOpen` fails without either.  The three action properties
need only the types and `CallsHaveObjects`.  `ConnectedStep` says which steps
change what a connection holds, `ClosedBy` which steps close a session and
through whose handle; each theorem reads its answer off these two.

### ApduExchangeProofs

`TypeCorrect`, `OwnAnswer` (whose data transmit returns) and `RepairsLe` (whom it
tells a wrong Le), for any callers, commands, values of Le and lengths; and for cards
whose responses fit the buffer (`ShortResponses`), `ExecutesTwiceOnlyAfterEmpty`.  A
response that is longer has its status word behind the array (finding 1), so that
transmit may take the data of a command that was executed for a refusal, and repeat it.

The properties speak of steps in which a call returns (`Returns`).  Invariant is what
transmit knows between its two exchanges, while the other callers go on:

* it holds the first command and the response to it (`SecondHasFirst`);
* the bytes a GET RESPONSE is about to fetch are those of its own request or of the
  last one of another caller since (`FetchesOwn`), unless the first exchange failed;
* the retry has the Le that the card wants, or none (`RetryHasLe`), and GET RESPONSE
  has the Le for what waits (`FetchHasLe`), unless another caller executed a command,
  or fetched, in between, or the status word was not readable (`Disturbed`);
* a retry is of a command that was not executed, or follows an exchange whose answer
  was lost (`RetryOfUnexecuted`).

`ExchangeLeaves`, `OthersSee` and `FirstExchange` say once what an exchange of one caller
leaves for another one that is between its own; each invariant is read off them.

### MemoryManagerProofs

For any addresses, hash function, block size and sizes: `TypeCorrect`,
`LookupIsExact`, `EveryWalkEnds`, `EveryUnitCountsOnce`, `NoUnitDangles`,
`RetryBearsItsOwner`, `UnitsAreNotLost`, `StatisticsAreExact`, and `ImplementsItsTable`:
the manager implements AllocationTable.

The first difficulty is what can be reached over `next`.  Facts about a unit and
its neighbours are not enough, as a cycle beside a chain satisfies them all.
`Reach` is therefore taken as the least closed set (`ReachIs`), and no proof counts
along a chain.  To show that a unit is not reached, one
exhibits a closed set without it; to show that it is, one takes any closed set.
The invariant says:

* the head of a bucket, and the next of each tracked unit, are tracked and hash
  to that bucket; each tracked unit is reached from its bucket (`TableOK`);
* the next unit points back with `prev`, and a unit that is not the head is the next
  one of its `prev`; nothing is said of the `prev` of a head, which the code leaves
  stale and does not follow when it takes a head out of its bucket;
* the units of the reservoir track nothing, lie in blocks, and no unit comes
  twice (`ReservoirOK`), so the one that is taken is not also left;
* the heap has just the addresses that are tracked, each by one unit
  (`HeapTracked`), tracked units lie in blocks (`BlocksInUse`), and
  `totalAllocUnitCount` is their number (`UnitsCounted`), which is what lets the leak
  report free the blocks only when nothing is left.

`AllocatorDoes`, `AllocatorFailsDoes`, `ReallocatorDoes`, `DeallocatorDoes` and
`LeakReportDoes` say that the functions keep this, which units they may lose
(`UnitsKept`) and what becomes of the tracked ones; the refinement and the action
properties follow from what they say, without another look at links.  For a new block
`TakenUnit` shows that the reservoir has all its units but the one that is taken: the
least position that were not reached would have a predecessor that is.

The second is `StatsExact`, which speaks of a sum over the tracked units.  The sum
is the community modules' `SumFunctionOnSet`, a function defined by recursion over
the subsets of a set that picks its next element with CHOOSE.  The library's
induction theorems take an operator as a parameter, which no installed prover
can instantiate; its theorem that a set of numbers has a least member takes a
set.  So each lemma is proved from the smallest counterexample (`Smallest`: a set
of units of which no set with one unit less is another): the recursion has a
solution (`SumsExist`) and only one (`SumsAgree`), so it can be unfolded (`SumUnfolds`);
and the sum does not depend on which unit is picked (`SumWithout`).  That the
counters wrap is `RemainderOfSum` and `RemainderOfProduct`, for a modulus that is
any number.  `AllocationCounted`, `ReallocationCounted` and `DeallocationCounted` put
the two together: statistics that were those of some bytes and units
(`Exact`) are, after the call, those of the bytes and units it left.

### GuardBytesProofs

For guards of any length, any sizes, any options and longs of 4 or 8 bytes:
`TypeCorrect`, `GuardsStayIntact`, `FillLeavesNothingOut`, `DamageIsCaught`,
`ContentsSurvive`.  With longs of four bytes: `FillStaysInsideOn32Bits` and
`UnusedIsNotOverstated`; with eight, finding 2 is what happens instead.

`FillCovers` is the arithmetic: the longs that wipeWithPattern writes and the bytes
that it adds cover the new part of an allocation to its last byte, wherever it
starts.  With eight-byte longs the fill runs over the guard behind it, which
holds nonetheless because mmgr writes the guards after the fill (`WipedIs`).
The invariant adds to the three properties what is behind the allocation when
the caller has written there (`GuardBehind`): validation looks at those bytes.

### ByteHeapArrayProofs, ByteContainersProofs

For any number of containers, blocks and bytes: `TypeCorrect`, `BlocksAreOwned` and
`ThrowingStaysSafe`.  ByteHeapArrayProofs has no theorem of its own but the
lemmas for both clients of the class.

An operation goes through records (heap, container, failed, fault).  `Sound` says
of such a record that its container owns its block, that the others own theirs,
and that no block is lost; `Done` adds that it did not crash if allocation throws.
One lemma per function says that it leads from a sound record to a sound one,
whatever was asked for, and how the container's size and block came out.  The
invariant `Owned` is the same of the states between calls: every block in use is
that of one container and has its capacity.  A failed allocation is sound because
the code has by then set the pointer to NULL, or has not touched it.

### ByteValuesProofs

`ImplementsItsValues`: ByteContainers implements ByteValues, for any number of
variables, blocks and bytes, with both allocators and whatever allocations fail.

`Reads` is what one byte of a container reads as, and everything is said with it.
Two lists of lemmas meet in the middle:

* what each function of a container does to the bytes that can be read
  (`ArrayReallocatedRead`, `BufferResizedRead`, `ArrayAppendedRead`, `StoredRead` and
  so on), given only that it started from a `Sound` record;
* how a call must end to be an action of ByteValues: `CallBecomes`, `CallResizes`,
  `CallExtends`, `CallWrites`, `CallSwaps`, `CallMoves`, and `Creates` for constructors.

A lemma per call, such as `ArrayPushBackIs` or `BufferResetIs`, then puts them together,
and `CreationsAre`, `CallsOfEitherAre`, `CallsOfArraysAre` and `CallsOfBuffersAre` the calls.

`SourceRead` is what the property is about: when a call reads its operand, the
blocks of the other containers are as they were, and its own is as it was or freed;
so it gets what the operand was when the call was made, or, of an operand that is part
of its own container, as many bytes that are garbage.  `OthersStay` is the other half: a
call changes no other value, because `Owned` says that no block is shared.

That a value differs from `Dead`, the mark of a variable without a container, is
assumed in ByteObjects.

### CommandApduProofs

For any header, data, Le and string, and any failures of the allocator: `TypeCorrect`,
`LengthIsTelling`, `ThrowingMakesExact`, `BlockFreedOnce`, `ConstructionAdvances`,
`LongNeverParsed`; and `StringMeansBytes`, of hex_string_of and byte_array_of.

The invariant follows the program: there is no command (`Nothing`), it is being
destroyed (`Dying`), or the constructor is at one of five points (`AtCount`,
`AtHeader`, `AtResize`, `AtParse`, `AtTail`) with some calls `t` left.  At each of
them, `Leads`: what the array holds, followed by what the calls that are left will
append, is what is intended; or `TooShort`: since a push_back that was answered NULL,
they are too short, and no later call makes up for it.  The second
case is excluded when allocation throws, which gives `ThrowingMakesExact`.  That a
string of digits means the bytes it was written from, in either case, is
`StringMeansBytes`: byte by byte, so that no induction is needed.  Data of more bytes
than an Lc can tell is excluded (`Overlong`), as in the property.

The last two theorems say where the counter of byte_array_of ends.  For a string of
less than 256 characters every step of the program leaves less to do (`Remaining`, a
natural number: the calls that are left, each weighing more than the counter can gain,
minus the counter), also when an allocation fails and the object is destroyed instead.
That is the argument for `ConstructionEnds`; what TLC adds is that a step is always
possible, which is about ENABLED, and fairness.  For a string of 256 characters or more
every step of the loop leads back to it, whatever the length: the size that resize gave
is 128 or more, and the counter, starting again at 0, never gets to twice of it.  (A
resize that was answered NULL leaves the size 0, and the loop is not entered.)

### What is only model-checked

* Liveness (`CallsReturn`, `ConstructionEnds`): out of the prover's reach, except for
  what decreases with the steps, `CallsComeNearer` and `ConstructionAdvances`.
  Every other property of a run that passes is stated by a theorem.
* The three violation runs, whose counterexamples are the result.

## 5. What is not modelled

* Log, memory report, option setters, breakpoint flags: text and flags that no
  other state depends on.  Allocation numbers and function names likewise.  The
  asserts of the containers, and those of mmgr.cpp except the validation of a
  unit: release builds.
* Options that change while memory is allocated; a caller that writes further
  beside its allocation than one byte.  alwaysValidateAll at the end of a call
  only finds damage in *other* allocations, earlier than their own validation
  would; DamageCaught does not depend on it.
* Two branches of the smart card library: the NULL answer of TSG_ALLOC in the
  constructor of SmartCardProvider, which the code does not look at (it constructs
  at NULL, and the program does not go on), and CardConnection::initialize of a
  connection that has an object already (lines 146-148), which no client can
  reach, because only the provider makes a CardConnectCI, for a new connection.
* In transmit, the allocation of the GET RESPONSE command that fails: its bytes
  are in CommandApdu, and the exchange in ApduExchange, but not both at once.
* The bytes of an ATR, and of commands and responses during an exchange.
* `set_range` outside its array: nothing calls it, its comment announces a check
  that is not there, and the client of the model keeps the range inside.
* `impl_swap`, `size_increase`, `_memory_alloc` and `_memory_dealloc`, which nobody
  calls.
* `MemoryView`, `ByteArray`, `Memory`, `MemoryHandle`, `to_hex_string`: stateless or
  fixed arrays, each operation one index computation.  `ByteArray::swap` and
  `MemoryView::empty` do not compile when they are used.

## 6. Plan

In this order; the parts marked done are in this directory.

1. (done) PCSC, CardConnection, SmartCardProvider: careful and careless client, liveness.
2. (done) SmartCardProviderProofs: type invariant and the inductive invariant.
3. (done) ApduExchange; MemoryManager with AllocationTable; GuardBytes.
4. (done) ByteHeapArray and ByteBuffer over a heap of blocks, with the abstract
   specification ByteValues.
5. (done) Hex and CommandApdu.
6. (done) GuardBytes with its options and a caller that writes over a guard.
7. (done) Proofs of ApduExchange, MemoryManager with the refinement of
   AllocationTable, GuardBytes, the containers, CommandApdu, and of the action
   properties of SmartCardProvider.
8. (done) The refinement of ByteValues by ByteContainers.
9. (done) The byte statistics, by the smallest set of units that would contradict
   them.
10. The proofs once more, for readers: shorter leaves, and facts that two components
    need in one place.
