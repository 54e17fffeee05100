# A verification development for C-Computer-Networking

TLA+ models, TLC runs and TLAPS proofs for the networking programs in this
repository.  Paths are relative to the repository root; line numbers refer to
the commit this directory was written against.

## 1. The system

The repository holds independent programs; what they share is the style (C,
sockets, one process with a `select`/`recv` loop each).

| component | code | state | operations | talks to |
|---|---|---|---|---|
| send buffer | `GoBackN/src.task/DataBuffer.c` | ring of packet pointers: `minSeqNo`, `firstIndex`, `freeIndex`, `count`, `data[]` | allocate, put, get, free up to, reset timers | called by the file sender |
| file sender | `GoBackN/src.task/GoBackNSender.c` | the buffer, `lastAckSeqNo`, `nextSendSeqNo`, `timerExpiration`, a timeout in each packet | read the file; select; acknowledgement; timeout; send loop | receiver, through the simulator |
| file receiver | `GoBackN/src.task/GoBackNReceiver.c` | `lastReceivedSeqNo`, the output file | receive: discard, or count, acknowledge and then write | sender, through the simulator |
| simulator | `GoBackN/protsim/` (OMNeT++) | future events; per node a stack, a forwarding table, interface queues with statistics; its own go-back-N pair and ping | queue, drop, damage, route, forward, TTL, statistics in batches, costs changed from a shell, connect external programs | both programs over TCP |
| Chord ring | `Hash Table/server.c`, and an earlier copy in `Simple Hash Table Client Server/` | per server: `self`, `prev`, `next`, joined or not; the keys it stores | join, notify, stabilize, GET/SET/DELETE, forward a request | other servers and clients over UDP |
| hash table | `Distributed Hash Table/hash_table.c` (the same file in `Hash Table/` and the film database) | linked lists of elements, `size`, `n_elems` | get, set (with resize), delete | its server |
| TCP key-value server | `Distributed Hash Table/server.c` | the table, one connection at a time | GET, SET, DELETE | client |
| film clients | `Movie Parser/client.c`, `src/client_malte.c`, `filmParser.c` | request in flight, retry counter | set/get/delete with retries and a timeout | the TCP key-value server |
| film database | `Onion Movie Hash Table Databse/` (`block5.c`, `database.c`, `film.c`) | array of films by number, hash table title -> number, `cur_films` | REST: list, add, get, update, delete, reset | HTTP clients, a thread pool without locks |
| NTP client | `NTP Time Server/client.c` | samples of each server | query, offset and delay, choose a server | NTP servers over UDP |
| small clients and servers | `TCP_IP_and_Drgramms/ex4.c`..`ex7.c` | one connection | quote of the day, HTTP download | the network |

Not part of the program itself: Tcl/Tk and OMNeT++ libraries (`GoBackN/lib`),
the onion HTTP library and cJSON (`Onion .../include`, `lib`, `cJSON.c`),
generated code (`*_m.cc`, `*_n.cc`), `block_7` (exercise documents).

What is hard in them:

* **GoBackN**: two programs, a lossy network and a clock interleave; the sender
  computes `writefds` first and uses it after acknowledgements and timeouts have
  changed everything it depends on; late acknowledgements race timeouts; the ring
  wraps around; the receiver acknowledges a packet before it writes it, and is silent
  about old ones.
* **Chord**: servers join while others stabilize; messages get lost (UDP); a
  join changes who owns a key while requests are under way; a blocked forwarder; every
  client uses the same transaction id.
* **film database**: requests run in several threads on the same list and table
  without a lock.
* **TCP server and film client**: an attempt that was given up waits in the listen
  queue and is served later; the server reads without a timeout; any program may
  connect and send half a request; the server is killed and starts empty.
* **simulator**: messages of the same time are ordered by priority and age; queue
  limits, time to live, routing tables rebuilt while packets travel; two timers of
  the sender that are cancelled and scheduled again; asserts in the statistics.

What makes each part correct:

* **send buffer**: a FIFO queue, whatever the indices do; no `assert` fires.
* **file transfer**: the output is always the beginning of the file; a packet is
  released only after the receiver has acknowledged it; the sender ends only when the
  whole file is written, so that nothing but `fclose` is left to do; it does not wait
  for ever.
* **Chord ring**: in a quiet ring the successor of each server is the next id and
  the predecessor its inverse; a successor is replaced only by a closer one, and never
  by the server itself unless a message was repeated.
* **key store**: the servers together are one map; a client gets the answer to its
  own request - both as long as no two clients with the same transaction id wait at the
  same time.
* **hash table**: every key is found where its hash puts it, once, also after the
  table has grown.
* **film database**: the array and the title table describe the same films; nothing
  freed is used; a request takes effect once, between its arrival and its answer.
* **TCP server and film client**: a late attempt never undoes what a later answer
  reported; every client comes to the end of its list.
* **simulator**: a queue always goes on, and its statistics are the integrals they
  stand for; a stack that forwards uses a shortest path for the current costs; no ping
  is lost inside a stack; the sender's timers cover every packet of the window.

Where each of them can go wrong is listed, line by line, under "hazards" in
`PROJECT.json`.

## 2. Modules

| module | models | kind |
|---|---|---|
| `DataBuffer` | `DataBuffer.c`: each function as an operator from buffer to buffer, its `assert()`s as a predicate | operators |
| `DataBufferUse` | the buffer under every sequence of calls that respects the asserts | state machine |
| `PacketQueue` | a bounded FIFO queue | abstract specification of `DataBufferUse` |
| `GoBackN` | sender, receiver, clock and network of the file transfer | state machine, extends `DataBuffer` |
| `FileCopy` | a file is copied chunk by chunk | abstract specification of `GoBackN` |
| `ChordRing` | join, notify and stabilize of `Hash Table/server.c` | state machine |
| `ChordStore` | the requests of clients and how servers forward them | state machine, extends `ChordRing` |
| `KeyValue` | one map, each request applied once | abstract specification of `ChordStore` |
| `HashTable` | `hash_table.c`: each function as an operator from table to table | operators |
| `FilmDatabase` | the REST handlers in their threads, on the array and the table | state machine, extends `HashTable` |
| `FilmCatalogue` | one collection of films, requests applied one at a time | abstract specification of `FilmDatabase` |
| `RemoteTable` | the TCP server with its listen queue, the film clients, other programs that connect | state machine |
| `EventList` | the event list of OMNeT++ (external) | operators |
| `InterfaceQueue` | `InterfaceQueue.cc`: what each handler does with the queue and its statistics | operators |
| `NetworkStack` | `NetworkStack.cc`: what a stack does with a packet | operators |
| `Routing` | metric, Dijkstra's algorithm, forwarding tables; a reference definition of shortest paths | operators |
| `Simulation` | the simulated network: stacks, queues, daemons, go-back-N pair and ping | state machine, composes the four above |
| `DataBufferProofs`, `DataBufferUseProofs`, `GoBackNProofs`, `ChordProofs`, `FilmDatabaseProofs`, `RemoteTableProofs`, `SimulationProofs` | theorems | proofs |
| `DeliveryProofs` | theorems on what becomes of the simulator's packets | proofs, extends `SimulationProofs` |
| `MC*` | the constants of the TLC runs | instances |

A definition whose comment starts with "Mutant" is not part of the model: it is
a plausible bug in the definition that follows, and each property is known to
fail when that bug is put in.

### DataBuffer

A buffer is a record with the fields of `struct DataBufferHead`.  A freed slot
becomes `NoPacket` (in C it keeps a dangling pointer that nothing reads).  Time
is relative to now: a `struct timeval` is the number of ticks until it is
reached, `Expired` when it is past, `Never` for `LONG_MAX`, `Unset` for a field
that `malloc` returned and nobody wrote.

### GoBackN

One pass through the sender's main loop is four steps, and one through the receiver's
is one (`Discard`) or three; they interleave with each other, the clock and the network:

| action | code | |
|---|---|---|
| `ReadIntoBuffer` | `GoBackNSender.c:148-186` | one packet of the file a step; the last is empty |
| `Select` | 205-237 | computes `readfds`/`writefds`; enabled when `select()` returns |
| `HandleAck` (`AcceptAck`) | 240-328 | one acknowledgement: release, follow with the timer |
| `HandleTimeout` | 331-358 | go back, reset timers |
| `SendPacket`, `EndSend` | 361-427 | one round of the send loop; its end |
| `Finish` | 205, 429-431 | the buffer is empty |
| `Discard` | `GoBackNReceiver.c:158-211` | a packet that is damaged or not the next |
| `Accept` | 212-216 | the next packet is counted (`lastReceivedSeqNo`) |
| `SendAck` | 218 | it is acknowledged; blocks while the socket is full |
| `WriteOrClose` | 220-228 | it is written; the empty one closes the file |
| `Tick` | `gettimeofday` | external |

`rpc` is where the receiver is, `rdata` the packet it has in hand.  It writes what it has
acknowledged already, so the sender can release a packet, and even end, before the
receiver is done with it.  But it deals with one packet after the other: when the sender
ends, the ending packet was acknowledged, and the chunk before it is written.  That is
`DoneMeansDelivered`: the output is the whole file, and it may still be open, with only
its `fclose` to come.  ("Written" means given to `fwrite`: until `fclose` the C library may
hold it in memory.)

The network is the two channels `dataChan` and `ackChan`.  The simulator keeps
the order of messages; `InterfaceQueue` drops a message when it is full, a link
error damages one and `ErrorControlProxy` marks it (`hasErrors`) and flips a byte.
What happens to a message is decided when it is sent (`Transmit`).  The channels
are bounded by `DataCap` and `AckCap`, the socket buffers: the sender's `send` is
non-blocking and breaks its loop, the receiver's blocks.

An assertion failure takes the sender to `"abort"`, the NULL dereference at line
377 to `"segfault"`.  A timeout copied from a packet that was never sent can be
anything (`CopiedTimeout`).

Left out: partial `send`/`recv`, closed connections, option parsing, statistics.

### ChordRing

A server is named by its id, and a `struct server_info` is the id of the server it
describes; `None` is the NULL that `node.prev` and `node.next` start with.  Each
handler of an internal message is an action: it takes one datagram out of `net`
and puts in the ones it sends.

| action | code in `Hash Table/server.c` | |
|---|---|---|
| `StartVia` | `join`, `main` | a process comes up and sends its join to one that runs |
| `HandleJoin` | `handle_join` | takes the new server as its successor, or forwards the join |
| `HandleNotify` | `handle_notify` | a closer successor is taken, and told with a stabilize |
| `HandleStabilize` | `handle_stabilize` | a closer predecessor is taken; the answer names it |
| `Lose`, `Copy` | the network | external; `net` is a bag, so datagrams overtake each other |

`is_in_range` is the `uint16_t` subtraction of the code with a smaller modulus
(`IdSpace`), so that ranges across 0 occur among few servers.  A server that has no
successor yet takes any join: it cannot tell that it was not answered yet from being
alone.

### ChordStore

Clients send one request each (`Ask`) to any server.  A server that is responsible
applies it (`Process`: the bits of the request in the order delete, set, get);
another one forwards it to its successor (`Forward`) and *blocks* in `recvfrom`
until the next datagram comes, which it takes for the answer.  A datagram of another
transaction, or an internal message, fails an `assert` (`Panic`, `PanicInternal`).
The answer goes to the client through the servers that wait (`Relay`), in a buffer of
the size of the request: what is longer is cut (`CutTo`).  `Tid` is the transaction id of
each client.  `client.c` always uses 0 (line 18), so a server that waits cannot tell
another client's request from the answer; `overlapped` records, for the properties only,
that two clients with the same id have waited at the same time.  A server's hash table is
the function that it implements; that it does is the subject of `HashTable`.

Two facts about this code shape the model.  `recvfrom` is called with an
uninitialised address length, so an answer can fail to be addressed; that is the
same as a lost datagram, which `LoseDatagram` covers.  And a join hands over a range
of ids but not the values that are stored in it, so `OneHome` and `IsOneStore` are
checked for a ring that does not grow.

### HashTable and FilmDatabase

`HashTable` has the table as a record with `size`, `n_elems` and a sequence for each
linked list; `resize` doubles the table and pushes the elements, which reverses the
order inside a list.  `FilmDatabase` runs threads on it.  Each thread has its local
variables in `th[w]`; `pc` names its next access to what the threads share:

| request | steps | code |
|---|---|---|
| list | `ListNext`, `ListView` for each number | `list_films`, `film_json_view` |
| add | `AddCheck`, `AddMap`, `AddStore`, `AddLoad`, `AddCount`, `AddLocation` | `add_film`, `db_add` |
| reset | `Destroy`, `Create` | `reset_db`, `db_destroy` |
| get, update, delete | `Lookup`, then `Get`; `PutNothing` (no data), or `Put`, `PutMap`, `PutFree`, `PutStore`; `Delete`, `DeleteUnmap` | `film_resource*`, `db_update`, `db_delete` |

`cur_films++` is two steps.  A call of the hash table is one: the table's own races
are not modelled.  `malloc` hands out a block that no pointer points at, so that the
use of a freed film shows; such a use, and a place outside the array, sets
`undefined` and the model stops there, for the C program has no defined behaviour
from then on.  The film of a refused POST leaks in C; nothing can reach it, and the
model does not allocate it.

Two threads that both change the database do go wrong (two adds share a number or
overwrite each other's count; a film is freed while another thread renders it).
`CarefulSpec` says what a client must keep to for the database to be right: a film
is added while others only read, anything else runs alone, at most `MAX_FILMS` are
added, a PUT has no data or is well-formed and keeps the title.  Under it a request takes effect at
one step (its linearization point): the film is counted, replaced, or taken out of
the array, the database is freed, or the answer is determined.

### RemoteTable

The server takes the connections of `queue` one after the other.  `Serve` is one call
of `serve()`: it runs when everything the header announces has arrived or the other
end has closed, works off delete, set and get, and answers.  A request that breaks off
inside the key or the value is served with what the buffer held before (any key, any
value), because only the length of the header is checked.  A client's attempt is
`Connect`, then `Receive` or `TimeOut`; `ConnectFails` is an attempt without a
connection.  An attempt that timed out stays in the queue (`open` is FALSE) and is
served when its turn comes.  `Kill` and `Restart` are what an operator does; the table
is lost.  The value under a title is named by the program that set it.

| action | code |
|---|---|
| `Connect`, `ConnectFails`, `TimeOut`, `Receive` | `Movie Parser/client.c:152-233`, `perform_action`; 354-397, the loop of `main` |
| `Serve` | `Distributed Hash Table/server.c`, `serve`, and the loop of `main` |
| `StrangerConnects`, `HangUp` | any other program (external) |
| `Kill`, `Restart` | the process (external) |

### Simulation

OMNeT++ is a list of events ordered by time, then priority, then age (`EventList`).
Each action takes the event at its head and is the handler of the module it is for;
the only choices left are the bit errors, the parameters of the `.ini` file and what a
user types into a shell (`ConPar`).

| action | code in `GoBackN/protsim` | |
|---|---|---|
| `StackHandles` | `common/NetworkStack.cc` | deliver, broadcast, forward, drop |
| `QueueMessage`, `QueueTimeout` | `support/InterfaceQueue.cc` | queue or send at once; the next one, or idle |
| `ConPar`, `DaemonHandles` | `NetworkStack.cc`, `routing/FakedRoutingDaemon.cc`, `Dijkstra.cc` | a cost changes; all tables are calculated again |
| `SendNext`, `Expire`, `ReceiveAck` | `userapps/GoBackNSender.cc` | its two timers and the acknowledgements |
| `ReceiveData` | `userapps/GoBackNReceiver.cc` | with or without early repeat requests (`sendNack`) |
| `PingTimer`, `ReceivePing` | `userapps/PingPongAppl.cc` | |

`meter`, `measured` and `lost` are not in the code: they record what really happened,
for the properties to compare the code's statistics and counters with.  The nodes are
those of `ARQNetwork` (0, 1000, 2000, 10).  `ARQNetwork.ned` places
`DummyApplication`s; `omnetpp.ini` has the parameters of the applications modelled
here, at the addresses used here, so the model places those.  (It also names the
destinations 1001 and 2001, which the network does not have.)

What the theorems on packets need of the parameters is stated in `Simulation` too
(`ProperSetup`, see section 4), so that TLC evaluates it for the parameters of the run:
`MCSimulation` assumes `MCParametersProper`.

Left out: the alert flag, which nothing sets; the virtual queues, vectors and
histograms, which nothing reads; `conpar` for anything but a cost.

## 3. Runs

| run | question | bounds | result |
|---|---|---|---|
| `MCDataBuffer` | is the ring a FIFO queue, and always consistent? | 4 slots, 10 sequence numbers: the ring wraps twice | holds |
| `MCGoBackN_safety` | can loss, damage, delay, timeouts spoil the copy, the buffer, the window? can the sender hang, or the file stay open, without a loss? | 5 chunks, window 4, 6 slots, 3 faults | holds; no |
| `MCGoBackN_segv` | comment 367-368: never send what is not in the buffer | 3 chunks, no faults | violated |
| `MCGoBackN_lost` | comment 341-343: all unacknowledged packets are resent | 3 chunks, 1 fault | violated |
| `MCChordRing` | do servers that join one after the other form a sorted ring? what is left of it when they join together, or datagrams are lost or repeated? | 4 servers of 8 ids, 1 lost, 1 repeated (then 3 servers) | holds |
| `MCChordStore` | are the servers of a ring one store for runs of `client.c`? do clients get their own answers, also while a server joins? | 3 servers and a fourth, 2 clients with id 0 (symmetric), 2 keys, 1 lost | holds until the clients overlap |
| `MCChordStore_ids` | is every client answered that numbers its request, while another one waits and a server joins? | as above, ids 0 and 1 | yes, or a server panics |
| `MCChordStore_mixed` | comment `server.c:452-454`: nobody receives what was meant for another | as `MCChordStore`, nothing lost | violated |
| `MCFilmDatabase_careful` | is the database of careful clients one collection? | 2 threads, 4 titles, 4 numbers | holds |
| `MCFilmDatabase_titles` | `database.c:21`: a film is found by its title | 1 thread | violated |
| `MCRemoteTable` | can a late attempt undo what an answer reported? does every client end? | 1 client and 1 stranger (silent, or without a key), set, get, delete, get of 3 films, 3 attempts, 4 connections, 1 kill | no; yes |
| `MCSimulation` | the properties of the simulator listed in section 1 | 4 nodes, 8 directed links; see below | holds |

**Why the bounds are enough.**  The file (6 packets with the empty one) fills the
ring, the window is smaller than the file so that it slides, the channels hold less
than the window so that the send loop breaks with EAGAIN, and three faults can hit a
packet, its repetition and an acknowledgement.  The ids of the Chord servers lie on
both sides of 0, next to each other and apart, so that a range can be empty, wrap
around and cover all but one id; with three servers a request is forwarded
twice, and the fourth joins between any two of them.  In `MCChordRing` the constraint
`FewWhenCopied` keeps the runs with a repeated datagram to three servers; three are
enough for a repeated join to make a server its own successor, which is the one way a
repetition has been seen to harm the ring.  The two keys
belong to different servers, one of them to its server's own id.  The two clients of
`MCChordStore` are alike, so they are a symmetry set; the run has no liveness property,
where that would be unsound.  `MCChordStore_ids` gives them different ids, since otherwise
only clients that wait one after the other could expect an answer.  Three of four titles
share a list of the smallest hash table, which grows once while films are added, and two
of them still share one afterwards.  In
`MCRemoteTable` the same film comes twice in the list (a short list is repeated,
`client.c:356`), so that late attempts of its first turn meet the second; four
connections hold all three attempts of an operation and a stranger in front of them.

`MCSimulation` has four sets of parameters, because a simulation is almost determined
by them.  *Transfers*: a go-back-N transfer with window 1 and 3, two timeouts, with and
without repeat requests, queues of two messages and up to three bit errors, until time
40: long enough for each loss, its timeout and the repetition.  *Rerouted*: pings in
both directions while the costs of the links of the detour change once or twice (the
extra link 1000-10 gives the routers a choice).  *Flooded*: packets to nobody and to
everybody, until the time to live of 16 is used up.  *Measured*: statistics with
transient phases of 0 to 2 and batches of 2 and 3 messages.  A transfer is not combined
with a change of routes: that can reorder acknowledgements, for which
`GoBackNSender.cc:201` has an `assert` (a hazard in `PROJECT.json`; the shipped network
is a tree, where it cannot happen; `NothingAbortsTheorem` covers every network in which
acknowledgements have only one way).

`CHECK_DEADLOCK FALSE` is set because these systems stop: the sender ends, aborts,
crashes or waits for ever after a loss; all servers have joined and no message is
left; every client was answered; the buffer has seen its last sequence number; the
database's behaviour has become undefined; the film clients have ended; a simulation
reaches its time limit.

**Fairness.**  `GoBackN!FairSpec`: the sender's loop runs while `select` has a
reason to return, the receiver's while there is a message, and the clock moves -
nothing else (no fairness of the network; messages in a channel are in the socket).
`ChordRing!FairSpec`: a datagram that is neither lost nor handled will be handled, as
each server loops on `recvfrom`; nothing makes a server start.  (Servers that join "one
after the other" are the runs in which `crowded` stays FALSE.)  `FairStoreSpec`: the
servers go on while one of them can, and so do the clients.  `RemoteTable!FairSpec`:
only the clients' own steps, since their `connect`, `send` and `recv` end after two
seconds; a blocked or dead server does not stop them.  `Simulation` has no liveness
property: every simulation ends at its time limit.

### What the violated runs show

* `MCGoBackN_segv`: a timeout sets `nextSendSeqNo` back; acknowledgements that
  were still under way free packets beyond it without moving it; the send loop asks
  the buffer for a packet that is gone and dereferences NULL.
  `NullOnlyForAcknowledged` shows that this is the only way it can happen.
* `MCGoBackN_lost`: the timer starts only with an acknowledgement (line 421 copies
  the timeout only when `timerExpiration` is already past, and it starts at
  `LONG_MAX`), so one lost message can leave the sender waiting for ever.
* `MCChordStore_mixed`: the comment at `Hash Table/server.c:452-454` expects that a server
  panics when a message of someone else arrives while it waits.  But it only compares
  transaction ids (line 457), and all are 0: the request of a second client is taken for
  the answer to the first one, which receives it, and nobody serves it.
* `MCFilmDatabase_titles`: a PUT that changes the title puts the *old* title into the
  table again (`block5.c:195`), so that the new one is not found and the old one is.

### What else the properties say about the code

Several properties hold only under a condition they state, and the condition is
needed:

* `Window` = 1 stalls the sender: `lastAckSeqNo` is 0 before and after packet 0 is
  acknowledged, so the window is closed for ever after the first packet.
* Servers that join at the same time can leave `RingWhenQuiet` false for good, as
  stabilize messages are sent only when a successor changes: what remains is
  `JoinedWhenQuiet` (every server has a successor that knows it or a closer one).
* A lost join leaves a server outside, a repeated one can make a server of the ring its
  own successor, so that it forgets the ring: `NeverOwnSuccessor` is about the case
  without repetition, `JoinedWhenQuiet` about the one without loss and repetition.
  `SuccessorOnlyCloser` names the case: only after a repetition does a server become its own
  successor, or replace itself; every other new successor lies between the server
  and its old one.  (That the server is not the new one has to be said:
  `is_in_range(n, next, n)` is true, here and in the code.)
* `OwnAnswer` and `IsOneStore` hold until two clients with the same transaction id wait at
  the same time (`overlapped`).  With `client.c` these are any two: run together, as
  `MCChordStore_mixed` shows, one can receive the other's request.  `test.sh` runs one
  after the other.
* `AnsweredOrPanic` says "or panic" because a server that waits for an answer aborts
  on any other datagram: two concurrent requests are enough.  It excludes lost
  datagrams, as a server waits for the answer without a timeout, and clients with the same
  id that overlap: the request of one may be swallowed, and then a stray answer that
  nobody waits for is forwarded as a request until two servers wait for each other.
* `NotFoundAfterDelete` excludes a delete that was reported as failed: none of its attempts
  need have been served by then.  `FoundAfterSet` needs that the server was not killed in between; a
  client cannot tell.
* `AckUnderWay` excludes runs that lost an acknowledgement: the receiver is silent
  about packets it has had, so that a lost last acknowledgement is never made up for.
* `NothingAborts` and `BatchesEndInTime` need batches no shorter than the transient phase.
  A batch ends only when that phase is over, but the assertion on its length
  (`InterfaceQueue.cc:240`) is also evaluated during it: with batches of 2 and a transient
  phase of 3 it fails.
* A request with `key_len` 0 is served by the TCP server under the empty key and
  acknowledged, although `test_server.c:31-32, 121` expects that the connection is closed
  without an answer.  One program in `MCRemoteTable` sends such a request; it does the
  film clients no harm.

## 4. Proofs

The assumptions are those of the modules: `MaxCount`, `TimeoutTicks`, `Window`,
`DataCap`, `AckCap` are positive, `File` is a sequence of chunks, a damaged chunk is
none of them; servers are ids of the circle, and NULL is none of them; clients and
strangers are different programs, and the empty title is none; the film database has
more blocks of memory than films and local pointers, so that `malloc` finds one, and
the markers of the model (`NoFilm`, `NoAnswer`, ...) are none of the values; the
simulated network is finite, no two gates of a node lead to the same neighbour, every
stack has a routing daemon (`FakedRoutingDaemon` takes only those for nodes), the
applications are where the model places them, transmissions take time, and the times of a simulation are smaller than the number that
stands for infinity.  Further hypotheses are written in the theorems that need them:
`StrangersKeepOff`, `BatchesLongEnough`, `TimeToLive`, `ProperSetup`.

`DataBufferProofs` proves what each buffer operation does to a consistent ring
(`RingOK`): `WrapAround` reduces `%` to a case split, `IndexFacts` says that
buffered sequence numbers have different slots, and `PutFacts`, `FreeFacts`,
`ResetFacts`, `StampFacts`, `AgeFacts` that an operation keeps the ring consistent
and which packets it keeps.

`DataBufferUseProofs` proves the buffer under any calls that respect its asserts.
`AlwaysConsistent` is `RingConsistent`; `RingIsQueue` is the refinement of
`PacketQueue`.  The invariant `Ring` adds to `RingOK` that the slots behind the last
packet are empty (`RestEmpty`), which a put relies on.  The queue is read off the ring by
`AsQueue`; `PutAppends`, `FreeDrops`, `ResetDisables` and `StampSets` say what each
operation does to it.  `resetTimers` walks the ring until it is back at the free index:
that it visits the packets and nothing else is `LoopVisitsPackets` of
`DataBufferProofs`.

`GoBackNProofs` proves `IInv` inductive.  None of the properties is by itself:
that a packet is released only after it was acknowledged needs that no acknowledgement in
flight runs ahead of the receiver (`AckInv`), that no assert fires needs that they
are new to the sender and strictly increasing, that the output is right needs that
a good packet in flight carries the chunk of its number (`DataInv`), which needs
that the buffer does (`BufferInv`, with `RingOK`), and that what the receiver has in hand
is the packet it counted last (`ReceiverInv`).  There is a lemma for each
action; the safety properties follow from `IInv` one by one.

It also has two results about steps.  `TimeoutResets`: at a timeout the
buffer has a free slot, since the timer runs only after an acknowledgement has
released a packet (`ExpiredNotFull`), and `resetTimers`, which does nothing on a full
ring, reaches every packet.  `Implements`: the transfer refines `FileCopy`.
`Accept` is its `Receive`, `WriteOrClose` its `Write` or `Close`, a new acknowledgement
its `Release` (never more than was received, by `AckInv`), `Finish` its `End`; all other
steps, `SendAck` among them, are invisible, because they keep `minSeqNo`, what was received,
the output and whether the sender has ended.  As in the code, `FileCopy` may release a
packet that is received and not written yet, but takes the next only after that.

`ChordProofs` begins with the ring and proves its type invariant, which is inductive by
itself: the handlers send only to servers that are not NULL, because
`Responsible` and `Closer` test for it first, and because a stabilize is answered
after `prev` was set.  `OnlyCloser` is the action property that a successor is only
replaced by a closer one - and by the server itself only after a message was repeated,
which it takes from `NeverItself`.  They rest on
lemmas on bags (`BagAddFacts`, `BagRemoveFacts`): what is in one after a message is
added or taken out.  `NeverItself` is `NeverOwnSuccessor` for any number of servers
that join in any order.  The state alone does not tell why it holds, so the inductive
invariant `Circles` says that the servers fall into circles, each called by the one
server in it whose join has not been accepted yet (or by the first): `next`, `prev`,
notify and stabilize messages stay within a circle, and a join is sent into a circle
that is older than its own (`rank`).  So a server never accepts its own join; when one
is accepted, two circles become one (`CirclesJoin`), which needs that its join is in no
second place (`JoinsOnce`), and this is where a repeated join would break it.

`AllJoined` is `JoinedWhenQuiet`, also for servers that join at the same time.  A server
without a successor leads its circle, and what it waits for - its join, or the notify that
answers it - is under way (`Led`, `Told`); a server whose successor does not know it, or a
closer one, has a stabilize under way to that successor.  Without messages nothing is
left but what the property says.  `OneRing` is `RingWhenQuiet`.  Its invariant `OneByOne`
describes every state of a join, while no other server starts: either the network is
quiet and the servers are a ring, or the join of one server is on its way round
(`Asking`), or it was accepted, and the two chains of notify and stabilize messages on
either side of the new server have come so far (`Accepted`, `Linked`: four and three
stages, handled in any order).  That a ring of successors which are nearest is the sorted
ring is `QuietIsRing`.

Then the store, on a ring of any size with any ids and hashes.  `StoreTypeCorrect` is
its type invariant.  `OneHomeTheorem`: a server keeps only keys of its range
(`HomeInv`), and the ranges of two servers are disjoint (`Disjoint`, from the distance on
the circle and `SuccessorNearest`).  `OneStoreTheorem`: the servers implement `KeyValue`.  The
inductive invariant `StoreInv` says that each client's request is in one place
(`Tokens`): a request is under way to a server that is nearer to the key than all that
wait for it (`RequestOK`), and an answer to the nearest of those (`AnswerOK`); each
waits for the one it forwarded to (`WaitingOK`).  Forwarding makes the distance smaller
(`Nearer`, `Hop`), so that no server is asked twice, and what an idle server takes
from its socket is a request that nobody has served (`TakesRequest`).  `Process` is then
the store's `Apply`, on the home of the key, which exists and is unique (`HomeOfKey`);
`Ask` is its `Ask`; every other step is invisible.  Nothing is assumed of the
transaction ids.  What is needed is that those of the clients that wait at the same time
differ (`TidsApart`): otherwise a blocked server takes another client's request for its
answer.  `TidsApart` holds until `overlapped`, and also says that of a request that
was answered nothing is left in the network or in a server, so that one run of `client.c` may
follow the other.  `OwnAnswerTheorem` follows from the same `Tokens`, which hold
while other servers join: the proof needs only that no server is its own successor.  So
it has the hypothesis that no message of the ring was repeated (`copied` is 0, as in the
run): a server that became its own successor forwards a request to itself and takes it
for the answer.

`FilmDatabaseProofs` begins with the hash table.  `TableIsMap`: for any keys, any hash
function and any initial size, the value of a key is the one set last, no other key is
touched - also when keys share a list and when the table grows - and every operation
leaves a consistent table.  The lists are treated by sets of elements: `FirstPlace`,
`ReplaceInList`, `NewHead`, `RemoveFromList` say what one operation does to a list,
`PushedFacts` what `resize` moves to a bucket (by the least counterexample, as the
provers have no induction), and `SetFacts` and `DeleteFacts` what a call does to the
elements of the table, whose number is `n_elems`.

On it rest the theorems about the database of careful clients (`CarefulSpec`), for any
number of threads and films: `FilmTypeCorrect`, `AllDefined`, `TableConsistentAlways`,
`TitlesFound`, and `DatabaseIsCatalogue`, the refinement of `FilmCatalogue`.  The
inductive invariant `Inv` has these parts.  `Alone`: who changes the database is alone,
or adds a film while others read.  `MemoryOK`: every film of the array has a block of its
own that is allocated, except the one that a PUT has freed and not replaced yet, and
nothing else is allocated but the films on their way in or out.  `CountOK`: a film is
counted, or the thread that stored it is about to count it.  `IndexOK`: the table finds a
film under its title, also between the two steps that enter it, or take it out, on
either side (`Titled`).  `LocalOK`: what a thread looked up is still what the array has.
`ListOK`: what a list has collected are all films up to its place, which makes it true
of the moment it ends, since films are only added behind it.  There is a lemma for each
action; `PostFrame` and `SoleFrame` are what an action leaves to the other threads.  In
the refinement the step at which a request takes effect (section 2) is `Apply`, and
`GivesAnswer`, `Walks` and `Unseen` are about the steps that no client can tell.  Nothing is
proved of clients that are not careful: `MCFilmDatabase_titles` shows what happens then.

`RemoteTableProofs` proves `NotFoundAfterDelete` and `FoundAfterSet` for any number of
clients, attempts, connections, kills and strangers that leave the titles of the
client alone (`StrangersKeepOff`).  The invariant `IInv` has, for each client, that the
connection which is still open is the last of its connections in the queue
(`OpenIsLast`) - so that when it is answered all earlier attempts have been served -
that from the answer to a set or a delete the table has what it left (`Answered`), and
that until the get that follows has its answer only gets of this client are in the
queue (`Settled`).

`SimulationProofs` proves six properties of the simulator, for every topology, all
delays, all parameters and whatever costs are typed into the stacks.  It begins with the
event list.  A list is sorted by time and priority (`IsList`); the lemmas on `firstAfter`,
`scheduleAll`, `scheduleAt` and `cancelEvent` say which events each leaves, that the list
stays sorted, and that an event of which there is one is still the only one (`Once`).
The next lemmas say the same of the tables of routes: they are functions of the type
they should have, whatever Dijkstra's algorithm puts into them (`RoutesOK`).

The inductive invariant `SimInv` has three parts.  `TimeOK`: the events are a list and
none is in the past.  `LinksOK`: every link has a queue of its type and, while it sends
or messages wait, one timeout, at the end of the transmission (`TimeoutOK`).  It needs
that a timeout comes before the messages of the same time, which is its priority.
`NodesOK`: the types of the tables and applications.  `SimTypeCorrect` is `TypeOK` and
`QueuesGoOn` is `QueueRestarts`; there is a lemma for each action.

`SentAgain` is `NoPacketExpiresUnnoticed`.  Its invariant `SenderInv` says that each timer
is scheduled once, for the time that the sender's variable has, or not at all
(`Timers`), and that the packets of the window expire in the order of their numbers, the
first of them not before the timer (`Window`).  The order is what the invariant adds: when
an acknowledgement releases some packets the timer is set for the first that remains,
and only the order makes this right for all of them.  Nothing is assumed about the
network, and none of the acknowledgements has to be right.

`StatisticsTheorem` is `StatisticsExact`.  `StatInv` says that what a queue has collected,
with the value and the time of the last change, is the integral up to now (`Exact`), and
that a report has the sums of its batch (`Recorded`).  Between two changes neither the
length nor the utilization moves; `Distribute` is the arithmetic.

`ShortestRoutes` is `RoutesCurrentWhenUsed`: a stack never forwards a packet by routes for
costs that the links no longer have.  It has two halves.  `DijkstraShortest` is about
the algorithm: if it does not run into its `assert(0)`, the next hop it finds for any other
node starts a path as short as the reference `Distance` says (Bellman and Ford), for
every graph and all costs.  Both are functions defined by recursion on the number of
rounds; `LengthsExist` and `RoundsExist` show by the least counterexample that such
functions exist, and the rest needs only what one round does (`ExtendedFacts`,
`RoundDoes`).  The invariant of the search (`Searched`) is that the nodes handled have
their final distance and are nearer than all others (`HandledAreNear`), that a
distance is that of a path over the handled nodes (`OnAPath`), and that no path is
shorter than a distance of a node that has been handled (`NoShorterPath`, `HandlesOne`).
`DijkstraAsserts` says when the `assert(0)` (`Dijkstra.cc:40`) is reached: exactly if some
node cannot be reached from here at a cost below `INFINITY`.  When the search finds no node
to handle, those that remain are all at `INFINITY` and no link leads to them for less
(`Blocked`); then no path does (`FoundNone`).
The other half is about the events.  `RouteInv`: only notifications of a change have
priority over packets (`Foregoing`), and as long as the routes of some stack are not those
for the present costs, a notification of this very time is under way, to a stack or to its
daemon (`Noticed`); so it is handled before any packet.  A handler that knows nothing of
routes takes no such event out of the list and adds none with priority (`Extends`).

`SimTypeCorrect`, `SentAgain` and `ShortestRoutes` have the form `aborted \/ P`: a failed assertion ends the
program in the middle of a handler, and the variables it leaves are not those of a
program that runs.  `DeliveryProofs` shows when that does not happen.  For the assertions
of the statistics `BatchesEndInTimeTheorem` shows `BatchesEndInTime` for all parameters
with batches at least as long as the transient phase (`BatchesLongEnough`).  Its invariant
is `QueueOK` of every queue, kept by each operator of `InterfaceQueue`.

`DeliveryProofs` proves what the simulated network does with packets: `NothingAborts`,
`AckUnderWay` and `PingsComeBack`.  All of it is about `Carried`, the set of packets in the
event list and in the queues, each with its place.  The last part of `SimulationProofs` has
a lemma for each handler that says which packets it takes away and which it adds
(`Moves`), and what the list has then (`Adds`).  Two invariants say why no packet is lost
in a stack.  `PacketInv`: a packet is meant for an application of its kind that is there,
and comes from one.  `TravelInv`: the links that a packet has passed (its `TTL`, which
counts up) and the number of nodes that are nearer to its destination than the node it
comes to (`Rank`) are together at most `(changes + 1) * (|Node| - 1)`.  Each link of a
shortest path lowers the rank, and each change of a cost raises it to at most
`|Node| - 1` again.  So no packet reaches `maxTTL` if that allows one such way more than
there are changes (`TimeToLive`).

`PingsComeBackTheorem` needs no more than that.  It counts: the pings that are open,
summed over the applications (`Total`), are those in the list, those in the queues and
those that were dropped (`CountInv`), for each handler adds as many as it takes.
`AckTheorem` adds `ToldInv`: the sender knows of all that the receiver has, or an
acknowledgement that says so is carried, or one was lost.  It holds until an assertion
fails, in networks with several ways too.

`NothingAbortsTheorem` is about every assertion at once, since each of them needs the
others to have held; so `~aborted` is a part of its invariant `RunningInv`.  The other parts:

* `ArqInv`: the numbers in the sender's buffer follow each other and fit the window;
  `SeqInv`: what is under way, or was received, was sent.  So an acknowledgement is never
  for more than was sent.
* `KeepsOrder`: the acknowledgements are on the one way from the receiver to the sender, and
  those that are ahead have the lower numbers (`OrderInv`).  A link keeps the order because
  it sends one message after the other, all with the same delay (`DueInTime`), and
  because what comes at the same time stays in the order in which it was scheduled.
* `HasteInv`: only links delay packets.  So when an acknowledgement comes at the very time
  the expiration timer is due, the timer is older and is handled first; the sender never
  sets it for a time that is past or while it is scheduled.
* `QueuesInv` for the statistics; `cost \in PossibleCosts(par)`, for which `Reachable` and
  `DijkstraAsserts` exclude the `assert(0)`; `IdleInv`: without a sender there is nothing
  for it.

`ProperSetup` is what this needs of the parameters.  The window and the timeout are
positive.  No node is cut off at any cost that may be typed in
(`Reachable`), and batches are no shorter than the transient phase (`BatchesLongEnough`):
the program asserts both.  Packets live long enough (`TimeToLive`): with a
`maxTTL` of 16 and the four nodes of `ARQNetwork` that is so for up to four changes;
without it packets may be dropped although nothing is wrong with them.  Where a
transfer runs, acknowledgements have one way whatever the costs (`OneWay`): so it is in
every tree, and the shipped network is one, or where the costs that may change do not
matter to them.  Without it an acknowledgement can overtake another, which the assertion
of `GoBackNSender.cc:201` rules out.  `WithoutAborts` draws the conclusion for the theorems of
`SimulationProofs`: with these parameters the case `aborted` does not occur.

Only model-checked is liveness (`NeverStuckFaultless`, `BecomesQuiet`, `AnsweredOrPanic`,
`EveryClientEnds`): fairness and `ENABLED` are beyond the prover.

The induction theorems of the library take an operator as their parameter, which the
provers cannot use.  Where an argument goes by the number of rounds, steps or elements,
the lemma `Smallest` is used instead: of a set of numbers at which something
fails, the least one is not 0, and at the number before it nothing failed yet.

## 5. Not modelled

* **NTP client** (`NTP Time Server/client.c`): one loop of one request and one answer
  at a time, and floating point arithmetic on time stamps.  TLC has no fractions, and
  with whole numbers little of it remains.
* **External connection of the simulator** (`emulation/`, `support/Parser.cc`): the
  real-time scheduler, its sockets and the applications it creates in the stacks.  Its
  effect on the transfer is in the channels of `GoBackN`.
* **Small clients and servers** (`TCP_IP_and_Drgramms`): single exchanges without
  state.
* **`client_malte.c`, the file parsers, JSON and HTTP**: text processing;
  `client_malte.c` sends one request per line and ignores every result.
* **`Simple Hash Table Client Server/`**: an earlier copy of the Chord server whose
  handlers are those of `ChordRing` and `ChordStore`.
* **Partial `send` and `recv`** in the file transfer: the stream loses its framing, and
  nothing is left to say about the file.  Datagrams shorter than their header are not
  sent by any program of the repository.
* **Vendored and generated code** is not this repository's own: OMNeT++ and Tcl/Tk
  (`GoBackN/lib`), the onion library, cJSON, `*_m.cc`, `*_n.cc`.  They and the text
  processing are the larger part of the C code, so the share of all lines that the
  modules stand for stays small.

## 6. What could follow

1. Networks in which acknowledgements have several ways, once it is decided what the
   sender should do with one that was overtaken (`GoBackNSender.cc:201` ends the program).
2. The values that a join leaves behind on the server that kept them
   (`Hash Table/server.c:262`), once it is documented what a join should do with them.
3. The external connection of the simulator: applications that are deleted while they
   have input pending.
