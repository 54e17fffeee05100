------------------------------- MODULE ChordStore -------------------------------
(***************************************************************************)
(* The keys that the servers of "Hash Table/server.c" keep, and the        *)
(* requests of their clients (client.c).  A server that is not responsible *)
(* for a key forwards the request to its successor and waits for the       *)
(* answer; it takes the next datagram for it, and aborts when that is an   *)
(* internal message or has another transaction id.                         *)
(*                                                                         *)
(* A server's hash table is the function it implements (see HashTable).  A *)
(* key is named by its hash.                                               *)
(***************************************************************************)
EXTENDS ChordRing

CONSTANTS Member,   \* the servers that form a quiet ring in the initial state
          Client,   \* each sends one request
          Tid,      \* the transaction id that each client uses: 0 in client.c
          Request,  \* the requests: [op : set of bits, key : Key, val : Value]
          Key, NoKey,
          Hash,     \* string_hash of each key and of the empty one
          Value, Empty, Absent,
          Size,     \* the length of each value
          Cut,      \* what arrives of a value that was cut off
          NoReply

Reply == [op : SUBSET {"del", "set", "get"}, key : Key \cup {NoKey}, val : Value \cup {Cut}]

ASSUME ChordStoreAssumption ==
    /\ First \in Member /\ Member \subseteq Node /\ Client \cap Node = {}
    /\ Tid \in [Client -> Nat]
    /\ NoKey \notin Key /\ Hash \in [Key \cup {NoKey} -> 0 .. IdSpace - 1]
    /\ Empty \in Value /\ Absent \notin Value /\ Cut \notin Value \cup {Absent}
    /\ Size \in [Value \cup {Cut} -> Nat]
    /\ Request \subseteq [op : SUBSET {"del", "set", "get"}, key : Key, val : Value]
    /\ NoReply \notin Reply

VARIABLES alive,    \* FALSE when the server's process has aborted
          table,    \* the hash table of each server
          waiting,  \* the request that the server forwarded and waits for, or Idle
          xnet,     \* the bag of requests and answers under way
          asked,    \* the request of each client
          got,      \* the datagram that each client received
          served,   \* the answer that some server gave to the client's request
          overlapped \* for the properties only: two clients with the same
                    \* transaction id have waited for their answers at the same time

storeVars == <<alive, table, waiting, xnet, asked, got, served, overlapped>>
allVars   == <<ringVars, storeVars>>

Idle == [idle |-> TRUE]

-------------------------------------------------------------------------------
\* Mutant: the end of the range belongs to it.
KeyInRangeClosed(n, key) ==
    next[n] # None => Offset(n, Hash[key]) <= Offset(n, next[n])

\* The server is responsible for the key; alone it is for any.
is_key_in_range(n, key) ==
    next[n] # None => Offset(n, Hash[key]) < Offset(n, next[n])

\* What is left under the key when the request's bits are worked off in the order
\* of the code: delete, set, get.
Effect(r, old) ==
    IF "set" \in r.op THEN r.val ELSE IF "del" \in r.op THEN Absent ELSE old

\* Mutant: the get bit is answered without a look whether there is a value.
ResultUnchecked(r, old) ==
    [op |-> r.op, key |-> r.key, val |-> IF "get" \in r.op THEN Effect(r, old) ELSE Empty]

\* The bits that succeeded, and the key and the value if the get bit did.
Result(r, old) ==
    LET new   == Effect(r, old)
        found == "get" \in r.op /\ new # Absent
    IN  [op  |-> r.op \ ((IF old = Absent THEN {"del"} ELSE {})
                         \cup (IF new = Absent THEN {"get"} ELSE {})),
         key |-> IF found THEN r.key ELSE NoKey,
         val |-> IF found THEN new ELSE Empty]

\* A datagram: who gets it, who sent it, the bits of the action byte, the
\* transaction id, key and value - and, for the properties only, whose request
\* it belongs to.
Datagram(dest, from, ack, tid, body, client) ==
    [dest |-> dest, from |-> from, ack |-> ack, tid |-> tid,
     op |-> body.op, key |-> body.key, val |-> body.val, client |-> client]

Body(d) == [op |-> d.op, key |-> d.key, val |-> d.val]

-------------------------------------------------------------------------------
\* A client that has no answer yet.
Open(c) == asked[c] # NoReply /\ got[c] = NoReply

\* client.c: one request to any server.
Ask(c, r, n) ==
    /\ asked[c] = NoReply
    /\ n \in started
    /\ asked' = [asked EXCEPT ![c] = r]
    /\ xnet' = BagAdd(xnet, Datagram(n, c, FALSE, Tid[c], r, c))
    /\ overlapped' = (overlapped \/ \E d \in Client \ {c} : Open(d) /\ Tid[d] = Tid[c])
    /\ UNCHANGED <<ringVars, alive, table, waiting, got, served>>

\* ... and the first datagram that comes back.
ClientReceives(d) ==
    /\ d.dest \in Client
    /\ got[d.dest] = NoReply
    /\ got' = [got EXCEPT ![d.dest] = Body(d)]
    /\ xnet' = BagRemove(xnet, d)
    /\ UNCHANGED <<ringVars, alive, table, waiting, asked, served, overlapped>>

\* A server that waits for nothing works through the next datagram if it is
\* responsible for the key ...
Process(d) ==
    LET n     == d.dest
        old   == table[n][d.key]
        reply == Result(Body(d), old)
    IN  /\ n \in started /\ alive[n] /\ waiting[n] = Idle
        /\ is_key_in_range(n, d.key)
        /\ table' = [table EXCEPT ![n][d.key] = Effect(Body(d), old)]
        /\ xnet' = BagAdd(BagRemove(xnet, d),
                          Datagram(d.from, n, ~ d.ack, d.tid, reply, d.client))
        /\ served' = [served EXCEPT ![d.client] = reply]
        /\ UNCHANGED <<ringVars, alive, waiting, asked, got, overlapped>>

\* Mutant: the request was only peeked at and stays in the socket.
ForwardPeeked(d) ==
    /\ d.dest \in started /\ alive[d.dest] /\ waiting[d.dest] = Idle
    /\ ~ is_key_in_range(d.dest, d.key)
    /\ xnet' = BagAdd(xnet, Datagram(next[d.dest], d.dest, d.ack, d.tid, Body(d), d.client))
    /\ waiting' = [waiting EXCEPT ![d.dest] = d]
    /\ UNCHANGED <<ringVars, alive, table, asked, got, served, overlapped>>

\* ... or forwards it, and blocks.
Forward(d) ==
    LET n == d.dest
    IN  /\ n \in started /\ alive[n] /\ waiting[n] = Idle
        /\ ~ is_key_in_range(n, d.key)
        /\ xnet' = BagAdd(BagRemove(xnet, d),
                          Datagram(next[n], n, d.ack, d.tid, Body(d), d.client))
        /\ waiting' = [waiting EXCEPT ![n] = d]
        /\ UNCHANGED <<ringVars, alive, table, asked, got, served, overlapped>>

\* Mutant: the transaction id is not compared.
IsAnswerAny(n, d) == TRUE

\* The blocked server takes a datagram with the transaction id it waits for to be
\* the answer.
IsAnswer(n, d) == d.tid = waiting[n].tid

\* The buffer for the answer has the length of the request, and what is longer is cut.
CutTo(val, room) == IF Size[val] <= Size[room] THEN val ELSE Cut

\* Mutant: the answer is sent to the peer it came from.
RelayToPeer(d) ==
    /\ d.dest \in started /\ alive[d.dest] /\ waiting[d.dest] # Idle
    /\ IsAnswer(d.dest, d)
    /\ xnet' = BagAdd(BagRemove(xnet, d),
                      Datagram(d.from, d.dest, d.ack, d.tid, Body(d), d.client))
    /\ waiting' = [waiting EXCEPT ![d.dest] = Idle]
    /\ UNCHANGED <<ringVars, alive, table, asked, got, served, overlapped>>

Relay(d) ==
    LET n == d.dest
    IN  /\ n \in started /\ alive[n] /\ waiting[n] # Idle
        /\ IsAnswer(n, d)
        /\ xnet' = BagAdd(BagRemove(xnet, d),
                          Datagram(waiting[n].from, n, d.ack, d.tid,
                                   [Body(d) EXCEPT !.val = CutTo(@, waiting[n].val)],
                                   d.client))
        /\ waiting' = [waiting EXCEPT ![n] = Idle]
        /\ UNCHANGED <<ringVars, alive, table, asked, got, served, overlapped>>

\* "someone else sent a message": the assert()s of the blocked server fail, for a
\* datagram of another transaction and for an internal message.
Panic(d) ==
    LET n == d.dest
    IN  /\ n \in started /\ alive[n] /\ waiting[n] # Idle
        /\ ~ IsAnswer(n, d)
        /\ alive' = [alive EXCEPT ![n] = FALSE]
        /\ xnet' = BagRemove(xnet, d)
        /\ UNCHANGED <<ringVars, table, waiting, asked, got, served, overlapped>>

PanicInternal(m) ==
    LET n == m.dest
    IN  /\ alive[n] /\ waiting[n] # Idle
        /\ alive' = [alive EXCEPT ![n] = FALSE]
        /\ UNCHANGED <<ringVars, table, waiting, xnet, asked, got, served, overlapped>>

LoseDatagram(d) ==
    /\ lost < MaxLost
    /\ lost' = lost + 1
    /\ xnet' = BagRemove(xnet, d)
    /\ UNCHANGED <<started, nodeVars, net, copied, crowded, alive, table, waiting, asked,
                   got, served, overlapped>>

-------------------------------------------------------------------------------
\* The server that follows n among the servers S.
Following(S, n) == IF S = {n} THEN None ELSE SuccessorIn(S, n)

StoreInit ==
    /\ started = Member
    /\ next = [n \in Node |-> IF n \in Member THEN Following(Member, n) ELSE None]
    /\ prev = [n \in Node |-> IF n \in Member /\ Member # {n}
                              THEN CHOOSE p \in Member : Following(Member, p) = n
                              ELSE None]
    /\ net = EmptyBag /\ lost = 0 /\ copied = 0 /\ crowded = FALSE
    /\ alive = [n \in Node |-> TRUE]
    /\ table = [n \in Node |-> [k \in Key \cup {NoKey} |-> Absent]]
    /\ waiting = [n \in Node |-> Idle]
    /\ xnet = EmptyBag
    /\ asked = [c \in Client |-> NoReply]
    /\ got = [c \in Client |-> NoReply]
    /\ served = [c \in Client |-> NoReply]
    /\ overlapped = FALSE

Clients == \/ \E c \in Client, r \in Request, n \in Node : Ask(c, r, n)
           \/ \E d \in BagToSet(xnet) : ClientReceives(d)

Servers ==
    \/ \E d \in BagToSet(xnet) : Process(d) \/ Forward(d) \/ Relay(d) \/ Panic(d)
    \/ \E m \in InFlight :
          \/ PanicInternal(m)
          \/ /\ alive[m.dest] /\ waiting[m.dest] = Idle
             /\ HandleJoin(m) \/ HandleNotify(m) \/ HandleStabilize(m)
             /\ UNCHANGED storeVars

Others == \/ (Start \/ Network) /\ UNCHANGED storeVars
          \/ \E d \in BagToSet(xnet) : LoseDatagram(d)

StoreNext == Clients \/ Servers \/ Others

StoreSpec == StoreInit /\ [][StoreNext]_allVars

\* The servers work, and the clients ask and read.
FairStoreSpec == StoreSpec /\ WF_allVars(Clients) /\ WF_allVars(Servers)

-------------------------------------------------------------------------------
(* Properties *)

\* The type invariant.
StoreTypeOK ==
    /\ alive \in [Node -> BOOLEAN]
    /\ table \in [Node -> [Key \cup {NoKey} -> Value \cup {Cut, Absent}]]
    /\ \A n \in Node : waiting[n] # Idle => Body(waiting[n]) \in Reply
    /\ IsABag(xnet) /\ \A d \in BagToSet(xnet) : Body(d) \in Reply
    /\ asked \in [Client -> Request \cup {NoReply}]
    /\ got \in [Client -> Reply \cup {NoReply}] /\ served \in [Client -> Reply \cup {NoReply}]
    /\ overlapped \in BOOLEAN

\* As long as no server joins, no key is kept by two servers: the ranges of the servers
\* do not overlap (is_key_in_range, server.c:53-67).
OneHome ==
    started = Member =>
        \A k \in Key, m, n \in Node :
            table[m][k] # Absent /\ table[n][k] # Absent => m = n

\* What the client has received is the answer that was given to its own request, or the
\* part of it that fitted into the request.
ReceivedOwn(c) ==
    got[c] # NoReply => /\ served[c] # NoReply
                        /\ got[c] \in {served[c], [served[c] EXCEPT !.val = Cut]}

\* A client receives the answer to its own request, from however many servers it was
\* forwarded and whatever got lost before, as long as no two clients with the same
\* transaction id wait at the same time: one client.c after the other (test.sh), or any
\* clients with transaction ids of their own, for a server that is asked while it waits
\* panics at another id (server.c:452-457).
OwnAnswer == ~ overlapped => \A c \in Client : ReceivedOwn(c)

Owner(k) == CHOOSE n \in Node : n \in started /\ is_key_in_range(n, k)

Map == INSTANCE KeyValue
    WITH Value  <- Value \cup {Absent},
         store  <- [k \in Key |-> table[Owner(k)][k]],
         answer <- served

\* Until another server joins, or two clients with the same transaction id wait at the
\* same time, the servers together are one store: whichever server is asked, each step
\* leaves the store alone or applies one client's request to it, at once and only once
\* (server.c:335-473).
IsOneStore ==
    /\ Map!KVInit
    /\ [][started' = Member /\ ~ overlapped' =>
            Map!KVNext \/ UNCHANGED Map!kvVars]_allVars

\* Every client is answered, unless a server panicked, a datagram was lost, or two
\* clients with the same transaction id waited at the same time: blocked servers do not
\* wait for each other, and no request goes around forever, also while servers join.
AnsweredOrPanic ==
    <>(\/ \A c \in Client : got[c] # NoReply
       \/ \E n \in Node : ~ alive[n]
       \/ lost > 0
       \/ overlapped)

-------------------------------------------------------------------------------
(* What a comment says and the code does not do. *)

\* server.c:452-454: "we expect that no message except the ones we sent are answered, if
\* someone else sent a message we panic", so that a client never receives what was
\* meant for another.
StrangersPanic == \A c \in Client : ReceivedOwn(c)
===============================================================================
