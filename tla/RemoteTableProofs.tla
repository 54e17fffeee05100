---------------------------- MODULE RemoteTableProofs ----------------------------
(***************************************************************************)
(* What repeated attempts cannot undo: for any number of clients, titles,  *)
(* retries, connections and kills, and whatever other programs send that   *)
(* leaves alone the titles of one client.                                  *)
(***************************************************************************)
EXTENDS RemoteTable, TLAPS

\* The keys that a request may change.
Touched(r) ==
    IF r.whole = "nothing" \/ r.action \cap {"set", "del"} = {} THEN {} ELSE KeyRead(r)

StrangersKeepOff ==
    /\ Strange \subseteq Request
    /\ \A r \in Strange, c \in Client : Touched(r) \cap Own(c) = {}

----------------------------------------------------------------------------
Program == Client \cup Stranger
Conn == [from : Program, req : Request, open : BOOLEAN]

\* The connections of c, by their place in the queue.
Mine(c) == {i \in DOMAIN queue : queue[i].from = c}

\* What a client sends is about one of its films; a stranger sends something strange.
Sent(conn) ==
    /\ conn.from \in Client =>
         /\ conn.req.action \in {{"set"}, {"get"}, {"del"}}
         /\ conn.req.key \in ToSet(Films[conn.from])
         /\ conn.req.value = conn.from /\ conn.req.whole = "all"
    /\ conn.from \notin Client => conn.req \in Strange

Types ==
    /\ table \in [Key \cup {NoKey} -> Value \cup {NoValue}]
    /\ queue \in Seq(Conn) /\ \A i \in DOMAIN queue : Sent(queue[i])
    /\ kills \in Nat
    /\ at \in [Client -> Nat \ {0}] /\ waiting \in [Client -> BOOLEAN]
    /\ DOMAIN status = Client /\ DOMAIN reply = Program

(***************************************************************************)
(* Only the connection of the attempt that waits is open, and no other of  *)
(* the client is behind it: when it is answered, none is left.             *)
(***************************************************************************)
OpenIsLast(c) ==
    /\ reply[c] # NoReply => waiting[c] /\ Mine(c) = {}
    /\ \A i \in Mine(c) : queue[i].open =>
         /\ waiting[c] /\ queue[i].req = build_request(c)
         /\ \A j \in Mine(c) : j =< i

\* What a successful operation leaves under its title.
Left(c, op) == IF op = "set" THEN c ELSE NoValue

(***************************************************************************)
(* From the answer to a set or a delete until the get that follows it has  *)
(* its own, the table has what the operation left.  A set is undone by a   *)
(* kill; a delete is not.                                                  *)
(***************************************************************************)
Answered(c, op) ==
    Busy(c) /\ Operation(at[c]) = op /\ Film(c, at[c]) \in Own(c)
    /\ reply[c] # NoReply /\ (op = "set" => kills = 0)
        => table[Film(c, at[c])] = Left(c, op)

Sure(c, op) == IF op = "set" THEN status[c] = "done" /\ kills = 0 ELSE status[c] # "failed"

GetAfter(c, op) ==
    /\ Busy(c) /\ at[c] > 1 /\ Film(c, at[c]) \in Own(c)
    /\ Operation(at[c]) = "get" /\ Operation(at[c] - 1) = op
    /\ Sure(c, op)

Settled(c, op) ==
    GetAfter(c, op) =>
        /\ table[Film(c, at[c])] = Left(c, op)
        /\ \A i \in Mine(c) : queue[i].req.action = {"get"}
        /\ reply[c].kind = "answer" =>
             /\ "get" \in reply[c].action <=> Left(c, op) # NoValue
             /\ reply[c].value = Left(c, op)

ClientOK(c) ==
    /\ OpenIsLast(c)
    /\ \A op \in {"set", "del"} : Answered(c, op) /\ Settled(c, op)

IInv == Types /\ \A c \in Client : ClientOK(c)

----------------------------------------------------------------------------
LEMMA Operations4 ==
    ASSUME NEW n \in Nat \ {0}
    PROVE  /\ Operation(n) \in {"set", "get", "del"}
           /\ Operation(n) = "get" => Operation(n + 1) # "get"
           /\ \A c : Operation(n) # "get" => Film(c, n + 1) = Film(c, n)
<1>1. Len(Script) = 4 /\ Script[1] = "set" /\ Script[2] = "get" /\ Script[3] = "del"
      /\ Script[4] = "get"
  BY DEF Script
<1>2. (n - 1) % 4 \in 0 .. 3 /\ n % 4 = (IF (n - 1) % 4 = 3 THEN 0 ELSE ((n - 1) % 4) + 1)
      /\ ((n - 1) % 4 # 3 => n \div 4 = (n - 1) \div 4)
  OBVIOUS
<1>3. n + 1 - 1 = n
  OBVIOUS
<1> HIDE DEF Script
<1>4. Operation(n) = Script[1 + ((n - 1) % 4)] /\ Operation(n + 1) = Script[1 + (n % 4)]
  BY <1>1, <1>3 DEF Operation
<1>5. \A c : Film(c, n) = Films[c][1 + ((n - 1) \div 4)] /\ Film(c, n + 1) = Films[c][1 + (n \div 4)]
  BY <1>1, <1>3 DEF Film
<1> QED  BY <1>1, <1>2, <1>4, <1>5

LEMMA FilmInList ==
    ASSUME NEW c \in Client, NEW n \in Nat \ {0}, n =< Operations(c)
    PROVE  Film(c, n) \in ToSet(Films[c]) /\ Film(c, n) \in Key
<1>1. Len(Script) = 4
  BY DEF Script
<1>2. Films[c] \in Seq(Key)
  BY RemoteTableAssumption
<1>3. 1 + ((n - 1) \div 4) \in 1 .. Len(Films[c])
  <2> DEFINE l == Len(Films[c])
  <2>1. l \in Nat /\ n =< 4 * l
    BY <1>1, <1>2 DEF Operations
  <2> HIDE DEF l
  <2>2. 1 + ((n - 1) \div 4) \in 1 .. l
    BY <2>1
  <2> QED  BY <2>2 DEF l
<1> QED  BY <1>1, <1>2, <1>3 DEF Film, ToSet

LEMMA Served ==
    ASSUME NEW S, NEW q \in Seq(S), 1 \in DOMAIN q
    PROVE  /\ RemoveAt(q, 1) \in Seq(S)
           /\ DOMAIN RemoveAt(q, 1) = 1 .. Len(q) - 1
           /\ \A i \in 1 .. Len(q) - 1 : i + 1 \in DOMAIN q /\ RemoveAt(q, 1)[i] = q[i + 1]
  BY DEF RemoveAt

(***************************************************************************)
(* A step that only lets connections leave the queue, from the front, does *)
(* not disturb a client, unless it changes the title that the client has   *)
(* settled.                                                                *)
(***************************************************************************)
Concerned(c) == reply[c] # NoReply \/ \E op \in {"set", "del"} : GetAfter(c, op)

LEMMA Undisturbed ==
    ASSUME NEW c \in Client, ClientOK(c), NEW s \in Nat,
           Types, kills' = kills, at'[c] = at[c], waiting'[c] = waiting[c],
           reply'[c] = reply[c], status'[c] = status[c],
           Concerned(c) /\ Film(c, at[c]) \in Own(c)
             => table'[Film(c, at[c])] = table[Film(c, at[c])],
           \A i \in Mine(c)' : i \in Int /\ i + s \in Mine(c) /\ queue'[i] = queue[i + s]
    PROVE  ClientOK(c)'
<1>1. OpenIsLast(c)'
  <2>1. reply'[c] # NoReply => waiting'[c] /\ Mine(c)' = {}
    BY DEF ClientOK, OpenIsLast
  <2>2. ASSUME NEW i \in Mine(c)', queue'[i].open
        PROVE  waiting'[c] /\ queue'[i].req = build_request(c)' /\ \A j \in Mine(c)' : j =< i
    <3>1. i + s \in Mine(c) /\ queue[i + s].open
      BY <2>2
    <3>2. waiting[c] /\ queue[i + s].req = build_request(c) /\ \A j \in Mine(c) : j =< i + s
      BY <3>1 DEF ClientOK, OpenIsLast
    <3>3. build_request(c)' = build_request(c)
      BY DEF build_request
    <3>4. ASSUME NEW j \in Mine(c)' PROVE j =< i
      <4>1. j + s =< i + s /\ j \in Int /\ i \in Int
        BY <3>2
      <4> QED  BY <4>1
    <3> QED  BY <3>2, <3>3, <3>4, <2>2
  <2> QED  BY <2>1, <2>2 DEF OpenIsLast
<1>2. ASSUME NEW op \in {"set", "del"} PROVE Answered(c, op)' /\ Settled(c, op)'
  <2>1. Answered(c, op) /\ Settled(c, op)
    BY DEF ClientOK
  <2>2. GetAfter(c, op)' <=> GetAfter(c, op)
    BY DEF GetAfter, Sure, Busy
  <2>3. Answered(c, op)'
    BY <2>1 DEF Answered, Concerned, Busy
  <2>4. ASSUME GetAfter(c, op) PROVE Settled(c, op)'
    <3>1. Film(c, at[c]) \in Own(c)
      BY <2>4 DEF GetAfter
    <3>2. table'[Film(c, at[c])] = Left(c, op)
      BY <2>1, <2>4, <3>1 DEF Settled, Concerned
    <3>3. \A i \in Mine(c)' : queue'[i].req.action = {"get"}
      BY <2>1, <2>4 DEF Settled
    <3> QED  BY <2>1, <2>4, <3>2, <3>3 DEF Settled
  <2> QED  BY <2>2, <2>3, <2>4 DEF Settled
<1> QED  BY <1>1, <1>2 DEF ClientOK

----------------------------------------------------------------------------
(***************************************************************************)
(* The queue after each kind of step.                                      *)
(***************************************************************************)
LEMMA ClosedQueue ==
    ASSUME Types, NEW p \in Program, queue' = Closed(p)
    PROVE  /\ queue' \in Seq(Conn) /\ DOMAIN queue' = DOMAIN queue
           /\ \A i \in DOMAIN queue : /\ queue'[i].from = queue[i].from
                                      /\ queue'[i].req = queue[i].req
                                      /\ queue[i].from = p => ~queue'[i].open
                                      /\ queue[i].from # p => queue'[i] = queue[i]
           /\ \A i \in DOMAIN queue : Sent(queue'[i])
<1>1. queue \in Seq(Conn) /\ \A i \in DOMAIN queue : queue[i] \in Conn
  BY DEF Types
<1>2. queue' = [i \in DOMAIN queue |-> IF queue[i].from = p THEN [queue[i] EXCEPT !.open = FALSE]
                                        ELSE queue[i]]
  BY DEF Closed
<1>3. ASSUME NEW i \in DOMAIN queue
      PROVE  /\ queue'[i] \in Conn
             /\ queue'[i].from = queue[i].from /\ queue'[i].req = queue[i].req
             /\ queue[i].from = p => ~queue'[i].open
             /\ queue[i].from # p => queue'[i] = queue[i]
  BY <1>1, <1>2 DEF Conn
<1>4. DOMAIN queue' = DOMAIN queue /\ queue' \in Seq(Conn)
  <2>1. DOMAIN queue = 1 .. Len(queue) /\ Len(queue) \in Nat
    BY <1>1
  <2> QED  BY <1>2, <1>3, <2>1
<1>5. ASSUME NEW i \in DOMAIN queue PROVE Sent(queue'[i])
  BY <1>3 DEF Sent, Types
<1> QED  BY <1>3, <1>4, <1>5

LEMMA LongerQueue ==
    ASSUME Types, NEW conn \in Conn, Sent(conn), queue' = Append(queue, conn)
    PROVE  /\ queue' \in Seq(Conn) /\ DOMAIN queue' = 1 .. Len(queue) + 1
           /\ DOMAIN queue = 1 .. Len(queue) /\ Len(queue) \in Nat
           /\ \A i \in DOMAIN queue : queue'[i] = queue[i]
           /\ queue'[Len(queue) + 1] = conn
           /\ \A i \in DOMAIN queue' : Sent(queue'[i])
<1>1. queue \in Seq(Conn)
  BY DEF Types
<1>2. /\ queue' \in Seq(Conn) /\ DOMAIN queue' = 1 .. Len(queue) + 1
      /\ DOMAIN queue = 1 .. Len(queue) /\ Len(queue) \in Nat
      /\ \A i \in DOMAIN queue : queue'[i] = queue[i]
      /\ queue'[Len(queue) + 1] = conn
  BY <1>1
<1>3. ASSUME NEW i \in DOMAIN queue' PROVE Sent(queue'[i])
  <2>1. CASE i \in DOMAIN queue
    BY <1>2, <2>1 DEF Types
  <2>2. CASE i = Len(queue) + 1
    BY <1>2, <2>2
  <2> QED  BY <1>2, <2>1, <2>2
<1> QED  BY <1>2, <1>3

LEMMA InitOK == ASSUME Init PROVE IInv
<1>1. Types
  <2>1. queue = <<>> /\ table = EmptyTable /\ kills = 0
    BY DEF Init
  <2>2. table \in [Key \cup {NoKey} -> Value \cup {NoValue}]
    BY <2>1 DEF EmptyTable
  <2> QED  BY <2>1, <2>2 DEF Init, Types, Program
<1>2. ASSUME NEW c \in Client PROVE ClientOK(c)
  <2>1. Mine(c) = {} /\ reply[c] = NoReply /\ at[c] = 1
    BY DEF Init, Mine
  <2> QED  BY <2>1 DEF ClientOK, OpenIsLast, Answered, Settled, GetAfter
<1> QED  BY <1>1, <1>2 DEF IInv

(***************************************************************************)
(* How an attempt ends.                                                    *)
(***************************************************************************)
LEMMA EndMoves ==
    ASSUME Types, NEW c \in Client, NEW result, End(c, result)
    PROVE  /\ at' \in [Client -> Nat \ {0}] /\ DOMAIN status' = Client
           /\ at'[c] = at[c] + 1 /\ status'[c] = result
           /\ \A d \in Client \ {c} : at'[d] = at[d] /\ status'[d] = status[d]
  BY DEF Types, End

LEMMA RetryMoves ==
    ASSUME Types, NEW c \in Client, Retry(c)
    PROVE  /\ at' \in [Client -> Nat \ {0}] /\ DOMAIN status' = Client
           /\ \/ at'[c] = at[c] /\ status'[c] = status[c]
              \/ at'[c] = at[c] + 1 /\ status'[c] = "failed"
           /\ \A d \in Client \ {c} : at'[d] = at[d] /\ status'[d] = status[d]
<1>1. CASE attempt[c] < RETRIES
  BY <1>1 DEF Types, Retry
<1>2. CASE ~(attempt[c] < RETRIES)
  BY <1>2, EndMoves DEF Retry
<1> QED  BY <1>1, <1>2

(***************************************************************************)
(* A client that gives up its attempt, or had none, and has no answer.     *)
(***************************************************************************)
LEMMA Unanswered ==
    ASSUME IInv, NEW c \in Client, Retry(c), kills' = kills, table' = table,
           reply'[c] = NoReply,
           \A i \in Mine(c)' : /\ i \in Mine(c) /\ queue'[i].req = queue[i].req
                               /\ ~queue'[i].open
    PROVE  ClientOK(c)'
<1>1. Types /\ ClientOK(c)
  BY DEF IInv
<1>2. OpenIsLast(c)'
  BY DEF OpenIsLast
<1>3. ASSUME NEW op \in {"set", "del"} PROVE Answered(c, op)' /\ Settled(c, op)'
  <2>1. Answered(c, op)'
    BY DEF Answered
  <2>2. CASE at'[c] = at[c] /\ status'[c] = status[c]
    <3>1. GetAfter(c, op)' <=> GetAfter(c, op)
      BY <2>2 DEF GetAfter, Sure, Busy
    <3>2. Settled(c, op)
      BY <1>1 DEF ClientOK
    <3> QED  BY <2>1, <2>2, <3>1, <3>2 DEF Settled, NoReply
  <2>3. CASE status'[c] = "failed"
    BY <2>1, <2>3 DEF Settled, GetAfter, Sure
  <2> QED  BY <1>1, <2>2, <2>3, RetryMoves
<1> QED  BY <1>2, <1>3 DEF ClientOK

----------------------------------------------------------------------------
(***************************************************************************)
(* The steps of the clients and of the strangers.                          *)
(***************************************************************************)
LEMMA ConnectOK == ASSUME IInv, NEW d \in Client, Connect(d) PROVE IInv'
<1> DEFINE conn == Connection(d, build_request(d))
<1>1. Types /\ Busy(d) /\ ~waiting[d] /\ ClientOK(d)
  BY DEF IInv, Connect
<1>2. at[d] \in Nat \ {0} /\ at[d] =< Operations(d)
  <2>1. at[d] \in Nat \ {0}
    BY <1>1 DEF Types
  <2> QED  BY <1>1, <2>1 DEF Busy
<1>3. Operation(at[d]) \in {"set", "get", "del"} /\ Film(d, at[d]) \in ToSet(Films[d])
      /\ Film(d, at[d]) \in Key
  BY <1>2, Operations4, FilmInList
<1>4. conn \in Conn /\ Sent(conn)
  BY <1>3 DEF build_request, Connection, Conn, Sent, Program, Request, Value, Part
<1>5. queue' = Append(queue, conn) /\ waiting' = [waiting EXCEPT ![d] = TRUE]
      /\ UNCHANGED <<table, up, kills, at, attempt, status, reply>>
  BY DEF Connect
<1>6. conn.from = d /\ conn.req = build_request(d)
  BY DEF Connection
<1> HIDE DEF conn
<1>7. /\ queue' \in Seq(Conn) /\ DOMAIN queue' = 1 .. Len(queue) + 1
      /\ DOMAIN queue = 1 .. Len(queue) /\ Len(queue) \in Nat
      /\ \A i \in DOMAIN queue : queue'[i] = queue[i]
      /\ queue'[Len(queue) + 1] = conn
      /\ \A i \in DOMAIN queue' : Sent(queue'[i])
  BY <1>1, <1>4, <1>5, LongerQueue
<1>8. Types'
  BY <1>1, <1>5, <1>7 DEF Types
<1>9. ASSUME NEW c \in Client, c # d PROVE ClientOK(c)'
  <2>1. \A i \in Mine(c)' : i \in Int /\ i + 0 \in Mine(c) /\ queue'[i] = queue[i + 0]
    BY <1>6, <1>7, <1>9 DEF Mine
  <2>2. waiting'[c] = waiting[c] /\ ClientOK(c)
    BY <1>1, <1>5, <1>9 DEF Types, IInv
  <2> QED  BY <1>1, <1>5, <2>1, <2>2, Undisturbed
<1>10. ClientOK(d)'
  <2>1. reply[d] = NoReply /\ \A i \in Mine(d) : ~queue[i].open
    BY <1>1 DEF ClientOK, OpenIsLast
  <2>2. Mine(d)' = Mine(d) \cup {Len(queue) + 1} /\ Mine(d) \subseteq 1 .. Len(queue)
    BY <1>6, <1>7 DEF Mine
  <2>3. waiting'[d] /\ reply'[d] = NoReply
    BY <1>1, <1>5, <2>1 DEF Types
  <2>4. build_request(d)' = build_request(d)
    BY <1>5 DEF build_request
  <2>5. OpenIsLast(d)'
    <3>1. ASSUME NEW i \in Mine(d)', queue'[i].open
          PROVE  waiting'[d] /\ queue'[i].req = build_request(d)' /\ \A j \in Mine(d)' : j =< i
      <4>1. i = Len(queue) + 1
        BY <1>7, <2>1, <2>2, <3>1
      <4> QED  BY <1>6, <1>7, <2>2, <2>3, <2>4, <4>1
    <3> QED  BY <2>3, <3>1 DEF OpenIsLast
  <2>6. ASSUME NEW op \in {"set", "del"} PROVE Answered(d, op)' /\ Settled(d, op)'
    <3>1. Settled(d, op)
      BY <1>1 DEF ClientOK
    <3>2. GetAfter(d, op)' <=> GetAfter(d, op)
      BY <1>5 DEF GetAfter, Sure, Busy
    <3>3. GetAfter(d, op) => conn.req.action = {"get"}
      BY <1>6 DEF GetAfter, build_request
    <3>4. GetAfter(d, op) => \A i \in Mine(d)' : queue'[i].req.action = {"get"}
      BY <1>7, <2>2, <3>1, <3>3 DEF Settled
    <3> QED  BY <1>5, <2>1, <3>1, <3>2, <3>4 DEF Settled, Answered, NoReply
  <2> QED  BY <2>5, <2>6 DEF ClientOK
<1> QED  BY <1>8, <1>9, <1>10 DEF IInv

LEMMA ConnectFailsOK == ASSUME IInv, NEW d \in Client, ConnectFails(d) PROVE IInv'
<1>1. Types /\ ~waiting[d] /\ ClientOK(d) /\ Retry(d)
      /\ UNCHANGED <<table, queue, up, kills, waiting, reply>>
  BY DEF IInv, ConnectFails, serverVars
<1>2. Types'
  BY <1>1, RetryMoves DEF Types
<1>3. ASSUME NEW c \in Client, c # d PROVE ClientOK(c)'
  <2>1. \A i \in Mine(c)' : i \in Int /\ i + 0 \in Mine(c) /\ queue'[i] = queue[i + 0]
    BY <1>1 DEF Mine, Types
  <2>2. at'[c] = at[c] /\ status'[c] = status[c] /\ ClientOK(c)
    BY <1>1, <1>3, RetryMoves DEF IInv
  <2> QED  BY <1>1, <2>1, <2>2, Undisturbed
<1>4. ClientOK(d)'
  <2>1. reply[d] = NoReply /\ \A i \in Mine(d) : ~queue[i].open
    BY <1>1 DEF ClientOK, OpenIsLast
  <2> QED  BY <1>1, <2>1, Unanswered DEF Mine
<1> QED  BY <1>2, <1>3, <1>4 DEF IInv

LEMMA TimeOutOK == ASSUME IInv, NEW d \in Client, TimeOut(d) PROVE IInv'
<1>1. Types /\ reply[d] = NoReply /\ queue' = Closed(d) /\ Retry(d)
      /\ waiting' = [waiting EXCEPT ![d] = FALSE] /\ UNCHANGED <<table, up, kills, reply>>
  BY DEF IInv, TimeOut
<1>2. d \in Program
  BY DEF Program
<1>3. /\ queue' \in Seq(Conn) /\ DOMAIN queue' = DOMAIN queue
      /\ \A i \in DOMAIN queue : /\ queue'[i].from = queue[i].from
                                 /\ queue'[i].req = queue[i].req
                                 /\ queue[i].from = d => ~queue'[i].open
                                 /\ queue[i].from # d => queue'[i] = queue[i]
      /\ \A i \in DOMAIN queue : Sent(queue'[i])
  BY <1>1, <1>2, ClosedQueue
<1>4. Types'
  BY <1>1, <1>3, RetryMoves DEF Types
<1>5. ASSUME NEW c \in Client, c # d PROVE ClientOK(c)'
  <2>1. ASSUME NEW i \in Mine(c)' PROVE i \in Int /\ i + 0 \in Mine(c) /\ queue'[i] = queue[i + 0]
    <3>1. i \in DOMAIN queue /\ queue'[i].from = c
      BY <1>3 DEF Mine
    <3>2. queue[i].from = c /\ queue'[i] = queue[i]
      BY <1>3, <1>5, <3>1
    <3> QED  BY <1>1, <3>1, <3>2 DEF Mine, Types
  <2>2. at'[c] = at[c] /\ status'[c] = status[c] /\ waiting'[c] = waiting[c] /\ ClientOK(c)
    BY <1>1, <1>5, RetryMoves DEF IInv, Types
  <2> QED  BY <1>1, <2>1, <2>2, Undisturbed
<1>6. ClientOK(d)'
  <2>1. ASSUME NEW i \in Mine(d)'
        PROVE  i \in Mine(d) /\ queue'[i].req = queue[i].req /\ ~queue'[i].open
    <3>1. i \in DOMAIN queue /\ queue'[i].from = d
      BY <1>3 DEF Mine
    <3>2. queue[i].from = d /\ queue'[i].req = queue[i].req /\ ~queue'[i].open
      BY <1>3, <3>1
    <3> QED  BY <3>1, <3>2 DEF Mine
  <2> QED  BY <1>1, <2>1, Unanswered
<1> QED  BY <1>4, <1>5, <1>6 DEF IInv

LEMMA StrangerConnectsOK ==
    ASSUME IInv, StrangersKeepOff, NEW p \in Stranger, StrangerConnects(p) PROVE IInv'
<1>1. Types /\ reply' = [reply EXCEPT ![p] = NoReply]
      /\ UNCHANGED <<table, up, kills, at, attempt, waiting, status>>
  BY DEF IInv, StrangerConnects, clientVars
<1>2. p \notin Client
  BY RemoteTableAssumption
<1>3. PICK r \in Strange : queue' = Append(queue, Connection(p, r))
  BY DEF StrangerConnects
<1> DEFINE conn == Connection(p, r)
<1>4. conn \in Conn /\ Sent(conn) /\ conn.from = p
  BY <1>2 DEF Connection, Conn, Sent, Program, StrangersKeepOff
<1> HIDE DEF conn
<1>5. queue' = Append(queue, conn)
  BY <1>3 DEF conn
<1>6. /\ queue' \in Seq(Conn) /\ DOMAIN queue' = 1 .. Len(queue) + 1
      /\ DOMAIN queue = 1 .. Len(queue) /\ Len(queue) \in Nat
      /\ \A i \in DOMAIN queue : queue'[i] = queue[i]
      /\ queue'[Len(queue) + 1] = conn
      /\ \A i \in DOMAIN queue' : Sent(queue'[i])
  BY <1>1, <1>4, <1>5, LongerQueue
<1>7. Types'
  BY <1>1, <1>6 DEF Types
<1>8. ASSUME NEW c \in Client PROVE ClientOK(c)'
  <2>1. c # p /\ reply'[c] = reply[c] /\ ClientOK(c)
    BY <1>1, <1>2 DEF Types, IInv, Program
  <2>2. \A i \in Mine(c)' : i \in Int /\ i + 0 \in Mine(c) /\ queue'[i] = queue[i + 0]
    BY <1>4, <1>6, <2>1 DEF Mine
  <2> QED  BY <1>1, <2>1, <2>2, Undisturbed
<1> QED  BY <1>7, <1>8 DEF IInv

LEMMA HangUpOK == ASSUME IInv, NEW p \in Stranger, HangUp(p) PROVE IInv'
<1>1. Types /\ queue' = Closed(p)
      /\ UNCHANGED <<table, up, kills, at, attempt, waiting, status, reply>>
  BY DEF IInv, HangUp, clientVars
<1>2. p \in Program /\ p \notin Client
  BY RemoteTableAssumption DEF Program
<1>3. /\ queue' \in Seq(Conn) /\ DOMAIN queue' = DOMAIN queue
      /\ \A i \in DOMAIN queue : queue'[i].from = queue[i].from
                                /\ (queue[i].from # p => queue'[i] = queue[i])
      /\ \A i \in DOMAIN queue : Sent(queue'[i])
  BY <1>1, <1>2, ClosedQueue
<1>4. Types'
  BY <1>1, <1>3 DEF Types
<1>5. ASSUME NEW c \in Client PROVE ClientOK(c)'
  <2>1. \A i \in Mine(c)' : i \in Int /\ i + 0 \in Mine(c) /\ queue'[i] = queue[i + 0]
    BY <1>1, <1>2, <1>3 DEF Mine, Types
  <2>2. ClientOK(c)
    BY DEF IInv
  <2> QED  BY <1>1, <2>1, <2>2, Undisturbed
<1> QED  BY <1>4, <1>5 DEF IInv

\* The operation whose answer the client takes is a set or a delete, the next one the get.
LEMMA ReceiveOK == ASSUME IInv, NEW d \in Client, Receive(d) PROVE IInv'
<1>1. Types /\ waiting[d] /\ reply[d] # NoReply /\ ClientOK(d)
  BY DEF IInv, Receive
<1>2. /\ waiting' = [waiting EXCEPT ![d] = FALSE]
      /\ reply' = [reply EXCEPT ![d] = NoReply]
      /\ UNCHANGED <<table, queue, up, kills>>
  BY DEF Receive, serverVars
<1>3. Mine(d) = {}
  BY <1>1 DEF ClientOK, OpenIsLast
<1>4. Mine(d)' = {} /\ reply'[d] = NoReply
  BY <1>1, <1>2, <1>3 DEF Mine, Types, Program
<1>5. Retry(d) \/ \E result \in {"done", "unknown"} : End(d, result)
  BY DEF Receive
<1>6. /\ at' \in [Client -> Nat \ {0}] /\ DOMAIN status' = Client
      /\ \A c \in Client \ {d} : at'[c] = at[c] /\ status'[c] = status[c]
  BY <1>1, <1>5, EndMoves, RetryMoves
<1>7. Types'
  BY <1>1, <1>2, <1>6 DEF Types
<1>8. ASSUME NEW c \in Client, c # d PROVE ClientOK(c)'
  <2>1. \A i \in Mine(c)' : i \in Int /\ i + 0 \in Mine(c) /\ queue'[i] = queue[i + 0]
    BY <1>1, <1>2 DEF Mine, Types
  <2>2. /\ at'[c] = at[c] /\ status'[c] = status[c] /\ waiting'[c] = waiting[c]
        /\ reply'[c] = reply[c] /\ ClientOK(c)
    BY <1>1, <1>2, <1>6, <1>8 DEF IInv, Types, Program
  <2> QED  BY <1>1, <1>2, <2>1, <2>2, Undisturbed
<1>9. ClientOK(d)'
  <2>1. CASE Retry(d)
    BY <1>2, <1>4, <2>1, Unanswered
  <2>2. ASSUME NEW result \in {"done", "unknown"}, End(d, result) PROVE ClientOK(d)'
    <3>1. OpenIsLast(d)'
      BY <1>4 DEF OpenIsLast
    <3>2. at'[d] = at[d] + 1 /\ status'[d] = result /\ at[d] \in Nat \ {0}
      BY <1>1, <2>2, EndMoves DEF Types
    <3>3. ASSUME NEW op \in {"set", "del"}, GetAfter(d, op)' PROVE Settled(d, op)'
      <4>1. Operation(at[d]) = op /\ Film(d, at'[d]) = Film(d, at[d])
        <5>1. at'[d] - 1 = at[d]
          BY <3>2
        <5>2. Operation(at[d]) = op
          BY <3>3, <5>1 DEF GetAfter
        <5> QED  BY <3>2, <5>2, Operations4
      <4>2. Busy(d) /\ Film(d, at[d]) \in Own(d)
        <5>1. at[d] + 1 =< Operations(d) /\ Film(d, at'[d]) \in Own(d)
          BY <3>2, <3>3 DEF GetAfter, Busy
        <5>2. Operations(d) \in Int
          BY RemoteTableAssumption DEF Operations, Script
        <5> QED  BY <3>2, <4>1, <5>1, <5>2 DEF Busy
      <4>3. op = "set" => kills = 0
        BY <1>2, <3>3 DEF GetAfter, Sure
      <4>4. table[Film(d, at[d])] = Left(d, op)
        BY <1>1, <4>1, <4>2, <4>3 DEF ClientOK, Answered
      <4> QED  BY <1>2, <1>4, <4>1, <4>4 DEF Settled, NoReply
    <3>4. ASSUME NEW op \in {"set", "del"} PROVE Answered(d, op)' /\ Settled(d, op)'
      BY <1>4, <3>3 DEF Answered, Settled
    <3> QED  BY <3>1, <3>4 DEF ClientOK
  <2> QED  BY <1>5, <2>1, <2>2
<1> QED  BY <1>7, <1>8, <1>9 DEF IInv

----------------------------------------------------------------------------
(***************************************************************************)
(* The server takes the first connection: what serving it does to a client.*)
(***************************************************************************)
LEMMA KillOK == ASSUME IInv, Kill PROVE IInv'
<1>1. Types /\ queue' = <<>> /\ table' = EmptyTable /\ kills' = kills + 1
      /\ UNCHANGED <<at, attempt, waiting, status>>
  BY DEF IInv, Kill, clientVars
<1>2. /\ DOMAIN reply' = Program
      /\ \A p \in Program :
           \/ reply'[p] = reply[p]
           \/ /\ \E i \in Mine(p) : queue[i].open
              /\ reply'[p].kind # "answer"
  <2>1. PICK how \in {"closed", "reset"} :
          reply' = [p \in DOMAIN reply |->
                     IF \E i \in DOMAIN queue : queue[i].from = p /\ queue[i].open
                        THEN [kind |-> IF p = queue[1].from /\ queue[1].open THEN how ELSE "reset"]
                        ELSE reply[p]]
    BY DEF Kill
  <2>2. DOMAIN reply = Program
    BY <1>1 DEF Types
  <2> QED  BY <2>1, <2>2 DEF Mine
<1>3. Types'
  <2>1. EmptyTable \in [Key \cup {NoKey} -> Value \cup {NoValue}]
    BY DEF EmptyTable
  <2> QED  BY <1>1, <1>2, <2>1 DEF Types
<1>4. ASSUME NEW c \in Client PROVE ClientOK(c)'
  <2>1. Mine(c)' = {} /\ c \in Program /\ ClientOK(c)
    BY <1>1 DEF Mine, Program, IInv
  <2>2. reply'[c] # NoReply => waiting'[c]
    BY <1>1, <1>2, <2>1 DEF ClientOK, OpenIsLast
  <2>3. OpenIsLast(c)'
    BY <2>1, <2>2 DEF OpenIsLast
  <2>4. kills' # 0
    BY <1>1 DEF Types
  <2>5. Film(c, at[c]) \in Own(c) => table'[Film(c, at[c])] = NoValue
    <3>1. Own(c) \subseteq Key
      BY RemoteTableAssumption DEF Own, ToSet
    <3> QED  BY <1>1, <3>1 DEF EmptyTable
  <2>6. ASSUME NEW op \in {"set", "del"} PROVE Answered(c, op)' /\ Settled(c, op)'
    <3>1. CASE op = "set"
      BY <2>4, <3>1 DEF Answered, Settled, GetAfter, Sure
    <3>2. CASE op = "del"
      <4>1. Answered(c, op)'
        BY <1>1, <2>5, <3>2 DEF Answered, Left
      <4>2. GetAfter(c, op)' => GetAfter(c, op) /\ Film(c, at[c]) \in Own(c)
        BY <1>1, <3>2 DEF GetAfter, Sure, Busy
      <4>3. reply'[c].kind = "answer" => reply'[c] = reply[c]
        BY <1>2, <2>1
      <4>4. Settled(c, op)
        BY <2>1 DEF ClientOK
      <4> QED  BY <1>1, <2>1, <2>5, <3>2, <4>1, <4>2, <4>3, <4>4 DEF Settled, Left
    <3> QED  BY <3>1, <3>2
  <2> QED  BY <2>3, <2>6 DEF ClientOK
<1> QED  BY <1>3, <1>4 DEF IInv

LEMMA UnchangedOK ==
    ASSUME IInv, UNCHANGED <<table, queue, kills, at, waiting, status, reply>> PROVE IInv'
<1>1. Types /\ Types'
  BY DEF IInv, Types
<1>2. ASSUME NEW c \in Client PROVE ClientOK(c)'
  <2>1. \A i \in Mine(c)' : i \in Int /\ i + 0 \in Mine(c) /\ queue'[i] = queue[i + 0]
    BY <1>1 DEF Mine, Types
  <2> QED  BY <1>1, <2>1, Undisturbed DEF IInv
<1> QED  BY <1>1, <1>2 DEF IInv

LEMMA RestartOK == ASSUME IInv, Restart PROVE IInv'
  BY UnchangedOK DEF Restart, clientVars

\* A request that only reads, or about another title, leaves a title alone.
LEMMA UntouchedTable ==
    ASSUME Types, NEW r \in Request, NEW k \in KeyRead(r), NEW v, NEW film \in Key,
           table' = [table EXCEPT ![k] = After(k, v, r)],
           r.whole # "nothing", film \notin Touched(r)
    PROVE  table'[film] = table[film]
<1>1. CASE r.action \cap {"set", "del"} = {}
  <2>1. After(k, v, r) = table[k]
    BY <1>1 DEF After
  <2> QED  BY <2>1 DEF Types
<1>2. CASE r.action \cap {"set", "del"} # {}
  <2>1. film # k
    BY <1>2 DEF Touched
  <2> QED  BY <2>1 DEF Types
<1> QED  BY <1>1, <1>2

LEMMA ServeOK == ASSUME IInv, StrangersKeepOff, Serve PROVE IInv'
<1> DEFINE conn == queue[1]
           r == conn.req
<1>1. Types /\ UNCHANGED <<kills, at, waiting, status>>
  BY DEF IInv, Serve, clientVars
<1>2. 1 \in DOMAIN queue /\ queue' = RemoveAt(queue, 1)
  BY DEF Serve, Accepted
<1>3. \/ /\ r.whole = "nothing"
         /\ UNCHANGED table
         /\ reply' = [reply EXCEPT ![conn.from] = IF conn.open THEN [kind |-> "closed"] ELSE @]
      \/ /\ r.whole # "nothing"
         /\ \E k \in KeyRead(r), v \in ValueRead(r) :
              /\ table' = [table EXCEPT ![k] = After(k, v, r)]
              /\ reply' = [reply EXCEPT ![conn.from] = IF conn.open THEN Answer(k, v, r) ELSE @]
  BY DEF Serve, Accepted
<1>4. conn \in Conn /\ Sent(conn) /\ r \in Request
  <2>1. conn \in Conn /\ Sent(conn)
    <3>1. queue \in Seq(Conn) /\ \A i \in DOMAIN queue : Sent(queue[i])
      BY <1>1 DEF Types
    <3> QED  BY <1>2, <3>1
  <2> QED  BY <2>1 DEF Conn
<1>5. /\ queue' \in Seq(Conn)
      /\ DOMAIN queue' = 1 .. Len(queue) - 1
      /\ \A i \in 1 .. Len(queue) - 1 : i + 1 \in DOMAIN queue /\ queue'[i] = queue[i + 1]
  BY <1>1, <1>2, Served DEF Types
<1>6. Types'
  <2>1. DOMAIN reply' = Program
    BY <1>1, <1>3 DEF Types
  <2>2. table' \in [Key \cup {NoKey} -> Value \cup {NoValue}]
    <3>1. ASSUME NEW k \in KeyRead(r), NEW v \in ValueRead(r),
                 table' = [table EXCEPT ![k] = After(k, v, r)]
          PROVE  table' \in [Key \cup {NoKey} -> Value \cup {NoValue}]
      <4>1. k \in Key \cup {NoKey} /\ v \in Value
        BY <1>4 DEF KeyRead, ValueRead, Request
      <4>2. After(k, v, r) \in Value \cup {NoValue}
        BY <1>1, <4>1 DEF After, Types
      <4> QED  BY <1>1, <3>1, <4>2 DEF Types
    <3> QED  BY <1>1, <1>3, <3>1 DEF Types
  <2>3. \A i \in DOMAIN queue' : Sent(queue'[i])
    BY <1>1, <1>5 DEF Types
  <2> QED  BY <1>1, <1>5, <2>1, <2>2, <2>3 DEF Types
<1>7. ASSUME NEW c \in Client PROVE ClientOK(c)'
  <2> DEFINE film == Film(c, at[c])
  <2>1. ClientOK(c) /\ c \in Program
    BY DEF IInv, Program
  <2>2. \A i \in Mine(c)' : i \in Int /\ i + 1 \in Mine(c) /\ queue'[i] = queue[i + 1]
    BY <1>5 DEF Mine
  <2>3. Own(c) \subseteq Key
    BY RemoteTableAssumption DEF Own, ToSet
  <2>4. CASE conn.from # c \/ ~conn.open
    <3>1. reply'[c] = reply[c]
      BY <1>1, <1>3, <2>1, <2>4 DEF Types
    <3>2. ASSUME Concerned(c), film \in Own(c) PROVE table'[film] = table[film]
      <4>1. CASE r.whole = "nothing"
        BY <1>3, <4>1
      <4>2. CASE r.whole # "nothing"
        <5>1. film \notin Touched(r)
          <6>1. CASE conn.from = c
            <7>1. reply[c] = NoReply
              BY <1>2, <2>1, <6>1 DEF ClientOK, OpenIsLast, Mine
            <7>2. r.action = {"get"}
              BY <1>2, <2>1, <3>2, <6>1, <7>1 DEF Concerned, ClientOK, Settled, Mine
            <7> QED  BY <7>2 DEF Touched
          <6>2. CASE conn.from \in Client \ {c}
            <7>1. r.key \in ToSet(Films[conn.from]) /\ r.whole = "all"
              BY <1>4, <6>2 DEF Sent
            <7>2. r.key \notin Own(c) /\ KeyRead(r) = {r.key}
              BY <6>2, <7>1 DEF Own, KeyRead
            <7> QED  BY <3>2, <7>2 DEF Touched
          <6>3. CASE conn.from \notin Client
            BY <1>4, <3>2, <6>3 DEF Sent, StrangersKeepOff
          <6> QED  BY <6>1, <6>2, <6>3
        <5> HIDE DEF film, r, conn
        <5> QED  BY <1>1, <1>3, <1>4, <2>3, <3>2, <4>2, <5>1, UntouchedTable
      <4> QED  BY <4>1, <4>2
    <3> QED  BY <1>1, <2>1, <2>2, <3>1, <3>2, Undisturbed
  <2>5. CASE conn.from = c /\ conn.open
    <3>1. /\ waiting[c] /\ r = build_request(c) /\ Mine(c) \subseteq {1} /\ reply[c] = NoReply
      <4>1. 1 \in Mine(c) /\ \A j \in Mine(c) : j \in Nat /\ j >= 1
        BY <1>1, <1>2, <2>5 DEF Mine, Types
      <4>2. waiting[c] /\ r = build_request(c) /\ \A j \in Mine(c) : j =< 1
        BY <2>1, <2>5, <4>1 DEF ClientOK, OpenIsLast
      <4> QED  BY <2>1, <4>1, <4>2 DEF ClientOK, OpenIsLast
    <3>2. Mine(c)' = {}
      <4>1. ASSUME NEW i \in Mine(c)' PROVE FALSE
        BY <1>5, <2>2, <3>1 DEF Mine
      <4> QED  BY <4>1
    <3>3. OpenIsLast(c)'
      BY <1>1, <3>1, <3>2 DEF OpenIsLast
    <3>4. /\ r.action = {Operation(at[c])} /\ r.key = film /\ r.value = c /\ r.whole = "all"
          /\ film \in Key
      <4>1. r.key \in Key
        BY <1>4, <2>5, RemoteTableAssumption DEF Sent, ToSet
      <4> QED  BY <3>1, <4>1 DEF build_request
    <3>5. KeyRead(r) = {film} /\ ValueRead(r) = {c}
      BY <3>4, RemoteTableAssumption DEF KeyRead, ValueRead
    <3>6. /\ table' = [table EXCEPT ![film] = After(film, c, r)]
          /\ reply'[c] = Answer(film, c, r)
      BY <1>1, <1>3, <2>1, <2>5, <3>4, <3>5 DEF Types
    <3>7. table'[film] = After(film, c, r)
      BY <1>1, <3>4, <3>6 DEF Types
    <3> HIDE DEF r, conn, film
    <3>8. ASSUME NEW op \in {"set", "del"} PROVE Answered(c, op)' /\ Settled(c, op)'
      <4>1. CASE Operation(at[c]) = op
        <5>1. table'[film] = Left(c, op)
          BY <3>4, <3>7, <4>1 DEF After, Left
        <5> QED  BY <1>1, <4>1, <5>1 DEF Answered, Settled, GetAfter, film
      <4>2. CASE GetAfter(c, op)
        <5>1. Operation(at[c]) = "get" /\ table[film] = Left(c, op)
          BY <2>1, <4>2 DEF GetAfter, ClientOK, Settled, film
        <5>2. table'[film] = Left(c, op) /\ After(film, c, r) = Left(c, op)
          BY <3>4, <3>7, <5>1 DEF After
        <5>3. /\ "get" \in reply'[c].action <=> Left(c, op) # NoValue
              /\ reply'[c].value = Left(c, op)
          BY <3>4, <3>6, <5>1, <5>2 DEF Answer, Acknowledged
        <5> QED  BY <1>1, <3>2, <5>1, <5>2, <5>3 DEF Answered, Settled, film
      <4>3. CASE Operation(at[c]) # op /\ ~GetAfter(c, op)
        BY <1>1, <4>3 DEF Answered, Settled, GetAfter, Sure, Busy
      <4> QED  BY <4>1, <4>2, <4>3
    <3> QED  BY <3>3, <3>8 DEF ClientOK
  <2> QED  BY <2>4, <2>5
<1> QED  BY <1>6, <1>7 DEF IInv

----------------------------------------------------------------------------
THEOREM Inductive ==
    ASSUME StrangersKeepOff PROVE Spec => []IInv
<1>1. IInv /\ [Next]_rtVars => IInv'
  <2> SUFFICES ASSUME IInv, [Next]_rtVars PROVE IInv'
    OBVIOUS
  <2>1. ASSUME NEW c \in Client, ClientStep(c) PROVE IInv'
    BY <2>1, ConnectOK, ConnectFailsOK, TimeOutOK, ReceiveOK DEF ClientStep
  <2>2. ASSUME NEW p \in Stranger, StrangerConnects(p) \/ HangUp(p) PROVE IInv'
    BY <2>2, StrangerConnectsOK, HangUpOK
  <2>3. CASE Serve \/ Kill \/ Restart
    BY <2>3, ServeOK, KillOK, RestartOK
  <2>4. CASE UNCHANGED rtVars
    BY <2>4, UnchangedOK DEF rtVars, serverVars, clientVars
  <2> QED  BY <2>1, <2>2, <2>3, <2>4 DEF Next
<1> QED  BY <1>1, InitOK, PTL DEF Spec

(***************************************************************************)
(* A film that was reported as deleted is not found (client.c:387-396),    *)
(* however many attempts timed out before and whenever the server is       *)
(* killed, provided that nobody else sets it.                              *)
(***************************************************************************)
THEOREM NotFoundAfterDeleteTheorem ==
    ASSUME StrangersKeepOff PROVE Spec => []NotFoundAfterDelete
<1>1. IInv => NotFoundAfterDelete
  <2> SUFFICES ASSUME IInv, NEW c \in Client, AnswersGetAfter(c, "del"), status[c] # "failed"
               PROVE  ~Performed(c)
    BY DEF NotFoundAfterDelete
  <2>1. GetAfter(c, "del") /\ Settled(c, "del")
    BY DEF AnswersGetAfter, GetAfter, Sure, IInv, ClientOK
  <2>2. "get" \notin reply[c].action
    BY <2>1 DEF Settled, AnswersGetAfter, Left
  <2> QED  BY <2>2 DEF Performed, AnswersGetAfter
<1> QED  BY <1>1, Inductive, PTL

(***************************************************************************)
(* A film that was reported as set is found, with the value set            *)
(* (client.c:360-378), as long as the server was not killed.               *)
(***************************************************************************)
THEOREM FoundAfterSetTheorem ==
    ASSUME StrangersKeepOff PROVE Spec => []FoundAfterSet
<1>1. IInv => FoundAfterSet
  <2> SUFFICES ASSUME IInv, NEW c \in Client, AnswersGetAfter(c, "set"),
                      status[c] = "done", kills = 0
               PROVE  Performed(c) /\ reply[c].value = c
    BY DEF FoundAfterSet
  <2>1. GetAfter(c, "set") /\ Settled(c, "set")
    BY DEF AnswersGetAfter, GetAfter, Sure, IInv, ClientOK
  <2>2. c # NoValue
    BY RemoteTableAssumption
  <2>3. "get" \in reply[c].action /\ reply[c].value = c
    BY <2>1, <2>2 DEF Settled, AnswersGetAfter, Left
  <2> QED  BY <2>3 DEF Performed, AnswersGetAfter
<1> QED  BY <1>1, Inductive, PTL
===============================================================================
