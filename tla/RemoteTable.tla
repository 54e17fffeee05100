------------------------------ MODULE RemoteTable ------------------------------
(***************************************************************************)
(* The key-value server over TCP ("Distributed Hash Table/server.c") and   *)
(* the film client that works with it ("Movie Parser/client.c").           *)
(*                                                                         *)
(* The server takes one connection after the other and reads it without a  *)
(* timeout.  The client opens a connection for each attempt, waits two     *)
(* seconds for the answer and tries five times; an attempt it has given up *)
(* stays in the listen queue and is served later.  Other programs may      *)
(* connect too, and send a part of a request or nothing.                   *)
(***************************************************************************)
EXTENDS Integers, Sequences, FiniteSets, SequencesExt

CONSTANTS Client,    \* processes of the film client
          Stranger,  \* other programs that connect
          Key,       \* titles
          NoKey,     \* the key of a request with key_len 0
          NoValue,   \* what the table has under a key that is not there
          Films,     \* the films each client works through
          Strange,   \* the requests strangers send
          RETRIES,   \* attempts for one request
          Backlog,   \* connections that wait or are being served
          MaxKills   \* how often somebody kills the server

ASSUME RemoteTableAssumption ==
    /\ Films \in [Client -> Seq(Key)]
    /\ RETRIES \in Nat \ {0} /\ Backlog \in Nat /\ MaxKills \in Nat
    /\ NoKey \notin Key /\ Client \cap Stranger = {}
    /\ NoValue \notin Client \cup Stranger

(***************************************************************************)
(* The film that a client sets has the client's own fields: a value is     *)
(* named by who set it.  "whole" says how much of a request arrives before *)
(* its sender stops: less than the header, less than the key or the value  *)
(* it announces, or all.                                                   *)
(***************************************************************************)
Value == Client \cup Stranger
Part == {"nothing", "no key", "no value", "all"}
Request == [action : SUBSET {"del", "set", "get"}, key : Key \cup {NoKey},
            value : Value, whole : Part]

VARIABLES table,    \* server: what is under each key
          queue,    \* connections, the first is being served
          up,       \* the server process is there
          kills,    \* how often it was killed
          at,       \* client: the current operation
          attempt,  \* client: i of the loop in perform_action
          waiting,  \* client: has sent its request and waits in recv
          reply,    \* client: what has come back on its connection
          status    \* client: how the last operation ended

serverVars == <<table, queue, up, kills>>
clientVars == <<at, attempt, waiting, status>>
rtVars == <<serverVars, clientVars, reply>>

----------------------------------------------------------------------------
(***************************************************************************)
(* What main() does with each film.                                        *)
(***************************************************************************)
Script == <<"set", "get", "del", "get">>
Film(c, n) == Films[c][1 + ((n - 1) \div Len(Script))]
Operation(n) == Script[1 + ((n - 1) % Len(Script))]
Operations(c) == Len(Script) * Len(Films[c])
Busy(c) == at[c] =< Operations(c)

build_request(c) == [action |-> {Operation(at[c])}, key |-> Film(c, at[c]),
                     value |-> c, whole |-> "all"]

(***************************************************************************)
(* perform_action: an operation that ends, successfully or after the last  *)
(* attempt; otherwise the connection is closed and the next attempt made.  *)
(***************************************************************************)
NoReply == [kind |-> "none"]
Closed(c) == [i \in DOMAIN queue |-> IF queue[i].from = c
                                        THEN [queue[i] EXCEPT !.open = FALSE]
                                        ELSE queue[i]]
End(c, result) ==
    /\ status' = [status EXCEPT ![c] = result]
    /\ at' = [at EXCEPT ![c] = @ + 1]
    /\ attempt' = [attempt EXCEPT ![c] = 1]

Retry(c) ==
    IF attempt[c] < RETRIES
       THEN /\ attempt' = [attempt EXCEPT ![c] = @ + 1]
            /\ UNCHANGED <<at, status>>
       ELSE End(c, "failed")

(***************************************************************************)
(* An attempt that connects has all of its request in the connection.      *)
(***************************************************************************)
Connection(p, r) == [from |-> p, req |-> r, open |-> TRUE]

Connect(c) ==
    /\ Busy(c) /\ ~waiting[c] /\ up /\ Len(queue) < Backlog
    /\ queue' = Append(queue, Connection(c, build_request(c)))
    /\ waiting' = [waiting EXCEPT ![c] = TRUE]
    /\ UNCHANGED <<table, up, kills, at, attempt, status, reply>>

\* Mutant: a failed connect is taken for a success.
ConnectIgnored(c) ==
    /\ Busy(c) /\ ~waiting[c] /\ (~up \/ Len(queue) >= Backlog)
    /\ End(c, "done")
    /\ UNCHANGED <<serverVars, waiting, reply>>

\* Mutant: the attempt counter is not advanced for a refused connect.
ConnectUncounted(c) ==
    /\ Busy(c) /\ ~waiting[c] /\ (~up \/ Len(queue) >= Backlog)
    /\ UNCHANGED rtVars

\* Refused by a machine without the server, or no answer in two seconds.
ConnectFails(c) ==
    /\ Busy(c) /\ ~waiting[c] /\ (~up \/ Len(queue) >= Backlog)
    /\ Retry(c)
    /\ UNCHANGED <<serverVars, waiting, reply>>

\* recv() fails after two seconds.
TimeOut(c) ==
    /\ waiting[c] /\ reply[c] = NoReply
    /\ waiting' = [waiting EXCEPT ![c] = FALSE]
    /\ queue' = Closed(c)
    /\ Retry(c)
    /\ UNCHANGED <<table, up, kills, reply>>

(***************************************************************************)
(* The acknowledgement must contain the action.  recv() that returns 0,    *)
(* because the server closed the connection, counts as a header: the bytes *)
(* that are looked at are what the buffer held before, any bytes.          *)
(***************************************************************************)
Performed(c) == /\ reply[c].kind = "answer"
                /\ Operation(at[c]) \in reply[c].action

Receive(c) ==
    /\ waiting[c] /\ reply[c] # NoReply
    /\ waiting' = [waiting EXCEPT ![c] = FALSE]
    /\ reply' = [reply EXCEPT ![c] = NoReply]
    /\ UNCHANGED serverVars
    /\ \/ /\ Performed(c)
          /\ End(c, "done")
       \/ /\ ~Performed(c)
          /\ Retry(c)
       \/ /\ reply[c].kind = "closed"
          /\ End(c, "unknown")

----------------------------------------------------------------------------
(***************************************************************************)
(* Strangers: they connect, send, and close the connection or forget it.   *)
(***************************************************************************)
Connected(p) == \E i \in DOMAIN queue : queue[i].from = p /\ queue[i].open

StrangerConnects(p) ==
    /\ up /\ ~Connected(p) /\ Len(queue) < Backlog
    /\ \E r \in Strange : queue' = Append(queue, Connection(p, r))
    /\ reply' = [reply EXCEPT ![p] = NoReply]
    /\ UNCHANGED <<table, up, kills, clientVars>>

HangUp(p) ==
    /\ Connected(p)
    /\ queue' = Closed(p)
    /\ UNCHANGED <<table, up, kills, clientVars, reply>>

----------------------------------------------------------------------------
(***************************************************************************)
(* serve().  recv with MSG_WAITALL returns when all the header announces   *)
(* is there, or the other end has closed.  Only the header's length is     *)
(* checked: of a key or a value that breaks off, and of a value that was   *)
(* not read because the request has no key, the rest is what the buffer    *)
(* held before.                                                            *)
(***************************************************************************)
Arrived(conn) == conn.req.whole = "all" \/ ~conn.open

KeyRead(r) == IF r.whole = "no key" THEN Key ELSE {r.key}
ValueRead(r) == IF r.whole = "all" /\ r.key # NoKey THEN {r.value} ELSE Value

\* The steps delete, set and get, in this order; the bits of those that worked.
After(k, v, r) == IF "set" \in r.action THEN v
                  ELSE IF "del" \in r.action THEN NoValue ELSE table[k]

Acknowledged(k, v, r) ==
    {a \in r.action : \/ a = "del" /\ table[k] # NoValue
                      \/ a = "set"
                      \/ a = "get" /\ After(k, v, r) # NoValue}

Answer(k, v, r) == [kind |-> "answer", action |-> Acknowledged(k, v, r),
                    value |-> IF "get" \in r.action THEN After(k, v, r) ELSE NoValue]

\* Mutant: a process for each connection; they come to run in any order.
AcceptedAny == DOMAIN queue

\* The connection that accept() returns.
Accepted == {i \in DOMAIN queue : i = 1}

Serve ==
    /\ up
    /\ \E i \in Accepted : LET conn == queue[i]  r == conn.req IN
        /\ Arrived(conn)
        /\ queue' = RemoveAt(queue, i)
        /\ IF r.whole = "nothing"
              THEN /\ UNCHANGED table
                   /\ reply' = [reply EXCEPT ![conn.from] = IF conn.open THEN [kind |-> "closed"] ELSE @]
              ELSE \E k \in KeyRead(r), v \in ValueRead(r) :
                   /\ table' = [table EXCEPT ![k] = After(k, v, r)]
                   /\ reply' = [reply EXCEPT ![conn.from] = IF conn.open THEN Answer(k, v, r) ELSE @]
    /\ UNCHANGED <<up, kills, clientVars>>

EmptyTable == [k \in Key \cup {NoKey} |-> NoValue]

(***************************************************************************)
(* The server runs until it is killed; its connections are closed, or      *)
(* reset when they hold bytes it did not read.  It starts with nothing.    *)
(***************************************************************************)
Kill ==
    /\ up /\ kills < MaxKills
    /\ up' = FALSE /\ kills' = kills + 1
    /\ queue' = <<>> /\ table' = EmptyTable
    /\ \E how \in {"closed", "reset"} :
         reply' = [p \in DOMAIN reply |->
                     IF \E i \in DOMAIN queue : queue[i].from = p /\ queue[i].open
                        THEN [kind |-> IF p = queue[1].from /\ queue[1].open THEN how ELSE "reset"]
                        ELSE reply[p]]
    /\ UNCHANGED clientVars

Restart ==
    /\ ~up /\ up' = TRUE
    /\ UNCHANGED <<table, queue, kills, clientVars, reply>>

----------------------------------------------------------------------------
Init ==
    /\ table = EmptyTable /\ queue = <<>>
    /\ up = TRUE /\ kills = 0
    /\ at = [c \in Client |-> 1] /\ attempt = [c \in Client |-> 1]
    /\ waiting = [c \in Client |-> FALSE]
    /\ reply = [p \in Client \cup Stranger |-> NoReply]
    /\ status = [c \in Client |-> "none"]

ClientStep(c) == Connect(c) \/ ConnectFails(c) \/ TimeOut(c) \/ Receive(c)

Next ==
    \/ \E c \in Client : ClientStep(c)
    \/ \E p \in Stranger : StrangerConnects(p) \/ HangUp(p)
    \/ Serve \/ Kill \/ Restart

(***************************************************************************)
(* A client process that can go on does: its connect, send and recv end    *)
(* after two seconds at the latest (SO_SNDTIMEO, SO_RCVTIMEO).  Nothing is *)
(* assumed of the server, and nothing of the strangers.                    *)
(***************************************************************************)
Spec == Init /\ [][Next]_rtVars
FairSpec == Spec /\ \A c \in Client : WF_rtVars(ClientStep(c))

----------------------------------------------------------------------------
(***************************************************************************)
(* Titles that only client c works with.                                   *)
(***************************************************************************)
Own(c) == ToSet(Films[c]) \ UNION {ToSet(Films[d]) : d \in Client \ {c}}

(***************************************************************************)
(* Client c has the answer to the get that follows its operation "op" on    *)
(* one of its own titles.                                                  *)
(***************************************************************************)
AnswersGetAfter(c, op) ==
    /\ Busy(c) /\ at[c] > 1 /\ Film(c, at[c]) \in Own(c)
    /\ Operation(at[c]) = "get" /\ Operation(at[c] - 1) = op
    /\ reply[c].kind = "answer"

(***************************************************************************)
(* After a delete that was reported successful the client does not find    *)
(* the film again ("unexpectedly get operation successfull",               *)
(* client.c:387-396), although attempts of the set before it, which timed  *)
(* out and were repeated, may still wait in the server's queue: they are   *)
(* served before the delete.                                               *)
(***************************************************************************)
NotFoundAfterDelete ==
    \A c \in Client : AnswersGetAfter(c, "del") /\ status[c] # "failed" => ~Performed(c)

(***************************************************************************)
(* A film whose set was reported successful is there when the client asks  *)
(* for it next: late attempts to delete it, from its last turn, came       *)
(* before (client.c:360-378).  The server was not killed since.            *)
(***************************************************************************)
FoundAfterSet ==
    \A c \in Client : AnswersGetAfter(c, "set") /\ status[c] = "done" /\ kills = 0
                      => Performed(c) /\ reply[c].value = c

(***************************************************************************)
(* Every client comes to the end of its list, whatever blocks the server   *)
(* and whether or not it runs (the retry loop, client.c:152-229).          *)
(***************************************************************************)
EveryClientEnds == \A c \in Client : <>~Busy(c)
===============================================================================
