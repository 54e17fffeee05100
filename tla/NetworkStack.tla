------------------------------ MODULE NetworkStack ------------------------------
(***************************************************************************)
(* The network stack of a simulated node (GoBackN/protsim/common/          *)
(* NetworkStack.cc): what happens to a packet that comes from a link or    *)
(* from an application of the node.                                        *)
(*                                                                         *)
(* The alert flag, which no program of the repository sets, and the watched*)
(* "virtual queues", which nothing reads, are left out.                    *)
(***************************************************************************)
EXTENDS Integers, Sequences, SequencesExt, FiniteSets

CONSTANTS Node,     \* addresses
          netOut,   \* the neighbours at the gates netOut[i] of a node, each of them once
          appls,    \* the application addresses known to each stack
          maxTTL

ASSUME NodesAssumption ==
    /\ Node \subseteq Nat /\ IsFiniteSet(Node)
    /\ netOut \in [Node -> Seq(Node)] /\ \A n \in Node : IsInjective(netOut[n])
    /\ appls \in [Node -> SUBSET Int] /\ maxTTL \in Int

Nobody       == -1  \* PS_NODE_UNKNOWN, PS_APP_UNKNOWN
ToAll        == -2  \* PS_DEST_BROADCAST_ALL
ToAllButLast == -3  \* PS_DEST_BROADCAST_LIMIT
NoRoute      == -4  \* routes.lookup() == NULL

RoutingDaemon == -2 \* PS_ROUTING_DAEMON, an application address
\* Where a packet can come from besides an application.
FromNet == -3
Local   == -4

NetworkPacket(id, seqNo, dest, destAppl) ==
    [id |-> id, seqNo |-> seqNo, reply |-> FALSE, bitError |-> FALSE,
     srcNode |-> Nobody, srcAppl |-> Nobody, destNode |-> dest, destAppl |-> destAppl,
     lastNode |-> Nobody, TTL |-> 0]

\* What a stack does with a packet: the modules it is sent to, with the copy each of
\* them gets; or the reason it is dropped for.
Sent(outs) == [out |-> outs, drop |-> "no"]
Dropped(why) == [out |-> <<>>, drop |-> why]

deliverLocally(n, p) ==
    IF p.destAppl \notin appls[n] THEN Dropped("no application")
    ELSE Sent(<<[to |-> <<"appl", n, p.destAppl>>,
                 msg |-> IF p.destNode = n
                            THEN [p EXCEPT !.destNode = Nobody, !.destAppl = Nobody]
                            ELSE p]>>)

Broadcast(n, p) ==
    LET copy == [p EXCEPT !.lastNode = n, !.TTL = @ + 1]
        targets == IF p.destNode = ToAll THEN netOut[n] ELSE RemoveFirst(netOut[n], p.lastNode)
    IN Sent([i \in DOMAIN targets |-> [to |-> <<"queue", n, targets[i]>>, msg |-> copy]])

Forward(n, p, nextHop) ==
    IF nextHop = NoRoute THEN Dropped("no route")
    ELSE Sent(<<[to |-> <<"queue", n, nextHop>>,
                 msg |-> [p EXCEPT !.lastNode = n, !.TTL = @ + 1]]>>)

\* routes: the forwarding table of the node.
lookup(routes, dest) == IF dest \in Node THEN routes[dest] ELSE NoRoute

sendOut(n, p, routes) ==
    CASE p.TTL >= maxTTL -> Dropped("TTL")
      [] p.TTL < maxTTL /\ p.destNode = Nobody -> Dropped("no destination")
      [] p.TTL < maxTTL /\ p.destNode \in {ToAll, ToAllButLast} -> Broadcast(n, p)
      [] OTHER -> Forward(n, p, lookup(routes, p.destNode))

\* A packet of an application gets the node's address, and a new time to live.
Originated(n, from, p) ==
    IF from \in {FromNet, Local} THEN p
    ELSE [p EXCEPT !.srcNode = n, !.srcAppl = from, !.TTL = 0]

handleMessage(n, from, p, routes) ==
    IF from = Local \/ p.destNode = n
       THEN deliverLocally(n, Originated(n, from, p))
       ELSE sendOut(n, Originated(n, from, p), routes)
===============================================================================
