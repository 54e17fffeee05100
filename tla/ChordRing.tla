------------------------------- MODULE ChordRing -------------------------------
(***************************************************************************)
(* The servers of "Hash Table/server.c" form a Chord ring: every server    *)
(* knows the next one and the previous one, a new server sends a join to   *)
(* any server that is up, and the ring is repaired by stabilize and notify *)
(* messages.  Messages are UDP datagrams: any order, lost or repeated.     *)
(*                                                                         *)
(* A server is named by its id; a struct server_info is the id of the      *)
(* server it describes.                                                    *)
(***************************************************************************)
EXTENDS Integers, FiniteSets, BagsExt, Bags

CONSTANTS Node,     \* the servers, by id
          IdSpace,  \* number of ids (2^16)
          First,    \* the server that creates the chord
          None,     \* NULL
          MaxLost,  \* how many datagrams the network loses ...
          MaxCopied \* ... and repeats

ASSUME ChordRingAssumption ==
    /\ IdSpace \in Nat \ {0} /\ Node \subseteq 0 .. IdSpace - 1
    /\ First \in Node /\ None \notin Node
    /\ MaxLost \in Nat /\ MaxCopied \in Nat

VARIABLES started,     \* servers whose process runs
          prev, next,  \* node.prev and node.next of each
          net,         \* the bag of internal messages under way
          lost, copied,
          crowded      \* whether a server ever came up while others were joining

nodeVars == <<prev, next>>
ringVars == <<started, prev, next, net, lost, copied, crowded>>

-------------------------------------------------------------------------------
\* The distance from id a to id b, in uint16_t arithmetic.
Offset(a, b) == (b - a) % IdSpace

\* val is in the circular range from start up to but without end.
is_in_range(start, end, val) == Offset(start, val) < Offset(start, end)

\* The three internal messages: the type, the server it is sent to, and the server
\* it speaks of.
Join(dest, srv)      == [type |-> "join",      dest |-> dest, srv |-> srv]
Notify(dest, srv)    == [type |-> "notify",    dest |-> dest, srv |-> srv]
Stabilize(dest, srv) == [type |-> "stabilize", dest |-> dest, srv |-> srv]

\* A server takes the message m from its socket and sends one message, or two.
Replace(m, a)       == net' = BagAdd(BagRemove(net, m), a)
Replace2(m, a, b)   == net' = BagAdd(BagAdd(BagRemove(net, m), a), b)
Consume(m)          == net' = BagRemove(net, m)

\* set_next: the new successor is told with a stabilize message, which the callers
\* put into net.
SetNext(self, srv) == next' = [next EXCEPT ![self] = srv]

-------------------------------------------------------------------------------
(* One action for each handler. *)

\* No message is under way.
Quiet == net = EmptyBag

\* main and join: the process comes up; every one but the first registers with a
\* server that runs.
StartVia(n, via) ==
    /\ n \notin started
    /\ via \in started
    /\ started' = started \cup {n}
    /\ net' = BagAdd(net, Join(via, n))
    /\ crowded' = (crowded \/ ~ Quiet)
    /\ UNCHANGED <<nodeVars, lost, copied>>

\* Mutant: the ids are compared as numbers, not on the circle.
ResponsibleUnwrapped(self, srv) ==
    next[self] = None \/ (self < srv /\ srv < next[self]) \/ next[self] = self

\* The joining server belongs between self and its successor: a lone server takes
\* any, and so does one that is its own successor.
Responsible(self, srv) ==
    \/ next[self] = None
    \/ is_in_range(self, next[self], srv)
    \/ next[self] = self

HandleJoin(m) ==
    LET self == m.dest
        neighbour == IF next[self] = None THEN self ELSE next[self]
    IN  /\ m.type = "join"
        /\ IF Responsible(self, m.srv)
           THEN /\ Replace2(m, Notify(m.srv, neighbour), Stabilize(m.srv, self))
                /\ SetNext(self, m.srv)
           ELSE /\ Replace(m, Join(next[self], m.srv))
                /\ UNCHANGED next
        /\ UNCHANGED <<started, prev, lost, copied, crowded>>

\* Mutants: a server takes itself for its successor; it takes any that it hears of.
CloserOrSelf(self, srv) == next[self] = None \/ is_in_range(self, next[self], srv)
CloserAny(self, srv)    == next[self] = None \/ srv # self

\* A successor that is closer than the one known so far, and not the server itself.
Closer(self, srv) ==
    \/ next[self] = None
    \/ is_in_range(self, next[self], srv) /\ srv # self

HandleNotify(m) ==
    LET self == m.dest
    IN  /\ m.type = "notify"
        /\ IF Closer(self, m.srv)
           THEN Replace(m, Stabilize(m.srv, self)) /\ SetNext(self, m.srv)
           ELSE Consume(m) /\ UNCHANGED next
        /\ UNCHANGED <<started, prev, lost, copied, crowded>>

\* Mutants: the predecessor is told before it is updated; the first predecessor is
\* kept.
StabilizeTellsOld(m) ==
    /\ m.type = "stabilize"
    /\ prev' = [prev EXCEPT ![m.dest] = m.srv]
    /\ Replace(m, Notify(m.srv, prev[m.dest]))
    /\ UNCHANGED <<started, next, lost, copied, crowded>>
StabilizeKeepsFirst(m) ==
    /\ m.type = "stabilize"
    /\ prev' = [prev EXCEPT ![m.dest] = IF @ = None THEN m.srv ELSE @]
    /\ Replace(m, Notify(m.srv, prev'[m.dest]))
    /\ UNCHANGED <<started, next, lost, copied, crowded>>

HandleStabilize(m) ==
    LET self == m.dest
    IN  /\ m.type = "stabilize"
        /\ prev' = [prev EXCEPT ![self] = IF prev[self] = None
                                             \/ is_in_range(prev[self], self, m.srv)
                                          THEN m.srv ELSE prev[self]]
        /\ Replace(m, Notify(m.srv, prev'[self]))
        /\ UNCHANGED <<started, next, lost, copied, crowded>>

\* The network: a datagram is lost, or arrives once more.
Lose(m) ==
    /\ lost < MaxLost
    /\ lost' = lost + 1
    /\ Consume(m)
    /\ UNCHANGED <<started, nodeVars, copied, crowded>>

Copy(m) ==
    /\ copied < MaxCopied
    /\ copied' = copied + 1
    /\ net' = BagAdd(net, m)
    /\ UNCHANGED <<started, nodeVars, lost, crowded>>

-------------------------------------------------------------------------------
Init ==
    /\ started = {First}
    /\ prev = [n \in Node |-> None]
    /\ next = [n \in Node |-> None]
    /\ net = EmptyBag
    /\ lost = 0 /\ copied = 0 /\ crowded = FALSE

InFlight == BagToSet(net)

Start   == \E n, via \in Node : StartVia(n, via)
Handle  == \E m \in InFlight : HandleJoin(m) \/ HandleNotify(m) \/ HandleStabilize(m)
Network == \E m \in InFlight : Lose(m) \/ Copy(m)

Next == Start \/ Handle \/ Network

Spec == Init /\ [][Next]_ringVars

\* Every datagram that is not lost is handled in the end.
FairSpec == Spec /\ WF_ringVars(Handle)

-------------------------------------------------------------------------------
(* Properties *)

Message == [type : {"join", "notify", "stabilize"}, dest : Node, srv : Node]

\* The type invariant.
TypeOK ==
    /\ started \subseteq Node
    /\ prev \in [Node -> Node \cup {None}] /\ next \in [Node -> Node \cup {None}]
    /\ IsABag(net) /\ InFlight \subseteq Message
    /\ lost \in 0 .. MaxLost /\ copied \in 0 .. MaxCopied

\* The server that follows n among the servers S on the circle of ids.
SuccessorIn(S, n) ==
    CHOOSE s \in S \ {n} : \A t \in S \ {n} : Offset(n, s) <= Offset(n, t)

SortedRing(S) ==
    \A n \in S : /\ next[n] = SuccessorIn(S, n)
                 /\ prev[next[n]] = n

\* When one server is added after the other, each once it is quiet, and no datagram is
\* lost or repeated, the servers form one ring in the order of ids whenever it is quiet,
\* and prev is the inverse of next (server.c:250-317).
RingWhenQuiet ==
    Quiet /\ ~ crowded /\ lost = 0 /\ copied = 0 =>
        IF started = {First} THEN next[First] = None ELSE SortedRing(started)

\* As long as no join is repeated, a server is never its own successor (the check at
\* server.c:275 and the order of the joins): it would answer for no key and take
\* every join.
NeverOwnSuccessor == copied = 0 => \A n \in Node : next[n] # n

\* A successor is only replaced by a strictly closer one that is not the server itself:
\* no notification and no join, however late, makes a server skip a server that it knew
\* of (server.c:260 and 275).  The exception is a repeated join, which can reach the
\* very server that it speaks of: that becomes its own successor, and takes any next.
SuccessorOnlyCloser ==
    [][\A n \in Node : next[n] # None /\ next'[n] # next[n] =>
          \/ next'[n] # n /\ is_in_range(n, next[n], next'[n])
          \/ copied > 0 /\ n \in {next[n], next'[n]}]_ringVars

\* Even when servers join at the same time, each of them is in once it is quiet, and
\* the successor of each knows it or a closer predecessor - if no datagram was lost or
\* repeated.
JoinedWhenQuiet ==
    Quiet /\ lost = 0 /\ copied = 0 /\ started # {First} =>
        \A n \in started :
            /\ next[n] # None /\ prev[next[n]] # None
            /\ Offset(prev[next[n]], next[n]) <= Offset(n, next[n])

\* The joins, notifications and stabilizations come to an end.
BecomesQuiet == <>[]Quiet

===============================================================================
