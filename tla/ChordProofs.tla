------------------------------- MODULE ChordProofs -------------------------------
(***************************************************************************)
(* Theorems about the Chord ring and the store on it, for any number of    *)
(* servers with any ids.                                                   *)
(*                                                                         *)
(* The ring: its types - no message ever speaks of a server that is NULL   *)
(* -, that successors only come closer and no server becomes its own, and  *)
(* that the servers form one ring, the one of all that started once the    *)
(* network is quiet.                                                       *)
(*                                                                         *)
(* The store: its types, that each key has one home until another server   *)
(* joins, and that a client receives the answer to its own request if no   *)
(* message of the ring was repeated.                                       *)
(***************************************************************************)
EXTENDS ChordStore, FiniteSetTheorems, TLAPS
W == INSTANCE WellFoundedInduction \* by a name of its own: the Bags of TLAPS extend it too

\* Every set of naturals that is not empty has a smallest element.
LEMMA Smallest ==
    ASSUME NEW S, S \subseteq Nat, S # {} PROVE \E m \in S : \A n \in S : m =< n
<1> DEFINE Less == W!OpToRel(<, Nat)
<1>1. W!IsWellFoundedOn(Less, Nat)
  BY W!NatLessThanWellFounded
<1>2. \A x, y \in Nat : <<x, y>> \in Less <=> x < y
  BY DEF W!OpToRel
<1> HIDE DEF Less
<1>3. PICK m \in S : \A y \in S : ~ (<<y, m>> \in Less)
  BY <1>1, W!WFMin
<1>4. ASSUME NEW n \in S PROVE m =< n
  <2>1. m \in Nat /\ n \in Nat
    OBVIOUS
  <2>2. ~ (n < m)
    BY <1>2, <1>3, <2>1
  <2> QED  BY <2>1, <2>2
<1> QED  BY <1>4

\* What adding a message to the bag, and taking one out, does to its elements.
LEMMA BagAddFacts ==
    ASSUME NEW B, IsABag(B), NEW x
    PROVE  IsABag(BagAdd(B, x)) /\ BagToSet(BagAdd(B, x)) = BagToSet(B) \cup {x}
<1>1. CASE x \in DOMAIN B
  <2> DEFINE f == [e \in DOMAIN B |-> IF e = x THEN B[e] + 1 ELSE B[e]]
  <2>1. BagAdd(B, x) = f
    BY <1>1 DEF BagAdd
  <2>2. f \in [DOMAIN B -> {n \in Nat : n > 0}]
    BY DEF IsABag
  <2> HIDE DEF f
  <2> QED
    BY <1>1, <2>1, <2>2 DEF IsABag, BagToSet
<1>2. CASE x \notin DOMAIN B
  BY <1>2 DEF IsABag, BagToSet, BagAdd
<1> QED
  BY <1>1, <1>2

LEMMA BagRemoveFacts ==
    ASSUME NEW B, IsABag(B), NEW x
    PROVE  IsABag(BagRemove(B, x)) /\ BagToSet(BagRemove(B, x)) \subseteq BagToSet(B)
<1>1. CASE x \notin DOMAIN B
  BY <1>1 DEF IsABag, BagToSet, BagRemove
<1>2. CASE x \in DOMAIN B /\ B[x] = 1
  BY <1>2 DEF IsABag, BagToSet, BagRemove
<1>3. CASE x \in DOMAIN B /\ B[x] # 1
  BY <1>3 DEF IsABag, BagToSet, BagRemove
<1> QED
  BY <1>1, <1>2, <1>3

\* Messages that a handler puts into the network keep the bag well-typed.
LEMMA NetFacts ==
    ASSUME TypeOK, NEW m \in InFlight
    PROVE  /\ m \in Message
           /\ Consume(m) => IsABag(net') /\ InFlight' \subseteq Message
           /\ \A a \in Message : Replace(m, a) => IsABag(net') /\ InFlight' \subseteq Message
           /\ \A a, b \in Message :
                 Replace2(m, a, b) => IsABag(net') /\ InFlight' \subseteq Message
<1>1. IsABag(net) /\ BagToSet(net) \subseteq Message
  BY DEF TypeOK, InFlight
<1> DEFINE rest == BagRemove(net, m)
<1>2. IsABag(rest) /\ BagToSet(rest) \subseteq Message
  BY <1>1, BagRemoveFacts
<1>3. \A a \in Message : /\ IsABag(BagAdd(rest, a))
                         /\ BagToSet(BagAdd(rest, a)) \subseteq Message
  BY <1>2, BagAddFacts
<1>4. \A a, b \in Message : /\ IsABag(BagAdd(BagAdd(rest, a), b))
                            /\ BagToSet(BagAdd(BagAdd(rest, a), b)) \subseteq Message
  <2> SUFFICES ASSUME NEW a \in Message, NEW b \in Message
               PROVE  /\ IsABag(BagAdd(BagAdd(rest, a), b))
                      /\ BagToSet(BagAdd(BagAdd(rest, a), b)) \subseteq Message
    OBVIOUS
  <2> DEFINE one == BagAdd(rest, a)
  <2>1. IsABag(one) /\ BagToSet(one) \subseteq Message
    BY <1>3
  <2> HIDE DEF one
  <2>2. IsABag(BagAdd(one, b)) /\ BagToSet(BagAdd(one, b)) \subseteq Message
    BY <2>1, BagAddFacts
  <2> QED
    BY <2>2 DEF one
<1> HIDE DEF rest
<1>5. m \in Message
  BY <1>1 DEF InFlight
<1>6. Consume(m) => net' = rest
  BY DEF Consume, rest
<1>7. \A a : Replace(m, a) => net' = BagAdd(rest, a)
  BY DEF Replace, rest
<1>8. \A a, b : Replace2(m, a, b) => net' = BagAdd(BagAdd(rest, a), b)
  BY DEF Replace2, rest
<1> QED
  BY <1>2, <1>3, <1>4, <1>5, <1>6, <1>7, <1>8 DEF InFlight

\* The messages about and to servers are messages.
LEMMA MessageTypes ==
    ASSUME NEW d \in Node, NEW s \in Node
    PROVE  Join(d, s) \in Message /\ Notify(d, s) \in Message /\ Stabilize(d, s) \in Message
  BY DEF Join, Notify, Stabilize, Message

LEMMA InitTypeOK == Init => TypeOK
<1> SUFFICES ASSUME Init PROVE TypeOK
  OBVIOUS
<1>1. net = [e \in {} |-> 1]
  BY DEF Init, EmptyBag, SetToBag
<1>2. IsABag(net) /\ InFlight = {}
  BY <1>1 DEF IsABag, InFlight, BagToSet
<1> QED
  BY <1>2, ChordRingAssumption DEF Init, TypeOK

LEMMA StartType ==
    ASSUME TypeOK, Start
    PROVE  TypeOK'
<1>1. PICK n \in Node, via \in Node : StartVia(n, via)
  BY DEF Start
<1>2. IsABag(net) /\ BagToSet(net) \subseteq Message
  BY DEF TypeOK, InFlight
<1>3. IsABag(net') /\ BagToSet(net') \subseteq Message
  BY <1>1, <1>2, BagAddFacts, MessageTypes DEF StartVia
<1> QED
  BY <1>1, <1>3 DEF StartVia, TypeOK, nodeVars, InFlight

LEMMA JoinType ==
    ASSUME TypeOK, NEW m \in InFlight, HandleJoin(m)
    PROVE  TypeOK'
<1>1. m \in Message /\ m.dest \in Node /\ m.srv \in Node
  BY NetFacts DEF Message
<1> DEFINE self == m.dest
           neighbour == IF next[self] = None THEN self ELSE next[self]
<1>2. next[self] \in Node \cup {None} /\ neighbour \in Node
  BY <1>1 DEF TypeOK
<1>3. CASE Responsible(self, m.srv)
  <2>1. /\ Replace2(m, Notify(m.srv, neighbour), Stabilize(m.srv, self))
        /\ next' = [next EXCEPT ![self] = m.srv]
        /\ UNCHANGED <<started, prev, lost, copied, crowded>>
    BY <1>3 DEF HandleJoin, SetNext
  <2>2. IsABag(net') /\ InFlight' \subseteq Message
    <3>1. Notify(m.srv, neighbour) \in Message /\ Stabilize(m.srv, self) \in Message
      BY <1>1, <1>2, MessageTypes
    <3> QED
      BY <2>1, <3>1, NetFacts
  <2> QED
    BY <1>1, <2>1, <2>2 DEF TypeOK
<1>4. CASE ~ Responsible(self, m.srv)
  <2>1. /\ Replace(m, Join(next[self], m.srv))
        /\ UNCHANGED <<started, prev, next, lost, copied, crowded>>
    BY <1>4 DEF HandleJoin
  <2>2. next[self] \in Node
    BY <1>2, <1>4 DEF Responsible
  <2>3. IsABag(net') /\ InFlight' \subseteq Message
    BY <1>1, <2>1, <2>2, NetFacts, MessageTypes
  <2> QED
    BY <2>1, <2>3 DEF TypeOK
<1> QED
  BY <1>3, <1>4

LEMMA NotifyType ==
    ASSUME TypeOK, NEW m \in InFlight, HandleNotify(m)
    PROVE  TypeOK'
<1>1. m \in Message /\ m.dest \in Node /\ m.srv \in Node
  BY NetFacts DEF Message
<1>2. CASE Closer(m.dest, m.srv)
  <2>1. /\ Replace(m, Stabilize(m.srv, m.dest))
        /\ next' = [next EXCEPT ![m.dest] = m.srv]
        /\ UNCHANGED <<started, prev, lost, copied, crowded>>
    BY <1>2 DEF HandleNotify, SetNext
  <2>2. IsABag(net') /\ InFlight' \subseteq Message
    BY <1>1, <2>1, NetFacts, MessageTypes
  <2> QED
    BY <1>1, <2>1, <2>2 DEF TypeOK
<1>3. CASE ~ Closer(m.dest, m.srv)
  <2>1. Consume(m) /\ UNCHANGED <<started, prev, next, lost, copied, crowded>>
    BY <1>3 DEF HandleNotify
  <2> QED
    BY <2>1, NetFacts DEF TypeOK
<1> QED
  BY <1>2, <1>3

LEMMA StabilizeType ==
    ASSUME TypeOK, NEW m \in InFlight, HandleStabilize(m)
    PROVE  TypeOK'
<1>1. m \in Message /\ m.dest \in Node /\ m.srv \in Node
  BY NetFacts DEF Message
<1> DEFINE p == IF prev[m.dest] = None \/ is_in_range(prev[m.dest], m.dest, m.srv)
                THEN m.srv ELSE prev[m.dest]
<1>2. prev \in [Node -> Node \cup {None}]
  BY DEF TypeOK
<1>3. p \in Node
  BY <1>1, <1>2
<1>4. /\ prev' = [prev EXCEPT ![m.dest] = p]
      /\ Replace(m, Notify(m.srv, prev'[m.dest]))
      /\ UNCHANGED <<started, next, lost, copied, crowded>>
  BY DEF HandleStabilize
<1> HIDE DEF p
<1>5. prev'[m.dest] = p /\ prev' \in [Node -> Node \cup {None}]
  BY <1>1, <1>2, <1>3, <1>4
<1>6. IsABag(net') /\ InFlight' \subseteq Message
  <2>1. Notify(m.srv, p) \in Message
    BY <1>1, <1>3, MessageTypes
  <2>2. Replace(m, Notify(m.srv, p))
    BY <1>4, <1>5
  <2> QED
    BY <2>1, <2>2, NetFacts
<1> QED
  BY <1>4, <1>5, <1>6 DEF TypeOK

LEMMA NetworkType ==
    ASSUME TypeOK, Network
    PROVE  TypeOK'
<1>1. PICK m \in InFlight : Lose(m) \/ Copy(m)
  BY DEF Network
<1>2. CASE Lose(m)
  BY <1>2, NetFacts, ChordRingAssumption DEF Lose, TypeOK, nodeVars
<1>3. CASE Copy(m)
  <2>1. IsABag(net) /\ BagToSet(net) \subseteq Message /\ m \in Message
    BY NetFacts DEF TypeOK, InFlight
  <2>2. IsABag(net') /\ BagToSet(net') \subseteq Message
    BY <1>3, <2>1, BagAddFacts DEF Copy
  <2> QED
    BY <1>3, <2>2, ChordRingAssumption DEF Copy, TypeOK, nodeVars, InFlight
<1> QED
  BY <1>1, <1>2, <1>3

LEMMA NextTypeOK == TypeOK /\ [Next]_ringVars => TypeOK'
<1> SUFFICES ASSUME TypeOK, [Next]_ringVars PROVE TypeOK'
  OBVIOUS
<1>1. CASE Start
  BY <1>1, StartType
<1>2. CASE Handle
  BY <1>2, JoinType, NotifyType, StabilizeType DEF Handle
<1>3. CASE Network
  BY <1>3, NetworkType
<1>4. CASE UNCHANGED ringVars
  BY <1>4 DEF ringVars, nodeVars, TypeOK, InFlight
<1> QED
  BY <1>1, <1>2, <1>3, <1>4 DEF Next

\* Type correctness of the ring, with any number of servers, losses and repetitions:
\* in particular a notify never speaks of NULL (the assert at server.c:292).
THEOREM RingTypeCorrect == Spec => []TypeOK
  BY InitTypeOK, NextTypeOK, PTL DEF Spec

-------------------------------------------------------------------------------
\* The distance of two ids on the circle.
LEMMA OffsetFacts ==
    ASSUME NEW a \in 0 .. IdSpace - 1, NEW b \in 0 .. IdSpace - 1
    PROVE  /\ Offset(a, b) \in Nat
           /\ Offset(a, b) = IF a =< b THEN b - a ELSE b - a + IdSpace
<1>1. IdSpace \in Nat \ {0}
  BY ChordRingAssumption
<1>2. CASE a =< b
  <2>1. b - a \in 0 .. IdSpace - 1
    BY <1>1, <1>2
  <2> QED  BY <1>1, <1>2, <2>1 DEF Offset
<1>3. CASE ~ (a =< b)
  <2>1. b - a + IdSpace \in 0 .. IdSpace - 1
    BY <1>1, <1>3
  <2>2. (b - a) % IdSpace = b - a + IdSpace
    BY <1>1, <1>3, <2>1
  <2> QED  BY <1>1, <1>3, <2>1, <2>2 DEF Offset
<1> QED  BY <1>2, <1>3

\* The server that follows n is the nearest other one.
LEMMA SuccessorNearest ==
    ASSUME NEW S \in SUBSET Node, NEW n \in S, NEW m \in S \ {n}
    PROVE  /\ SuccessorIn(S, n) \in S \ {n}
           /\ Offset(n, SuccessorIn(S, n)) =< Offset(n, m)
<1> DEFINE D == {Offset(n, t) : t \in S \ {n}}
<1>1. \A t \in S \ {n} : t \in 0 .. IdSpace - 1 /\ n \in 0 .. IdSpace - 1
  BY ChordRingAssumption
<1>2. D \subseteq Nat /\ D # {}
  BY <1>1, OffsetFacts
<1>3. PICK d \in D : \A e \in D : d =< e
  BY <1>2, Smallest
<1>4. PICK s \in S \ {n} : d = Offset(n, s)
  OBVIOUS
<1>5. \A t \in S \ {n} : Offset(n, s) =< Offset(n, t)
  BY <1>3, <1>4
<1> QED  BY <1>5 DEF SuccessorIn

-------------------------------------------------------------------------------
(***************************************************************************)
(* Until its join is accepted, a server and those that joined through it   *)
(* know nothing of the others, and nothing is known of them: the servers   *)
(* fall into circles, each called by the server that has yet to be         *)
(* accepted.  A join is addressed to a circle that is older than its own.  *)
(***************************************************************************)
MessageOK(m, circle, rank) ==
    /\ m.dest \in started /\ m.srv \in started
    /\ m.type = "join" => /\ circle[m.srv] = m.srv
                          /\ rank[circle[m.dest]] < rank[m.srv]
    /\ m.type # "join" => circle[m.dest] = circle[m.srv]
    /\ m.type = "notify" /\ m.dest = m.srv => next[m.dest] # None
    /\ m.type = "stabilize" => next[m.srv] # None

Apart(circle, rank, N) ==
    /\ \A n \in started : circle[n] \in started /\ rank[n] < N
    /\ \A n \in Node : next[n] # None =>
          n \in started /\ next[n] \in started \ {n} /\ circle[next[n]] = circle[n]
    /\ \A n \in Node : prev[n] # None =>
          n \in started /\ prev[n] \in started /\ circle[prev[n]] = circle[n]
    /\ \A m \in InFlight : MessageOK(m, circle, rank)

\* Each server's join is in one place.
JoinsOnce ==
    \A m \in InFlight : m.type = "join" =>
        net[m] = 1 /\ \A e \in InFlight : e.type = "join" /\ e.srv = m.srv => e = m

\* Unless it is lost, the join of the server that a circle is called by is under way,
\* and that server alone may have no successor.
Led(circle) ==
    lost = 0 => \A n \in started :
        LET c == circle[n]
        IN  /\ circle[c] = c
            /\ c # First => \E m \in InFlight : m.type = "join" /\ m.srv = c
            /\ next[c] = None => n = c

Circles ==
    copied = 0 =>
        /\ JoinsOnce
        /\ \E circle \in [Node -> Node], rank \in [Node -> Nat], N \in Nat :
               Apart(circle, rank, N) /\ Led(circle)

\* How often the elements of a bag are in it.
LEMMA BagCounts ==
    ASSUME NEW B, NEW x
    PROVE  /\ \A e \in DOMAIN B \ {x} : e \in DOMAIN BagRemove(B, x) /\ BagRemove(B, x)[e] = B[e]
           /\ \A e \in DOMAIN B \ {x} : e \in DOMAIN BagAdd(B, x) /\ BagAdd(B, x)[e] = B[e]
           /\ DOMAIN BagRemove(B, x) \subseteq DOMAIN B
           /\ x \in DOMAIN B /\ B[x] = 1 => x \notin DOMAIN BagRemove(B, x)
           /\ DOMAIN BagAdd(B, x) = DOMAIN B \cup {x}
           /\ x \notin DOMAIN B => BagAdd(B, x)[x] = 1
<1>1. /\ \A e \in DOMAIN B \ {x} : e \in DOMAIN BagRemove(B, x) /\ BagRemove(B, x)[e] = B[e]
      /\ DOMAIN BagRemove(B, x) \subseteq DOMAIN B
      /\ x \in DOMAIN B /\ B[x] = 1 => x \notin DOMAIN BagRemove(B, x)
  <2>1. CASE x \notin DOMAIN B
    BY <2>1 DEF BagRemove
  <2>2. CASE x \in DOMAIN B /\ B[x] = 1
    BY <2>2 DEF BagRemove
  <2>3. CASE x \in DOMAIN B /\ B[x] # 1
    BY <2>3 DEF BagRemove
  <2> QED  BY <2>1, <2>2, <2>3
<1>2. /\ \A e \in DOMAIN B \ {x} : e \in DOMAIN BagAdd(B, x) /\ BagAdd(B, x)[e] = B[e]
      /\ DOMAIN BagAdd(B, x) = DOMAIN B \cup {x}
      /\ x \notin DOMAIN B => BagAdd(B, x)[x] = 1
  <2>1. CASE x \in DOMAIN B
    BY <2>1 DEF BagAdd
  <2>2. CASE x \notin DOMAIN B
    BY <2>2 DEF BagAdd
  <2> QED  BY <2>1, <2>2
<1> QED  BY <1>1, <1>2

\* A message that is not in the bag is added once, and the counts of the others stay.
LEMMA AddNew ==
    ASSUME NEW B, NEW x, x \notin DOMAIN B, NEW C, C = BagAdd(B, x)
    PROVE  /\ DOMAIN C = DOMAIN B \cup {x} /\ C[x] = 1
           /\ \A e \in DOMAIN B : C[e] = B[e]
<1>1. \A e \in DOMAIN B : e # x
  OBVIOUS
<1> QED  BY <1>1 DEF BagAdd

\* A step that sends no join keeps them in one place.
LEMMA NoNewJoin ==
    ASSUME JoinsOnce, NEW m \in InFlight, NEW a, NEW b, a.type # "join", b.type # "join",
           Consume(m) \/ Replace(m, a) \/ Replace2(m, a, b)
    PROVE  /\ JoinsOnce' /\ InFlight' \subseteq InFlight \cup {a, b}
           /\ m.type = "join" => m \notin InFlight'
<1> DEFINE rest == BagRemove(net, m)
           one  == BagAdd(rest, a)
           two  == BagAdd(one, b)
<1>1. net' \in {rest, one, two}
  BY DEF Consume, Replace, Replace2
<1>2. /\ \A e \in DOMAIN net \ {m} : rest[e] = net[e]
      /\ DOMAIN rest \subseteq DOMAIN net
      /\ m.type = "join" => m \notin DOMAIN rest
  BY BagCounts DEF JoinsOnce, InFlight, BagToSet
<1> HIDE DEF rest
<1>3. /\ \A e \in DOMAIN rest \ {a} : one[e] = rest[e]
      /\ DOMAIN one = DOMAIN rest \cup {a}
  BY BagCounts
<1> HIDE DEF one
<1>4. /\ \A e \in DOMAIN one \ {b} : two[e] = one[e]
      /\ DOMAIN two = DOMAIN one \cup {b}
  BY BagCounts
<1> HIDE DEF two
<1>5. /\ DOMAIN net' \subseteq DOMAIN net \cup {a, b}
      /\ m.type = "join" => m \notin DOMAIN net'
  BY <1>1, <1>2, <1>3, <1>4
<1>6. ASSUME NEW e \in DOMAIN net', e.type = "join"
      PROVE  e \in DOMAIN net \ {m} /\ net'[e] = net[e]
  <2>1. e # a /\ e # b /\ e # m /\ e \in DOMAIN rest
    BY <1>1, <1>2, <1>3, <1>4, <1>5, <1>6
  <2> QED  BY <1>1, <1>2, <1>3, <1>4, <2>1
<1> QED  BY <1>5, <1>6 DEF JoinsOnce, InFlight, BagToSet

\* What stays under way when m is taken out, and what is added.
LEMMA Remain ==
    ASSUME NEW m \in InFlight, NEW a, NEW b
    PROVE  /\ Consume(m) => InFlight \ {m} \subseteq InFlight'
           /\ Replace(m, a) => (InFlight \ {m}) \cup {a} \subseteq InFlight'
           /\ Replace2(m, a, b) => (InFlight \ {m}) \cup {a, b} \subseteq InFlight'
<1> DEFINE rest == BagRemove(net, m)
<1>1. InFlight = DOMAIN net /\ InFlight' = DOMAIN net'
  BY DEF InFlight, BagToSet
<1>2. \A e \in DOMAIN net \ {m} : e \in DOMAIN rest
  BY BagCounts
<1>3. /\ DOMAIN BagAdd(rest, a) = DOMAIN rest \cup {a}
      /\ DOMAIN BagAdd(BagAdd(rest, a), b) = DOMAIN BagAdd(rest, a) \cup {b}
  BY BagCounts
<1> QED  BY <1>1, <1>2, <1>3 DEF Consume, Replace, Replace2

LEMMA LedKept ==
    ASSUME TypeOK, NEW circle \in [Node -> Node], Led(circle), started' = started, lost' = lost,
           \A m \in InFlight : m.type = "join" =>
               \E e \in InFlight' : e.type = "join" /\ e.srv = m.srv,
           \A n \in Node : next[n] # None => next'[n] # None
    PROVE  Led(circle)'
<1> SUFFICES ASSUME lost = 0, NEW n \in started
             PROVE  /\ circle[circle[n]] = circle[n]
                    /\ circle[n] # First =>
                          \E m \in InFlight' : m.type = "join" /\ m.srv = circle[n]
                    /\ next'[circle[n]] = None => n = circle[n]
  BY DEF Led
<1>1. /\ circle[circle[n]] = circle[n] /\ circle[n] \in Node
      /\ circle[n] # First => \E m \in InFlight : m.type = "join" /\ m.srv = circle[n]
      /\ next[circle[n]] = None => n = circle[n]
  BY DEF Led, TypeOK
<1> QED  BY <1>1

LEMMA CirclesOnce == ASSUME Circles, copied = 0 PROVE JoinsOnce
  BY DEF Circles

\* What the invariant says in a state, with the circles named.
LEMMA MessageInCircle ==
    ASSUME TypeOK, NEW circle \in [Node -> Node], NEW rank \in [Node -> Nat], NEW N \in Nat,
           Apart(circle, rank, N), NEW m \in InFlight
    PROVE  /\ m.dest \in Node /\ m.srv \in Node /\ MessageOK(m, circle, rank)
           /\ circle[m.dest] \in Node /\ rank[circle[m.dest]] \in Nat /\ rank[m.srv] \in Nat
  BY NetFacts DEF Message, Apart

LEMMA CirclesStart ==
    ASSUME TypeOK, Circles, copied = 0, NEW n \in Node, NEW via \in Node, StartVia(n, via)
    PROVE  Circles'
<1>1. PICK circle \in [Node -> Node], rank \in [Node -> Nat], N \in Nat :
          Apart(circle, rank, N) /\ Led(circle)
  BY DEF Circles
<1> DEFINE circle2 == [circle EXCEPT ![n] = n]
           rank2   == [rank EXCEPT ![n] = N]
<1>2. /\ n \notin started /\ via \in started /\ started' = started \cup {n}
      /\ net' = BagAdd(net, Join(via, n)) /\ next' = next /\ prev' = prev
  BY DEF StartVia, nodeVars
<1>3. PICK j : /\ net' = BagAdd(net, j) /\ j.type = "join" /\ j.dest = via /\ j.srv = n
  BY <1>2 DEF Join
<1>4. JoinsOnce /\ \A m \in InFlight : m.srv # n /\ m # j
  BY <1>1, <1>2, <1>3 DEF Circles, Apart, MessageOK
<1>5. /\ InFlight' = InFlight \cup {j} /\ net'[j] = 1
      /\ \A m \in InFlight : net'[m] = net[m]
  <2>1. InFlight = DOMAIN net /\ InFlight' = DOMAIN net'
    BY DEF InFlight, BagToSet
  <2>2. j \notin DOMAIN net
    BY <1>4, <2>1
  <2>3. /\ DOMAIN net' = DOMAIN net \cup {j} /\ net'[j] = 1
        /\ \A e \in DOMAIN net : net'[e] = net[e]
    BY <1>3, <2>2, AddNew
  <2> QED  BY <2>1, <2>2, <2>3
<1>6. JoinsOnce'
  BY <1>3, <1>4, <1>5 DEF JoinsOnce
<1>7. /\ circle2 \in [Node -> Node] /\ rank2 \in [Node -> Nat] /\ N + 1 \in Nat
      /\ circle2[n] = n /\ rank2[n] = N
      /\ \A x \in started : /\ circle2[x] = circle[x] /\ rank2[x] = rank[x]
                            /\ circle[x] \in started /\ rank[x] \in Nat /\ rank[x] < N
  BY <1>1, <1>2 DEF Apart, TypeOK
<1> HIDE DEF circle2, rank2
<1>8. ASSUME NEW m \in InFlight' PROVE MessageOK(m, circle2, rank2)'
  <2>1. CASE m = j
    BY <1>2, <1>3, <1>7, <2>1 DEF MessageOK
  <2>2. CASE m \in InFlight
    <3>1. MessageOK(m, circle, rank)
      BY <1>1, <2>2 DEF Apart
    <3> QED  BY <1>2, <1>7, <3>1 DEF MessageOK
  <2> QED  BY <1>5, <2>1, <2>2
<1>10. Led(circle2)'
  <2>1. next' = next /\ lost' = lost
    BY DEF StartVia, nodeVars
  <2> SUFFICES ASSUME lost = 0, NEW x \in started \cup {n}
               PROVE  /\ circle2[circle2[x]] = circle2[x]
                      /\ circle2[x] # First =>
                            \E m \in InFlight' : m.type = "join" /\ m.srv = circle2[x]
                      /\ next[circle2[x]] = None => x = circle2[x]
    BY <1>2, <2>1 DEF Led
  <2>2. CASE x = n
    BY <1>3, <1>5, <1>7, <2>2
  <2>3. CASE x \in started
    <3>1. /\ circle2[x] = circle[x] /\ circle2[circle[x]] = circle[circle[x]]
      BY <1>7, <2>3
    <3>2. /\ circle[circle[x]] = circle[x]
          /\ circle[x] # First => \E m \in InFlight : m.type = "join" /\ m.srv = circle[x]
          /\ next[circle[x]] = None => x = circle[x]
      BY <1>1, <2>3 DEF Led
    <3> QED  BY <1>5, <3>1, <3>2
  <2> QED  BY <2>2, <2>3
<1>9. Apart(circle2, rank2, N + 1)'
  <2>1. \A x \in started' : circle2[x] \in started' /\ rank2[x] < N + 1
    BY <1>2, <1>7
  <2> QED  BY <1>1, <1>2, <1>7, <1>8, <2>1 DEF Apart
<1> QED  BY <1>6, <1>7, <1>9, <1>10 DEF Circles

LEMMA CirclesJoin ==
    ASSUME TypeOK, Circles, copied = 0, NEW m \in InFlight, HandleJoin(m)
    PROVE  Circles'
<1>1. PICK circle \in [Node -> Node], rank \in [Node -> Nat], N \in Nat :
          Apart(circle, rank, N) /\ Led(circle)
  BY DEF Circles
<1> DEFINE self == m.dest
           srv  == m.srv
<1>2. /\ m.type = "join" /\ self \in Node /\ srv \in Node /\ self \in started /\ srv \in started
      /\ circle[srv] = srv /\ rank[circle[self]] < rank[srv]
      /\ circle[self] \in Node /\ circle[self] # srv /\ self # srv
      /\ rank[circle[self]] \in Nat /\ rank[srv] \in Nat
      /\ JoinsOnce /\ net[m] = 1
      /\ \A e \in InFlight : e.type = "join" /\ e.srv = srv => e = m
  <2>1. MessageOK(m, circle, rank) /\ m.type = "join"
    BY <1>1, MessageInCircle DEF HandleJoin
  <2> QED  BY <1>1, <2>1, MessageInCircle DEF MessageOK, Circles, JoinsOnce
<1>3. started' = started /\ prev' = prev /\ next \in [Node -> Node \cup {None}]
  BY DEF HandleJoin, TypeOK
<1>4. CASE Responsible(self, srv)
  <2> DEFINE neighbour == IF next[self] = None THEN self ELSE next[self]
             circle2 == [x \in Node |-> IF circle[x] = srv THEN circle[self] ELSE circle[x]]
  <2>1. /\ Replace2(m, Notify(srv, neighbour), Stabilize(srv, self))
        /\ next' = [next EXCEPT ![self] = srv]
    BY <1>4 DEF HandleJoin, SetNext
  <2>2. /\ neighbour \in started /\ circle[neighbour] = circle[self] /\ neighbour # srv
        /\ neighbour \in Node
    BY <1>1, <1>2, <1>3 DEF Apart
  <2> HIDE DEF neighbour
  <2>3. PICK a, b : /\ Replace2(m, a, b) /\ a.type = "notify" /\ a.dest = srv
                    /\ a.srv = neighbour /\ b.type = "stabilize" /\ b.dest = srv /\ b.srv = self
    BY <2>1 DEF Notify, Stabilize
  <2>4. JoinsOnce' /\ InFlight' \subseteq (InFlight \cup {a, b}) \ {m}
    <3>1. m # a /\ m # b
      BY <1>2, <2>3
    <3> QED  BY <1>2, <2>3, <3>1, NoNewJoin
  <2>5. /\ next'[self] = srv /\ srv # None
        /\ \A n \in Node \ {self} : next'[n] = next[n]
    BY <1>2, <1>3, <2>1, ChordRingAssumption
  <2>6. /\ circle2 \in [Node -> Node]
        /\ \A x, y \in Node : circle[x] = circle[y] => circle2[x] = circle2[y]
        /\ circle2[srv] = circle[self] /\ circle2[self] = circle[self]
        /\ \A x \in started : circle2[x] \in started
        /\ \A x \in Node : circle[x] # srv => circle2[x] = circle[x]
        /\ \A x \in Node : circle[x] = srv => circle2[x] = circle[self]
    <3>1. \A x \in Node : circle2[x] = IF circle[x] = srv THEN circle[self] ELSE circle[x]
      OBVIOUS
    <3>2. circle2 \in [Node -> Node]
      BY <1>2
    <3>3. \A x \in started : x \in Node /\ circle[x] \in started
      BY <1>1 DEF Apart, TypeOK
    <3> HIDE DEF circle2
    <3> QED  BY <1>2, <3>1, <3>2, <3>3
  <2> HIDE DEF circle2
  <2>7. ASSUME NEW e \in InFlight' PROVE MessageOK(e, circle2, rank)'
    <3>1. CASE e = a
      BY <1>2, <1>3, <2>2, <2>3, <2>6, <3>1 DEF MessageOK
    <3>2. CASE e = b
      BY <1>2, <1>3, <2>3, <2>5, <2>6, <3>2 DEF MessageOK
    <3>3. CASE e \in InFlight \ {m}
      <4>1. /\ e.dest \in Node /\ e.srv \in Node /\ MessageOK(e, circle, rank)
            /\ circle[e.dest] \in Node /\ rank[circle[e.dest]] \in Nat /\ rank[e.srv] \in Nat
        BY <1>1, <3>3, MessageInCircle
      <4>2. \A n \in Node : next[n] # None => next'[n] # None
        BY <2>5
      <4>3. e.type = "join" => /\ circle2[e.srv] = e.srv
                               /\ rank[circle2[e.dest]] < rank[e.srv]
        BY <1>2, <2>6, <3>3, <4>1 DEF MessageOK
      <4> QED  BY <1>3, <2>6, <4>1, <4>2, <4>3 DEF MessageOK
    <3> QED  BY <2>4, <3>1, <3>2, <3>3
  <2>8. ASSUME NEW n \in Node, next'[n] # None
        PROVE  n \in started /\ next'[n] \in started \ {n} /\ circle2[next'[n]] = circle2[n]
    <3>1. CASE n = self
      BY <1>2, <2>5, <2>6, <3>1
    <3>2. CASE n # self
      <4>1. /\ n \in started /\ next[n] \in started \ {n} /\ circle[next[n]] = circle[n]
            /\ next[n] \in Node /\ next'[n] = next[n]
        BY <1>1, <1>3, <2>5, <2>8, <3>2 DEF Apart
      <4> QED  BY <2>6, <4>1
    <3> QED  BY <3>1, <3>2
  <2>9. ASSUME NEW n \in Node, prev[n] # None
        PROVE  n \in started /\ prev[n] \in started /\ circle2[prev[n]] = circle2[n]
    <3>1. n \in started /\ prev[n] \in started /\ circle[prev[n]] = circle[n] /\ prev[n] \in Node
      BY <1>1, <2>9 DEF Apart, TypeOK
    <3> QED  BY <2>6, <3>1
  <2>10. Apart(circle2, rank, N)'
    BY <1>1, <1>3, <2>6, <2>7, <2>8, <2>9 DEF Apart
  <2>11. Led(circle2)'
    <3>1. InFlight \ {m} \subseteq InFlight' /\ lost' = lost
      BY <2>3, Remain DEF HandleJoin
    <3> SUFFICES ASSUME lost = 0, NEW x \in started
                 PROVE  /\ circle2[circle2[x]] = circle2[x]
                        /\ circle2[x] # First =>
                              \E e \in InFlight' : e.type = "join" /\ e.srv = circle2[x]
                        /\ next'[circle2[x]] = None => x = circle2[x]
      BY <1>3, <3>1 DEF Led
    <3>2. \A y \in started :
              /\ y \in Node /\ circle[y] \in Node /\ circle[circle[y]] = circle[y]
              /\ circle[y] # First => \E e \in InFlight : e.type = "join" /\ e.srv = circle[y]
              /\ next[circle[y]] = None => y = circle[y]
      BY <1>1 DEF Led, TypeOK
    <3>3. /\ circle2[circle[self]] = circle[self]
          /\ \A y \in Node : next'[y] = None => next[y] = None /\ y # self
      BY <1>2, <2>5, <2>6, <3>2
    <3>4. \A e \in InFlight : e.type = "join" /\ e.srv # srv => e \in InFlight'
      BY <3>1
    <3>5. CASE circle[x] = srv
      <4>1. circle2[x] = circle[self]
        BY <2>6, <3>2, <3>5
      <4>2. circle[self] # First =>
                \E e \in InFlight' : e.type = "join" /\ e.srv = circle[self]
        BY <1>2, <3>2, <3>4
      <4>3. next'[circle[self]] # None
        BY <1>2, <3>2, <3>3
      <4> QED  BY <3>3, <4>1, <4>2, <4>3
    <3>6. CASE circle[x] # srv
      <4>1. circle2[x] = circle[x] /\ circle2[circle[x]] = circle[x]
        BY <2>6, <3>2, <3>6
      <4>2. circle[x] # First => \E e \in InFlight' : e.type = "join" /\ e.srv = circle[x]
        BY <3>2, <3>4, <3>6
      <4> QED  BY <3>2, <3>3, <4>1, <4>2
    <3> QED  BY <3>5, <3>6
  <2> QED  BY <2>4, <2>6, <2>10, <2>11 DEF Circles
<1>5. CASE ~ Responsible(self, srv)
  <2>1. /\ Replace(m, Join(next[self], srv)) /\ next' = next /\ next[self] # None
    BY <1>5 DEF HandleJoin, Responsible
  <2>2. next[self] \in started \ {self} /\ circle[next[self]] = circle[self]
    BY <1>1, <1>2, <2>1 DEF Apart
  <2>3. PICK j : /\ Replace(m, j) /\ j.type = "join" /\ j.dest = next[self] /\ j.srv = srv
    BY <2>1 DEF Join
  <2>4. j # m /\ j \notin InFlight
    BY <1>2, <2>2, <2>3
  <2> DEFINE rest == BagRemove(net, m)
  <2>5. /\ DOMAIN rest \subseteq InFlight \ {m} /\ \A e \in InFlight \ {m} : rest[e] = net[e]
        /\ net' = BagAdd(rest, j)
    <3>1. InFlight = DOMAIN net
      BY DEF InFlight, BagToSet
    <3>2. /\ DOMAIN rest \subseteq DOMAIN net /\ m \notin DOMAIN rest
          /\ \A e \in DOMAIN net \ {m} : rest[e] = net[e]
      BY <1>2, <3>1, BagCounts
    <3>3. net' = BagAdd(rest, j)
      BY <2>3 DEF Replace
    <3> HIDE DEF rest
    <3> QED  BY <3>1, <3>2, <3>3
  <2> HIDE DEF rest
  <2>6. j \notin DOMAIN rest
    BY <2>4, <2>5
  <2>7. /\ InFlight' \subseteq (InFlight \ {m}) \cup {j} /\ net'[j] = 1
        /\ \A e \in InFlight' : e # j => net'[e] = net[e]
    <3>1. /\ DOMAIN net' = DOMAIN rest \cup {j} /\ net'[j] = 1
          /\ \A e \in DOMAIN rest : net'[e] = rest[e]
      <4>1. net' = BagAdd(rest, j)
        BY <2>5
      <4>2. \A C : C = BagAdd(rest, j) => /\ DOMAIN C = DOMAIN rest \cup {j} /\ C[j] = 1
                                         /\ \A e \in DOMAIN rest : C[e] = rest[e]
        BY <2>6, AddNew
      <4> QED  BY <4>1, <4>2
    <3>2. InFlight' = DOMAIN net'
      BY DEF InFlight, BagToSet
    <3> QED  BY <2>5, <3>1, <3>2
  <2>8. JoinsOnce'
    BY <1>2, <2>3, <2>7 DEF JoinsOnce
  <2>9. ASSUME NEW e \in InFlight' PROVE MessageOK(e, circle, rank)'
    <3>1. CASE e = j
      BY <1>2, <1>3, <2>2, <2>3, <3>1 DEF MessageOK
    <3>2. CASE e \in InFlight
      <4>1. MessageOK(e, circle, rank)
        BY <1>1, <3>2 DEF Apart
      <4> QED  BY <1>3, <2>1, <4>1 DEF MessageOK
    <3> QED  BY <2>7, <3>1, <3>2
  <2>10. Apart(circle, rank, N)'
    BY <1>1, <1>3, <2>1, <2>9 DEF Apart
  <2>11. Led(circle)'
    <3>1. (InFlight \ {m}) \cup {j} \subseteq InFlight' /\ lost' = lost
      BY <2>3, Remain DEF HandleJoin
    <3>2. \A e \in InFlight : e.type = "join" => \E f \in InFlight' : f.type = "join" /\ f.srv = e.srv
      BY <2>3, <3>1
    <3> QED  BY <1>1, <1>3, <2>1, <3>1, <3>2, LedKept
  <2> QED  BY <2>8, <2>10, <2>11 DEF Circles
<1> QED  BY <1>4, <1>5

LEMMA CirclesNotify ==
    ASSUME TypeOK, Circles, copied = 0, NEW m \in InFlight, HandleNotify(m)
    PROVE  Circles'
<1>1. PICK circle \in [Node -> Node], rank \in [Node -> Nat], N \in Nat :
          Apart(circle, rank, N) /\ Led(circle)
  BY DEF Circles
<1> DEFINE self == m.dest
           srv  == m.srv
<1>2. /\ m.type = "notify" /\ self \in Node /\ srv \in Node /\ self \in started /\ srv \in started
      /\ circle[self] = circle[srv] /\ (self = srv => next[self] # None) /\ JoinsOnce
  <2>1. MessageOK(m, circle, rank) /\ m.type = "notify"
    BY <1>1, MessageInCircle DEF HandleNotify
  <2> QED  BY <1>1, <2>1, MessageInCircle DEF MessageOK, Circles
<1>3. started' = started /\ prev' = prev /\ next \in [Node -> Node \cup {None}]
  BY DEF HandleNotify, TypeOK
<1>4. CASE Closer(self, srv)
  <2>1. /\ Replace(m, Stabilize(srv, self)) /\ next' = [next EXCEPT ![self] = srv]
    BY <1>4 DEF HandleNotify, SetNext
  <2>2. self # srv
    BY <1>2, <1>4 DEF Closer
  <2>3. PICK a : Replace(m, a) /\ a.type = "stabilize" /\ a.dest = srv /\ a.srv = self
    BY <2>1 DEF Stabilize
  <2>4. JoinsOnce' /\ InFlight' \subseteq InFlight \cup {a}
    BY <1>2, <2>3, NoNewJoin
  <2>5. /\ next'[self] = srv /\ srv # None
        /\ \A n \in Node \ {self} : next'[n] = next[n]
    BY <1>2, <1>3, <2>1, ChordRingAssumption
  <2>6. ASSUME NEW e \in InFlight' PROVE MessageOK(e, circle, rank)'
    <3>1. CASE e = a
      BY <1>2, <1>3, <2>3, <2>5, <3>1 DEF MessageOK
    <3>2. CASE e \in InFlight
      <4>1. e.dest \in Node /\ e.srv \in Node /\ MessageOK(e, circle, rank)
        BY <1>1, <3>2, MessageInCircle
      <4> QED  BY <1>3, <2>5, <4>1 DEF MessageOK
    <3> QED  BY <2>4, <3>1, <3>2
  <2>7. ASSUME NEW n \in Node, next'[n] # None
        PROVE  n \in started /\ next'[n] \in started \ {n} /\ circle[next'[n]] = circle[n]
    BY <1>1, <1>2, <2>2, <2>5, <2>7 DEF Apart
  <2>8. Apart(circle, rank, N)'
    BY <1>1, <1>3, <2>6, <2>7 DEF Apart
  <2>9. Led(circle)'
    <3>1. InFlight \ {m} \subseteq InFlight' /\ lost' = lost
      BY <2>3, Remain DEF HandleNotify
    <3>2. \A e \in InFlight : e.type = "join" => e \in InFlight'
      BY <1>2, <3>1
    <3>3. \A n \in Node : next[n] # None => next'[n] # None
      BY <2>5
    <3> QED  BY <1>1, <1>3, <3>1, <3>2, <3>3, LedKept
  <2> QED  BY <2>4, <2>8, <2>9 DEF Circles
<1>5. CASE ~ Closer(self, srv)
  <2>1. Consume(m) /\ next' = next
    BY <1>5 DEF HandleNotify
  <2>2. JoinsOnce' /\ InFlight' \subseteq InFlight
    BY <1>2, <2>1, NoNewJoin
  <2>3. Apart(circle, rank, N)'
    BY <1>1, <1>3, <2>1, <2>2 DEF Apart, MessageOK
  <2>4. Led(circle)'
    <3>1. InFlight \ {m} \subseteq InFlight' /\ lost' = lost
      BY <2>1, Remain DEF HandleNotify
    <3>2. \A e \in InFlight : e.type = "join" => e \in InFlight'
      BY <1>2, <3>1
    <3> QED  BY <1>1, <1>3, <2>1, <3>1, <3>2, LedKept
  <2> QED  BY <2>2, <2>3, <2>4 DEF Circles
<1> QED  BY <1>4, <1>5

LEMMA CirclesStabilize ==
    ASSUME TypeOK, Circles, copied = 0, NEW m \in InFlight, HandleStabilize(m)
    PROVE  Circles'
<1>1. PICK circle \in [Node -> Node], rank \in [Node -> Nat], N \in Nat :
          Apart(circle, rank, N) /\ Led(circle)
  BY DEF Circles
<1> DEFINE self == m.dest
           srv  == m.srv
<1>2. /\ m.type = "stabilize" /\ self \in Node /\ srv \in Node
      /\ self \in started /\ srv \in started
      /\ circle[self] = circle[srv] /\ next[srv] # None /\ JoinsOnce
  <2>1. MessageOK(m, circle, rank) /\ m.type = "stabilize"
    BY <1>1, MessageInCircle DEF HandleStabilize
  <2> QED  BY <1>1, <2>1, MessageInCircle DEF MessageOK, Circles
<1>3. started' = started /\ next' = next /\ prev \in [Node -> Node \cup {None}]
  BY DEF HandleStabilize, TypeOK
<1>4. PICK p : /\ Replace(m, Notify(srv, p)) /\ prev' = [prev EXCEPT ![self] = p]
               /\ p = srv \/ (p = prev[self] /\ prev[self] # None)
  <2>1. PICK p : p = IF prev[self] = None \/ is_in_range(prev[self], self, srv)
                     THEN srv ELSE prev[self]
    OBVIOUS
  <2>2. prev' = [prev EXCEPT ![self] = p] /\ Replace(m, Notify(srv, prev'[self]))
    BY <2>1 DEF HandleStabilize
  <2>3. prev'[self] = p
    BY <1>2, <1>3, <2>2
  <2>4. p = srv \/ (p = prev[self] /\ prev[self] # None)
    BY <2>1
  <2>5. Replace(m, Notify(srv, p))
    BY <2>2, <2>3
  <2> QED  BY <2>2, <2>4, <2>5
<1>5. p \in started /\ circle[p] = circle[self]
  BY <1>1, <1>2, <1>4 DEF Apart
<1>6. PICK a : Replace(m, a) /\ a.type = "notify" /\ a.dest = srv /\ a.srv = p
  BY <1>4 DEF Notify
<1>7. JoinsOnce' /\ InFlight' \subseteq InFlight \cup {a}
  <2>1. JoinsOnce /\ Replace(m, a) /\ a.type # "join"
    BY <1>2, <1>6
  <2> QED  BY <2>1, NoNewJoin
<1>8. ASSUME NEW e \in InFlight' PROVE MessageOK(e, circle, rank)'
  <2>1. CASE e = a
    BY <1>2, <1>3, <1>5, <1>6, <2>1 DEF MessageOK
  <2>2. CASE e \in InFlight
    <3>1. MessageOK(e, circle, rank)
      BY <1>1, <2>2 DEF Apart
    <3> QED  BY <1>3, <3>1 DEF MessageOK
  <2> QED  BY <1>7, <2>1, <2>2
<1>9. ASSUME NEW n \in Node, prev'[n] # None
      PROVE  n \in started /\ prev'[n] \in started /\ circle[prev'[n]] = circle[n]
  <2>1. CASE n = self
    <3>1. prev'[n] = p
      BY <1>2, <1>3, <1>4, <2>1
    <3> QED  BY <1>2, <1>5, <2>1, <3>1
  <2>2. CASE n # self
    <3>1. prev'[n] = prev[n]
      BY <1>2, <1>3, <1>4, <2>2
    <3> QED  BY <1>1, <1>9, <3>1 DEF Apart
  <2> QED  BY <2>1, <2>2
<1>10. Apart(circle, rank, N)'
  BY <1>1, <1>3, <1>8, <1>9 DEF Apart
<1>11. Led(circle)'
  <2>1. InFlight \ {m} \subseteq InFlight' /\ lost' = lost
    BY <1>6, Remain DEF HandleStabilize
  <2>2. \A e \in InFlight : e.type = "join" => e \in InFlight'
    BY <1>2, <2>1
  <2> QED  BY <1>1, <1>3, <2>1, <2>2, LedKept
<1> QED  BY <1>7, <1>10, <1>11 DEF Circles

LEMMA CirclesLose ==
    ASSUME TypeOK, Circles, copied = 0, NEW m \in InFlight, Lose(m)
    PROVE  Circles'
<1>1. PICK circle \in [Node -> Node], rank \in [Node -> Nat], N \in Nat :
          Apart(circle, rank, N) /\ Led(circle)
  BY DEF Circles
<1>2. /\ Consume(m) /\ JoinsOnce
      /\ started' = started /\ next' = next /\ prev' = prev
  BY DEF Lose, nodeVars, Circles
<1>3. PICK a : a.type # "join"
  <2>1. [type |-> "notify"].type # "join"
    OBVIOUS
  <2> QED  BY <2>1
<1>4. JoinsOnce' /\ InFlight' \subseteq InFlight
  <2>1. /\ JoinsOnce' /\ net' = BagRemove(net, m)
    BY <1>2, <1>3, NoNewJoin DEF Consume
  <2>2. DOMAIN net' \subseteq DOMAIN net
    BY <2>1, BagCounts
  <2> QED  BY <2>1, <2>2 DEF InFlight, BagToSet
<1>5. Apart(circle, rank, N)'
  BY <1>1, <1>2, <1>4 DEF Apart, MessageOK
<1>6. Led(circle)'
  BY DEF Lose, TypeOK, Led
<1> QED  BY <1>4, <1>5, <1>6 DEF Circles

LEMMA CirclesInit ==
    ASSUME Init
    PROVE  Circles
<1> DEFINE circle == [n \in Node |-> n]
           rank   == [n \in Node |-> 0]
<1>1. /\ circle \in [Node -> Node] /\ rank \in [Node -> Nat] /\ 1 \in Nat
      /\ \A n \in Node : circle[n] = n /\ rank[n] = 0
  OBVIOUS
<1> HIDE DEF circle, rank
<1>2. InFlight = {}
  BY DEF Init, InFlight, BagToSet, EmptyBag, SetToBag
<1>3. started = {First} /\ First \in Node
      /\ \A n \in Node : next[n] = None /\ prev[n] = None
  BY ChordRingAssumption DEF Init
<1>4. Apart(circle, rank, 1)
  BY <1>1, <1>2, <1>3 DEF Apart
<1>5. Led(circle)
  BY <1>1, <1>3 DEF Led
<1> QED  BY <1>1, <1>2, <1>4, <1>5 DEF Circles, JoinsOnce

LEMMA CirclesNext ==
    ASSUME TypeOK, Circles, [Next]_ringVars
    PROVE  Circles'
<1> SUFFICES ASSUME copied' = 0 PROVE Circles'
  BY DEF Circles
<1>1. CASE Start
  <2>1. PICK n \in Node, via \in Node : StartVia(n, via)
    BY <1>1 DEF Start
  <2> QED  BY <2>1, CirclesStart DEF StartVia
<1>2. CASE Handle
  <2>1. PICK m \in InFlight : HandleJoin(m) \/ HandleNotify(m) \/ HandleStabilize(m)
    BY <1>2 DEF Handle
  <2>2. copied = 0
    BY <2>1 DEF HandleJoin, HandleNotify, HandleStabilize
  <2> QED  BY <2>1, <2>2, CirclesJoin, CirclesNotify, CirclesStabilize
<1>3. CASE Network
  <2>1. PICK m \in InFlight : Lose(m) \/ Copy(m)
    BY <1>3 DEF Network
  <2>2. CASE Lose(m)
    BY <2>2, CirclesLose DEF Lose
  <2>3. CASE Copy(m)
    BY <2>3 DEF Copy, TypeOK
  <2> QED  BY <2>1, <2>2, <2>3
<1>4. CASE UNCHANGED ringVars
  <2>1. /\ started' = started /\ next' = next /\ prev' = prev /\ net' = net /\ copied' = copied
        /\ lost' = lost
    BY <1>4 DEF ringVars, nodeVars
  <2> QED  BY <2>1 DEF Circles, JoinsOnce, Apart, Led, MessageOK, InFlight
<1> QED  BY <1>1, <1>2, <1>3, <1>4 DEF Next

LEMMA CirclesApart ==
    ASSUME Circles
    PROVE  NeverOwnSuccessor
  BY ChordRingAssumption DEF Circles, Apart, NeverOwnSuccessor

\* As long as no join is repeated, no server becomes its own successor, with any
\* number of servers that join in any order, and whatever is lost or reordered.
THEOREM NeverItself == Spec => []NeverOwnSuccessor
<1>1. Init => TypeOK /\ Circles
  BY InitTypeOK, CirclesInit
<1>2. TypeOK /\ Circles /\ [Next]_ringVars => TypeOK' /\ Circles'
  BY NextTypeOK, CirclesNext
<1>3. Circles => NeverOwnSuccessor
  BY CirclesApart
<1> QED  BY <1>1, <1>2, <1>3, PTL DEF Spec

-------------------------------------------------------------------------------
LEMMA CloserStep ==
    ASSUME TypeOK, NeverOwnSuccessor, NeverOwnSuccessor', [Next]_ringVars,
           NEW n \in Node, next[n] # None, next'[n] # next[n]
    PROVE  \/ next'[n] # n /\ is_in_range(n, next[n], next'[n])
           \/ copied > 0 /\ n \in {next[n], next'[n]}
<1>1. next \in [Node -> Node \cup {None}] /\ copied \in Nat
  BY ChordRingAssumption DEF TypeOK
<1>2. PICK m \in InFlight : HandleJoin(m) \/ HandleNotify(m) \/ HandleStabilize(m)
  BY DEF Next, Start, StartVia, Handle, Network, Lose, Copy, nodeVars, ringVars
<1>3. copied' = copied
  BY <1>2 DEF HandleJoin, HandleNotify, HandleStabilize
<1>4. CASE n \in {next[n], next'[n]}
  BY <1>1, <1>3, <1>4 DEF NeverOwnSuccessor
<1>5. CASE n \notin {next[n], next'[n]}
  <2>1. m.dest \in Node /\ m.srv \in Node
    BY NetFacts DEF Message
  <2>2. CASE HandleJoin(m)
    <3>1. Responsible(m.dest, m.srv) /\ next' = [next EXCEPT ![m.dest] = m.srv]
      BY <2>2 DEF HandleJoin, SetNext
    <3>2. m.dest = n /\ next'[n] = m.srv
      BY <1>1, <2>1, <3>1
    <3> QED
      BY <1>5, <3>1, <3>2 DEF Responsible
  <2>3. CASE HandleNotify(m)
    <3>1. Closer(m.dest, m.srv) /\ next' = [next EXCEPT ![m.dest] = m.srv]
      BY <2>3 DEF HandleNotify, SetNext
    <3>2. m.dest = n /\ next'[n] = m.srv
      BY <1>1, <2>1, <3>1
    <3> QED
      BY <1>5, <3>1, <3>2 DEF Closer
  <2>4. CASE HandleStabilize(m)
    BY <2>4 DEF HandleStabilize
  <2> QED
    BY <1>2, <2>2, <2>3, <2>4
<1> QED
  BY <1>4, <1>5

\* A server's successor is only replaced by a closer one and never by the server itself,
\* whatever is lost, delayed or reordered; only after a join was repeated may a server
\* become its own successor, and recover from it.
THEOREM OnlyCloser == Spec => SuccessorOnlyCloser
<1>1. /\ TypeOK /\ TypeOK' /\ NeverOwnSuccessor /\ NeverOwnSuccessor'
      /\ [Next]_ringVars
      => [\A n \in Node : next[n] # None /\ next'[n] # next[n] =>
             \/ next'[n] # n /\ is_in_range(n, next[n], next'[n])
             \/ copied > 0 /\ n \in {next[n], next'[n]}]_ringVars
  BY CloserStep
<1> QED
  BY <1>1, RingTypeCorrect, NeverItself, PTL DEF Spec, SuccessorOnlyCloser

-------------------------------------------------------------------------------
(***************************************************************************)
(* As long as no datagram is lost or repeated: each server but the first   *)
(* has a successor or is going to be told of one, and the successor of     *)
(* each knows it or a closer predecessor, or is going to be told.          *)
(***************************************************************************)
Knows(x, n) == prev[x] # None /\ Offset(prev[x], x) <= Offset(n, x)

Told ==
    lost = 0 /\ copied = 0 =>
        /\ \A m \in InFlight : m.type = "stabilize" => m.srv # m.dest
        /\ \A n \in started \ {First} : next[n] = None =>
              \E m \in InFlight : \/ m.type = "join" /\ m.srv = n
                                  \/ m.type = "notify" /\ m.dest = n
        /\ \A n \in Node : next[n] # None =>
              \/ Knows(next[n], n)
              \/ \E m \in InFlight : m.type = "stabilize" /\ m.dest = next[n] /\ m.srv = n

\* The test of the stabilize handler finds the closer of two predecessors.
LEMMA CloserPredecessor ==
    ASSUME NEW p \in Node, NEW srv \in Node, NEW x \in Node, srv # x
    PROVE  /\ Offset(p, x) \in Nat /\ Offset(srv, x) \in Nat
           /\ is_in_range(p, x, srv) => Offset(srv, x) <= Offset(p, x)
           /\ ~ is_in_range(p, x, srv) => Offset(p, x) <= Offset(srv, x)
<1>1. /\ p \in Int /\ srv \in Int /\ x \in Int /\ IdSpace \in Int
      /\ 0 =< p /\ p < IdSpace /\ 0 =< srv /\ srv < IdSpace /\ 0 =< x /\ x < IdSpace
  BY ChordRingAssumption
<1>2. /\ Offset(p, x) = IF p =< x THEN x - p ELSE x - p + IdSpace
      /\ Offset(p, srv) = IF p =< srv THEN srv - p ELSE srv - p + IdSpace
      /\ Offset(srv, x) = IF srv =< x THEN x - srv ELSE x - srv + IdSpace
      /\ Offset(p, x) \in Nat /\ Offset(srv, x) \in Nat
  BY ChordRingAssumption, OffsetFacts
<1> QED  BY <1>1, <1>2 DEF is_in_range

LEMMA JoinElsewhere ==
    ASSUME TypeOK, Circles, copied = 0, NEW m \in InFlight, m.type = "join"
    PROVE  m.dest # m.srv
<1>1. PICK circle \in [Node -> Node], rank \in [Node -> Nat], N \in Nat :
          Apart(circle, rank, N)
  BY DEF Circles
<1> QED  BY <1>1, MessageInCircle DEF MessageOK

LEMMA ToldStart ==
    ASSUME TypeOK, Told, lost = 0, copied = 0, NEW n \in Node, NEW via \in Node, StartVia(n, via)
    PROVE  Told'
<1>1. PICK j : net' = BagAdd(net, j) /\ j.type = "join" /\ j.srv = n
  BY DEF StartVia, Join
<1>2. InFlight' = InFlight \cup {j}
  BY <1>1, BagCounts DEF InFlight, BagToSet
<1>3. started' = started \cup {n} /\ next' = next /\ prev' = prev
  BY DEF StartVia, nodeVars
<1> QED  BY <1>1, <1>2, <1>3 DEF Told, Knows

LEMMA ToldJoin ==
    ASSUME TypeOK, Circles, Told, lost = 0, copied = 0, NEW m \in InFlight, HandleJoin(m)
    PROVE  Told'
<1> DEFINE self == m.dest
           srv  == m.srv
<1>1. /\ m.type = "join" /\ self \in Node /\ srv \in Node /\ self # srv
      /\ started' = started /\ prev' = prev /\ next \in [Node -> Node \cup {None}]
  BY NetFacts, JoinElsewhere DEF HandleJoin, Message, TypeOK
<1>2. CASE Responsible(self, srv)
  <2>1. /\ next' = [next EXCEPT ![self] = srv]
        /\ \E nb : Replace2(m, Notify(srv, nb), Stabilize(srv, self))
    BY <1>2 DEF HandleJoin, SetNext
  <2>2. PICK a, b : /\ Replace2(m, a, b) /\ a.type = "notify" /\ a.dest = srv
                    /\ b.type = "stabilize" /\ b.dest = srv /\ b.srv = self
    BY <2>1 DEF Notify, Stabilize
  <2>3. (InFlight \ {m}) \cup {a, b} \subseteq InFlight'
    BY <2>2, Remain
  <2>4. InFlight' \subseteq InFlight \cup {a, b}
    BY <1>1, <2>2, NoNewJoin, CirclesOnce
  <2>5. /\ next'[self] = srv /\ srv # None
        /\ \A n \in Node \ {self} : next'[n] = next[n]
    BY <1>1, <2>1, ChordRingAssumption
  <2>6. ASSUME NEW n \in started \ {First}, next'[n] = None
        PROVE  \E e \in InFlight' : \/ e.type = "join" /\ e.srv = n
                                    \/ e.type = "notify" /\ e.dest = n
    <3>1. PICK e \in InFlight : \/ e.type = "join" /\ e.srv = n
                                \/ e.type = "notify" /\ e.dest = n
      BY <2>5, <2>6 DEF Told, TypeOK
    <3>2. CASE e = m
      BY <1>1, <2>2, <2>3, <3>1, <3>2
    <3> QED  BY <2>3, <3>1, <3>2
  <2>7. ASSUME NEW n \in Node, next'[n] # None
        PROVE  \/ Knows(next'[n], n)
               \/ \E e \in InFlight' : e.type = "stabilize" /\ e.dest = next'[n] /\ e.srv = n
    <3>1. CASE n = self
      BY <2>2, <2>3, <2>5, <3>1
    <3>2. CASE n # self
      BY <1>1, <2>3, <2>5, <2>7, <3>2 DEF Told
    <3> QED  BY <3>1, <3>2
  <2>8. \A e \in InFlight' : e.type = "stabilize" => e.srv # e.dest
    BY <1>1, <2>2, <2>4 DEF Told
  <2> QED  BY <1>1, <2>6, <2>7, <2>8 DEF Told, Knows
<1>3. CASE ~ Responsible(self, srv)
  <2>1. PICK j : Replace(m, j) /\ j.type = "join" /\ j.srv = srv
    BY <1>3 DEF HandleJoin, Join
  <2>2. (InFlight \ {m}) \cup {j} \subseteq InFlight' /\ next' = next
    BY <1>3, <2>1, Remain DEF HandleJoin
  <2>3. InFlight' \subseteq InFlight \cup {j}
    <3> DEFINE rest == BagRemove(net, m)
    <3>1. InFlight' = DOMAIN BagAdd(rest, j) /\ InFlight = DOMAIN net
      BY <2>1 DEF Replace, InFlight, BagToSet
    <3>2. DOMAIN rest \subseteq DOMAIN net
      BY BagCounts
    <3> HIDE DEF rest
    <3>3. DOMAIN BagAdd(rest, j) = DOMAIN rest \cup {j}
      BY BagCounts
    <3> QED  BY <3>1, <3>2, <3>3
  <2> QED  BY <1>1, <2>1, <2>2, <2>3 DEF Told, Knows
<1> QED  BY <1>2, <1>3

LEMMA ToldNotify ==
    ASSUME TypeOK, Circles, Told, lost = 0, copied = 0, NEW m \in InFlight, HandleNotify(m)
    PROVE  Told'
<1> DEFINE self == m.dest
           srv  == m.srv
<1>1. /\ m.type = "notify" /\ self \in Node /\ srv \in Node
      /\ self = srv => next[self] # None
      /\ started' = started /\ prev' = prev /\ next \in [Node -> Node \cup {None}]
  <2>1. PICK circle \in [Node -> Node], rank \in [Node -> Nat], N \in Nat :
            Apart(circle, rank, N)
    BY DEF Circles
  <2> QED  BY <2>1, MessageInCircle DEF HandleNotify, MessageOK, TypeOK
<1>2. CASE Closer(self, srv)
  <2>1. Replace(m, Stabilize(srv, self)) /\ next' = [next EXCEPT ![self] = srv]
    BY <1>2 DEF HandleNotify, SetNext
  <2>2. PICK b : Replace(m, b) /\ b.type = "stabilize" /\ b.dest = srv /\ b.srv = self
    BY <2>1 DEF Stabilize
  <2>3. (InFlight \ {m}) \cup {b} \subseteq InFlight' /\ InFlight' \subseteq InFlight \cup {b}
    BY <2>2, Remain, NoNewJoin, CirclesOnce
  <2>4. /\ next'[self] = srv /\ srv # None /\ self # srv
        /\ \A n \in Node \ {self} : next'[n] = next[n]
    BY <1>1, <1>2, <2>1, ChordRingAssumption DEF Closer
  <2>5. ASSUME NEW n \in started \ {First}, next'[n] = None
        PROVE  \E e \in InFlight' : \/ e.type = "join" /\ e.srv = n
                                    \/ e.type = "notify" /\ e.dest = n
    <3>1. n # self /\ next[n] = None
      BY <2>4, <2>5 DEF TypeOK
    <3>2. PICK e \in InFlight : \/ e.type = "join" /\ e.srv = n
                                \/ e.type = "notify" /\ e.dest = n
      BY <3>1 DEF Told
    <3> QED  BY <1>1, <2>3, <3>1, <3>2
  <2>6. ASSUME NEW n \in Node, next'[n] # None
        PROVE  \/ Knows(next'[n], n)
               \/ \E e \in InFlight' : e.type = "stabilize" /\ e.dest = next'[n] /\ e.srv = n
    <3>1. CASE n = self
      BY <2>2, <2>3, <2>4, <3>1
    <3>2. CASE n # self
      BY <1>1, <2>3, <2>4, <2>6, <3>2 DEF Told
    <3> QED  BY <3>1, <3>2
  <2>7. \A e \in InFlight' : e.type = "stabilize" => e.srv # e.dest
    BY <2>2, <2>3, <2>4 DEF Told
  <2> QED  BY <1>1, <2>5, <2>6, <2>7 DEF Told, Knows
<1>3. CASE ~ Closer(self, srv)
  <2>1. Consume(m) /\ next' = next /\ next[self] # None
    BY <1>3 DEF HandleNotify, Closer
  <2>2. InFlight \ {m} \subseteq InFlight' /\ InFlight' \subseteq InFlight
    BY <2>1, Remain, BagCounts DEF Consume, InFlight, BagToSet
  <2> QED  BY <1>1, <2>1, <2>2 DEF Told, Knows
<1> QED  BY <1>2, <1>3

LEMMA ToldStabilize ==
    ASSUME TypeOK, Circles, Told, lost = 0, copied = 0, NEW m \in InFlight, HandleStabilize(m)
    PROVE  Told'
<1> DEFINE self == m.dest
           srv  == m.srv
<1>1. /\ m.type = "stabilize" /\ self \in Node /\ srv \in Node /\ srv # self
      /\ started' = started /\ next' = next
      /\ next \in [Node -> Node \cup {None}] /\ prev \in [Node -> Node \cup {None}]
  BY NetFacts DEF HandleStabilize, Message, TypeOK, Told
<1>2. PICK p : p = IF prev[self] = None \/ is_in_range(prev[self], self, srv)
                   THEN srv ELSE prev[self]
  OBVIOUS
<1>3. prev' = [prev EXCEPT ![self] = p] /\ \E x : Replace(m, Notify(srv, x))
  BY <1>2 DEF HandleStabilize
<1>4. PICK a : Replace(m, a) /\ a.type = "notify"
  BY <1>3 DEF Notify
<1>5. InFlight \ {m} \subseteq InFlight' /\ InFlight' \subseteq InFlight \cup {a}
  <2>1. JoinsOnce
    BY CirclesOnce
  <2>2. InFlight' \subseteq InFlight \cup {a}
    BY <1>4, <2>1, NoNewJoin
  <2> QED  BY <1>4, <2>2, Remain
<1>6. /\ p \in Node /\ p # None /\ Offset(p, self) <= Offset(srv, self)
      /\ prev[self] # None => Offset(p, self) <= Offset(prev[self], self)
  <2>1. /\ srv # None /\ Offset(srv, self) \in Nat
        /\ prev[self] # None => Offset(prev[self], self) \in Nat
    BY <1>1, CloserPredecessor, ChordRingAssumption
  <2> QED  BY <1>1, <1>2, <2>1, CloserPredecessor
<1>7. prev'[self] = p /\ \A x \in Node \ {self} : prev'[x] = prev[x]
  BY <1>1, <1>3
<1>8. ASSUME NEW n \in Node, next[n] # None
      PROVE  \/ Knows(next[n], n)'
             \/ \E e \in InFlight' : e.type = "stabilize" /\ e.dest = next[n] /\ e.srv = n
  <2>1. next[n] \in Node
    BY <1>1, <1>8
  <2>2. CASE \E e \in InFlight : e.type = "stabilize" /\ e.dest = next[n] /\ e.srv = n
    <3>1. PICK e \in InFlight : e.type = "stabilize" /\ e.dest = next[n] /\ e.srv = n
      BY <2>2
    <3>2. CASE e = m
      BY <1>1, <1>6, <1>7, <3>1, <3>2 DEF Knows
    <3> QED  BY <1>5, <3>1, <3>2
  <2>3. CASE Knows(next[n], n)
    <3>1. CASE next[n] = self
      <4>1. prev[self] # None /\ Offset(prev[self], self) <= Offset(n, self)
        BY <2>3, <3>1 DEF Knows
      <4>2. /\ Offset(p, self) \in Nat /\ Offset(prev[self], self) \in Nat
            /\ Offset(n, self) \in Nat
        BY <1>1, <1>6, <4>1, OffsetFacts, ChordRingAssumption
      <4>3. Offset(p, self) <= Offset(n, self)
        BY <1>6, <4>1, <4>2
      <4> QED  BY <1>1, <1>6, <1>7, <3>1, <4>3 DEF Knows
    <3>2. CASE next[n] # self
      BY <1>1, <1>7, <2>1, <2>3, <3>2 DEF Knows
    <3> QED  BY <3>1, <3>2
  <2> QED  BY <1>8, <2>2, <2>3 DEF Told
<1>9. ASSUME NEW n \in started \ {First}, next[n] = None
      PROVE  \E e \in InFlight' : \/ e.type = "join" /\ e.srv = n
                                  \/ e.type = "notify" /\ e.dest = n
  BY <1>1, <1>5, <1>9 DEF Told
<1>10. \A e \in InFlight' : e.type = "stabilize" => e.srv # e.dest
  BY <1>4, <1>5 DEF Told
<1> QED  BY <1>1, <1>8, <1>9, <1>10 DEF Told, Knows

LEMMA ToldNext ==
    ASSUME TypeOK, Circles, Told, [Next]_ringVars
    PROVE  Told'
<1> SUFFICES ASSUME lost' = 0, copied' = 0 PROVE Told'
  BY DEF Told
<1>1. CASE Start
  <2>1. PICK n \in Node, via \in Node : StartVia(n, via)
    BY <1>1 DEF Start
  <2> QED  BY <2>1, ToldStart DEF StartVia
<1>2. CASE Handle
  <2>1. PICK m \in InFlight : HandleJoin(m) \/ HandleNotify(m) \/ HandleStabilize(m)
    BY <1>2 DEF Handle
  <2>2. lost = 0 /\ copied = 0
    BY <2>1 DEF HandleJoin, HandleNotify, HandleStabilize
  <2> QED  BY <2>1, <2>2, ToldJoin, ToldNotify, ToldStabilize
<1>3. CASE Network
  BY <1>3 DEF Network, Lose, Copy, TypeOK
<1>4. CASE UNCHANGED ringVars
  <2>1. /\ started' = started /\ next' = next /\ prev' = prev /\ net' = net /\ copied' = copied
        /\ lost' = lost
    BY <1>4 DEF ringVars, nodeVars
  <2> QED  BY <2>1 DEF Told, Knows, InFlight
<1> QED  BY <1>1, <1>2, <1>3, <1>4 DEF Next

LEMMA QuietJoined ==
    ASSUME TypeOK, Circles, Told
    PROVE  JoinedWhenQuiet
<1> SUFFICES ASSUME Quiet, lost = 0, copied = 0, started # {First}, NEW n \in started
             PROVE  next[n] # None /\ Knows(next[n], n)
  BY DEF JoinedWhenQuiet, Knows
<1>1. InFlight = {}
  BY DEF Quiet, InFlight, BagToSet, EmptyBag, SetToBag
<1>2. PICK circle \in [Node -> Node], rank \in [Node -> Nat], N \in Nat :
          Apart(circle, rank, N) /\ Led(circle)
  BY DEF Circles
<1>3. \A x \in started : x \in Node /\ circle[x] = First /\ (next[First] = None => x = First)
  BY <1>1, <1>2 DEF Led, TypeOK
<1>4. next[First] # None
  BY <1>3
<1>5. next[n] # None
  BY <1>1, <1>4 DEF Told
<1> QED  BY <1>1, <1>3, <1>5 DEF Told

\* When servers join at the same time, in any number and however their messages are
\* delayed, each of them is in once it is quiet, and the successor of each knows it or a
\* closer predecessor, if no datagram was lost or repeated.
THEOREM AllJoined == Spec => []JoinedWhenQuiet
<1>1. Init => TypeOK /\ Circles /\ Told
  <2>1. Init => Told
    BY DEF Init, Told, InFlight, BagToSet, EmptyBag, SetToBag
  <2> QED  BY <2>1, InitTypeOK, CirclesInit
<1>2. TypeOK /\ Circles /\ Told /\ [Next]_ringVars => TypeOK' /\ Circles' /\ Told'
  BY NextTypeOK, CirclesNext, ToldNext
<1>3. TypeOK /\ Circles /\ Told => JoinedWhenQuiet
  BY QuietJoined
<1> QED  BY <1>1, <1>2, <1>3, PTL DEF Spec

-------------------------------------------------------------------------------
(***************************************************************************)
(* Servers that join one after the other: when nothing is under way they   *)
(* form a ring; else one of them, and only one, is joining.  It has sent   *)
(* its join, or it has been put between two neighbours, and exchanges a    *)
(* few messages with each of the two, in any order.                        *)
(***************************************************************************)
\* The messages M, and no other, are under way, each of them once.
Only(M) == net = [e \in M |-> 1]

\* y is the nearest of the servers S after x.
Follows(S, x, y) == y \in S \ {x} /\ \A t \in S \ {x} : Offset(x, y) <= Offset(x, t)

RingOf(S) ==
    IF S = {First} THEN next[First] = None /\ prev[First] = None
    ELSE \A x \in S : Follows(S, x, next[x]) /\ prev[next[x]] = x

\* n has sent its join to the ring, where it has come to d.
Asking(S, n, d) ==
    /\ S \in SUBSET Node /\ First \in S /\ n \in Node \ S /\ d \in S /\ started = S \cup {n}
    /\ RingOf(S) /\ next[n] = None /\ prev[n] = None
    /\ Only({Join(d, n)})

\* What is under way between n and its successor, and between n and its predecessor.
ToSuccessor(n, q, a) ==
    IF a = 0 THEN {Notify(n, q)} ELSE IF a = 1 THEN {Stabilize(q, n)}
    ELSE IF a = 2 THEN {Notify(n, n)} ELSE {}
ToPredecessor(n, p, b) ==
    IF b = 0 THEN {Stabilize(n, p)} ELSE IF b = 1 THEN {Notify(p, p)} ELSE {}

\* n belongs between p and q; a lone server is on either side.
Between(S, n, p, q) ==
    /\ S \in SUBSET Node /\ First \in S /\ n \in Node \ S /\ p \in S /\ q \in S
    /\ started = S \cup {n}
    /\ IF S = {First} THEN p = q ELSE Follows(S, p, q) /\ Offset(p, n) < Offset(p, q)

\* What n and its neighbours know after the a-th and the b-th message.
Linked(S, n, p, q, a, b) ==
    /\ next[p] = n
    /\ \A x \in S \ {p} : Follows(S, x, next[x]) /\ next[x] # q /\ prev[next[x]] = x
    /\ next[n] = IF a = 0 THEN None ELSE q
    /\ prev[q] = IF a >= 2 THEN n ELSE IF S = {First} THEN None ELSE p
    /\ prev[n] = IF b = 0 THEN None ELSE p

\* p has put n between itself and its successor q; of the messages that follow, a have
\* been handled on the one side of n and b on the other.
Accepted(S, n, p, q, a, b) ==
    /\ Between(S, n, p, q)
    /\ a \in 0 .. 3 /\ b \in 0 .. 2
    /\ Linked(S, n, p, q, a, b)
    /\ Only(ToSuccessor(n, q, a) \cup ToPredecessor(n, p, b))

Joining ==
    \/ Quiet /\ RingOf(started)
    \/ \E S \in SUBSET Node, n, d \in Node : Asking(S, n, d)
    \/ \E S \in SUBSET Node, n, p, q \in Node, a, b \in Nat : Accepted(S, n, p, q, a, b)

OneByOne ==
    ~ crowded /\ lost = 0 /\ copied = 0 =>
        /\ First \in started
        /\ \A x \in Node \ started : next[x] = None /\ prev[x] = None
        /\ Joining

\* What the handling of a message does to the messages under way.
LEMMA OnlyHandled ==
    ASSUME NEW M, Only(M)
    PROVE  /\ InFlight = M
           /\ \A m \in M :
                /\ Consume(m) => Only(M \ {m})'
                /\ \A a : a \notin M /\ Replace(m, a) => Only((M \ {m}) \cup {a})'
                /\ \A a, b : a \notin M /\ b \notin M /\ a # b /\ Replace2(m, a, b)
                                => Only((M \ {m}) \cup {a, b})'
<1>1. InFlight = M
  BY DEF Only, InFlight, BagToSet
<1>2. ASSUME NEW m \in M
      PROVE  BagRemove(net, m) = [e \in M \ {m} |-> 1]
  BY DEF Only, BagRemove
<1>3. ASSUME NEW X, NEW a, a \notin X
      PROVE  BagAdd([e \in X |-> 1], a) = [e \in X \cup {a} |-> 1]
  BY <1>3 DEF BagAdd
<1>4. ASSUME NEW m \in M, Consume(m) PROVE Only(M \ {m})'
  BY <1>2, <1>4 DEF Consume, Only
<1>5. ASSUME NEW m \in M, NEW a, a \notin M, Replace(m, a)
      PROVE  Only((M \ {m}) \cup {a})'
  <2>1. a \notin M \ {m}
    BY <1>5
  <2> QED  BY <1>2, <1>3, <1>5, <2>1 DEF Replace, Only
<1>6. ASSUME NEW m \in M, NEW a, NEW b, a \notin M, b \notin M, a # b, Replace2(m, a, b)
      PROVE  Only((M \ {m}) \cup {a, b})'
  <2>1. net' = BagAdd(BagAdd(BagRemove(net, m), a), b)
    BY <1>6 DEF Replace2
  <2>2. BagAdd(BagRemove(net, m), a) = [e \in (M \ {m}) \cup {a} |-> 1]
    BY <1>2, <1>3, <1>6
  <2>3. b \notin (M \ {m}) \cup {a}
    BY <1>6
  <2>4. BagAdd([e \in (M \ {m}) \cup {a} |-> 1], b) = [e \in ((M \ {m}) \cup {a}) \cup {b} |-> 1]
    BY <1>3, <2>3
  <2>5. ((M \ {m}) \cup {a}) \cup {b} = (M \ {m}) \cup {a, b}
    OBVIOUS
  <2> QED  BY <2>1, <2>2, <2>4, <2>5 DEF Only
<1> QED  BY <1>1, <1>4, <1>5, <1>6

\* The nearest server after x is the successor of x.
LEMMA FollowsIsSuccessor ==
    ASSUME NEW S \in SUBSET Node, NEW x \in S, NEW y, Follows(S, x, y)
    PROVE  y = SuccessorIn(S, x)
<1>1. SuccessorIn(S, x) \in S \ {x} /\ Offset(x, SuccessorIn(S, x)) =< Offset(x, y)
  BY SuccessorNearest DEF Follows
<1>2. PICK s : s = SuccessorIn(S, x)
  OBVIOUS
<1>3. /\ x \in 0 .. IdSpace - 1 /\ y \in 0 .. IdSpace - 1 /\ s \in 0 .. IdSpace - 1
      /\ IdSpace \in Nat
  BY <1>1, <1>2, ChordRingAssumption DEF Follows
<1>4. Offset(x, s) =< Offset(x, y) /\ Offset(x, y) =< Offset(x, s)
  BY <1>1, <1>2 DEF Follows
<1>5. /\ Offset(x, s) = IF x =< s THEN s - x ELSE s - x + IdSpace
      /\ Offset(x, y) = IF x =< y THEN y - x ELSE y - x + IdSpace
  BY <1>3, OffsetFacts
<1>6. s = y
  BY <1>3, <1>4, <1>5
<1> QED  BY <1>2, <1>6

\* An id lies between one server and its successor only.
LEMMA Disjoint ==
    ASSUME NEW h \in 0 .. IdSpace - 1, NEW S \in SUBSET Node, NEW m \in S, NEW n \in S, m # n,
           Offset(m, h) < Offset(m, SuccessorIn(S, m)),
           Offset(n, h) < Offset(n, SuccessorIn(S, n))
    PROVE  FALSE
<1>1. S \subseteq Node /\ Node \subseteq 0 .. IdSpace - 1 /\ IdSpace \in Nat \ {0}
  BY ChordRingAssumption
<1>2. /\ Offset(m, SuccessorIn(S, m)) =< Offset(m, n) /\ SuccessorIn(S, m) \in S
      /\ Offset(n, SuccessorIn(S, n)) =< Offset(n, m) /\ SuccessorIn(S, n) \in S
  BY <1>1, SuccessorNearest
<1>3. Offset(m, h) < Offset(m, n) /\ Offset(n, h) < Offset(n, m)
  <2>1. /\ Offset(m, h) \in Nat /\ Offset(n, h) \in Nat /\ Offset(m, n) \in Nat
        /\ Offset(n, m) \in Nat /\ Offset(m, SuccessorIn(S, m)) \in Nat
        /\ Offset(n, SuccessorIn(S, n)) \in Nat
    BY <1>1, <1>2, OffsetFacts
  <2> QED  BY <1>2, <2>1
<1>4. /\ Offset(m, h) = IF m =< h THEN h - m ELSE h - m + IdSpace
      /\ Offset(n, h) = IF n =< h THEN h - n ELSE h - n + IdSpace
      /\ Offset(m, n) = IF m =< n THEN n - m ELSE n - m + IdSpace
      /\ Offset(n, m) = IF n =< m THEN m - n ELSE m - n + IdSpace
  BY <1>1, OffsetFacts
<1>5. m \in Int /\ n \in Int /\ h \in Int
  BY <1>1
<1> QED  BY <1>1, <1>3, <1>4, <1>5

\* A server between p and its successor follows p and is followed by that successor; the
\* other servers keep theirs.
LEMMA Inserted ==
    ASSUME NEW S \in SUBSET Node, NEW p \in S, NEW q \in S, NEW n \in Node \ S,
           Follows(S, p, q), Offset(p, n) < Offset(p, q)
    PROVE  /\ Follows(S \cup {n}, p, n) /\ Follows(S \cup {n}, n, q)
           /\ \A x \in S \ {p}, y \in S : Follows(S, x, y) => Follows(S \cup {n}, x, y)
<1>1. /\ \A x \in S \cup {n} : x \in 0 .. IdSpace - 1
      /\ IdSpace \in Nat \ {0}
  BY ChordRingAssumption
<1>2. \A x, y \in S \cup {n} :
          /\ Offset(x, y) \in Nat
          /\ Offset(x, y) = IF x =< y THEN y - x ELSE y - x + IdSpace
  BY <1>1, OffsetFacts
<1>3. \A x \in S \cup {n} : x \in Int /\ 0 =< x /\ x < IdSpace
  BY <1>1
<1>4. Follows(S \cup {n}, p, n)
  <2> SUFFICES ASSUME NEW t \in S \ {p} PROVE Offset(p, n) <= Offset(p, t)
    BY <1>2 DEF Follows
  <2>1. Offset(p, q) <= Offset(p, t)
    BY DEF Follows
  <2>2. Offset(p, n) \in Nat /\ Offset(p, q) \in Nat /\ Offset(p, t) \in Nat
    BY <1>2
  <2> QED  BY <2>1, <2>2
<1>5. Follows(S \cup {n}, n, q)
  <2> SUFFICES ASSUME NEW t \in S PROVE Offset(n, q) <= Offset(n, t)
    BY DEF Follows
  <2>1. t # p => Offset(p, q) <= Offset(p, t)
    BY DEF Follows
  <2>2. /\ Offset(p, q) = IF p =< q THEN q - p ELSE q - p + IdSpace
        /\ Offset(p, n) = IF p =< n THEN n - p ELSE n - p + IdSpace
        /\ Offset(p, t) = IF p =< t THEN t - p ELSE t - p + IdSpace
        /\ Offset(n, q) = IF n =< q THEN q - n ELSE q - n + IdSpace
        /\ Offset(n, t) = IF n =< t THEN t - n ELSE t - n + IdSpace
    BY <1>2
  <2>3. /\ p \in Int /\ 0 =< p /\ p < IdSpace /\ q \in Int /\ 0 =< q /\ q < IdSpace
        /\ n \in Int /\ 0 =< n /\ n < IdSpace /\ t \in Int /\ 0 =< t /\ t < IdSpace
        /\ IdSpace \in Int
    BY <1>1, <1>3
  <2>4. n # t /\ n # q /\ n # p /\ p # q
    BY DEF Follows
  <2> QED  BY <2>1, <2>2, <2>3, <2>4
<1>6. ASSUME NEW x \in S \ {p}, NEW y \in S, Follows(S, x, y)
      PROVE  Follows(S \cup {n}, x, y)
  <2>1. q = SuccessorIn(S, p) /\ y = SuccessorIn(S, x)
    BY <1>6, FollowsIsSuccessor
  <2>2. ~ (Offset(x, n) < Offset(x, y))
    BY <1>1, <2>1, Disjoint
  <2>3. Offset(x, y) <= Offset(x, n)
    BY <1>2, <2>2
  <2> QED  BY <1>6, <2>3 DEF Follows
<1> QED  BY <1>4, <1>5, <1>6

LEMMA QuietIsRing ==
    ASSUME TypeOK, Joining, Quiet
    PROVE  RingOf(started)
<1>1. InFlight = {}
  BY DEF Quiet, InFlight, BagToSet, EmptyBag, SetToBag
<1>2. ASSUME NEW S \in SUBSET Node, NEW n \in Node, NEW d \in Node, Asking(S, n, d)
      PROVE  FALSE
  BY <1>1, <1>2, OnlyHandled DEF Asking
<1>3. ASSUME NEW S \in SUBSET Node, NEW n \in Node, NEW p \in Node, NEW q \in Node,
             NEW a \in Nat, NEW b \in Nat, Accepted(S, n, p, q, a, b)
      PROVE  RingOf(started)
  <2>1. ToSuccessor(n, q, a) \cup ToPredecessor(n, p, b) = {}
    BY <1>1, <1>3, OnlyHandled DEF Accepted
  <2>2. a = 3 /\ b = 2
    BY <1>3, <2>1 DEF Accepted, ToSuccessor, ToPredecessor
  <2>3. /\ next[p] = n /\ next[n] = q /\ prev[q] = n /\ prev[n] = p
        /\ \A x \in S \ {p} : Follows(S, x, next[x]) /\ next[x] # q /\ prev[next[x]] = x
        /\ Between(S, n, p, q)
    BY <1>3, <2>2 DEF Accepted, Linked
  <2>4. started = S \cup {n} /\ n \notin S /\ p \in S /\ q \in S /\ started # {First}
    BY <2>3 DEF Between
  <2>5. /\ Follows(started, p, n) /\ Follows(started, n, q)
        /\ \A x \in S \ {p} : Follows(started, x, next[x])
    <3>1. CASE S = {First}
      <4>1. p = First /\ q = First /\ started \ {p} = {n} /\ started \ {n} = {p} /\ S \ {p} = {}
        BY <2>3, <2>4, <3>1 DEF Between
      <4>2. p \in 0 .. IdSpace - 1 /\ n \in 0 .. IdSpace - 1
        BY <2>3, ChordRingAssumption DEF Between
      <4>3. Offset(p, n) \in Nat /\ Offset(n, q) \in Nat
        BY <4>1, <4>2, OffsetFacts
      <4> QED  BY <4>1, <4>3 DEF Follows
    <3>2. CASE S # {First}
      <4>1. Follows(S, p, q) /\ Offset(p, n) < Offset(p, q)
        BY <2>3, <3>2 DEF Between
      <4>2. \A x \in S \ {p} : next[x] \in S
        BY <2>3 DEF Follows
      <4> QED  BY <2>3, <2>4, <4>1, <4>2, Inserted
    <3> QED  BY <3>1, <3>2
  <2> QED  BY <2>3, <2>4, <2>5 DEF RingOf
<1> QED  BY <1>2, <1>3 DEF Joining

\* A server comes up where the others form a ring.
LEMMA OneStart ==
    ASSUME TypeOK, OneByOne, lost = 0, copied = 0, ~ crowded', NEW n \in Node, NEW via \in Node,
           StartVia(n, via)
    PROVE  OneByOne'
<1>1. /\ n \notin started /\ via \in started /\ started' = started \cup {n} /\ next' = next
      /\ prev' = prev /\ ~ crowded /\ Quiet /\ net' = BagAdd(net, Join(via, n))
  BY DEF StartVia, nodeVars
<1>2. /\ First \in started /\ RingOf(started) /\ started \subseteq Node
      /\ \A x \in Node \ started : next[x] = None /\ prev[x] = None
  BY <1>1, QuietIsRing DEF OneByOne, TypeOK
<1>3. Only({Join(via, n)})'
  <2>1. net = [e \in {} |-> 1]
    BY <1>1 DEF Quiet, EmptyBag, SetToBag
  <2>2. BagAdd(net, Join(via, n)) = [e \in {Join(via, n)} |-> 1]
    BY <2>1 DEF BagAdd
  <2> QED  BY <1>1, <2>2 DEF Only
<1>4. RingOf(started)'  <=> RingOf(started')
  BY <1>1 DEF RingOf
<1>5. PICK S : S = started
  OBVIOUS
<1>6. RingOf(S)'
  BY <1>1, <1>2, <1>5 DEF RingOf
<1>7. Asking(S, n, via)'
  BY <1>1, <1>2, <1>3, <1>5, <1>6 DEF Asking
<1> QED  BY <1>1, <1>2, <1>5, <1>7 DEF OneByOne, Joining

\* The ring accepts the join, or passes it on.
LEMMA OneAsking ==
    ASSUME TypeOK, NEW S \in SUBSET Node, NEW n \in Node, NEW d \in Node, Asking(S, n, d),
           NEW m \in InFlight, HandleJoin(m) \/ HandleNotify(m) \/ HandleStabilize(m)
    PROVE  Joining'
<1>1. Only({Join(d, n)}) /\ m = Join(d, n)
  BY OnlyHandled DEF Asking
<1>2. m.type = "join" /\ m.dest = d /\ m.srv = n /\ HandleJoin(m)
  BY <1>1 DEF Join, HandleNotify, HandleStabilize
<1>3. /\ First \in S /\ n \in Node \ S /\ d \in S /\ started = S \cup {n} /\ started' = started
      /\ RingOf(S) /\ next[n] = None /\ prev[n] = None /\ prev' = prev
      /\ next \in [Node -> Node \cup {None}] /\ prev \in [Node -> Node \cup {None}]
  BY <1>2 DEF Asking, HandleJoin, TypeOK
<1>4. CASE Responsible(d, n)
  <2>1. PICK q : q = IF next[d] = None THEN d ELSE next[d]
    OBVIOUS
  <2>2. Replace2(m, Notify(n, q), Stabilize(n, d)) /\ next' = [next EXCEPT ![d] = n]
    BY <1>2, <1>4, <2>1 DEF HandleJoin, SetNext
  <2>3. /\ next'[d] = n /\ next'[n] = None
        /\ \A x \in S \ {d} : next'[x] = next[x]
    BY <1>3, <2>2
  <2>4. Only({Notify(n, q), Stabilize(n, d)})'
    <3>1. ({Join(d, n)} \ {m}) \cup {Notify(n, q), Stabilize(n, d)}
              = {Notify(n, q), Stabilize(n, d)}
      BY <1>1
    <3>2. /\ Notify(n, q) \notin {Join(d, n)} /\ Stabilize(n, d) \notin {Join(d, n)}
          /\ Notify(n, q) # Stabilize(n, d)
      BY DEF Join, Notify, Stabilize
    <3>3. Only(({Join(d, n)} \ {m}) \cup {Notify(n, q), Stabilize(n, d)})'
      BY <1>1, <2>2, <3>2, OnlyHandled
    <3> QED  BY <3>1, <3>3
  <2>5. ToSuccessor(n, q, 0) \cup ToPredecessor(n, d, 0) = {Notify(n, q), Stabilize(n, d)}
    BY DEF ToSuccessor, ToPredecessor
  <2>6. /\ IF S = {First} THEN d = q /\ prev[q] = None
           ELSE Follows(S, d, q) /\ Offset(d, n) < Offset(d, q) /\ prev[q] = d
        /\ \A x \in S \ {d} : Follows(S, x, next[x]) /\ next[x] # q /\ prev[next[x]] = x
        /\ q \in S
    <3>1. CASE S = {First}
      BY <1>3, <2>1, <3>1 DEF RingOf
    <3>2. CASE S # {First}
      <4>1. \A x \in S : Follows(S, x, next[x]) /\ prev[next[x]] = x
        BY <1>3, <3>2 DEF RingOf
      <4>2. next[d] \in S \ {d} /\ next[d] # None
        BY <1>3, <4>1, ChordRingAssumption DEF Follows
      <4>3. q = next[d] /\ Offset(d, n) < Offset(d, q)
        BY <1>4, <2>1, <4>2 DEF Responsible, is_in_range
      <4> QED  BY <1>3, <3>2, <4>1, <4>2, <4>3
    <3> QED  BY <3>1, <3>2
  <2>7. Between(S, n, d, q)'
    BY <1>3, <2>6 DEF Between
  <2>8. Accepted(S, n, d, q, 0, 0)'
    BY <1>3, <2>3, <2>4, <2>5, <2>6, <2>7 DEF Accepted, Linked
  <2> QED  BY <1>3, <2>6, <2>8 DEF Joining
<1>5. CASE ~ Responsible(d, n)
  <2>1. Replace(m, Join(next[d], n)) /\ next' = next /\ next[d] # None
    BY <1>2, <1>5 DEF HandleJoin, Responsible
  <2>2. S # {First} /\ next[d] \in S \ {d}
    BY <1>3, <2>1 DEF RingOf, Follows
  <2>3. PICK e \in S : e = next[d] /\ e # d
    BY <2>2
  <2>4. Only({Join(e, n)})'
    <3>1. ({Join(d, n)} \ {m}) \cup {Join(e, n)} = {Join(e, n)}
      BY <1>1
    <3>2. Join(e, n) \notin {Join(d, n)}
      BY <2>3 DEF Join
    <3>3. Only(({Join(d, n)} \ {m}) \cup {Join(e, n)})'
      BY <1>1, <2>1, <2>3, <3>2, OnlyHandled
    <3> QED  BY <3>1, <3>3
  <2>5. RingOf(S)'
    BY <1>3, <2>1 DEF RingOf
  <2>6. Asking(S, n, e)'
    BY <1>3, <2>1, <2>3, <2>4, <2>5 DEF Asking
  <2> QED  BY <2>6, <2>3 DEF Joining
<1> QED  BY <1>4, <1>5

\* The new server and its two neighbours come to know each other.
LEMMA OneAccepted ==
    ASSUME TypeOK, NEW S \in SUBSET Node, NEW n \in Node, NEW p \in Node, NEW q \in Node,
           NEW a \in Nat, NEW b \in Nat, Accepted(S, n, p, q, a, b),
           NEW m \in InFlight, HandleJoin(m) \/ HandleNotify(m) \/ HandleStabilize(m)
    PROVE  Joining'
<1> DEFINE M(i, j) == ToSuccessor(n, q, i) \cup ToPredecessor(n, p, j)
<1>1. /\ Between(S, n, p, q) /\ a \in 0 .. 3 /\ b \in 0 .. 2 /\ next[p] = n
      /\ \A x \in S \ {p} : Follows(S, x, next[x]) /\ next[x] # q /\ prev[next[x]] = x
      /\ next[n] = IF a = 0 THEN None ELSE q
      /\ prev[q] = IF a >= 2 THEN n ELSE IF S = {First} THEN None ELSE p
      /\ prev[n] = IF b = 0 THEN None ELSE p
      /\ Only(M(a, b))
  BY DEF Accepted, Linked
<1>2. /\ n \notin S /\ p \in S /\ q \in S /\ n # p /\ n # q /\ n # None
      /\ next \in [Node -> Node \cup {None}] /\ prev \in [Node -> Node \cup {None}]
      /\ \A x \in S \ {p} : next[x] \in S /\ next[x] # n
      /\ p # None /\ q # None
  BY <1>1, ChordRingAssumption DEF Between, Follows, TypeOK
<1>3. \/ a = 0 /\ m = Notify(n, q)
      \/ a = 1 /\ m = Stabilize(q, n)
      \/ a = 2 /\ m = Notify(n, n)
      \/ b = 0 /\ m = Stabilize(n, p)
      \/ b = 1 /\ m = Notify(p, p)
  <2>1. m \in M(a, b)
    BY <1>1, OnlyHandled
  <2> QED  BY <1>1, <2>1 DEF ToSuccessor, ToPredecessor
<1>4. started' = started /\ (Between(S, n, p, q)' <=> Between(S, n, p, q))
  <2>1. started' = started
    BY DEF HandleJoin, HandleNotify, HandleStabilize
  <2> QED  BY <2>1 DEF Between
<1>5. /\ \A j \in Nat : \A e \in ToPredecessor(n, p, j) :
             e # Notify(n, q) /\ e # Stabilize(q, n) /\ e # Notify(n, n)
      /\ \A i \in Nat : \A e \in ToSuccessor(n, q, i) :
             e # Stabilize(n, p) /\ e # Notify(p, p)
      /\ Notify(n, q) # Stabilize(q, n) /\ Stabilize(q, n) # Notify(n, n)
      /\ Stabilize(n, p) # Notify(p, p)
  BY <1>2 DEF ToSuccessor, ToPredecessor, Notify, Stabilize
<1>6. ASSUME NEW i \in Nat, NEW j \in Nat, Accepted(S, n, p, q, i, j)'
      PROVE  Joining'
  BY <1>6 DEF Joining
\* The successor hears of n, and n of its successor.
<1>7. CASE a = 0 /\ m = Notify(n, q)
  <2>1. Replace(m, Stabilize(q, n)) /\ next' = [next EXCEPT ![n] = q] /\ prev' = prev
    BY <1>1, <1>7 DEF HandleJoin, HandleNotify, HandleStabilize, Notify, Closer, SetNext
  <2>2. M(0, b) \ {m} = ToPredecessor(n, p, b) /\ m \in M(0, b) /\ Stabilize(q, n) \notin M(0, b)
    BY <1>5, <1>7 DEF ToSuccessor
  <2>3. Only(ToPredecessor(n, p, b) \cup {Stabilize(q, n)})'
    BY <1>1, <1>7, <2>1, <2>2, OnlyHandled
  <2>4. ToPredecessor(n, p, b) \cup {Stabilize(q, n)} = M(1, b)
    BY DEF ToSuccessor
  <2>5. next'[n] = q /\ \A x \in S : next'[x] = next[x]
    BY <1>2, <2>1
  <2>6. Linked(S, n, p, q, 1, b)'
    BY <1>1, <1>2, <1>7, <2>1, <2>5 DEF Linked
  <2>7. Only(M(1, b))'
    BY <2>3, <2>4
  <2>8. Accepted(S, n, p, q, 1, b)'
    BY <1>1, <1>4, <2>6, <2>7 DEF Accepted
  <2> QED  BY <1>6, <2>8
<1>8. CASE a = 1 /\ m = Stabilize(q, n)
  <2>1. prev[q] = None \/ is_in_range(prev[q], q, n)
    BY <1>1, <1>8 DEF Between, is_in_range
  <2>2. /\ Replace(m, Notify(n, prev'[q])) /\ next' = next
        /\ prev' = [prev EXCEPT ![q] = n]
    BY <1>8, <2>1 DEF HandleJoin, HandleNotify, HandleStabilize, Stabilize
  <2>3. /\ prev'[q] = n /\ prev'[n] = prev[n] /\ Replace(m, Notify(n, n))
        /\ \A x \in S \ {p} : prev'[next[x]] = x
    BY <1>1, <1>2, <2>2
  <2>4. M(1, b) \ {m} = ToPredecessor(n, p, b) /\ m \in M(1, b) /\ Notify(n, n) \notin M(1, b)
    BY <1>5, <1>8 DEF ToSuccessor
  <2>5. Only(ToPredecessor(n, p, b) \cup {Notify(n, n)})'
    BY <1>1, <1>8, <2>3, <2>4, OnlyHandled
  <2>6. ToPredecessor(n, p, b) \cup {Notify(n, n)} = M(2, b)
    BY DEF ToSuccessor
  <2>7. Linked(S, n, p, q, 2, b)'
    BY <1>1, <1>2, <1>8, <2>2, <2>3 DEF Linked
  <2>8. Only(M(2, b))'
    BY <2>5, <2>6
  <2>9. Accepted(S, n, p, q, 2, b)'
    BY <1>1, <1>4, <2>7, <2>8 DEF Accepted
  <2> QED  BY <1>6, <2>9
<1>9. CASE a = 2 /\ m = Notify(n, n)
  <2>1. Consume(m) /\ next' = next /\ prev' = prev
    BY <1>1, <1>2, <1>9 DEF HandleJoin, HandleNotify, HandleStabilize, Notify, Closer
  <2>2. M(2, b) \ {m} = M(3, b) /\ m \in M(2, b)
    BY <1>5, <1>9 DEF ToSuccessor
  <2>3. Only(M(3, b))'
    BY <1>1, <1>9, <2>1, <2>2, OnlyHandled
  <2>4. Linked(S, n, p, q, 3, b)'
    BY <1>1, <1>2, <1>9, <2>1 DEF Linked
  <2>5. Only(M(3, b))'
    BY <2>3
  <2>6. Accepted(S, n, p, q, 3, b)'
    BY <1>1, <1>4, <2>4, <2>5 DEF Accepted
  <2> QED  BY <1>6, <2>6
\* n hears of its predecessor.
<1>10. CASE b = 0 /\ m = Stabilize(n, p)
  <2>1. /\ Replace(m, Notify(p, prev'[n])) /\ next' = next
        /\ prev' = [prev EXCEPT ![n] = p]
    BY <1>1, <1>10 DEF HandleJoin, HandleNotify, HandleStabilize, Stabilize
  <2>2. /\ prev'[n] = p /\ prev'[q] = prev[q]
        /\ \A x \in S \ {p} : prev'[next[x]] = x
        /\ Replace(m, Notify(p, p))
    BY <1>1, <1>2, <2>1
  <2>3. M(a, 0) \ {m} = ToSuccessor(n, q, a) /\ m \in M(a, 0) /\ Notify(p, p) \notin M(a, 0)
    BY <1>5, <1>10 DEF ToPredecessor
  <2>4. Only(ToSuccessor(n, q, a) \cup {Notify(p, p)})'
    <3>1. /\ m \in M(a, 0) /\ Only(M(a, 0)) /\ Notify(p, p) \notin M(a, 0)
          /\ Replace(m, Notify(p, p))
      BY <1>1, <1>10, <2>2, <2>3
    <3>2. Only((M(a, 0) \ {m}) \cup {Notify(p, p)})'
      BY <3>1, OnlyHandled
    <3> QED
      BY <2>3, <3>2
  <2>5. ToSuccessor(n, q, a) \cup {Notify(p, p)} = M(a, 1)
    BY DEF ToPredecessor
  <2>6. Linked(S, n, p, q, a, 1)'
    BY <1>1, <1>2, <1>10, <2>1, <2>2 DEF Linked
  <2>7. Only(M(a, 1))'
    BY <2>4, <2>5
  <2>8. Accepted(S, n, p, q, a, 1)'
    BY <1>1, <1>4, <2>6, <2>7 DEF Accepted
  <2> QED  BY <1>6, <2>8
<1>11. CASE b = 1 /\ m = Notify(p, p)
  <2>1. Consume(m) /\ next' = next /\ prev' = prev
    BY <1>1, <1>2, <1>11 DEF HandleJoin, HandleNotify, HandleStabilize, Notify, Closer
  <2>2. M(a, 1) \ {m} = M(a, 2) /\ m \in M(a, 1)
    BY <1>5, <1>11 DEF ToPredecessor
  <2>3. Only(M(a, 2))'
    BY <1>1, <1>11, <2>1, <2>2, OnlyHandled
  <2>4. Linked(S, n, p, q, a, 2)'
    BY <1>1, <1>2, <1>11, <2>1 DEF Linked
  <2>5. Only(M(a, 2))'
    BY <2>3
  <2>6. Accepted(S, n, p, q, a, 2)'
    BY <1>1, <1>4, <2>4, <2>5 DEF Accepted
  <2> QED  BY <1>6, <2>6
<1> QED  BY <1>3, <1>7, <1>8, <1>9, <1>10, <1>11

LEMMA OneHandled ==
    ASSUME TypeOK, OneByOne, lost = 0, copied = 0, ~ crowded, NEW m \in InFlight,
           HandleJoin(m) \/ HandleNotify(m) \/ HandleStabilize(m)
    PROVE  OneByOne'
<1>1. ~ Quiet
  BY DEF Quiet, InFlight, BagToSet, EmptyBag, SetToBag
<1>2. Joining'
  BY <1>1, OneAsking, OneAccepted DEF OneByOne, Joining
<1>3. started' = started
  BY DEF HandleJoin, HandleNotify, HandleStabilize
<1>4. First \in started /\ \A x \in Node \ started : next[x] = None /\ prev[x] = None
  BY DEF OneByOne
<1>5. ASSUME NEW x \in Node \ started
      PROVE  next'[x] = None /\ prev'[x] = None
  <2>1. m.dest \in started
    <3>1. CASE \E S \in SUBSET Node, n, d \in Node : Asking(S, n, d)
      <4>1. PICK S \in SUBSET Node, n \in Node, d \in Node : Asking(S, n, d)
        BY <3>1
      <4>2. m = Join(d, n) /\ d \in started
        BY <4>1, OnlyHandled DEF Asking
      <4> QED  BY <4>2 DEF Join
    <3>2. CASE \E S \in SUBSET Node, n, p, q \in Node, a, b \in Nat : Accepted(S, n, p, q, a, b)
      <4>1. PICK S \in SUBSET Node, n \in Node, p \in Node, q \in Node, a \in Nat, b \in Nat :
                Accepted(S, n, p, q, a, b)
        BY <3>2
      <4>2. n \in started /\ p \in started /\ q \in started
        BY <4>1 DEF Accepted, Between
      <4>3. m \in ToSuccessor(n, q, a) \cup ToPredecessor(n, p, b)
        BY <4>1, OnlyHandled DEF Accepted
      <4> QED  BY <4>2, <4>3 DEF ToSuccessor, ToPredecessor, Notify, Stabilize
    <3> QED  BY <1>1, <3>1, <3>2 DEF OneByOne, Joining
  <2>2. /\ next \in [Node -> Node \cup {None}] /\ prev \in [Node -> Node \cup {None}]
        /\ m.dest # x
    BY <2>1 DEF TypeOK
  <2>3. next'[x] = next[x]
    BY <2>2 DEF HandleJoin, HandleNotify, HandleStabilize, SetNext
  <2>4. prev'[x] = prev[x]
    BY <2>2 DEF HandleJoin, HandleNotify, HandleStabilize
  <2> QED  BY <1>4, <2>3, <2>4
<1> QED  BY <1>2, <1>3, <1>4, <1>5 DEF OneByOne

LEMMA OneByOneInit == ASSUME Init PROVE OneByOne
<1>1. Quiet /\ RingOf(started) /\ First \in started
  BY ChordRingAssumption DEF Init, Quiet, RingOf
<1> QED  BY <1>1 DEF Init, OneByOne, Joining

LEMMA OneByOneNext ==
    ASSUME TypeOK, OneByOne, [Next]_ringVars
    PROVE  OneByOne'
<1> SUFFICES ASSUME lost' = 0, copied' = 0, ~ crowded' PROVE OneByOne'
  BY DEF OneByOne
<1>1. CASE Start
  <2>1. PICK n \in Node, via \in Node : StartVia(n, via)
    BY <1>1 DEF Start
  <2> QED  BY <2>1, OneStart DEF StartVia
<1>2. CASE Handle
  <2>1. PICK m \in InFlight : HandleJoin(m) \/ HandleNotify(m) \/ HandleStabilize(m)
    BY <1>2 DEF Handle
  <2>2. lost = 0 /\ copied = 0 /\ ~ crowded
    BY <2>1 DEF HandleJoin, HandleNotify, HandleStabilize
  <2> QED  BY <2>1, <2>2, OneHandled
<1>3. CASE Network
  BY <1>3 DEF Network, Lose, Copy, TypeOK
<1>4. CASE UNCHANGED ringVars
  <2>1. /\ started' = started /\ next' = next /\ prev' = prev /\ net' = net /\ copied' = copied
        /\ lost' = lost /\ crowded' = crowded
    BY <1>4 DEF ringVars, nodeVars
  <2>2. /\ \A M : Only(M)' <=> Only(M)
        /\ \A S, n, p, q : Between(S, n, p, q)' <=> Between(S, n, p, q)
        /\ \A S : RingOf(S)' <=> RingOf(S)
    BY <2>1 DEF Only, Between, RingOf
  <2>3. /\ \A S, n, d : Asking(S, n, d)' <=> Asking(S, n, d)
        /\ \A S, n, p, q, a, b : Accepted(S, n, p, q, a, b)' <=> Accepted(S, n, p, q, a, b)
        /\ (Quiet /\ RingOf(started))' <=> Quiet /\ RingOf(started)
    BY <2>1, <2>2 DEF Asking, Accepted, Linked, Quiet, RingOf
  <2>4. Joining' <=> Joining
    BY <2>3 DEF Joining
  <2> QED  BY <2>1, <2>4 DEF OneByOne
<1> QED  BY <1>1, <1>2, <1>3, <1>4 DEF Next

LEMMA OneByOneRing ==
    ASSUME TypeOK, OneByOne
    PROVE  RingWhenQuiet
<1> SUFFICES ASSUME Quiet, ~ crowded, lost = 0, copied = 0
             PROVE  IF started = {First} THEN next[First] = None ELSE SortedRing(started)
  BY DEF RingWhenQuiet
<1>1. RingOf(started) /\ started \in SUBSET Node
  BY QuietIsRing DEF OneByOne, TypeOK
<1>2. CASE started = {First}
  BY <1>1, <1>2 DEF RingOf
<1>3. CASE started # {First}
  <2>1. \A x \in started : Follows(started, x, next[x]) /\ prev[next[x]] = x
    BY <1>1, <1>3 DEF RingOf
  <2>2. \A x \in started : next[x] = SuccessorIn(started, x)
    BY <1>1, <2>1, FollowsIsSuccessor
  <2> QED  BY <1>3, <2>1, <2>2 DEF SortedRing
<1> QED  BY <1>2, <1>3

\* When servers are added one after the other and no datagram is lost or repeated, they form
\* one ring in the order of their ids whenever it is quiet, with prev the inverse of next -
\* for any number of servers, added in any order through any server that runs.
THEOREM OneRing == Spec => []RingWhenQuiet
<1>1. Init => TypeOK /\ OneByOne
  BY InitTypeOK, OneByOneInit
<1>2. TypeOK /\ OneByOne /\ [Next]_ringVars => TypeOK' /\ OneByOne'
  BY NextTypeOK, OneByOneNext
<1>3. TypeOK /\ OneByOne => RingWhenQuiet
  BY OneByOneRing
<1> QED  BY <1>1, <1>2, <1>3, PTL DEF Spec


----------------------------------------------------------------------------
\* As long as no server has joined since the start: nothing is under way between the
\* servers, they know their successors, and what they keep is in their range.
Settled ==
    /\ net = EmptyBag /\ copied = 0
    /\ next = [n \in Node |-> IF n \in Member THEN Following(Member, n) ELSE None]
    /\ \A n \in Node, k \in Key : table[n][k] # Absent => n \in Member /\ is_key_in_range(n, k)

HomeInv ==
    /\ Member \subseteq started
    /\ DOMAIN table = Node /\ \A n \in Node : DOMAIN table[n] = Key \cup {NoKey}
    /\ started = Member => Settled

LEMMA HomeInit == ASSUME StoreInit PROVE HomeInv
  BY DEF StoreInit, HomeInv, Settled

LEMMA HomeProcess ==
    ASSUME HomeInv, NEW d, Process(d) PROVE HomeInv'
<1> DEFINE n == d.dest
           new == Effect(Body(d), table[n][d.key])
<1>1. /\ n \in started /\ is_key_in_range(n, d.key)
      /\ table' = [table EXCEPT ![n][d.key] = new]
      /\ started' = started /\ next' = next /\ net' = net /\ copied' = copied
  BY DEF Process, ringVars, nodeVars
<1> HIDE DEF n, new
<1>2. DOMAIN table' = Node /\ \A m \in Node : DOMAIN table'[m] = Key \cup {NoKey}
  BY <1>1 DEF HomeInv
<1>3. ASSUME NEW m \in Node, NEW k \in Key, m # n \/ k # d.key
      PROVE  table'[m][k] = table[m][k]
  BY <1>1, <1>3 DEF HomeInv
<1>4. ASSUME started = Member PROVE Settled'
  <2>1. Settled /\ n \in Member
    BY <1>1, <1>4 DEF HomeInv
  <2>2. ASSUME NEW m \in Node, NEW k \in Key, table'[m][k] # Absent
        PROVE  m \in Member /\ is_key_in_range(m, k)
    <3>1. CASE m # n \/ k # d.key
      BY <1>3, <2>1, <2>2, <3>1 DEF Settled
    <3>2. CASE m = n /\ k = d.key
      BY <1>1, <2>1, <3>2
    <3> QED  BY <3>1, <3>2
  <2>3. \A m \in Node, k \in Key : is_key_in_range(m, k)' <=> is_key_in_range(m, k)
    BY <1>1 DEF is_key_in_range
  <2> QED  BY <1>1, <2>1, <2>2, <2>3 DEF Settled
<1> QED  BY <1>1, <1>2, <1>4 DEF HomeInv

\* Steps that leave the ring and the tables alone.
LEMMA HomeUnchanged ==
    ASSUME HomeInv, UNCHANGED <<started, next, net, copied, table>> PROVE HomeInv'
  BY DEF HomeInv, Settled, is_key_in_range

\* Without a message under way no server handles one.
LEMMA NothingInFlight == ASSUME net = EmptyBag PROVE InFlight = {}
  BY DEF InFlight, BagToSet, EmptyBag, SetToBag

LEMMA HomeStep == ASSUME HomeInv, [StoreNext]_allVars PROVE HomeInv'
<1>1. CASE Clients
  BY <1>1, HomeUnchanged DEF Clients, Ask, ClientReceives, ringVars, nodeVars
<1>2. ASSUME NEW d \in BagToSet(xnet), Process(d) PROVE HomeInv'
  BY <1>2, HomeProcess
<1>3. ASSUME NEW d \in BagToSet(xnet), Forward(d) \/ Relay(d) \/ Panic(d) PROVE HomeInv'
  BY <1>3, HomeUnchanged DEF Forward, Relay, Panic, ringVars, nodeVars
<1>4. ASSUME NEW m \in InFlight,
             \/ PanicInternal(m)
             \/ (HandleJoin(m) \/ HandleNotify(m) \/ HandleStabilize(m)) /\ UNCHANGED storeVars
             \/ (Lose(m) \/ Copy(m)) /\ UNCHANGED storeVars
      PROVE  HomeInv'
  <2>1. started # Member
    BY NothingInFlight DEF HomeInv, Settled
  <2>2. started' = started /\ table' = table
    BY <1>4 DEF PanicInternal, HandleJoin, HandleNotify, HandleStabilize, Lose, Copy,
                ringVars, storeVars
  <2> QED  BY <2>1, <2>2 DEF HomeInv
<1>5. CASE Start /\ UNCHANGED storeVars
  <2>1. PICK n \in Node : n \notin started /\ started' = started \cup {n} /\ table' = table
    BY <1>5 DEF Start, StartVia, storeVars
  <2>2. Member \subseteq started' /\ started' # Member
    BY <2>1 DEF HomeInv
  <2> QED  BY <2>1, <2>2 DEF HomeInv
<1>6. ASSUME NEW d \in BagToSet(xnet), LoseDatagram(d) PROVE HomeInv'
  BY <1>6, HomeUnchanged DEF LoseDatagram, nodeVars
<1>7. CASE UNCHANGED allVars
  BY <1>7, HomeUnchanged DEF allVars, ringVars, nodeVars, storeVars
<1> QED
  BY <1>1, <1>2, <1>3, <1>4, <1>5, <1>6, <1>7 DEF StoreNext, Servers, Others, Network

(***************************************************************************)
(* No key is kept by two servers, until another joins (is_key_in_range,    *)
(* server.c:53-67).                                                        *)
(***************************************************************************)
THEOREM OneHomeTheorem == StoreSpec => []OneHome
<1>1. HomeInv => OneHome
  <2> SUFFICES ASSUME HomeInv, started = Member,
                      NEW k \in Key, NEW m \in Node, NEW n \in Node,
                      table[m][k] # Absent, table[n][k] # Absent, m # n
               PROVE  FALSE
    BY DEF OneHome
  <2>1. /\ m \in Member /\ is_key_in_range(m, k) /\ n \in Member /\ is_key_in_range(n, k)
        /\ next[m] = SuccessorIn(Member, m) /\ next[n] = SuccessorIn(Member, n)
    BY DEF HomeInv, Settled, Following
  <2>2. Member \subseteq Node /\ None \notin Node /\ Hash[k] \in 0 .. IdSpace - 1
    BY ChordStoreAssumption, ChordRingAssumption
  <2>3. SuccessorIn(Member, m) \in Member /\ SuccessorIn(Member, n) \in Member
    BY <2>1, <2>2, SuccessorNearest
  <2> QED  BY <2>1, <2>2, <2>3, Disjoint DEF is_key_in_range
<1> QED  BY <1>1, HomeInit, HomeStep, PTL DEF StoreSpec

----------------------------------------------------------------------------
(***************************************************************************)
(* The servers of the start are a ring that was built before, and what is  *)
(* true of the ring stays true while requests are handled in between.      *)
(***************************************************************************)
RingInv == TypeOK /\ Circles

\* Every server of a ring follows another one.
LEMMA Preceding ==
    ASSUME NEW S \in SUBSET Node, NEW n \in S, NEW m \in S \ {n}
    PROVE  \E p \in S \ {n} : SuccessorIn(S, p) = n
<1> DEFINE D == {Offset(t, n) : t \in S \ {n}}
<1>1. \A t \in S : t \in 0 .. IdSpace - 1 /\ IdSpace \in Nat
  BY ChordRingAssumption
<1>2. D \subseteq Nat /\ D # {}
  BY <1>1, OffsetFacts
<1>3. PICK d \in D : \A e \in D : d =< e
  BY <1>2, Smallest
<1>4. PICK p \in S \ {n} : d = Offset(p, n)
  OBVIOUS
<1>5. ASSUME NEW t \in S \ {p} PROVE Offset(p, n) <= Offset(p, t)
  <2>1. t # n => Offset(p, n) =< Offset(t, n)
    BY <1>3, <1>4
  <2>2. /\ Offset(p, n) = IF p =< n THEN n - p ELSE n - p + IdSpace
        /\ Offset(p, t) = IF p =< t THEN t - p ELSE t - p + IdSpace
        /\ Offset(t, n) = IF t =< n THEN n - t ELSE n - t + IdSpace
    BY <1>1, OffsetFacts
  <2>3. /\ p \in Int /\ 0 =< p /\ p < IdSpace /\ n \in Int /\ 0 =< n /\ n < IdSpace
        /\ t \in Int /\ 0 =< t /\ t < IdSpace /\ IdSpace \in Int /\ p # n /\ t # p
    BY <1>1, <1>4, <1>5
  <2> QED  BY <2>1, <2>2, <2>3
<1>6. Follows(S, p, n)
  BY <1>5 DEF Follows
<1> QED  BY <1>6, FollowsIsSuccessor

LEMMA RingStart == ASSUME StoreInit PROVE RingInv
<1>1. /\ Member \subseteq Node /\ First \in Member /\ None \notin Node /\ started = Member
      /\ net = EmptyBag /\ lost = 0 /\ copied = 0 /\ MaxLost \in Nat /\ MaxCopied \in Nat
  BY ChordStoreAssumption, ChordRingAssumption DEF StoreInit
<1>2. InFlight = {} /\ IsABag(net)
  BY <1>1 DEF InFlight, BagToSet, IsABag, EmptyBag, SetToBag
<1>3. ASSUME NEW n \in Member, Member # {n}
      PROVE  /\ Following(Member, n) \in Member \ {n}
             /\ \E p \in Member : Following(Member, p) = n
  <2>1. PICK m \in Member \ {n} : TRUE
    BY <1>3
  <2>2. Member \in SUBSET Node
    BY <1>1
  <2>3. SuccessorIn(Member, n) \in Member \ {n}
    BY <2>2, SuccessorNearest
  <2>4. PICK p \in Member \ {n} : SuccessorIn(Member, p) = n
    BY <2>2, Preceding
  <2> QED  BY <1>3, <2>3, <2>4 DEF Following
<1>4. /\ next \in [Node -> Member \cup {None}]
      /\ \A n \in Node : next[n] # None => n \in Member /\ next[n] \in Member \ {n}
      /\ next[First] = None => Member = {First}
  <2>1. next = [n \in Node |-> IF n \in Member THEN Following(Member, n) ELSE None]
    BY DEF StoreInit
  <2>2. \A n \in Member : Following(Member, n) \in (Member \ {n}) \cup {None}
    BY <1>3 DEF Following
  <2> QED  BY <1>1, <1>3, <2>1, <2>2
<1>5. /\ prev \in [Node -> Member \cup {None}]
      /\ \A n \in Node : prev[n] # None => n \in Member /\ prev[n] \in Member
  <2> DEFINE before(n) == CHOOSE p \in Member : Following(Member, p) = n
  <2>1. prev = [n \in Node |-> IF n \in Member /\ Member # {n} THEN before(n) ELSE None]
    BY DEF StoreInit
  <2>2. \A n \in Member : Member # {n} => before(n) \in Member
    BY <1>3
  <2> HIDE DEF before
  <2> QED  BY <1>1, <2>1, <2>2
<1>6. TypeOK
  BY <1>1, <1>2, <1>4, <1>5 DEF TypeOK
<1>7. Circles
  <2> DEFINE circle == [n \in Node |-> First]
             rank   == [n \in Node |-> 0]
  <2>1. /\ circle \in [Node -> Node] /\ rank \in [Node -> Nat] /\ 1 \in Nat
        /\ \A n \in Node : circle[n] = First /\ rank[n] = 0
    BY <1>1
  <2> HIDE DEF circle, rank
  <2>2. Apart(circle, rank, 1)
    BY <1>1, <1>2, <1>4, <1>5, <2>1 DEF Apart
  <2>3. Led(circle)
    BY <1>1, <1>4, <2>1 DEF Led
  <2> QED  BY <1>2, <2>1, <2>2, <2>3 DEF Circles, JoinsOnce
<1> QED  BY <1>6, <1>7 DEF RingInv

\* A step of the store is one of the ring, or leaves it alone, but that a datagram may be
\* lost.
LEMMA RingStep == ASSUME RingInv, [StoreNext]_allVars PROVE RingInv'
<1>1. ASSUME [Next]_ringVars PROVE RingInv'
  BY <1>1, NextTypeOK, CirclesNext DEF RingInv
<1>2. CASE Clients
  BY <1>1, <1>2 DEF Clients, Ask, ClientReceives
<1>3. CASE Servers
  BY <1>1, <1>3 DEF Servers, Process, Forward, Relay, Panic, PanicInternal, Next, Handle
<1>4. CASE (Start \/ Network) /\ UNCHANGED storeVars
  BY <1>1, <1>4 DEF Next
<1>5. ASSUME NEW d \in BagToSet(xnet), LoseDatagram(d) PROVE RingInv'
  <2>1. /\ lost \in Nat /\ lost < MaxLost /\ lost' = lost + 1 /\ MaxLost \in Nat
        /\ UNCHANGED <<started, next, prev, net, copied>>
    BY <1>5, ChordRingAssumption DEF LoseDatagram, nodeVars, RingInv, TypeOK
  <2>2. InFlight' = InFlight
    BY <2>1 DEF InFlight
  <2>3. TypeOK'
    BY <2>1, <2>2 DEF RingInv, TypeOK
  <2>4. Circles'
    <3> SUFFICES ASSUME copied = 0 PROVE Circles'
      BY <2>1 DEF Circles
    <3>1. PICK circle \in [Node -> Node], rank \in [Node -> Nat], N \in Nat :
              Apart(circle, rank, N) /\ Led(circle)
      BY DEF RingInv, Circles
    <3>2. Apart(circle, rank, N)'
      BY <2>1, <2>2, <3>1 DEF Apart, MessageOK
    <3>3. Led(circle)' /\ JoinsOnce'
      BY <2>1, <2>2 DEF Led, JoinsOnce, RingInv, Circles
    <3> QED  BY <3>1, <3>2, <3>3 DEF Circles
  <2> QED  BY <2>3, <2>4 DEF RingInv
<1>6. CASE UNCHANGED allVars
  BY <1>1, <1>6 DEF allVars
<1> QED  BY <1>2, <1>3, <1>4, <1>5, <1>6 DEF StoreNext, Others

----------------------------------------------------------------------------
(***************************************************************************)
(* What the servers keep and send is well-typed, whatever is lost or       *)
(* repeated and whoever takes a datagram for the answer it waits for.      *)
(***************************************************************************)
StoreTyped == StoreTypeOK /\ DOMAIN waiting = Node

\* Bits, key and value of a datagram.
LEMMA DatagramBody ==
    ASSUME NEW to, NEW from, NEW ack, NEW tid, NEW client, NEW r \in Reply
    PROVE  Body(Datagram(to, from, ack, tid, r, client)) = r
<1>1. r \in [op : SUBSET {"del", "set", "get"}, key : Key \cup {NoKey}, val : Value \cup {Cut}]
  BY DEF Reply
<1>2. Body(Datagram(to, from, ack, tid, r, client)) = [op |-> r.op, key |-> r.key, val |-> r.val]
  BY DEF Body, Datagram
<1> QED  BY <1>1, <1>2

\* A request is a reply as to its form, and so is what comes of it and of a part of it.
LEMMA ReplyForms ==
    ASSUME NEW r \in Reply, NEW old \in Value \cup {Cut, Absent}, NEW room
    PROVE  /\ Effect(r, old) \in Value \cup {Cut, Absent} /\ Result(r, old) \in Reply
           /\ [r EXCEPT !.val = CutTo(@, room)] \in {r, [r EXCEPT !.val = Cut]}
           /\ [r EXCEPT !.val = CutTo(@, room)] \in Reply
           /\ r.key \in Key \cup {NoKey}
<1>1. /\ r.op \in SUBSET {"del", "set", "get"} /\ r.key \in Key \cup {NoKey}
      /\ r.val \in Value \cup {Cut}
      /\ r = [op |-> r.op, key |-> r.key, val |-> r.val]
  BY DEF Reply
<1>2. Effect(r, old) \in Value \cup {Cut, Absent}
  BY <1>1 DEF Effect
<1> DEFINE new == Effect(r, old)
<1> HIDE DEF new
<1>3. Result(r, old) \in Reply
  <2>1. Empty \in Value /\ new \in Value \cup {Cut, Absent}
    BY <1>2, ChordStoreAssumption DEF new
  <2> QED  BY <1>1, <2>1 DEF Result, Reply, new
<1>4. CutTo(r.val, room) \in {r.val, Cut}
  BY DEF CutTo
<1>5. [r EXCEPT !.val = CutTo(@, room)] \in {r, [r EXCEPT !.val = Cut]}
  BY <1>1, <1>4
<1>6. [r EXCEPT !.val = Cut] \in Reply
  BY DEF Reply
<1> QED  BY <1>1, <1>2, <1>3, <1>5, <1>6

LEMMA RequestForm == Request \subseteq Reply
  BY ChordStoreAssumption DEF Reply

\* The datagrams after one was taken and one of them sent.
LEMMA XnetTyped ==
    ASSUME StoreTyped, NEW d \in BagToSet(xnet), NEW e, Body(e) \in Reply,
           \/ xnet' = BagRemove(xnet, d)
           \/ xnet' = BagAdd(xnet, e)
           \/ xnet' = BagAdd(BagRemove(xnet, d), e)
    PROVE  IsABag(xnet') /\ \A x \in BagToSet(xnet') : Body(x) \in Reply
<1> DEFINE rest == BagRemove(xnet, d)
<1>1. IsABag(xnet) /\ \A x \in BagToSet(xnet) : Body(x) \in Reply
  BY DEF StoreTyped, StoreTypeOK
<1>2. IsABag(rest) /\ BagToSet(rest) \subseteq BagToSet(xnet)
  BY <1>1, BagRemoveFacts
<1> HIDE DEF rest
<1>3. IsABag(BagAdd(rest, e)) /\ BagToSet(BagAdd(rest, e)) = BagToSet(rest) \cup {e}
  BY <1>2, BagAddFacts
<1>4. IsABag(BagAdd(xnet, e)) /\ BagToSet(BagAdd(xnet, e)) = BagToSet(xnet) \cup {e}
  BY <1>1, BagAddFacts
<1> QED  BY <1>1, <1>2, <1>3, <1>4 DEF rest

LEMMA TypedInit == ASSUME StoreInit PROVE StoreTyped
<1>1. IsABag(xnet) /\ BagToSet(xnet) = {}
  BY DEF StoreInit, BagToSet, IsABag, EmptyBag, SetToBag
<1> QED  BY <1>1 DEF StoreInit, StoreTyped, StoreTypeOK

LEMMA TypedAsk ==
    ASSUME StoreTyped, NEW c \in Client, NEW r \in Request, NEW n, Ask(c, r, n)
    PROVE  StoreTyped'
<1>1. r \in Reply
  BY RequestForm
<1>2. PICK e : xnet' = BagAdd(xnet, e) /\ Body(e) = r
  <2>1. r \in [op : SUBSET {"del", "set", "get"}, key : Key, val : Value]
    BY ChordStoreAssumption
  <2>2. Body(Datagram(n, c, FALSE, Tid[c], r, c)) = [op |-> r.op, key |-> r.key, val |-> r.val]
    BY DEF Body, Datagram
  <2> QED  BY <2>1, <2>2 DEF Ask
<1>3. IsABag(xnet') /\ \A x \in BagToSet(xnet') : Body(x) \in Reply
  BY <1>1, <1>2, BagAddFacts DEF StoreTyped, StoreTypeOK
<1>4. /\ asked' = [asked EXCEPT ![c] = r] /\ got' = got /\ served' = served
      /\ alive' = alive /\ table' = table /\ waiting' = waiting
      /\ overlapped' \in BOOLEAN
  BY DEF Ask
<1>5. asked' \in [Client -> Request \cup {NoReply}]
  BY <1>4 DEF StoreTyped, StoreTypeOK
<1> QED  BY <1>3, <1>4, <1>5 DEF StoreTyped, StoreTypeOK

LEMMA TypedStep ==
    ASSUME TypeOK, StoreTyped, NEW d \in BagToSet(xnet),
           \/ ClientReceives(d) \/ Process(d) \/ Forward(d) \/ Relay(d) \/ Panic(d)
           \/ LoseDatagram(d)
    PROVE  StoreTyped'
<1> DEFINE b == Body(d)
           n == d.dest
<1>1. /\ b \in Reply /\ b.key = d.key
      /\ IsABag(xnet) /\ \A x \in BagToSet(xnet) : Body(x) \in Reply
      /\ alive \in [Node -> BOOLEAN]
      /\ table \in [Node -> [Key \cup {NoKey} -> Value \cup {Cut, Absent}]]
      /\ \A m \in Node : waiting[m] # Idle => Body(waiting[m]) \in Reply
      /\ asked \in [Client -> Request \cup {NoReply}] /\ DOMAIN waiting = Node
      /\ got \in [Client -> Reply \cup {NoReply}] /\ served \in [Client -> Reply \cup {NoReply}]
      /\ overlapped' \in BOOLEAN
  BY DEF StoreTyped, StoreTypeOK, Body, ClientReceives, Process, Forward, Relay, Panic,
         LoseDatagram
<1>2. CASE ClientReceives(d) \/ Panic(d) \/ LoseDatagram(d)
  <2>1. xnet' = BagRemove(xnet, d) /\ UNCHANGED <<table, waiting, asked, served>>
    BY <1>2 DEF ClientReceives, Panic, LoseDatagram
  <2>2. IsABag(xnet') /\ \A x \in BagToSet(xnet') : Body(x) \in Reply
    BY <1>1, <2>1, BagRemoveFacts
  <2>3. got' \in [Client -> Reply \cup {NoReply}] /\ alive' \in [Node -> BOOLEAN]
    BY <1>1, <1>2 DEF ClientReceives, Panic, LoseDatagram
  <2> QED  BY <1>1, <2>1, <2>2, <2>3 DEF StoreTyped, StoreTypeOK
<1>3. CASE Process(d)
  <2> DEFINE old == table[n][d.key]
  <2>1. /\ table' = [table EXCEPT ![n][d.key] = Effect(b, old)]
        /\ served' = [served EXCEPT ![d.client] = Result(b, old)]
        /\ xnet' = BagAdd(BagRemove(xnet, d),
                          Datagram(d.from, n, ~ d.ack, d.tid, Result(b, old), d.client))
        /\ UNCHANGED <<alive, waiting, asked, got>>
    BY <1>3 DEF Process
  <2>2. n \in Node /\ old \in Value \cup {Cut, Absent}
    <3>1. n \in Node
      BY <1>3 DEF Process, TypeOK
    <3>2. d.key \in Key \cup {NoKey}
      BY <1>1, ReplyForms
    <3> QED  BY <1>1, <3>1, <3>2
  <2>3. Effect(b, old) \in Value \cup {Cut, Absent} /\ Result(b, old) \in Reply
    BY <1>1, <2>2, ReplyForms
  <2> HIDE DEF old, b
  <2>4. table' \in [Node -> [Key \cup {NoKey} -> Value \cup {Cut, Absent}]]
    BY <1>1, <2>1, <2>3
  <2>5. served' \in [Client -> Reply \cup {NoReply}]
    BY <1>1, <2>1, <2>3
  <2>6. PICK e : xnet' = BagAdd(BagRemove(xnet, d), e) /\ Body(e) \in Reply
    BY <2>1, <2>3, DatagramBody
  <2>7. IsABag(xnet') /\ \A x \in BagToSet(xnet') : Body(x) \in Reply
    BY <2>6, XnetTyped
  <2> QED  BY <1>1, <2>1, <2>4, <2>5, <2>7 DEF StoreTyped, StoreTypeOK
<1>4. CASE Forward(d)
  <2>1. /\ waiting' = [waiting EXCEPT ![n] = d]
        /\ xnet' = BagAdd(BagRemove(xnet, d), Datagram(next[n], n, d.ack, d.tid, b, d.client))
        /\ UNCHANGED <<alive, table, asked, got, served>>
    BY <1>4 DEF Forward
  <2>2. PICK e : xnet' = BagAdd(BagRemove(xnet, d), e) /\ Body(e) \in Reply
    BY <1>1, <2>1, DatagramBody
  <2>3. IsABag(xnet') /\ \A x \in BagToSet(xnet') : Body(x) \in Reply
    BY <2>2, XnetTyped
  <2>4. DOMAIN waiting' = Node /\ \A m \in Node : waiting'[m] # Idle => Body(waiting'[m]) \in Reply
    BY <1>1, <2>1
  <2> QED  BY <1>1, <2>1, <2>3, <2>4 DEF StoreTyped, StoreTypeOK
<1>5. CASE Relay(d)
  <2> DEFINE cutBody == [b EXCEPT !.val = CutTo(@, waiting[n].val)]
  <2>1. /\ waiting' = [waiting EXCEPT ![n] = Idle]
        /\ xnet' = BagAdd(BagRemove(xnet, d),
                          Datagram(waiting[n].from, n, d.ack, d.tid, cutBody, d.client))
        /\ UNCHANGED <<alive, table, asked, got, served>>
    BY <1>5 DEF Relay
  <2>2. cutBody \in Reply
    BY <1>1, ReplyForms
  <2> HIDE DEF cutBody
  <2>3. PICK e : xnet' = BagAdd(BagRemove(xnet, d), e) /\ Body(e) \in Reply
    BY <2>1, <2>2, DatagramBody
  <2>4. IsABag(xnet') /\ \A x \in BagToSet(xnet') : Body(x) \in Reply
    BY <2>3, XnetTyped
  <2>5. DOMAIN waiting' = Node /\ \A m \in Node : waiting'[m] # Idle => Body(waiting'[m]) \in Reply
    BY <1>1, <2>1
  <2> QED  BY <1>1, <2>1, <2>4, <2>5 DEF StoreTyped, StoreTypeOK
<1> QED  BY <1>2, <1>3, <1>4, <1>5

LEMMA TypedNext == ASSUME TypeOK, StoreTyped, [StoreNext]_allVars PROVE StoreTyped'
<1>1. ASSUME UNCHANGED storeVars PROVE StoreTyped'
  <2>1. UNCHANGED <<alive, table, waiting, xnet, asked, got, served, overlapped>>
    BY <1>1 DEF storeVars
  <2> QED  BY <2>1 DEF StoreTyped, StoreTypeOK
<1>2. ASSUME NEW m \in InFlight, PanicInternal(m) PROVE StoreTyped'
  <2>1. /\ alive' \in [Node -> BOOLEAN]
        /\ UNCHANGED <<table, waiting, xnet, asked, got, served, overlapped>>
    BY <1>2 DEF PanicInternal, StoreTyped, StoreTypeOK
  <2> QED  BY <2>1 DEF StoreTyped, StoreTypeOK
<1> QED
  BY <1>1, <1>2, TypedAsk, TypedStep DEF StoreNext, Clients, Servers, Others, allVars

(***************************************************************************)
(* What the servers keep and send is well-typed, also while servers join,  *)
(* internal messages are lost and repeated, and requests are mixed up.     *)
(***************************************************************************)
THEOREM StoreTypeCorrect == StoreSpec => []StoreTypeOK
<1>1. StoreInit => RingInv /\ StoreTyped
  BY RingStart, TypedInit
<1>2. RingInv /\ StoreTyped /\ [StoreNext]_allVars => RingInv' /\ StoreTyped'
  BY RingStep, TypedNext DEF RingInv
<1>3. StoreTyped => StoreTypeOK
  BY DEF StoreTyped
<1> QED  BY <1>1, <1>2, <1>3, PTL DEF StoreSpec

----------------------------------------------------------------------------
(***************************************************************************)
(* Each client's request is in one place: a datagram carries it from       *)
(* server to server, towards the key, and its answer back along the        *)
(* servers that wait.  A server that waits leaves its successor as it is,  *)
(* but the others may take in servers meanwhile.                           *)
(***************************************************************************)
Under == BagToSet(xnet)

Dist(n, c)  == Offset(n, Hash[asked[c].key])
Waits(n, c) == waiting[n] # Idle /\ waiting[n].client = c

\* Of the servers that wait for the client's answer, f is the nearest to the key.
Nearest(f, c) ==
    f \in Node /\ Waits(f, c) /\ \A w \in Node : Waits(w, c) => Dist(w, c) >= Dist(f, c)

\* The answer, or what is left of it.
Answers(c) == {served[c], [served[c] EXCEPT !.val = Cut]}

\* A server that waits forwarded a client's request, which the client has sent, or the next
\* farther one of the servers that wait.
WaitingOK(n) ==
    LET c == waiting[n].client  f == waiting[n].from IN
    /\ c \in Client /\ asked[c] # NoReply /\ waiting[n].tid = Tid[c]
    /\ \/ f = c /\ \A w \in Node : Waits(w, c) => Dist(w, c) =< Dist(n, c)
       \/ /\ f \in Node /\ Waits(f, c) /\ Dist(f, c) > Dist(n, c)
          /\ \A w \in Node : Waits(w, c) /\ Dist(w, c) > Dist(n, c) => Dist(w, c) >= Dist(f, c)

\* The servers that wait are farther from the key than the one that is asked now.
RequestOK(d) ==
    /\ Body(d) = asked[d.client] /\ d.dest \in Node
    /\ \A w \in Node : Waits(w, d.client) => Dist(w, d.client) > Dist(d.dest, d.client)
    /\ \/ d.from = d.client /\ \A w \in Node : ~ Waits(w, d.client)
       \/ Nearest(d.from, d.client)

\* An answer is for the nearest of them, or the client.
AnswerOK(d) ==
    /\ Body(d) \in Answers(d.client)
    /\ \/ d.dest = d.client /\ \A w \in Node : ~ Waits(w, d.client)
       \/ Nearest(d.dest, d.client)

TokenOK(d) ==
    /\ xnet[d] = 1 /\ "dest" \in DOMAIN d
    /\ d.client \in Client /\ asked[d.client] # NoReply /\ d.tid = Tid[d.client]
    /\ IF served[d.client] = NoReply THEN RequestOK(d) ELSE AnswerOK(d)

Tokens ==
    /\ IsABag(xnet) /\ DOMAIN waiting = Node
    /\ asked \in [Client -> Request \cup {NoReply}]
    /\ served \in [Client -> Reply \cup {NoReply}]
    /\ \A c \in Client : asked[c] = NoReply => served[c] = NoReply
    /\ \A n \in Node, k \in Key : table[n][k] \in Value \cup {Absent}
    /\ \A n \in Node : waiting[n] # Idle => WaitingOK(n)
    /\ \A d \in Under : TokenOK(d)
    /\ \A d, e \in Under : d.client = e.client => d = e

\* Nothing is left of a request that was answered, and among the clients that wait for
\* an answer the transaction id tells whose it is.
TidsApart ==
    /\ \A d \in Under : got[d.client] = NoReply
    /\ \A n \in Node : waiting[n] # Idle => got[waiting[n].client] = NoReply
    /\ \A c, d \in Client : Open(c) /\ Open(d) /\ Tid[c] = Tid[d] => c = d

StoreInv ==
    /\ HomeInv /\ RingInv /\ StoreTyped
    /\ copied = 0 /\ ~ overlapped => Tokens /\ TidsApart /\ OwnAnswer

\* A server that is not responsible for a key is followed by one that is nearer to it.
LEMMA Nearer ==
    ASSUME NEW f \in Node, NEW n \in Node \ {f}, NEW h \in 0 .. IdSpace - 1,
           ~ (Offset(f, h) < Offset(f, n))
    PROVE  Offset(n, h) < Offset(f, h)
<1>1. /\ f \in 0 .. IdSpace - 1 /\ n \in 0 .. IdSpace - 1 /\ IdSpace \in Nat \ {0}
  BY ChordRingAssumption
<1>2. /\ Offset(n, h) = IF n =< h THEN h - n ELSE h - n + IdSpace
      /\ Offset(f, h) = IF f =< h THEN h - f ELSE h - f + IdSpace
      /\ Offset(f, n) = IF f =< n THEN n - f ELSE n - f + IdSpace
  BY <1>1, OffsetFacts
<1>3. /\ f \in Int /\ n \in Int /\ h \in Int /\ IdSpace \in Int /\ n # f
      /\ 0 =< f /\ f < IdSpace /\ 0 =< n /\ n < IdSpace /\ 0 =< h /\ h < IdSpace
  BY <1>1
<1> QED  BY <1>2, <1>3

LEMMA SameDistance ==
    ASSUME NEW m \in 0 .. IdSpace - 1, NEW n \in 0 .. IdSpace - 1, NEW h \in 0 .. IdSpace - 1,
           m < n
    PROVE  Offset(m, h) # Offset(n, h)
<1>1. /\ Offset(m, h) = IF m =< h THEN h - m ELSE h - m + IdSpace
      /\ Offset(n, h) = IF n =< h THEN h - n ELSE h - n + IdSpace
      /\ Offset(m, h) \in Int /\ Offset(n, h) \in Int
  BY OffsetFacts
<1>2. /\ IdSpace \in Int /\ m \in Int /\ n \in Int /\ h \in Int
      /\ 0 =< m /\ m < IdSpace /\ 0 =< n /\ n < IdSpace
  BY ChordRingAssumption
<1>3. Offset(m, h) < Offset(n, h) \/ Offset(m, h) > Offset(n, h)
  BY <1>1, <1>2
<1> QED  BY <1>1, <1>3

----------------------------------------------------------------------------
\* The steps are taken as long as no internal message was repeated, and no two clients with
\* the same transaction id waited at the same time.
StoreNow ==
    /\ HomeInv /\ RingInv /\ StoreTyped /\ copied = 0 /\ ~ overlapped
    /\ Tokens /\ TidsApart /\ OwnAnswer

LEMMA RequestFields ==
    ASSUME StoreNow, NEW c \in Client, asked[c] # NoReply
    PROVE  /\ asked[c] \in Request /\ asked[c].key \in Key /\ asked[c].val \in Value
           /\ asked[c].op \in SUBSET {"del", "set", "get"}
           /\ Hash[asked[c].key] \in 0 .. IdSpace - 1
<1>1. asked[c] \in Request
  BY DEF StoreNow, Tokens
<1>2. asked[c] \in [op : SUBSET {"del", "set", "get"}, key : Key, val : Value]
  BY <1>1, ChordStoreAssumption
<1> QED  BY <1>1, <1>2, ChordStoreAssumption

LEMMA Distances ==
    ASSUME StoreNow, NEW c \in Client, asked[c] # NoReply
    PROVE  /\ \A w \in Node : Dist(w, c) \in Nat
           /\ \A v, w \in Node : Dist(v, c) = Dist(w, c) => v = w
<1>1. Node \subseteq 0 .. IdSpace - 1 /\ Hash[asked[c].key] \in 0 .. IdSpace - 1
  BY RequestFields, ChordRingAssumption
<1>2. \A w \in Node : Dist(w, c) \in Nat
  BY <1>1, OffsetFacts DEF Dist
<1>3. ASSUME NEW v \in Node, NEW w \in Node, Dist(v, c) = Dist(w, c) PROVE v = w
  <2>1. v \in Int /\ w \in Int /\ (v < w \/ w < v \/ v = w)
    BY <1>1, ChordRingAssumption
  <2> QED  BY <1>1, <1>3, <2>1, SameDistance DEF Dist
<1> QED  BY <1>2, <1>3

LEMMA Hop ==
    ASSUME StoreNow, NEW c \in Client, asked[c] # NoReply,
           NEW f \in Node, ~ is_key_in_range(f, asked[c].key)
    PROVE  next[f] \in Node \ {f} /\ Dist(next[f], c) < Dist(f, c)
<1>1. Hash[asked[c].key] \in 0 .. IdSpace - 1
  BY RequestFields
<1>2. next[f] \in Node \ {f}
  BY CirclesApart DEF StoreNow, RingInv, TypeOK, NeverOwnSuccessor, is_key_in_range
<1> QED  BY <1>1, <1>2, Nearer DEF is_key_in_range, Dist

\* What a step does not touch.
LEMMA OtherToken ==
    ASSUME NEW e, TokenOK(e), xnet'[e] = xnet[e],
           asked'[e.client] = asked[e.client], served'[e.client] = served[e.client],
           \A w \in Node : Waits(w, e.client)' <=> Waits(w, e.client)
    PROVE  TokenOK(e)'
<1>1. \A f : Nearest(f, e.client)' <=> Nearest(f, e.client)
  BY DEF Nearest, Dist
<1>2. RequestOK(e)' <=> RequestOK(e)
  BY <1>1 DEF RequestOK, Dist, Body
<1>3. AnswerOK(e)' <=> AnswerOK(e)
  BY <1>1 DEF AnswerOK, Body, Answers
<1> QED  BY <1>2, <1>3 DEF TokenOK

LEMMA OtherWaiting ==
    ASSUME NEW n \in Node, WaitingOK(n), waiting'[n] = waiting[n],
           asked'[waiting[n].client] = asked[waiting[n].client],
           \A w \in Node : Waits(w, waiting[n].client)' <=> Waits(w, waiting[n].client)
    PROVE  WaitingOK(n)'
  BY DEF WaitingOK, Dist

\* A datagram is taken, and one of the same client sent; or it is taken; or a first is sent.
LEMMA Swapped ==
    ASSUME StoreNow, NEW d \in Under, NEW e, e.client = d.client,
           xnet' = BagAdd(BagRemove(xnet, d), e)
    PROVE  /\ IsABag(xnet') /\ Under' = (Under \ {d}) \cup {e} /\ xnet'[e] = 1
           /\ \A x \in Under \ {d} : xnet'[x] = xnet[x] /\ x.client # d.client
<1> DEFINE B == BagRemove(xnet, d)
<1>1. /\ IsABag(xnet) /\ xnet[d] = 1 /\ Under = DOMAIN xnet
      /\ \A x \in Under \ {d} : x.client # d.client
  BY DEF StoreNow, Tokens, TokenOK, Under, BagToSet
<1>2. B = [x \in Under \ {d} |-> xnet[x]]
  BY <1>1 DEF BagRemove
<1>3. e \notin Under \ {d}
  BY <1>1
<1> HIDE DEF B
<1>4. xnet' = [x \in (Under \ {d}) \cup {e} |-> IF x = e THEN 1 ELSE B[x]]
  BY <1>2, <1>3 DEF BagAdd, B
<1>5. \A x \in Under \ {d} : x # e /\ xnet'[x] = xnet[x]
  BY <1>2, <1>3, <1>4
<1>6. xnet'[e] = 1 /\ DOMAIN xnet' = (Under \ {d}) \cup {e}
  BY <1>4
<1>7. \A x \in DOMAIN xnet' : xnet'[x] \in {n \in Nat : n > 0}
  BY <1>1, <1>5, <1>6 DEF IsABag
<1>8. IsABag(xnet')
  BY <1>4, <1>6, <1>7 DEF IsABag
<1> QED  BY <1>1, <1>5, <1>6, <1>8 DEF Under, BagToSet

LEMMA Removed ==
    ASSUME StoreNow, NEW d \in Under, xnet' = BagRemove(xnet, d)
    PROVE  /\ IsABag(xnet') /\ Under' = Under \ {d}
           /\ \A x \in Under \ {d} : xnet'[x] = xnet[x] /\ x.client # d.client
<1>1. /\ IsABag(xnet) /\ xnet[d] = 1 /\ Under = DOMAIN xnet
      /\ \A x \in Under \ {d} : x.client # d.client
  BY DEF StoreNow, Tokens, TokenOK, Under, BagToSet
<1>2. xnet' = [x \in Under \ {d} |-> xnet[x]]
  BY <1>1 DEF BagRemove
<1> QED  BY <1>1, <1>2 DEF IsABag, Under, BagToSet

LEMMA Added ==
    ASSUME StoreNow, NEW e, \A x \in Under : x.client # e.client, xnet' = BagAdd(xnet, e)
    PROVE  /\ IsABag(xnet') /\ Under' = Under \cup {e} /\ xnet'[e] = 1
           /\ \A x \in Under : xnet'[x] = xnet[x]
<1>1. IsABag(xnet) /\ Under = DOMAIN xnet
  BY DEF StoreNow, Tokens, Under, BagToSet
<1>2. xnet' = [x \in Under \cup {e} |-> IF x = e THEN 1 ELSE xnet[x]]
  BY <1>1 DEF BagAdd
<1>3. DOMAIN xnet' = Under \cup {e} /\ xnet'[e] = 1 /\ \A x \in Under : xnet'[x] = xnet[x]
  BY <1>2
<1>4. \A x \in DOMAIN xnet' : xnet'[x] \in {n \in Nat : n > 0}
  BY <1>1, <1>3 DEF IsABag
<1>5. IsABag(xnet')
  BY <1>2, <1>3, <1>4 DEF IsABag
<1> QED  BY <1>3, <1>5 DEF Under, BagToSet

\* A token and a waiting server, in a state where they are as they should be.
LEMMA TokenFacts ==
    ASSUME StoreNow, NEW d \in Under
    PROVE  /\ TokenOK(d) /\ d.client \in Client /\ asked[d.client] # NoReply
           /\ asked[d.client] \in Request
           /\ \A x \in Under : x.client = d.client => x = d
  BY RequestFields DEF StoreNow, Tokens, TokenOK

LEMMA WaitingFacts ==
    ASSUME StoreNow, NEW n \in Node, waiting[n] # Idle
    PROVE  /\ WaitingOK(n) /\ waiting[n].client \in Client
           /\ Waits(n, waiting[n].client)
  BY DEF StoreNow, Tokens, WaitingOK, Waits

\* A datagram is read by a client, lost, or read by a server that panics.
LEMMA TokensRemove ==
    ASSUME StoreNow, NEW d \in Under, xnet' = BagRemove(xnet, d),
           UNCHANGED <<table, waiting, asked, served>>
    PROVE  Tokens'
<1>1. /\ IsABag(xnet') /\ Under' = Under \ {d}
      /\ \A x \in Under \ {d} : xnet'[x] = xnet[x]
  BY Removed
<1>2. \A w \in Node, c \in Client : Waits(w, c)' <=> Waits(w, c)
  BY DEF Waits
<1>3. \A x \in Under' : TokenOK(x)'
  <2> SUFFICES ASSUME NEW x \in Under' PROVE TokenOK(x)'
    OBVIOUS
  <2>1. x \in Under /\ xnet'[x] = xnet[x] /\ TokenOK(x) /\ x.client \in Client
    BY <1>1, TokenFacts
  <2> QED  BY <1>2, <2>1, OtherToken
<1>4. ASSUME NEW n \in Node, waiting'[n] # Idle PROVE WaitingOK(n)'
  BY <1>2, <1>4, WaitingFacts, OtherWaiting
<1> QED  BY <1>1, <1>3, <1>4 DEF Tokens, StoreNow

LEMMA TokensAsk ==
    ASSUME StoreNow, NEW c \in Client, NEW r \in Request, NEW n \in Node, Ask(c, r, n)
    PROVE  Tokens'
<1> DEFINE e == Datagram(n, c, FALSE, Tid[c], r, c)
<1>1. /\ asked[c] = NoReply /\ n \in Node /\ asked' = [asked EXCEPT ![c] = r]
      /\ xnet' = BagAdd(xnet, e)
      /\ table' = table /\ waiting' = waiting /\ served' = served
  BY DEF Ask
<1>2. /\ e.client = c /\ e.dest = n /\ e.from = c /\ e.tid = Tid[c] /\ "dest" \in DOMAIN e
      /\ Body(e) = [op |-> r.op, key |-> r.key, val |-> r.val]
  BY DEF Datagram, Body
<1>3. r \in [op : SUBSET {"del", "set", "get"}, key : Key, val : Value] /\ r # NoReply
  BY ChordStoreAssumption DEF Reply
<1>4. Body(e) = r
  BY <1>2, <1>3
<1> HIDE DEF e
<1>5. /\ asked'[c] = r /\ \A d \in Client \ {c} : asked'[d] = asked[d]
      /\ asked' \in [Client -> Request \cup {NoReply}]
  BY <1>1 DEF StoreNow, Tokens
<1>6. \A x \in Under : x.client # c
  BY <1>1, TokenFacts
<1>7. /\ IsABag(xnet') /\ Under' = Under \cup {e} /\ xnet'[e] = 1
      /\ \A x \in Under : xnet'[x] = xnet[x]
  BY <1>1, <1>2, <1>6, Added
<1>8. \A w \in Node, d \in Client : Waits(w, d)' <=> Waits(w, d)
  BY <1>1 DEF Waits
<1>9. \A w \in Node : ~ Waits(w, c)
  BY <1>1 DEF Waits, WaitingOK, StoreNow, Tokens
<1>10. ASSUME NEW x \in Under PROVE TokenOK(x)'
  <2>1. TokenOK(x) /\ x.client \in Client \ {c} /\ xnet'[x] = xnet[x]
    BY <1>6, <1>7, TokenFacts
  <2> QED  BY <1>1, <1>5, <1>8, <2>1, OtherToken
<1>11. TokenOK(e)'
  <2>1. RequestOK(e)'
    BY <1>1, <1>2, <1>4, <1>5, <1>8, <1>9 DEF RequestOK, Body
  <2>2. served'[c] = NoReply
    BY <1>1 DEF StoreNow, Tokens
  <2> QED  BY <1>2, <1>3, <1>5, <1>7, <2>1, <2>2 DEF TokenOK
<1>12. ASSUME NEW m \in Node, waiting'[m] # Idle PROVE WaitingOK(m)'
  <2>1. WaitingOK(m) /\ waiting[m].client \in Client \ {c}
    BY <1>1, <1>9, <1>12, WaitingFacts
  <2> QED  BY <1>1, <1>5, <1>8, <2>1, OtherWaiting
<1>13. \A d \in Client : asked'[d] = NoReply => served'[d] = NoReply
  BY <1>1, <1>3, <1>5 DEF StoreNow, Tokens
<1>14. \A x, y \in Under' : x.client = y.client => x = y
  BY <1>2, <1>6, <1>7, TokenFacts
<1> QED  BY <1>1, <1>5, <1>7, <1>10, <1>11, <1>12, <1>13, <1>14 DEF Tokens, StoreNow

\* What a server that waits for nothing takes from its socket is a request.
LEMMA TakesRequest ==
    ASSUME StoreNow, NEW d \in Under, d.dest \in started, waiting[d.dest] = Idle
    PROVE  /\ served[d.client] = NoReply /\ RequestOK(d)
           /\ d.dest \in Node /\ d.key = asked[d.client].key
<1>1. d.dest \in Node /\ d.dest \notin Client
  BY ChordStoreAssumption DEF StoreNow, RingInv, TypeOK
<1>2. d.client \in Client
  BY TokenFacts
<1>3. ~ AnswerOK(d)
  BY <1>1, <1>2 DEF AnswerOK, Nearest, Waits
<1>4. RequestOK(d) /\ served[d.client] = NoReply
  BY <1>3, TokenFacts DEF TokenOK
<1> QED  BY <1>1, <1>4 DEF RequestOK, Body

\* What the request finds there, leaves there, and is answered.
LEMMA Answered ==
    ASSUME StoreNow, NEW c \in Client, asked[c] # NoReply, NEW old \in Value \cup {Absent}
    PROVE  /\ Effect(asked[c], old) \in Value \cup {Absent}
           /\ Result(asked[c], old) \in Reply /\ Result(asked[c], old) # NoReply
<1>1. Effect(asked[c], old) \in Value \cup {Absent}
  BY RequestFields DEF Effect
<1> DEFINE new == Effect(asked[c], old)
<1> HIDE DEF new
<1>2. /\ asked[c].op \in SUBSET {"del", "set", "get"} /\ asked[c].key \in Key
      /\ new \in Value \cup {Absent} /\ Empty \in Value
  BY <1>1, RequestFields, ChordStoreAssumption DEF new
<1>3. Result(asked[c], old) \in Reply
  BY <1>2 DEF Result, Reply, new
<1> QED  BY <1>1, <1>3, ChordStoreAssumption

LEMMA TokensProcess ==
    ASSUME StoreNow, NEW d \in Under, Process(d)
    PROVE  Tokens'
<1> DEFINE n   == d.dest
           c   == d.client
           old == table[n][d.key]
           r   == Result(Body(d), old)
<1>1. /\ n \in started /\ waiting[n] = Idle
      /\ table' = [table EXCEPT ![n][d.key] = Effect(Body(d), old)]
      /\ xnet' = BagAdd(BagRemove(xnet, d), Datagram(d.from, n, ~ d.ack, d.tid, r, c))
      /\ served' = [served EXCEPT ![c] = r]
      /\ waiting' = waiting /\ asked' = asked
  BY DEF Process
<1>2. /\ served[c] = NoReply /\ RequestOK(d) /\ n \in Node
      /\ d.key = asked[c].key /\ Body(d) = asked[c] /\ c \in Client /\ asked[c] # NoReply
      /\ TokenOK(d) /\ d.key \in Key
  BY <1>1, TakesRequest, TokenFacts, RequestFields DEF RequestOK
<1>3. old \in Value \cup {Absent}
  BY <1>2 DEF StoreNow, Tokens
<1>4. r \in Reply /\ r # NoReply /\ Effect(Body(d), old) \in Value \cup {Absent}
  BY <1>2, <1>3, Answered
<1> HIDE DEF r, old
<1>5. PICK e : /\ xnet' = BagAdd(BagRemove(xnet, d), e) /\ Body(e) = r
               /\ e.client = c /\ e.dest = d.from /\ e.tid = d.tid /\ "dest" \in DOMAIN e
  <2>1. PICK e : e = Datagram(d.from, n, ~ d.ack, d.tid, r, c)
    OBVIOUS
  <2>2. e.client = c /\ e.dest = d.from /\ e.tid = d.tid /\ "dest" \in DOMAIN e
    BY <2>1 DEF Datagram
  <2>3. Body(e) = [op |-> r.op, key |-> r.key, val |-> r.val]
    BY <2>1 DEF Body, Datagram
  <2>4. Body(e) = r
    BY <1>4, <2>3 DEF Reply
  <2> QED  BY <1>1, <2>1, <2>2, <2>4
<1>6. /\ IsABag(xnet') /\ Under' = (Under \ {d}) \cup {e} /\ xnet'[e] = 1
      /\ \A x \in Under \ {d} : xnet'[x] = xnet[x] /\ x.client # c
  BY <1>5, Swapped
<1>7. /\ served'[c] = r /\ served' \in [Client -> Reply \cup {NoReply}]
      /\ \A b \in Client \ {c} : served'[b] = served[b]
  BY <1>1, <1>2, <1>4 DEF StoreNow, Tokens
<1>8. \A w \in Node, b \in Client : Waits(w, b)' <=> Waits(w, b)
  BY <1>1 DEF Waits
<1>9. ASSUME NEW x \in Under \ {d} PROVE TokenOK(x)'
  <2>1. TokenOK(x) /\ x.client \in Client \ {c} /\ xnet'[x] = xnet[x]
    BY <1>6, TokenFacts
  <2> QED  BY <1>1, <1>7, <1>8, <2>1, OtherToken
<1>10. TokenOK(e)'
  <2>1. Nearest(d.from, c)' <=> Nearest(d.from, c)
    BY <1>1, <1>2, <1>8 DEF Nearest, Dist
  <2>2. \/ e.dest = e.client /\ \A w \in Node : ~ Waits(w, c)'
        \/ Nearest(e.dest, e.client)'
    BY <1>2, <1>5, <1>8, <2>1 DEF RequestOK
  <2>3. Body(e) \in Answers(c)'
    BY <1>5, <1>7 DEF Answers
  <2>4. AnswerOK(e)'
    BY <1>5, <2>2, <2>3 DEF AnswerOK, Body
  <2>5. d.tid = Tid[c]
    BY <1>2 DEF TokenOK
  <2> QED  BY <1>1, <1>2, <1>4, <1>5, <1>6, <1>7, <2>4, <2>5 DEF TokenOK
<1>11. ASSUME NEW m \in Node, waiting'[m] # Idle PROVE WaitingOK(m)'
  BY <1>1, <1>8, <1>11, WaitingFacts, OtherWaiting
<1>12. ASSUME NEW m \in Node, NEW k \in Key PROVE table'[m][k] \in Value \cup {Absent}
  <2>1. DOMAIN table = Node /\ DOMAIN table[m] = Key \cup {NoKey}
    BY DEF StoreNow, HomeInv
  <2>2. table[m][k] \in Value \cup {Absent}
    BY DEF StoreNow, Tokens
  <2>3. table'[m][k] = table[m][k] \/ table'[m][k] = Effect(Body(d), old)
    BY <1>1, <2>1
  <2> QED  BY <1>4, <2>2, <2>3
<1>13. \A b \in Client : asked'[b] = NoReply => served'[b] = NoReply
  BY <1>1, <1>2, <1>7 DEF StoreNow, Tokens
<1>14. \A x, y \in Under' : x.client = y.client => x = y
  BY <1>5, <1>6, TokenFacts
<1> QED
  BY <1>1, <1>6, <1>7, <1>9, <1>10, <1>11, <1>12, <1>13, <1>14 DEF Tokens, StoreNow

LEMMA TokensForward ==
    ASSUME StoreNow, NEW d \in Under, Forward(d)
    PROVE  Tokens'
<1> DEFINE n == d.dest
           c == d.client
<1>1. /\ n \in started /\ waiting[n] = Idle /\ ~ is_key_in_range(n, d.key)
      /\ xnet' = BagAdd(BagRemove(xnet, d), Datagram(next[n], n, d.ack, d.tid, Body(d), c))
      /\ waiting' = [waiting EXCEPT ![n] = d]
      /\ table' = table /\ asked' = asked /\ served' = served
  BY DEF Forward
<1>2. PICK e : /\ xnet' = BagAdd(BagRemove(xnet, d), e)
               /\ e.client = c /\ e.dest = next[n] /\ e.from = n /\ e.tid = d.tid
               /\ "dest" \in DOMAIN e /\ Body(e) = Body(d)
  BY <1>1 DEF Datagram, Body
<1>3. /\ served[c] = NoReply /\ RequestOK(d) /\ n \in Node
      /\ d.key = asked[c].key /\ Body(d) = asked[c] /\ c \in Client /\ asked[c] # NoReply
      /\ TokenOK(d)
  BY <1>1, TakesRequest, TokenFacts DEF RequestOK
<1>4. d # Idle
  <2>1. "dest" \in DOMAIN d
    BY <1>3 DEF TokenOK
  <2>2. "dest" \notin DOMAIN Idle
    BY DEF Idle
  <2> QED  BY <2>1, <2>2
<1>5. /\ IsABag(xnet') /\ Under' = (Under \ {d}) \cup {e} /\ xnet'[e] = 1
      /\ \A x \in Under \ {d} : xnet'[x] = xnet[x] /\ x.client # c
  BY <1>2, Swapped
<1>6. /\ DOMAIN waiting' = Node /\ waiting'[n] = d
      /\ \A m \in Node \ {n} : waiting'[m] = waiting[m]
  BY <1>1, <1>3 DEF StoreNow, Tokens
<1>7. /\ \A w \in Node, b \in Client \ {c} : Waits(w, b)' <=> Waits(w, b)
      /\ \A w \in Node : Waits(w, c)' <=> w = n \/ Waits(w, c)
  BY <1>1, <1>4, <1>6 DEF Waits
<1>8. ASSUME NEW x \in Under \ {d} PROVE TokenOK(x)'
  <2>1. TokenOK(x) /\ x.client \in Client \ {c} /\ xnet'[x] = xnet[x]
    BY <1>5, TokenFacts
  <2> QED  BY <1>1, <1>7, <2>1, OtherToken
<1>9. /\ next[n] \in Node \ {n} /\ Dist(next[n], c) < Dist(n, c)
      /\ \A w \in Node : Dist(w, c) \in Nat
      /\ \A w \in Node : Waits(w, c) => Dist(w, c) > Dist(n, c)
  BY <1>1, <1>3, Hop, Distances DEF RequestOK
<1>10. \A w \in Node : Dist(w, c)' = Dist(w, c)
  BY <1>1 DEF Dist
<1>11. TokenOK(e)'
  <2>1. d.tid = Tid[c]
    BY <1>3 DEF TokenOK
  <2>2. \A w \in Node : Waits(w, c)' => Dist(w, c) > Dist(next[n], c) /\ Dist(w, c) >= Dist(n, c)
    BY <1>3, <1>7, <1>9
  <2>3. Nearest(n, c)'
    BY <1>3, <1>7, <1>10, <2>2 DEF Nearest
  <2>4. \A w \in Node : Waits(w, c)' => Dist(w, c)' > Dist(e.dest, c)'
    BY <1>2, <1>9, <1>10, <2>2
  <2>5. Body(e) = asked'[c]
    BY <1>1, <1>2, <1>3
  <2>6. RequestOK(e)'
    BY <1>2, <1>9, <2>3, <2>4, <2>5 DEF RequestOK, Body
  <2> QED  BY <1>1, <1>2, <1>3, <1>5, <2>1, <2>6 DEF TokenOK
<1>12. ASSUME NEW m \in Node, waiting'[m] # Idle PROVE WaitingOK(m)'
  <2>1. CASE m = n
    <3>1. d.tid = Tid[c]
      BY <1>3 DEF TokenOK
    <3>2. CASE d.from = c /\ \A w \in Node : ~ Waits(w, c)
      <4>1. \A w \in Node : Waits(w, c)' => Dist(w, c)' =< Dist(n, c)'
        BY <1>3, <1>7, <1>9, <1>10, <3>2
      <4> QED  BY <1>1, <1>3, <1>6, <2>1, <3>1, <3>2, <4>1 DEF WaitingOK
    <3>3. CASE Nearest(d.from, c)
      <4> PICK f : f = d.from
        OBVIOUS
      <4>1. f \in Node /\ Waits(f, c)' /\ Dist(f, c)' > Dist(n, c)'
        BY <1>3, <1>7, <1>9, <1>10, <3>3 DEF Nearest
      <4>2. ASSUME NEW w \in Node, Waits(w, c)', Dist(w, c)' > Dist(n, c)'
            PROVE  Dist(w, c)' >= Dist(f, c)'
        <5>1. w # n
          BY <1>3, <1>9, <1>10, <4>2
        <5> QED  BY <1>7, <1>10, <3>3, <4>1, <4>2, <5>1 DEF Nearest
      <4> QED  BY <1>1, <1>3, <1>6, <2>1, <3>1, <4>1, <4>2 DEF WaitingOK
    <3> QED  BY <1>3, <3>2, <3>3 DEF RequestOK
  <2>2. CASE m # n /\ waiting[m].client # c
    BY <1>1, <1>6, <1>7, <1>12, <2>2, WaitingFacts, OtherWaiting
  <2>3. CASE m # n /\ waiting[m].client = c
    <3> PICK f : f = waiting[m].from
      OBVIOUS
    <3>1. /\ WaitingOK(m) /\ waiting'[m] = waiting[m] /\ Waits(m, c)
          /\ waiting[m] # Idle /\ Dist(m, c) > Dist(n, c)
      BY <1>6, <1>9, <1>12, <2>3, WaitingFacts
    <3>2. CASE f = c /\ \A w \in Node : Waits(w, c) => Dist(w, c) =< Dist(m, c)
      <4>1. \A w \in Node : Waits(w, c)' => Dist(w, c)' =< Dist(m, c)'
        BY <1>3, <1>7, <1>9, <1>10, <3>1, <3>2
      <4> QED  BY <1>1, <2>3, <3>1, <3>2, <4>1 DEF WaitingOK
    <3>3. CASE /\ f \in Node /\ Waits(f, c) /\ Dist(f, c) > Dist(m, c)
               /\ \A w \in Node : Waits(w, c) /\ Dist(w, c) > Dist(m, c)
                                      => Dist(w, c) >= Dist(f, c)
      <4>1. f \in Node /\ Waits(f, c)' /\ Dist(f, c)' > Dist(m, c)'
        BY <1>7, <1>10, <3>3
      <4>2. ASSUME NEW w \in Node, Waits(w, c)', Dist(w, c)' > Dist(m, c)'
            PROVE  Dist(w, c)' >= Dist(f, c)'
        <5>1. w # n
          BY <1>3, <1>9, <1>10, <3>1, <4>2
        <5> QED  BY <1>7, <1>10, <3>3, <4>2, <5>1
      <4> QED  BY <1>1, <2>3, <3>1, <4>1, <4>2 DEF WaitingOK
    <3> QED  BY <2>3, <3>1, <3>2, <3>3 DEF WaitingOK
  <2> QED  BY <2>1, <2>2, <2>3
<1>13. \A x, y \in Under' : x.client = y.client => x = y
  BY <1>2, <1>5, TokenFacts
<1> QED
  BY <1>1, <1>5, <1>6, <1>8, <1>11, <1>12, <1>13 DEF Tokens, StoreNow

LEMMA TokensRelay ==
    ASSUME StoreNow, NEW d \in Under, Relay(d)
    PROVE  Tokens'
<1> DEFINE n == d.dest
           c == d.client
           part == [Body(d) EXCEPT !.val = CutTo(@, waiting[n].val)]
<1>1. /\ n \in started /\ waiting[n] # Idle /\ d.tid = waiting[n].tid
      /\ waiting' = [waiting EXCEPT ![n] = Idle]
      /\ table' = table /\ asked' = asked /\ served' = served
      /\ xnet' = BagAdd(BagRemove(xnet, d), Datagram(waiting[n].from, n, d.ack, d.tid, part, c))
  BY DEF Relay, IsAnswer
<1>2. /\ Body(d) \in Reply /\ part \in Reply /\ part \in {Body(d), [Body(d) EXCEPT !.val = Cut]}
      /\ \A a \in Reply : [[a EXCEPT !.val = Cut] EXCEPT !.val = Cut] = [a EXCEPT !.val = Cut]
  <2>1. Body(d) \in Reply /\ Cut \in Value \cup {Cut, Absent}
    BY DEF StoreNow, StoreTyped, StoreTypeOK, Under
  <2>2. part \in Reply /\ part \in {Body(d), [Body(d) EXCEPT !.val = Cut]}
    BY <2>1, ReplyForms
  <2> QED  BY <2>1, <2>2 DEF Reply
<1> HIDE DEF part
<1>3. PICK f, e : /\ f = waiting[n].from /\ xnet' = BagAdd(BagRemove(xnet, d), e)
                  /\ e.client = c /\ e.dest = f /\ e.tid = d.tid /\ "dest" \in DOMAIN e
                  /\ Body(e) = part
  <2>1. PICK e : e = Datagram(waiting[n].from, n, d.ack, d.tid, part, c)
    OBVIOUS
  <2>2. e.client = c /\ e.dest = waiting[n].from /\ e.tid = d.tid /\ "dest" \in DOMAIN e
    BY <2>1 DEF Datagram
  <2>3. Body(e) = [op |-> part.op, key |-> part.key, val |-> part.val]
    BY <2>1 DEF Body, Datagram
  <2>4. Body(e) = part
    BY <1>2, <2>3 DEF Reply
  <2> QED  BY <1>1, <2>1, <2>2, <2>4
<1>4. /\ n \in Node /\ c \in Client /\ asked[c] # NoReply /\ TokenOK(d)
      /\ d.tid = Tid[c] /\ WaitingOK(n) /\ waiting[n].client \in Client
  BY <1>1, TokenFacts, WaitingFacts DEF StoreNow, RingInv, TypeOK, TokenOK
<1>5. waiting[n].client = c /\ Waits(n, c)
  <2>1. waiting[n].tid = Tid[waiting[n].client] /\ asked[waiting[n].client] # NoReply
    BY <1>4 DEF WaitingOK
  <2>2. Open(c) /\ Open(waiting[n].client)
    BY <1>1, <1>4, <2>1 DEF StoreNow, TidsApart, Open
  <2> QED  BY <1>1, <1>4, <2>1, <2>2 DEF StoreNow, TidsApart, Waits
<1>6. \A w \in Node : Dist(w, c) \in Nat
  BY <1>4, Distances
<1>7. /\ served[c] # NoReply /\ Body(d) \in Answers(c) /\ served[c] \in Reply
      /\ \A w \in Node : Waits(w, c) => Dist(w, c) >= Dist(n, c)
  <2>1. ~ RequestOK(d)
    BY <1>4, <1>5, <1>6 DEF RequestOK
  <2>2. AnswerOK(d) /\ served[c] # NoReply
    BY <1>4, <2>1 DEF TokenOK
  <2>3. n \notin Client
    BY <1>4, ChordStoreAssumption
  <2> QED  BY <1>4, <2>2, <2>3 DEF AnswerOK, Nearest, StoreNow, Tokens
<1>8. /\ IsABag(xnet') /\ Under' = (Under \ {d}) \cup {e} /\ xnet'[e] = 1
      /\ \A x \in Under \ {d} : xnet'[x] = xnet[x] /\ x.client # c
  BY <1>3, Swapped
<1>9. /\ DOMAIN waiting' = Node /\ waiting'[n] = Idle
      /\ \A m \in Node \ {n} : waiting'[m] = waiting[m]
  BY <1>1, <1>4 DEF StoreNow, Tokens
<1>10. /\ \A w \in Node, b \in Client \ {c} : Waits(w, b)' <=> Waits(w, b)
       /\ \A w \in Node : Waits(w, c)' <=> w # n /\ Waits(w, c)
  BY <1>1, <1>5, <1>9 DEF Waits
<1>11. ASSUME NEW x \in Under \ {d} PROVE TokenOK(x)'
  <2>1. TokenOK(x) /\ x.client \in Client \ {c} /\ xnet'[x] = xnet[x]
    BY <1>8, TokenFacts
  <2> QED  BY <1>1, <1>10, <2>1, OtherToken
<1>12. \A w \in Node : Dist(w, c)' = Dist(w, c)
  BY <1>1 DEF Dist
<1>13. \A w \in Node : Waits(w, c) /\ w # n => Dist(w, c) > Dist(n, c)
  <2> SUFFICES ASSUME NEW w \in Node, Waits(w, c), w # n PROVE Dist(w, c) > Dist(n, c)
    OBVIOUS
  <2>1. Dist(w, c) # Dist(n, c)
    BY <1>4, Distances
  <2> QED  BY <1>4, <1>6, <1>7, <2>1
<1>14. AnswerOK(e)'
  <2>1. Body(e) \in Answers(c)'
    BY <1>1, <1>2, <1>3, <1>7 DEF Answers
  <2>2. CASE f = c /\ \A w \in Node : Waits(w, c) => Dist(w, c) =< Dist(n, c)
    <3>1. \A w \in Node : ~ Waits(w, c)'
      BY <1>4, <1>6, <1>10, <1>13, <2>2
    <3> QED  BY <1>3, <2>1, <2>2, <3>1 DEF AnswerOK, Body
  <2>3. CASE /\ f \in Node /\ Waits(f, c) /\ Dist(f, c) > Dist(n, c)
             /\ \A w \in Node : Waits(w, c) /\ Dist(w, c) > Dist(n, c)
                                    => Dist(w, c) >= Dist(f, c)
    <3>1. f # n
      BY <1>4, <1>6, <2>3
    <3>2. Waits(f, c)' /\ \A w \in Node : Waits(w, c)' => Dist(w, c)' >= Dist(f, c)'
      BY <1>10, <1>12, <1>13, <2>3, <3>1
    <3>3. Nearest(f, c)'
      BY <2>3, <3>2 DEF Nearest
    <3> QED  BY <1>3, <2>1, <3>3 DEF AnswerOK, Body
  <2> QED  BY <1>3, <1>4, <1>5, <2>2, <2>3 DEF WaitingOK
<1>15. TokenOK(e)'
  BY <1>1, <1>3, <1>4, <1>7, <1>8, <1>14 DEF TokenOK
<1>16. ASSUME NEW m \in Node, waiting'[m] # Idle PROVE WaitingOK(m)'
  <2>1. m # n /\ waiting'[m] = waiting[m] /\ waiting[m] # Idle
    BY <1>9, <1>16
  <2>2. CASE waiting[m].client # c
    BY <1>1, <1>10, <2>1, <2>2, WaitingFacts, OtherWaiting
  <2>3. CASE waiting[m].client = c
    <3> PICK g : g = waiting[m].from
      OBVIOUS
    <3>1. WaitingOK(m) /\ Waits(m, c) /\ Dist(m, c) > Dist(n, c)
      BY <1>13, <2>1, <2>3, WaitingFacts
    <3>2. CASE g = c /\ \A w \in Node : Waits(w, c) => Dist(w, c) =< Dist(m, c)
      <4>1. \A w \in Node : Waits(w, c)' => Dist(w, c)' =< Dist(m, c)'
        BY <1>10, <1>12, <3>2
      <4> QED  BY <1>1, <2>1, <2>3, <3>1, <3>2, <4>1 DEF WaitingOK
    <3>3. CASE /\ g \in Node /\ Waits(g, c) /\ Dist(g, c) > Dist(m, c)
               /\ \A w \in Node : Waits(w, c) /\ Dist(w, c) > Dist(m, c)
                                      => Dist(w, c) >= Dist(g, c)
      <4>1. g # n
        BY <1>4, <1>6, <3>1, <3>3
      <4>2. /\ g \in Node /\ Waits(g, c)' /\ Dist(g, c)' > Dist(m, c)'
            /\ \A w \in Node : Waits(w, c)' /\ Dist(w, c)' > Dist(m, c)'
                                   => Dist(w, c)' >= Dist(g, c)'
        BY <1>10, <1>12, <3>3, <4>1
      <4> QED  BY <1>1, <2>1, <2>3, <3>1, <4>2 DEF WaitingOK
    <3> QED  BY <2>3, <3>1, <3>2, <3>3 DEF WaitingOK
  <2> QED  BY <2>2, <2>3
<1>17. \A x, y \in Under' : x.client = y.client => x = y
  BY <1>3, <1>8, TokenFacts
<1> QED
  BY <1>1, <1>8, <1>9, <1>11, <1>15, <1>16, <1>17 DEF Tokens, StoreNow

\* Every key has a home, and only one.
LEMMA HomeOfKey ==
    ASSUME HomeInv, started = Member, NEW k \in Key
    PROVE  /\ Owner(k) \in Member /\ is_key_in_range(Owner(k), k)
           /\ \A n \in Member : is_key_in_range(n, k) => n = Owner(k)
<1> DEFINE h == Hash[k]
<1>1. /\ Member \subseteq Node /\ Node \subseteq 0 .. IdSpace - 1 /\ h \in 0 .. IdSpace - 1
      /\ First \in Member /\ None \notin Node
  BY ChordStoreAssumption, ChordRingAssumption
<1>2. \A n \in Member : next[n] = Following(Member, n)
  BY <1>1 DEF HomeInv, Settled
<1>3. \E n \in Member : is_key_in_range(n, k)
  <2>1. \A n \in Member : Offset(n, h) \in Nat
    BY <1>1, OffsetFacts
  <2> DEFINE D == {Offset(n, h) : n \in Member}
  <2>2. PICK d \in D : \A e \in D : d =< e
    <3>1. D \subseteq Nat /\ D # {}
      BY <1>1, <2>1
    <3> QED  BY <3>1, Smallest
  <2>3. PICK n \in Member : d = Offset(n, h)
    OBVIOUS
  <2>4. \A m \in Member : ~ (Offset(m, h) < Offset(n, h))
    BY <2>1, <2>2, <2>3
  <2>5. next[n] # None => Offset(n, h) < Offset(n, next[n])
    <3> SUFFICES ASSUME next[n] # None, ~ (Offset(n, h) < Offset(n, next[n])) PROVE FALSE
      OBVIOUS
    <3>1. next[n] = SuccessorIn(Member, n) /\ Member # {n}
      BY <1>2 DEF Following
    <3>2. PICK m \in Member \ {n} : TRUE
      BY <3>1
    <3>3. next[n] \in Member \ {n}
      BY <1>1, <3>1, <3>2, SuccessorNearest
    <3> QED  BY <1>1, <2>4, <3>3, Nearer
  <2> QED  BY <2>5 DEF is_key_in_range
<1>4. Owner(k) \in Node /\ Owner(k) \in Member /\ is_key_in_range(Owner(k), k)
  BY <1>1, <1>3 DEF Owner
<1>5. ASSUME NEW m \in Member, NEW n \in Member, is_key_in_range(m, k), is_key_in_range(n, k)
      PROVE  m = n
  <2> SUFFICES ASSUME m # n PROVE FALSE
    OBVIOUS
  <2>1. next[m] = SuccessorIn(Member, m) /\ next[n] = SuccessorIn(Member, n)
    BY <1>2, <1>5 DEF Following
  <2>2. SuccessorIn(Member, m) \in Member /\ SuccessorIn(Member, n) \in Member
    BY <1>1, SuccessorNearest
  <2> QED  BY <1>1, <1>5, <2>1, <2>2, Disjoint DEF is_key_in_range
<1> QED  BY <1>4, <1>5

\* Where the keys are at home does not change.
LEMMA OwnerSame ==
    ASSUME started' = started, next' = next, NEW k PROVE Owner(k)' = Owner(k)
  BY DEF Owner, is_key_in_range

LEMMA MapSame ==
    ASSUME started' = started, next' = next, UNCHANGED <<table, asked, served>>
    PROVE  UNCHANGED Map!kvVars
  BY OwnerSame DEF Map!kvVars

LEMMA MapProcess ==
    ASSUME StoreNow, started = Member, NEW d \in Under, Process(d)
    PROVE  Map!Apply(d.client)
<1> DEFINE n   == d.dest
           c   == d.client
           key == d.key
           old == table[n][key]
<1>1. /\ n \in started /\ waiting[n] = Idle /\ is_key_in_range(n, key)
      /\ table' = [table EXCEPT ![n][key] = Effect(Body(d), old)]
      /\ served' = [served EXCEPT ![c] = Result(Body(d), old)]
      /\ next' = next /\ started' = started /\ asked' = asked
  BY DEF Process, ringVars, nodeVars
<1>2. /\ served[c] = NoReply /\ n \in Member /\ n \in Node /\ c \in Client
      /\ asked[c] # NoReply /\ Body(d) = asked[c] /\ key = asked[c].key /\ key \in Key
  BY <1>1, TakesRequest, TokenFacts, RequestFields, ChordStoreAssumption DEF RequestOK
<1>3. n = Owner(key) /\ \A k \in Key : Owner(k) \in Node
  BY <1>1, <1>2, HomeOfKey, ChordStoreAssumption DEF StoreNow
<1> DEFINE store == [k \in Key |-> table[Owner(k)][k]]
<1>4. store[key] = old
  BY <1>2, <1>3
<1>5. store' = [store EXCEPT ![key] = Effect(asked[c], store[key])]
  <2>1. store' = [k \in Key |-> table'[Owner(k)][k]]
    BY <1>1, OwnerSame
  <2>2. ASSUME NEW k \in Key
        PROVE  table'[Owner(k)][k] = IF k = key THEN Effect(asked[c], old)
                                     ELSE table[Owner(k)][k]
    <3>1. DOMAIN table = Node /\ \A m \in Node : DOMAIN table[m] = Key \cup {NoKey}
      BY DEF StoreNow, HomeInv
    <3> QED  BY <1>1, <1>2, <1>3, <3>1
  <2>3. store' = [k \in Key |-> IF k = key THEN Effect(asked[c], old)
                                ELSE table[Owner(k)][k]]
    BY <2>1, <2>2
  <2> QED  BY <1>2, <1>4, <2>3
<1>6. served' = [served EXCEPT ![c] = Result(asked[c], store[key])]
  BY <1>1, <1>2, <1>4
<1> QED  BY <1>1, <1>2, <1>5, <1>6 DEF Map!Apply

LEMMA MapAsk ==
    ASSUME NEW c \in Client, NEW r \in Request, NEW n \in Node, Ask(c, r, n)
    PROVE  Map!Ask(c, r)
  BY OwnerSame DEF Ask, Map!Ask, ringVars, nodeVars

----------------------------------------------------------------------------
\* What a client has received stays the answer it was given.
LEMMA OwnStep ==
    ASSUME StoreNow, UNCHANGED <<got, served>> \/ \E d \in Under : ClientReceives(d) \/ Process(d)
    PROVE  OwnAnswer'
<1>1. /\ \A c \in Client : got[c] # NoReply => served[c] # NoReply /\ got[c] \in Answers(c)
      /\ got \in [Client -> Reply \cup {NoReply}] /\ served \in [Client -> Reply \cup {NoReply}]
      /\ NoReply \notin Reply
  BY ChordStoreAssumption
     DEF StoreNow, OwnAnswer, ReceivedOwn, Answers, StoreTyped, StoreTypeOK
<1>2. CASE UNCHANGED <<got, served>>
  BY <1>1, <1>2 DEF OwnAnswer, ReceivedOwn, Answers
<1>3. ASSUME NEW d \in Under, ClientReceives(d) PROVE OwnAnswer'
  <2>1. /\ d.dest \in Client /\ got' = [got EXCEPT ![d.dest] = Body(d)] /\ served' = served
    BY <1>3 DEF ClientReceives
  <2>2. d.dest \notin Node
    BY <2>1, ChordStoreAssumption
  <2>3. AnswerOK(d) /\ served[d.client] # NoReply /\ d.dest = d.client
    BY <2>2, TokenFacts DEF TokenOK, RequestOK, AnswerOK, Nearest
  <2>4. Body(d) \in Answers(d.dest)
    BY <2>3 DEF AnswerOK
  <2>5. \A c \in Client : got'[c] # NoReply => served[c] # NoReply /\ got'[c] \in Answers(c)
    BY <1>1, <2>1, <2>3, <2>4
  <2> QED  BY <2>1, <2>5 DEF OwnAnswer, ReceivedOwn, Answers
<1>4. ASSUME NEW d \in Under, Process(d) PROVE OwnAnswer'
  <2>1. /\ d.dest \in started /\ waiting[d.dest] = Idle /\ got' = got
        /\ \E r : served' = [served EXCEPT ![d.client] = r]
    BY <1>4 DEF Process
  <2>2. d.client \in Client /\ served[d.client] = NoReply
    BY <2>1, TakesRequest, TokenFacts
  <2>3. \A c \in Client : got[c] # NoReply => served'[c] = served[c]
    BY <1>1, <2>1, <2>2
  <2> QED  BY <1>1, <2>1, <2>3 DEF OwnAnswer, ReceivedOwn, Answers
<1> QED  BY <1>2, <1>3, <1>4

LEMMA TokensSame ==
    ASSUME StoreNow, UNCHANGED <<table, waiting, xnet, asked, served>>
    PROVE  Tokens'
<1>1. Under' = Under /\ \A w \in Node, c \in Client : Waits(w, c)' <=> Waits(w, c)
  BY DEF Under, Waits
<1>2. \A d \in Under : TokenOK(d)'
  BY <1>1, TokenFacts, OtherToken
<1>3. ASSUME NEW m \in Node, waiting[m] # Idle PROVE WaitingOK(m)'
  BY <1>1, <1>3, WaitingFacts, OtherWaiting
<1> QED  BY <1>1, <1>2, <1>3 DEF Tokens, StoreNow

\* The steps of the store, as far as the requests are concerned.
LEMMA StoreSteps ==
    ASSUME [StoreNext]_allVars
    PROVE  \/ \E c \in Client, r \in Request, n \in Node : Ask(c, r, n)
           \/ \E d \in Under : Process(d) \/ Forward(d) \/ Relay(d)
           \/ \E d \in Under : /\ ClientReceives(d) \/ Panic(d) \/ LoseDatagram(d)
                               /\ xnet' = BagRemove(xnet, d)
                               /\ UNCHANGED <<next, started, table, waiting, asked, served>>
           \/ UNCHANGED <<table, waiting, xnet, asked, got, served>>
<1>1. ASSUME NEW d, ClientReceives(d) \/ Panic(d) \/ LoseDatagram(d)
      PROVE  /\ xnet' = BagRemove(xnet, d)
             /\ UNCHANGED <<next, started, table, waiting, asked, served>>
  BY <1>1 DEF ClientReceives, Panic, LoseDatagram, ringVars, nodeVars
<1>2. CASE Clients
  BY <1>1, <1>2 DEF Clients, Under
<1>3. CASE Servers
  BY <1>1, <1>3 DEF Servers, Under, PanicInternal, storeVars
<1>4. CASE Others
  BY <1>1, <1>4 DEF Others, Under, storeVars
<1>5. CASE UNCHANGED allVars
  BY <1>5 DEF allVars, storeVars
<1> QED  BY <1>2, <1>3, <1>4, <1>5 DEF StoreNext

LEMMA TokensStep ==
    ASSUME StoreNow, [StoreNext]_allVars
    PROVE  Tokens' /\ OwnAnswer'
<1>1. ASSUME NEW c \in Client, NEW r \in Request, NEW n \in Node, Ask(c, r, n)
      PROVE  Tokens' /\ OwnAnswer'
  <2>1. UNCHANGED <<got, served>>
    BY <1>1 DEF Ask
  <2> QED  BY <1>1, <2>1, TokensAsk, OwnStep
<1>2. ASSUME NEW d \in Under, Process(d) PROVE Tokens' /\ OwnAnswer'
  BY <1>2, TokensProcess, OwnStep
<1>3. ASSUME NEW d \in Under, Forward(d) \/ Relay(d) PROVE Tokens' /\ OwnAnswer'
  <2>1. UNCHANGED <<got, served>>
    BY <1>3 DEF Forward, Relay
  <2> QED  BY <1>3, <2>1, TokensForward, TokensRelay, OwnStep
<1>4. ASSUME NEW d \in Under, ClientReceives(d) \/ Panic(d) \/ LoseDatagram(d),
             xnet' = BagRemove(xnet, d), UNCHANGED <<table, waiting, asked, served>>
      PROVE  Tokens' /\ OwnAnswer'
  <2>1. ClientReceives(d) \/ UNCHANGED <<got, served>>
    BY <1>4 DEF Panic, LoseDatagram
  <2> QED  BY <1>4, <2>1, TokensRemove, OwnStep
<1>5. CASE UNCHANGED <<table, waiting, xnet, asked, got, served>>
  BY <1>5, TokensSame, OwnStep
<1> QED  BY <1>1, <1>2, <1>3, <1>4, <1>5, StoreSteps

\* A step that answers no client and lets none ask keeps the transaction ids apart.
LEMMA ApartKept ==
    ASSUME StoreNow, UNCHANGED <<asked, got>>,
           \A x \in Under' : \E y \in Under : x.client = y.client,
           \A n \in Node : waiting'[n] # Idle => waiting'[n] \in {waiting[n]} \cup Under
    PROVE  TidsApart'
  BY DEF StoreNow, TidsApart, Open

LEMMA ApartAsk ==
    ASSUME StoreNow, NEW c \in Client, NEW r \in Request, NEW n \in Node, Ask(c, r, n),
           ~ overlapped'
    PROVE  TidsApart'
<1> DEFINE e == Datagram(n, c, FALSE, Tid[c], r, c)
<1>1. /\ asked[c] = NoReply /\ asked' = [asked EXCEPT ![c] = r] /\ xnet' = BagAdd(xnet, e)
      /\ got' = got /\ waiting' = waiting
      /\ \A d \in Client \ {c} : Open(d) => Tid[d] # Tid[c]
  BY DEF Ask
<1>2. e.client = c
  BY DEF Datagram
<1> HIDE DEF e
<1>3. Under' = Under \cup {e}
  <2>1. \A x \in Under : x.client # c
    BY <1>1, TokenFacts
  <2> QED  BY <1>1, <1>2, <2>1, Added
<1>4. got[c] = NoReply
  BY <1>1 DEF StoreNow, OwnAnswer, ReceivedOwn, Tokens
<1>5. \A d \in Client \ {c} : Open(d)' <=> Open(d)
  BY <1>1 DEF Open, StoreNow, Tokens
<1>6. ASSUME NEW d1 \in Client, NEW d2 \in Client, Open(d1)', Open(d2)', Tid[d1] = Tid[d2]
      PROVE  d1 = d2
  BY <1>1, <1>5, <1>6 DEF StoreNow, TidsApart
<1> QED  BY <1>1, <1>2, <1>3, <1>4, <1>6 DEF StoreNow, TidsApart

\* With the answer, the last of the client's request is gone.
LEMMA ApartReceives ==
    ASSUME StoreNow, NEW d \in Under, ClientReceives(d)
    PROVE  TidsApart'
<1>1. /\ d.dest \in Client /\ got' = [got EXCEPT ![d.dest] = Body(d)]
      /\ xnet' = BagRemove(xnet, d) /\ waiting' = waiting /\ asked' = asked
  BY DEF ClientReceives
<1>2. d.dest \notin Node
  BY <1>1, ChordStoreAssumption
<1>3. d.dest = d.client /\ \A w \in Node : ~ Waits(w, d.client)
  BY <1>2, TokenFacts DEF TokenOK, RequestOK, AnswerOK, Nearest
<1>4. Under' = Under \ {d} /\ \A x \in Under' : x.client # d.client
  BY <1>1, Removed
<1>5. \A b : b # d.client => got'[b] = got[b]
  BY <1>1, <1>3
<1>6. got'[d.client] # NoReply
  <2>1. got \in [Client -> Reply \cup {NoReply}] /\ Body(d) \in Reply
    BY DEF StoreNow, StoreTyped, StoreTypeOK, Under
  <2> QED  BY <1>1, <1>3, <2>1, ChordStoreAssumption
<1>7. \A b \in Client : Open(b)' => Open(b)
  BY <1>1, <1>5, <1>6 DEF Open
<1>8. ASSUME NEW n \in Node, waiting'[n] # Idle PROVE got'[waiting'[n].client] = NoReply
  BY <1>1, <1>3, <1>5, <1>8 DEF StoreNow, TidsApart, Waits
<1> QED  BY <1>4, <1>5, <1>7, <1>8 DEF StoreNow, TidsApart

LEMMA ApartStep ==
    ASSUME StoreNow, [StoreNext]_allVars, ~ overlapped'
    PROVE  TidsApart'
<1>1. ASSUME NEW c \in Client, NEW r \in Request, NEW n \in Node, Ask(c, r, n)
      PROVE  TidsApart'
  BY <1>1, ApartAsk
<1>2. ASSUME NEW d \in Under, Process(d) \/ Forward(d) \/ Relay(d) PROVE TidsApart'
  <2>1. PICK e : xnet' = BagAdd(BagRemove(xnet, d), e) /\ e.client = d.client
    BY <1>2 DEF Process, Forward, Relay, Datagram
  <2>2. Under' = (Under \ {d}) \cup {e}
    BY <2>1, Swapped
  <2>3. UNCHANGED <<asked, got>>
    BY <1>2 DEF Process, Forward, Relay
  <2>4. \A m \in Node : waiting'[m] # Idle => waiting'[m] \in {waiting[m]} \cup Under
    BY <1>2 DEF Process, Forward, Relay, StoreNow, Tokens
  <2> QED  BY <2>1, <2>2, <2>3, <2>4, ApartKept
<1>3. ASSUME NEW d \in Under, ClientReceives(d) PROVE TidsApart'
  BY <1>3, ApartReceives
<1>4. ASSUME NEW d \in Under, Panic(d) \/ LoseDatagram(d), xnet' = BagRemove(xnet, d),
             UNCHANGED <<table, waiting, asked, served>>
      PROVE  TidsApart'
  <2>1. got' = got /\ Under' \subseteq Under
    BY <1>4, Removed DEF Panic, LoseDatagram
  <2> QED  BY <1>4, <2>1, ApartKept
<1>5. CASE UNCHANGED <<table, waiting, xnet, asked, got, served>>
  BY <1>5, ApartKept DEF Under
<1> QED  BY <1>1, <1>2, <1>3, <1>4, <1>5, StoreSteps

\* A step among the servers of the start is one of the store, or none.
LEMMA MapStep ==
    ASSUME StoreNow, [StoreNext]_allVars, started = Member, started' = Member
    PROVE  Map!KVNext \/ UNCHANGED Map!kvVars
<1>1. ASSUME NEW c \in Client, NEW r \in Request, NEW n \in Node, Ask(c, r, n)
      PROVE  Map!KVNext
  BY <1>1, MapAsk DEF Map!KVNext
<1>2. ASSUME NEW d \in Under, Process(d) PROVE Map!KVNext
  BY <1>2, MapProcess, TokenFacts DEF Map!KVNext
<1>3. ASSUME NEW d \in Under, Forward(d) \/ Relay(d) PROVE UNCHANGED Map!kvVars
  <2>1. started' = started /\ next' = next /\ UNCHANGED <<table, asked, served>>
    BY <1>3 DEF Forward, Relay, ringVars, nodeVars
  <2> QED  BY <2>1, MapSame
<1>4. CASE UNCHANGED <<next, started, table, waiting, asked, served>>
  BY <1>4, MapSame
<1>5. CASE UNCHANGED <<table, waiting, xnet, asked, got, served>>
  <2>1. InFlight = {}
    BY NothingInFlight DEF StoreNow, HomeInv, Settled
  <2>2. ~ Start
    BY DEF Start, StartVia
  <2>3. next' = next
    BY <2>1, <2>2 DEF StoreNext, Clients, Servers, Others, Network, Ask, ClientReceives,
         Process, Forward, Relay, Panic, LoseDatagram, allVars, ringVars, nodeVars
  <2> QED  BY <1>5, <2>3, MapSame
<1> QED  BY <1>1, <1>2, <1>3, <1>4, <1>5, StoreSteps

\* The servers of the start are all there ever was before another joined, and what is
\* counted is not taken back.
LEMMA OnlyGrow ==
    ASSUME [StoreNext]_allVars
    PROVE  /\ started \subseteq started' /\ copied' \in {copied, copied + 1}
           /\ ~ overlapped' => ~ overlapped
<1>1. started \subseteq started' /\ copied' \in {copied, copied + 1}
  BY DEF StoreNext, Clients, Servers, Others, Network, Start, StartVia, Ask, ClientReceives,
         Process, Forward, Relay, Panic, PanicInternal, HandleJoin, HandleNotify,
         HandleStabilize, Lose, Copy, LoseDatagram, allVars, ringVars, nodeVars
<1>2. ASSUME NEW c \in Client, NEW r \in Request, NEW n \in Node, Ask(c, r, n), ~ overlapped'
      PROVE  ~ overlapped
  BY <1>2 DEF Ask
<1>3. ASSUME Servers PROVE overlapped' = overlapped
  BY <1>3 DEF Servers, Process, Forward, Relay, Panic, PanicInternal, storeVars
<1>4. ASSUME Others \/ UNCHANGED allVars PROVE overlapped' = overlapped
  BY <1>4 DEF Others, LoseDatagram, allVars, storeVars
<1>5. ASSUME NEW d, ClientReceives(d) PROVE overlapped' = overlapped
  BY <1>5 DEF ClientReceives
<1> QED  BY <1>1, <1>2, <1>3, <1>4, <1>5 DEF StoreNext, Clients

LEMMA OthersStay ==
    ASSUME HomeInv, [StoreNext]_allVars, started' = Member PROVE started = Member
  BY OnlyGrow DEF HomeInv

LEMMA StoreStart == ASSUME StoreInit PROVE StoreInv /\ Map!KVInit
<1>1. HomeInv /\ started = Member
  BY HomeInit DEF StoreInit
<1>2. \A k \in Key : Owner(k) \in Node
  BY <1>1, HomeOfKey, ChordStoreAssumption
<1>3. Map!KVInit
  BY <1>2 DEF StoreInit, Map!KVInit
<1>4. IsABag(xnet) /\ Under = {}
  BY DEF StoreInit, Under, BagToSet, IsABag, EmptyBag, SetToBag
<1>5. Tokens /\ TidsApart /\ OwnAnswer
  BY <1>4, ChordStoreAssumption
     DEF StoreInit, Tokens, TidsApart, Open, OwnAnswer, ReceivedOwn
<1> QED  BY <1>1, <1>3, <1>5, RingStart, TypedInit DEF StoreInv

LEMMA StoreStep == ASSUME StoreInv, [StoreNext]_allVars PROVE StoreInv'
<1>1. HomeInv' /\ RingInv' /\ StoreTyped'
  BY HomeStep, RingStep, TypedNext DEF StoreInv, RingInv
<1>2. ASSUME copied' = 0, ~ overlapped' PROVE Tokens' /\ TidsApart' /\ OwnAnswer'
  <2>1. copied = 0 /\ ~ overlapped
    BY <1>2, OnlyGrow DEF StoreInv, RingInv, TypeOK
  <2>2. StoreNow
    BY <2>1 DEF StoreInv, StoreNow
  <2> QED  BY <1>2, <2>2, TokensStep, ApartStep
<1> QED  BY <1>1, <1>2 DEF StoreInv

(***************************************************************************)
(* A client receives the answer to its own request, or as much of it as    *)
(* fitted, from however many servers it was forwarded and while others     *)
(* join, until two clients with the same transaction id wait at the same   *)
(* time - if no message of the ring was repeated: a server that became its *)
(* own successor would take a request that comes back to it for the answer *)
(* (server.c:452-457).  Every client.c uses the id 0, so that for them it  *)
(* means: one after the other.                                             *)
(***************************************************************************)
THEOREM OwnAnswerTheorem == StoreSpec => [](copied = 0 => OwnAnswer)
<1>1. StoreInit => StoreInv
  BY StoreStart
<1>2. StoreInv /\ [StoreNext]_allVars => StoreInv'
  BY StoreStep
<1>3. StoreInv => (copied = 0 => OwnAnswer)
  BY DEF StoreInv, OwnAnswer
<1> QED  BY <1>1, <1>2, <1>3, PTL DEF StoreSpec

(***************************************************************************)
(* Until another server joins, or two clients with the same transaction id *)
(* wait at the same time, the servers are one store that each client's     *)
(* request is applied to at once and once, whichever server was asked      *)
(* (server.c:335-473).                                                     *)
(***************************************************************************)
THEOREM OneStoreTheorem == StoreSpec => IsOneStore
<1> DEFINE Step == started' = Member /\ ~ overlapped' => Map!KVNext \/ UNCHANGED Map!kvVars
<1>1. ASSUME StoreInv, [StoreNext]_allVars PROVE StoreInv' /\ Step
  <2>1. ASSUME started' = Member, ~ overlapped' PROVE Map!KVNext \/ UNCHANGED Map!kvVars
    <3>1. started = Member /\ copied = 0 /\ ~ overlapped
      BY <1>1, <2>1, OthersStay, OnlyGrow DEF StoreInv, HomeInv, Settled
    <3>2. StoreNow
      BY <1>1, <3>1 DEF StoreInv, StoreNow
    <3> QED  BY <1>1, <2>1, <3>1, <3>2, MapStep
  <2> QED  BY <1>1, <2>1, StoreStep
<1>2. StoreSpec => [][Step]_allVars
  <2>1. StoreInv /\ [StoreNext]_allVars => StoreInv' /\ [Step]_allVars
    BY <1>1
  <2> HIDE DEF Step
  <2>2. StoreInit => StoreInv
    BY StoreStart
  <2> QED  BY <2>1, <2>2, PTL DEF StoreSpec
<1>3. StoreSpec => Map!KVInit
  BY StoreStart DEF StoreSpec
<1> QED  BY <1>2, <1>3 DEF IsOneStore

===============================================================================
