---------------------------- MODULE DeliveryProofs ----------------------------
(***************************************************************************)
(* What becomes of the packets of the simulator, for every network and all *)
(* suitable parameters (ProperSetup in Simulation says which):             *)
(*   - no stack drops a packet for its time to live, a missing route or a  *)
(*     missing application;                                                *)
(*   - the sender knows of all that the receiver has, or an acknowledgement*)
(*     of it is under way, unless one was lost;                            *)
(*   - no assertion of the program fails: acknowledgements do not overtake *)
(*     each other, and the expiration timer is later than each of them;    *)
(*   - every ping is under way, has come back, or was dropped by a queue.  *)
(* The invariants are about Carried, the packets in the event list and in  *)
(* the queues, and each module is described by what it does to them.       *)
(***************************************************************************)
EXTENDS SimulationProofs

----------------------------------------------------------------------------
(***************************************************************************)
(* Where packets are on their way to, and where they come from.            *)
(***************************************************************************)
Meant(p) ==
    \/ p.id = "data" /\ p.destNode = Sink /\ p.destAppl = GoBackNReceiver
    \/ p.id = "ack" /\ p.destNode = Source /\ p.destAppl = GoBackNSender
    \/ p.id = "ping" /\ p.destAppl = PingPongAppl

From(p) ==
    \/ p.id = "data" /\ p.srcNode = Source /\ p.srcAppl = GoBackNSender
    \/ p.id = "ack"
    \/ p.id = "ping" /\ p.srcNode \in Node /\ p.srcAppl = PingPongAppl

Starts(n, a, p) ==
    \/ p.id = "data" /\ n = Source /\ a = GoBackNSender
    \/ p.id = "ack" /\ n = Sink /\ a = GoBackNReceiver
    \/ p.id = "ping" /\ a = PingPongAppl

Arrived(n, a, p) ==
    \/ p.id = "data" /\ n = Sink /\ a = GoBackNReceiver
    \/ p.id = "ack" /\ n = Source /\ a = GoBackNSender
    \/ p.id = "ping" /\ a = PingPongAppl

PacketOK(at, p) ==
    /\ at[1] = "stack" =>
          IF at[3] = Local THEN p = Notice
          ELSE /\ p \in Message /\ Meant(p)
               /\ IF at[3] = FromNet THEN From(p) ELSE Starts(at[2], at[3], p)
    /\ at[1] \in {"queue", "waits"} => p \in Message /\ Meant(p) /\ From(p)
    /\ at[1] = "appl" =>
          IF at[3] = RoutingDaemon THEN p = Notice
          ELSE p \in Message /\ From(p) /\ Arrived(at[2], at[3], p)

PacketInv == ~aborted => \A x \in Carried : PacketOK(x[1], x[2])

LEMMA KeepsPackets ==
    ASSUME PacketInv, ~aborted, NEW old, NEW new, Moves(old, new),
           \A x \in new : PacketOK(x[1], x[2])
    PROVE  PacketInv'
<1>1. \A x \in Carried' : PacketOK(x[1], x[2])
  BY DEF PacketInv, Moves
<1>2. (\A x \in Carried : PacketOK(x[1], x[2]))' <=> (\A x \in Carried' : PacketOK(x[1], x[2]))
  BY DEF PacketOK, Meant, From, Starts, Arrived, Notice
<1> QED
  BY <1>1, <1>2 DEF PacketInv

LEMMA PacketsKept ==
    ASSUME SimInv, PacketInv, NEW kind, Arrives(kind), NEW E, NEW N,
           Adds(fes', Tail(fes), E, N), queue' = queue,
           \A e \in E : Carries(e) /\ PacketOK(e.to, e.msg)
    PROVE  PacketInv'
<1>1. Moves({<<Head(fes).to, Head(fes).msg>>}, Packets(E))
  BY ListMoves
<1>2. \A x \in Packets(E) : PacketOK(x[1], x[2])
  BY DEF Packets
<1>3. ~aborted
  BY DEF Arrives
<1> QED
  BY <1>1, <1>2, <1>3, KeepsPackets

LEMMA PacketsSame ==
    ASSUME SimInv, PacketInv, NEW kind, Arrives(kind), NEW N,
           Adds(fes', Tail(fes), {}, N), queue' = queue
    PROVE  PacketInv'
BY PacketsKept

\* The packet a handler gets.
LEMMA HeadPacket ==
    ASSUME SimInv, PacketInv, NEW kind \in {"stack", "queue", "appl"}, Arrives(kind)
    PROVE  /\ PacketOK(Head(fes).to, Head(fes).msg) /\ Head(fes).to[1] = kind
           /\ <<Head(fes).to, Head(fes).msg>> \in Carried
<1>1. fes # <<>> /\ ~aborted /\ Head(fes).to[1] = kind
  BY DEF Arrives
<1>2. <<Head(fes).to, Head(fes).msg>> \in Carried
  BY <1>1, HeadCarried DEF Carries
<1> QED
  BY <1>1, <1>2 DEF PacketInv

(***************************************************************************)
(* What an application makes of a message: it sends some to its stack.     *)
(***************************************************************************)
Fresh(id, e) ==
    /\ e.to[1] = "stack" /\ e.to[3] \notin {FromNet, Local}
    /\ e.time = Head(fes).time /\ e.prio = 0
    /\ PacketOK(e.to, e.msg) /\ e.msg.id = id

\* A timer it starts.
Starting(id, e) ==
    /\ e.to[1] \notin {"stack", "queue", "appl"}
    /\ e.to \in {timer0, timer1} => id = "data" /\ e.prio = 0
    /\ e.to = timer1 /\ ~aborted' /\ par.timeout > 0 => e.time > Head(fes).time

Sends(id) ==
    /\ Head(fes).to[1] \notin {"stack", "queue", "timeout"}
    /\ now' = Head(fes).time /\ UNCHANGED <<Network, lost>>
    /\ \E E, N : /\ Gains(fes', Tail(fes), E, N)
                 /\ \A e \in E : Fresh(id, e)
                 /\ \A e \in N : Starting(id, e)

LEMMA FreshCarries == ASSUME NEW id, NEW e, Fresh(id, e) PROVE Carries(e)
BY DEF Fresh, Carries

LEMMA SendsPackets ==
    ASSUME SimInv, PacketInv, NEW kind, Arrives(kind), NEW id, Sends(id) PROVE PacketInv'
<1>1. PICK E, N : Gains(fes', Tail(fes), E, N) /\ \A e \in E : Fresh(id, e)
  BY DEF Sends
<1>2. \A e \in E : Carries(e) /\ PacketOK(e.to, e.msg)
  BY <1>1, FreshCarries DEF Fresh
<1>3. queue' = queue
  BY DEF Sends, Network
<1> QED
  BY <1>1, <1>2, <1>3, PacketsKept DEF Gains

LEMMA SentPacket ==
    ASSUME NEW n, NEW a, NEW p \in Message, a \notin {FromNet, Local},
           Meant(p), Starts(n, a, p)
    PROVE  Fresh(p.id, ToStack(Head(fes).time, n, a, p))
<1> DEFINE e == ToStack(Head(fes).time, n, a, p)
<1>1. e.to = <<"stack", n, a>> /\ e.msg = p /\ e.time = Head(fes).time /\ e.prio = 0
  BY DEF ToStack, Event
<1> HIDE DEF e
<1>2. PacketOK(e.to, e.msg)
  BY <1>1 DEF PacketOK
<1> QED
  BY <1>1, <1>2 DEF Fresh, e

LEMMA PlainAppls ==
    /\ {GoBackNSender, GoBackNReceiver, PingPongAppl} \cap {FromNet, Local, RoutingDaemon, Nobody} = {}
    /\ GoBackNSender # GoBackNReceiver /\ GoBackNSender # PingPongAppl /\ GoBackNReceiver # PingPongAppl
    /\ FromNet # Local /\ Nobody # RoutingDaemon
    /\ {GoBackNSender, GoBackNReceiver, PingPongAppl, FromNet, Local, RoutingDaemon, Nobody} \subseteq Int
BY DEF GoBackNSender, GoBackNReceiver, PingPongAppl, FromNet, Local, RoutingDaemon, Nobody

LEMMA DataMade ==
    ASSUME NEW i \in Nat
    PROVE  /\ Data(i) \in Message /\ Data(i).id = "data" /\ Data(i).seqNo = i
           /\ Data(i).destNode = Sink /\ Data(i).destAppl = GoBackNReceiver
<1>1. Sink \in Int /\ GoBackNReceiver \in Int
  BY SourceFacts
<1>2. Data(i) = NetworkPacket("data", i, Sink, GoBackNReceiver)
  BY DEF Data
<1>3. Data(i) \in Message
  BY <1>1, <1>2, PacketType
<1>4. /\ Data(i).id = "data" /\ Data(i).seqNo = i
      /\ Data(i).destNode = Sink /\ Data(i).destAppl = GoBackNReceiver
  BY DEF Data, NetworkPacket
<1> QED
  BY <1>3, <1>4

LEMMA AckMade ==
    ASSUME NEW i \in Nat, NEW p, p.srcNode = Source, p.srcAppl = GoBackNSender
    PROVE  /\ Ack(p, i) \in Message /\ Ack(p, i).id = "ack" /\ Ack(p, i).seqNo = i
           /\ Ack(p, i).destNode = Source /\ Ack(p, i).destAppl = GoBackNSender
           /\ Ack(p, i).bitError = FALSE /\ Ack(p, i).TTL = 0
<1>1. Source \in Int /\ GoBackNSender \in Int
  BY SourceFacts
<1>2. Ack(p, i) = NetworkPacket("ack", i, Source, GoBackNSender)
  BY DEF Ack
<1>3. Ack(p, i) \in Message
  BY <1>1, <1>2, PacketType
<1>4. /\ Ack(p, i).id = "ack" /\ Ack(p, i).seqNo = i
      /\ Ack(p, i).destNode = p.srcNode /\ Ack(p, i).destAppl = p.srcAppl
      /\ Ack(p, i).bitError = FALSE /\ Ack(p, i).TTL = 0
  BY DEF Ack, NetworkPacket
<1> QED
  BY <1>3, <1>4

LEMMA SendNextSends ==
    ASSUME SimInv, SendNext PROVE Sends("data")
<1> DEFINE e == ToStack(Head(fes).time, Source, GoBackNSender, Data(snd.nextSendSeqNo))
<1>1. PICK N : /\ Gains(fes', Tail(fes), {e}, N) /\ TimersOf(N, {timer0, timer1})
               /\ \A f \in N : f.to = timer1 => f.time = Head(fes).time + par.timeout
  BY SendNextGains
<1>4. ASSUME NEW f \in N PROVE Starting("data", f)
  <2>1. par.timeout \in Nat /\ Head(fes).time \in Int
    BY HandledList, ParametersType DEF SendNext
  <2>2. f.to = timer1 /\ par.timeout > 0 => f.time > Head(fes).time
    BY <1>1, <1>4, <2>1
  <2> QED
    BY <1>1, <1>4, <2>2, TimersPlain DEF Starting, TimersOf
<1>2. Arrives("timer0") /\ now' = Head(fes).time /\ UNCHANGED <<Network, lost>>
  BY DEF SendNext, SenderStep, Pass, Network
<1>3. Fresh("data", e)
  <2> DEFINE p == Data(snd.nextSendSeqNo)
  <2>1. p \in Message /\ p.id = "data" /\ p.destNode = Sink /\ p.destAppl = GoBackNReceiver
    <3>1. snd.nextSendSeqNo \in Nat /\ Sink \in Int
      BY SourceFacts DEF SimInv, NodesOK, SenderType
    <3> QED
      BY <3>1, DataMade DEF p
  <2> HIDE DEF p
  <2>2. Meant(p) /\ Starts(Source, GoBackNSender, p)
    BY <2>1 DEF Meant, Starts
  <2>3. Fresh("data", ToStack(Head(fes).time, Source, GoBackNSender, p))
    BY <2>1, <2>2, PlainAppls, SentPacket
  <2> QED
    BY <2>3 DEF p
<1> HIDE DEF e
<1> QED
  BY <1>1, <1>2, <1>3, <1>4 DEF Sends, Arrives

LEMMA DataSends ==
    ASSUME SimInv, PacketInv, ReceiveData PROVE Sends("ack")
<1> DEFINE h == Head(fes)
           last == rcv.lastReceivedSeqNo
           e(i) == ToStack(h.time, Sink, GoBackNReceiver, Ack(h.msg, i))
<1>1. /\ last \in Nat \cup {-1} /\ h.msg \in Message
      /\ \/ Gains(fes', Tail(fes), {}, {})
         \/ \E i \in {last + 1, last + 2} : Gains(fes', Tail(fes), {e(i)}, {})
  BY DataGains
<1>2. /\ Arrives("appl") /\ h.to = <<"appl", Sink, GoBackNReceiver>>
      /\ now' = h.time /\ UNCHANGED <<Network, lost>>
  BY DEF ReceiveData, Pass, Network
<1>3. PacketOK(h.to, h.msg)
  BY <1>2, HeadPacket
<1>4. h.msg.id = "data" /\ From(h.msg)
  <2> HIDE DEF h
  <2>1. h.to[1] = "appl" /\ h.to[2] = Sink /\ h.to[3] = GoBackNReceiver
    BY <1>2
  <2>2. GoBackNReceiver # RoutingDaemon
    BY PlainAppls
  <2>3. From(h.msg) /\ Arrived(Sink, GoBackNReceiver, h.msg)
    BY <1>3, <2>1, <2>2 DEF PacketOK
  <2> QED
    BY <2>3, PlainAppls DEF Arrived
<1>5. h.msg.srcNode = Source /\ h.msg.srcAppl = GoBackNSender
  BY <1>4 DEF From
<1>6. ASSUME NEW i \in Nat PROVE Fresh("ack", e(i))
  <2> DEFINE p == Ack(h.msg, i)
  <2>1. p \in Message /\ p.id = "ack" /\ p.destNode = Source /\ p.destAppl = GoBackNSender
    BY <1>5, <1>6, AckMade DEF p
  <2> HIDE DEF p, h
  <2>2. Meant(p) /\ Starts(Sink, GoBackNReceiver, p)
    BY <2>1 DEF Meant, Starts
  <2>3. Fresh("ack", ToStack(h.time, Sink, GoBackNReceiver, p))
    BY <2>1, <2>2, PlainAppls, SentPacket DEF h
  <2> QED
    BY <2>3 DEF p
<1>7. last + 1 \in Nat /\ last + 2 \in Nat
  BY <1>1
<1> HIDE DEF e
<1>8. CASE Gains(fes', Tail(fes), {}, {})
  BY <1>2, <1>8 DEF Sends, Arrives
<1>9. CASE \E i \in {last + 1, last + 2} : Gains(fes', Tail(fes), {e(i)}, {})
  <2>1. PICK i \in Nat : Gains(fes', Tail(fes), {e(i)}, {})
    BY <1>7, <1>9
  <2> QED
    BY <1>2, <1>6, <2>1 DEF Sends, Arrives
<1> QED
  BY <1>1, <1>8, <1>9

LEMMA WaitSends ==
    ASSUME NEW kind \in {"pingtimer", "appl"}, Arrives(kind), NEW n \in Node, NEW a, NEW E,
           Waits(n, a, Head(fes).time, Tail(fes), E), \A e \in E : Fresh("ping", e),
           now' = Head(fes).time, UNCHANGED <<Network, lost>>
    PROVE  Sends("ping")
<1> DEFINE t == Head(fes).time
<1>1. PICK N, i : /\ TimersOf(N, {<<"pingtimer", n>>})
                  /\ \/ /\ Ping(n, i) \in Message
                        /\ Gains(fes', Tail(fes), E \cup {ToStack(t, n, PingPongAppl, Ping(n, i))}, N)
                     \/ Gains(fes', Tail(fes), E, N)
  BY DEF Waits
<1>4. ASSUME NEW f \in N PROVE Starting("ping", f)
  <2>1. f.to = <<"pingtimer", n>>
    BY <1>1, <1>4 DEF TimersOf
  <2>2. f.to # timer0 /\ f.to # timer1
    BY <2>1 DEF timer0, timer1
  <2>3. f.to[1] = "pingtimer"
    BY <2>1
  <2> QED
    BY <2>2, <2>3 DEF Starting
<1> DEFINE e == ToStack(t, n, PingPongAppl, Ping(n, i))
<1>2. CASE Ping(n, i) \in Message /\ Gains(fes', Tail(fes), E \cup {e}, N)
  <2> DEFINE p == Ping(n, i)
  <2>1. p \in Message /\ p.id = "ping" /\ p.destAppl = PingPongAppl
    BY <1>2 DEF Ping, NetworkPacket
  <2> HIDE DEF p
  <2>2. Meant(p) /\ Starts(n, PingPongAppl, p)
    BY <2>1 DEF Meant, Starts
  <2>3. Fresh("ping", ToStack(t, n, PingPongAppl, p))
    BY <2>1, <2>2, PlainAppls, SentPacket
  <2>4. Fresh("ping", e)
    BY <2>3 DEF p
  <2> HIDE DEF e
  <2> QED
    BY <1>2, <1>4, <2>4 DEF Sends, Arrives
<1>3. CASE Gains(fes', Tail(fes), E, N)
  BY <1>3, <1>4 DEF Sends, Arrives
<1> QED
  BY <1>1, <1>2, <1>3

LEMMA PingTimerSends ==
    ASSUME SimInv, PingTimer PROVE Sends("ping")
<1>1. Arrives("pingtimer") /\ now' = Head(fes).time /\ UNCHANGED <<Network, lost>>
  BY DEF PingTimer, Pass, Network
<1> QED
  BY <1>1, PingTimerGains, WaitSends

LEMMA PongPacket ==
    ASSUME NEW p \in Message, p.srcNode \in Node, p.srcAppl = PingPongAppl, p.id = "ping"
    PROVE  /\ Pong(p) \in Message /\ Pong(p).id = "ping" /\ Pong(p).destAppl = PingPongAppl
           /\ Pong(p).destNode \in Node /\ Pong(p).reply = TRUE
<1>1. Pong(p) \in Message
  BY MessageKept, NodesAssumption, ZenonT(30) DEF Pong, Message
<1> QED
  BY <1>1 DEF Pong, Message

LEMMA PingSends ==
    ASSUME SimInv, PacketInv, ReceivePing PROVE Sends("ping")
<1> DEFINE h == Head(fes)
           n == h.to[2]
           p == h.msg
           e == ToStack(h.time, n, PingPongAppl, Pong(p))
<1>1. /\ Arrives("appl") /\ h.to[3] = PingPongAppl /\ now' = h.time
      /\ UNCHANGED <<Network, lost>>
  BY DEF ReceivePing, Pass, Network
<1>2. PacketOK(h.to, h.msg) /\ h.to[1] = "appl"
  BY <1>1, HeadPacket
<1>3. n \in Node /\ p \in Message
  BY PingGains
<1>4. p.id = "ping" /\ From(p)
  <2> HIDE DEF h
  <2>1. From(p) /\ Arrived(n, PingPongAppl, p)
    BY <1>1, <1>2, PlainAppls DEF PacketOK
  <2> QED
    BY <2>1, PlainAppls DEF Arrived
<1>5. p.srcNode \in Node /\ p.srcAppl = PingPongAppl
  BY <1>4 DEF From
<1>6. Fresh("ping", e)
  <2> DEFINE g == Pong(p)
  <2> HIDE DEF h
  <2>1. g \in Message /\ g.id = "ping" /\ g.destAppl = PingPongAppl
    BY <1>3, <1>4, <1>5, PongPacket
  <2> HIDE DEF g
  <2>2. Meant(g) /\ Starts(n, PingPongAppl, g)
    BY <2>1 DEF Meant, Starts
  <2>3. Fresh("ping", ToStack(h.time, n, PingPongAppl, g))
    BY <2>1, <2>2, PlainAppls, SentPacket DEF h
  <2> QED
    BY <2>3 DEF g
<1>7. \/ Waits(n, [ping[n] EXCEPT !.received = @ + 1], h.time, Tail(fes), {})
      \/ Waits(n, ping[n], h.time, Tail(fes), {e})
  BY PingGains
<1>8. CASE Waits(n, [ping[n] EXCEPT !.received = @ + 1], h.time, Tail(fes), {})
  BY <1>1, <1>3, <1>8, WaitSends
<1>9. CASE Waits(n, ping[n], h.time, Tail(fes), {e})
  <2> HIDE DEF e
  <2> QED
    BY <1>1, <1>3, <1>6, <1>9, WaitSends
<1> QED
  BY <1>7, <1>8, <1>9

LEMMA ExpireSends ==
    ASSUME SimInv, Expire PROVE Sends("data")
<1>1. Arrives("timer1") /\ now' = Head(fes).time /\ UNCHANGED <<Network, lost>>
  BY DEF Expire, SenderStep, Pass, Network
<1>2. PICK N : Gains(fes', Tail(fes), {}, N) /\ TimersOf(N, {timer0})
  BY ExpireGains
<1>3. ASSUME NEW f \in N PROVE Starting("data", f)
  BY <1>2, <1>3, TwoTimers, TimersPlain DEF Starting, TimersOf
<1> QED
  BY <1>1, <1>2, <1>3 DEF Sends, Arrives

LEMMA AckSends ==
    ASSUME SimInv, ReceiveAck PROVE Sends("data")
<1>1. Arrives("appl") /\ now' = Head(fes).time /\ UNCHANGED <<Network, lost>>
  BY DEF ReceiveAck, Rejected, Acknowledged, SenderStep, Pass, Network
<1>2. PICK N : /\ Gains(fes', Tail(fes), {}, N) /\ TimersOf(N, {timer0, timer1})
               /\ ~aborted' => \A f \in N : f.to = timer1 => f.time > Head(fes).time
  BY AckGains
<1>3. ASSUME NEW f \in N PROVE Starting("data", f)
  BY <1>2, <1>3, TimersPlain DEF Starting, TimersOf
<1> QED
  BY <1>1, <1>2, <1>3 DEF Sends, Arrives

LEMMA DaemonAdds ==
    ASSUME SimInv, DaemonHandles
    PROVE  /\ Arrives("appl") /\ Gains(fes', Tail(fes), {}, {})
           /\ UNCHANGED <<queue, cost, changes, par, snd, rcv, ping, lost, finishes>>
           /\ now' = Head(fes).time /\ Head(fes).to[3] = RoutingDaemon
BY HandledList DEF DaemonHandles, Pass

LEMMA DaemonPackets ==
    ASSUME SimInv, PacketInv, DaemonHandles PROVE PacketInv'
BY DaemonAdds, PacketsSame DEF Gains

LEMMA ConParMoves ==
    ASSUME SimInv, NEW l \in Link, NEW value, ConPar(l, value)
    PROVE  LET e == LinkChanged(now, l[1]) IN
           /\ Moves({}, {<<e.to, e.msg>>}) /\ ~aborted
           /\ e.to = <<"stack", l[1], Local>> /\ e.msg = Notice
<1> DEFINE e == LinkChanged(now, l[1])
<1>1. /\ Gains(fes', fes, {e}, {}) /\ e.to = <<"stack", l[1], Local>> /\ e.msg = Notice
      /\ queue' = queue /\ ~aborted
  BY ConParGains DEF ConPar
<1> HIDE DEF e
<1>2. \A f : Carries(f) => (f \in ToSet(fes') <=> f \in ToSet(fes) \cup {e})
  BY <1>1 DEF Gains, Adds
<1>3. Carries(e)
  BY <1>1 DEF Carries
<1>4. ASSUME NEW x \in Carried' PROVE x \in Carried \cup {<<e.to, e.msg>>}
  <2>1. CASE \E f \in ToSet(fes') : Carries(f) /\ x = <<f.to, f.msg>>
    BY <1>2, <2>1, InCarried
  <2>2. CASE \E k \in Link : \E p \in ToSet(queue'[k].queue) : x = <<Line(k), p>>
    BY <1>1, <2>2, InCarried
  <2> QED
    BY <1>4, <2>1, <2>2, InCarriedNext
<1>5. ASSUME NEW x \in Carried PROVE x \in Carried'
  BY <1>1, <1>2, <1>5, InCarried, InCarriedNext
<1>6. <<e.to, e.msg>> \in Carried'
  BY <1>2, <1>3, InCarriedNext
<1> QED
  BY <1>1, <1>4, <1>5, <1>6 DEF Moves, e

LEMMA ConParPackets ==
    ASSUME SimInv, PacketInv, NEW l \in Link, NEW value, ConPar(l, value) PROVE PacketInv'
<1> DEFINE e == LinkChanged(now, l[1])
<1>1. Moves({}, {<<e.to, e.msg>>}) /\ ~aborted /\ e.to = <<"stack", l[1], Local>> /\ e.msg = Notice
  BY ConParMoves
<1> HIDE DEF e
<1>2. PacketOK(e.to, e.msg)
  BY <1>1 DEF PacketOK
<1> QED
  BY <1>1, <1>2, KeepsPackets

(***************************************************************************)
(* The stacks.                                                             *)
(***************************************************************************)
LEMMA OriginatedFrom ==
    ASSUME NEW n \in Node, NEW from \in Int, from # Local, NEW p \in Message, Meant(p),
           IF from = FromNet THEN From(p) ELSE Starts(n, from, p)
    PROVE  LET q == Originated(n, from, p) IN q \in Message /\ Meant(q) /\ From(q)
<1> DEFINE q == Originated(n, from, p)
<1>1. /\ q \in Message /\ q.destNode = p.destNode /\ q.destAppl = p.destAppl /\ q.id = p.id
      /\ from = FromNet => q = p
      /\ from # FromNet => q.srcNode = n /\ q.srcAppl = from
  BY OriginatedType
<1> HIDE DEF q
<1>2. Meant(q)
  BY <1>1 DEF Meant
<1>3. From(q)
  BY <1>1 DEF From, Starts
<1> QED
  BY <1>1, <1>2, <1>3 DEF q

LEMMA CopyOf ==
    ASSUME NEW n \in Node, NEW q \in Message
    PROVE  /\ Copy(n, q) \in Message /\ Handed(n, q) \in Message
           /\ \A f \in {"id", "seqNo", "reply", "bitError", "srcNode", "srcAppl"} :
                 Copy(n, q)[f] = q[f] /\ Handed(n, q)[f] = q[f]
           /\ Copy(n, q).destNode = q.destNode /\ Copy(n, q).destAppl = q.destAppl
           /\ Copy(n, q).TTL = q.TTL + 1
<1>1. n \in Int
  BY NodesAssumption
<1>2. Copy(n, q) \in Message /\ Handed(n, q) \in Message
  BY <1>1, MessageKept, ZenonT(30) DEF Copy, Handed
<1> QED
  BY <1>2 DEF Copy, Handed, Message

\* What the head event is, when a stack handles it.
StackHead ==
    LET h == Head(fes)  n == h.to[2]  from == h.to[3]  q == Originated(n, from, h.msg) IN
    /\ h.to = <<"stack", n, from>> /\ n \in Node /\ from \in Int
    /\ \/ /\ from = Local /\ h.msg = Notice /\ q = Notice
          /\ \A o \in ToSet(StackOut) : o.to = <<"appl", n, RoutingDaemon>> /\ o.msg = Notice
       \/ /\ from # Local /\ h.msg \in Message /\ q \in Message /\ Meant(q) /\ From(q)
          /\ q.id = h.msg.id /\ q.seqNo = h.msg.seqNo /\ q.bitError = h.msg.bitError
          /\ q.destNode = h.msg.destNode
          /\ IF from = FromNet THEN q = h.msg ELSE q.TTL = 0 /\ Starts(n, from, h.msg)
          /\ IF q.destNode = n
                THEN /\ \A o \in ToSet(StackOut) : Delivery(n, q, o) /\ Arrived(n, q.destAppl, q)
                     /\ q.destAppl \in appls[n] => \E o : StackOut = <<o>>
                ELSE /\ \A o \in ToSet(StackOut) : Relay(n, q, routes[n], o)
                     /\ q.destNode \in Node /\ q.TTL < maxTTL /\ routes[n][q.destNode] # NoRoute
                           => \E o : StackOut = <<o>>

LEMMA OneInSet == ASSUME NEW o PROVE ToSet(<<o>>) = {o}
BY DEF ToSet

LEMMA NoneInSet == ToSet(<<>>) = {}
BY DEF ToSet

LEMMA StackMoves ==
    ASSUME SimInv, PacketInv, StackHandles
    PROVE  StackHead
<1> DEFINE h == Head(fes)
           n == h.to[2]
           from == h.to[3]
           p == h.msg
           table == routes[n]
           q == Originated(n, from, p)
<1>1. Arrives("stack") /\ n \in Node /\ from \in Int /\ (p \in Message \/ (from = Local /\ p = Notice))
  BY StackAdds, ZenonT(30) DEF StackHandles
<1>2. PacketOK(h.to, p) /\ h.to[1] = "stack"
  BY <1>1, HeadPacket
<1>3. h.to = <<"stack", n, from>>
  <2>1. EventOK(h)
    BY <1>1, Handled
  <2> HIDE DEF h
  <2>2. \A k \in Link : timeout(k)[1] = "timeout"
    BY DEF timeout
  <2>3. ~ATimer(h.to) /\ \A l \in Link : h.to # timeout(l)
    BY <1>2, <2>2 DEF ATimer, timer0, timer1
  <2>4. ~Passed(h.to, h.msg)
    BY <1>2 DEF Passed
  <2>5. ToTheStack(h.to, h.msg)
    BY <2>1, <2>3, <2>4 DEF EventOK
  <2> QED
    BY <2>5 DEF ToTheStack
<1>4. StackOut = handleMessage(n, from, p, table).out
  BY DEF StackOut
<1>5. RoutesOK(table, n)
  BY <1>1 DEF SimInv, NodesOK
<1>6. CASE from = Local
  <2>1. p = Notice
    BY <1>2, <1>3, <1>6 DEF PacketOK
  <2>2. Notice.destAppl = RoutingDaemon /\ Notice.destNode = Nobody /\ Nobody \notin Node
    BY NodesAssumption DEF Notice, NetworkPacket, Nobody
  <2> HIDE DEF h, n, from, p, table
  <2>3. q = Notice
    BY <1>6, <2>1 DEF Originated
  <2>4. IF q.destAppl \in appls[n] THEN \E o : StackOut = <<o>> /\ Delivery(n, q, o)
        ELSE StackOut = <<>>
    BY <1>1, <1>4, <1>6, StackDelivers
  <2>5. Handed(n, Notice) = Notice
    BY <1>1, <2>2 DEF Handed
  <2>6. ASSUME NEW o \in ToSet(StackOut) PROVE o.to = <<"appl", n, RoutingDaemon>> /\ o.msg = Notice
    <3>1. Delivery(n, q, o)
      BY <2>4, <2>6, OneInSet, NoneInSet
    <3> QED
      BY <2>2, <2>3, <2>5, <3>1 DEF Delivery
  <2> QED
    BY <1>1, <1>3, <1>6, <2>1, <2>3, <2>6 DEF StackHead, h, n, from, p
<1>7. CASE from # Local
  <2>1. p \in Message /\ Meant(p) /\ IF from = FromNet THEN From(p) ELSE Starts(n, from, p)
    <3> HIDE DEF h
    <3> QED
      BY <1>2, <1>7 DEF PacketOK
  <2> HIDE DEF h, n, from, p, table
  <2>2. q \in Message /\ Meant(q) /\ From(q)
    BY <1>1, <1>7, <2>1, OriginatedFrom
  <2>3. /\ q.destNode = p.destNode /\ q.id = p.id /\ q.seqNo = p.seqNo /\ q.bitError = p.bitError
        /\ IF from = FromNet THEN q = p ELSE q.TTL = 0 /\ Starts(n, from, p)
    BY <1>1, <1>7, <2>1, OriginatedType
  <2>4. CASE q.destNode = n
    <3>1. IF q.destAppl \in appls[n] THEN \E o : StackOut = <<o>> /\ Delivery(n, q, o)
          ELSE StackOut = <<>>
      BY <1>1, <1>4, <2>1, <2>3, <2>4, StackDelivers
    <3> HIDE DEF q
    <3>2. Arrived(n, q.destAppl, q)
      BY <2>2, <2>4 DEF Meant, Arrived
    <3>3. \A o \in ToSet(StackOut) : Delivery(n, q, o)
      BY <3>1, OneInSet, NoneInSet
    <3> QED
      BY <1>1, <1>3, <1>7, <2>1, <2>2, <2>3, <2>4, <3>1, <3>2, <3>3 DEF StackHead, h, n, from, p, q
  <2>5. CASE q.destNode # n
    <3>1. /\ \A o \in ToSet(StackOut) : Relay(n, q, table, o)
          /\ q.destNode \in Node /\ q.TTL < maxTTL /\ table[q.destNode] # NoRoute
                 => \E o : StackOut = <<o>>
      BY <1>1, <1>4, <1>5, <1>7, <2>1, <2>3, <2>5, StackRelays
    <3> HIDE DEF q
    <3> QED
      BY <1>1, <1>3, <1>7, <2>1, <2>2, <2>3, <2>5, <3>1, ZenonT(30) DEF StackHead, h, n, from, p, q, table
  <2> QED
    BY <2>4, <2>5
<1> QED
  BY <1>6, <1>7

LEMMA StackPackets ==
    ASSUME SimInv, PacketInv, StackHandles PROVE PacketInv'
<1> DEFINE h == Head(fes)
           n == h.to[2]
           from == h.to[3]
           q == Originated(n, from, h.msg)
           sent == {PassedOn(o) : o \in ToSet(StackOut)}
<1>1. Adds(fes', Tail(fes), sent, {}) /\ \A e \in sent : Carries(e)
  BY StackAdds
<1>2. Arrives("stack") /\ queue' = queue
  BY ZenonT(30) DEF StackHandles, Network
<1>3. StackHead
  BY StackMoves
<1>4. ASSUME NEW o \in ToSet(StackOut) PROVE PacketOK(o.to, o.msg)
  <2>1. CASE o.to = <<"appl", n, RoutingDaemon>> /\ o.msg = Notice
    BY <2>1 DEF PacketOK
  <2> HIDE DEF h, n, from
  <2>2. CASE /\ n \in Node /\ q \in Message /\ Meant(q) /\ From(q) /\ q.destNode = n
             /\ Delivery(n, q, o) /\ Arrived(n, q.destAppl, q)
    <3> HIDE DEF q
    <3>1. q.destAppl # RoutingDaemon
      BY <2>2, PlainAppls DEF Meant
    <3>2. o.msg \in Message /\ o.msg.id = q.id /\ o.msg.srcNode = q.srcNode /\ o.msg.srcAppl = q.srcAppl
      BY <2>2, CopyOf DEF Delivery
    <3>3. From(o.msg) /\ Arrived(n, q.destAppl, o.msg)
      BY <2>2, <3>2 DEF From, Arrived
    <3>4. o.to[1] = "appl" /\ o.to[2] = n /\ o.to[3] = q.destAppl
      BY <2>2 DEF Delivery
    <3> QED
      BY <3>1, <3>2, <3>3, <3>4 DEF PacketOK
  <2>3. CASE n \in Node /\ q \in Message /\ Meant(q) /\ From(q) /\ Relay(n, q, routes[n], o)
    <3> HIDE DEF q
    <3>1. o.to[1] = "queue" /\ o.msg = Copy(n, q)
      BY <2>3 DEF Relay
    <3>2. /\ o.msg \in Message /\ o.msg.id = q.id /\ o.msg.srcNode = q.srcNode
          /\ o.msg.srcAppl = q.srcAppl /\ o.msg.destNode = q.destNode /\ o.msg.destAppl = q.destAppl
      BY <2>3, <3>1, CopyOf
    <3>3. From(o.msg) /\ Meant(o.msg)
      BY <2>3, <3>2 DEF From, Meant
    <3> QED
      BY <3>1, <3>2, <3>3 DEF PacketOK
  <2> QED
    BY <1>3, <1>4, <2>1, <2>2, <2>3, ZenonT(30) DEF StackHead, h, n, from
<1>5. ASSUME NEW e \in sent PROVE Carries(e) /\ PacketOK(e.to, e.msg)
  <2>1. PICK o \in ToSet(StackOut) : e = PassedOn(o)
    BY <1>5
  <2>2. e.to = o.to /\ e.msg = o.msg
    BY <2>1 DEF PassedOn, Event
  <2> QED
    BY <1>1, <1>4, <1>5, <2>2
<1> HIDE DEF sent
<1> QED
  BY <1>1, <1>2, <1>5, PacketsKept

(***************************************************************************)
(* The queues: a message waits, is dropped, or leaves for the other end.   *)
(***************************************************************************)
Leaves(l, x, b) ==
    LET m == x[2] IN
    /\ m \in Message /\ x \in Carried
    /\ x[1] = <<"queue", l[1], l[2]>> \/ x[1] = Line(l)
    /\ Head(fes).to[1] = "timeout" \/ x = <<Head(fes).to, Head(fes).msg>>
    /\ finishes' = [finishes EXCEPT ![l] = Head(fes).time + duration[l][m.id]]
    /\ lost' = IF b /\ m.id # "ping" THEN Count(m) ELSE lost
    /\ Moves({<<Head(fes).to, Head(fes).msg>>, x}, {<<<<"stack", l[2], FromNet>>, Damaged(m, b)>>})

QueueSteps ==
    \E l \in Link :
        \/ \E x : \E b \in BOOLEAN : Leaves(l, x, b)
        \/ LET m == Head(fes).msg IN
           /\ Head(fes).to = <<"queue", l[1], l[2]>> /\ m \in Message
           /\ UNCHANGED <<finishes, aborted>>
           /\ \/ lost' = lost /\ Moves({<<Head(fes).to, m>>}, {<<Line(l), m>>})
              \/ lost' = Count(m) /\ Moves({<<Head(fes).to, m>>}, {})
        \/ /\ Head(fes).to[1] = "timeout" /\ UNCHANGED <<finishes, lost, aborted>>
           /\ Carried' = Carried

LEMMA ArrivalFields ==
    ASSUME NEW l, NEW t, NEW m, NEW b
    PROVE  LET e == Arrival(l, t, m, b) IN
           /\ e.to = <<"stack", l[2], FromNet>> /\ e.msg = Damaged(m, b) /\ Carries(e)
           /\ e.prio = 0 /\ e.time = t + duration[l][m.id] + delay[l]
BY DEF Arrival, Event, Carries

LEMMA PacketsOne == ASSUME NEW e PROVE Packets({e}) = {<<e.to, e.msg>>}
BY DEF Packets

LEMMA AppendSet ==
    ASSUME NEW S, NEW s \in Seq(S), NEW x \in S
    PROVE  ToSet(Append(s, x)) = ToSet(s) \cup {x}
<1>1. Len(Append(s, x)) = Len(s) + 1 /\ Len(s) \in Nat
  OBVIOUS
<1>2. ASSUME NEW y \in ToSet(Append(s, x)) PROVE y \in ToSet(s) \cup {x}
  <2>1. PICK i \in 1 .. Len(s) + 1 : Append(s, x)[i] = y
    BY <1>1, <1>2 DEF ToSet
  <2> QED
    BY <1>1, <2>1 DEF ToSet
<1>3. x \in ToSet(Append(s, x))
  <2>1. Append(s, x)[Len(s) + 1] = x
    OBVIOUS
  <2> QED
    BY <1>1, <2>1 DEF ToSet
<1>4. ASSUME NEW y \in ToSet(s) PROVE y \in ToSet(Append(s, x))
  <2>1. PICK i \in 1 .. Len(s) : s[i] = y
    BY <1>4 DEF ToSet
  <2>2. Append(s, x)[i] = y
    BY <2>1
  <2> QED
    BY <1>1, <2>1, <2>2 DEF ToSet
<1> QED
  BY <1>2, <1>3, <1>4

LEMMA TailSet ==
    ASSUME NEW S, NEW s \in Seq(S), s # <<>>
    PROVE  ToSet(s) = {Head(s)} \cup ToSet(Tail(s)) /\ Head(s) \in S
<1>1. Len(Tail(s)) = Len(s) - 1 /\ Len(s) \in Nat \ {0} /\ s[1] = Head(s)
  OBVIOUS
<1>2. ASSUME NEW y \in ToSet(Tail(s)) PROVE y \in ToSet(s)
  <2>1. PICK i \in 1 .. Len(s) - 1 : Tail(s)[i] = y
    BY <1>1, <1>2 DEF ToSet
  <2>2. s[i + 1] = y /\ i + 1 \in 1 .. Len(s)
    BY <1>1, <2>1
  <2> QED
    BY <1>1, <2>2 DEF ToSet
<1>3. Head(s) \in ToSet(s)
  BY <1>1 DEF ToSet
<1>4. ASSUME NEW y \in ToSet(s), y # Head(s) PROVE y \in ToSet(Tail(s))
  <2>1. PICK i \in 1 .. Len(s) : s[i] = y
    BY <1>4 DEF ToSet
  <2>2. i - 1 \in 1 .. Len(s) - 1
    BY <1>1, <1>4, <2>1
  <2>3. Tail(s)[i - 1] = y /\ i - 1 \in DOMAIN Tail(s)
    BY <1>1, <2>1, <2>2
  <2> QED
    BY <2>3 DEF ToSet
<1> QED
  BY <1>2, <1>3, <1>4

LEMMA QueueMessageSteps ==
    ASSUME SimInv, QueueMessage PROVE QueueSteps
<1> DEFINE h == Head(fes)
           m == h.msg
           t == h.time
<1>1. PICK l \in Link :
           LET u == t + duration[l][m.id]  q == queue[l].queue IN
           /\ h.to = <<"queue", l[1], l[2]>> /\ m \in Message
           /\ \A k \in Link : k # l => queue'[k].queue = queue[k].queue
           /\ \/ /\ q = <<>> /\ queue'[l].queue = <<>> /\ finishes[l] =< t
                 /\ finishes' = [finishes EXCEPT ![l] = u]
                 /\ \E b \in BOOLEAN :
                       /\ Gains(fes', Tail(fes), {Arrival(l, t, m, b)}, {TimeoutEvent(u, l)})
                       /\ lost' = IF b /\ m.id # "ping" THEN Count(m) ELSE lost
              \/ /\ queue'[l].queue = Append(q, m)
                 /\ fes' = Tail(fes) /\ finishes' = finishes /\ lost' = lost /\ aborted' = aborted
              \/ /\ queue'[l].queue = q
                 /\ fes' = Tail(fes) /\ finishes' = finishes /\ lost' = Count(m) /\ aborted' = aborted
  BY QueueMessageMoves
<1> DEFINE u == t + duration[l][m.id]
           q == queue[l].queue
<1>2. Arrives("queue") /\ Gains(Tail(fes), Tail(fes), {}, {}) /\ fes # <<>> /\ ~aborted
  BY HandledList DEF QueueMessage
<1>3. Carries(h) /\ <<h.to, m>> \in Carried
  BY <1>2, HeadCarried DEF Carries, Arrives
<1>4. q \in Seq(Message)
  BY DEF SimInv, LinksOK, QueueType
<1> HIDE DEF h, u, q
<1>5. ASSUME NEW b \in BOOLEAN, q = <<>>, queue'[l].queue = <<>>,
             finishes' = [finishes EXCEPT ![l] = u],
             Gains(fes', Tail(fes), {Arrival(l, t, m, b)}, {TimeoutEvent(u, l)}),
             lost' = IF b /\ m.id # "ping" THEN Count(m) ELSE lost
      PROVE  QueueSteps
  <2> DEFINE e == Arrival(l, t, m, b)
  <2>1. Adds(fes', Tail(fes), {e}, {TimeoutEvent(u, l)})
    BY <1>5 DEF Gains
  <2>2. e.to = <<"stack", l[2], FromNet>> /\ e.msg = Damaged(m, b) /\ Carries(e)
    BY ArrivalFields
  <2> HIDE DEF e
  <2>3. Moves({<<h.to, m>>} \cup {<<Line(l), p>> : p \in {}}, Packets({e}) \cup {<<Line(l), p>> : p \in {}})
    BY <1>1, <1>2, <1>5, <2>1, <2>2, QueueMoves DEF h, q
  <2>4. Moves({<<h.to, m>>, <<h.to, m>>}, {<<<<"stack", l[2], FromNet>>, Damaged(m, b)>>})
    BY <2>2, <2>3, PacketsOne
  <2> DEFINE x == <<h.to, m>>
  <2>5. x[1] = h.to /\ x[2] = m
    OBVIOUS
  <2> HIDE DEF x
  <2>6. Leaves(l, x, b)
    BY <1>1, <1>3, <1>5, <2>4, <2>5 DEF Leaves, x, h, u
  <2> QED
    BY <2>6 DEF QueueSteps
<1>6. CASE queue'[l].queue = Append(q, m) /\ fes' = Tail(fes) /\ finishes' = finishes
           /\ lost' = lost /\ aborted' = aborted
  <2>1. Adds(fes', Tail(fes), {}, {})
    BY <1>2, <1>6 DEF Gains
  <2>2. ToSet(queue'[l].queue) = ToSet(q) \cup {m}
    BY <1>1, <1>4, <1>6, AppendSet
  <2>3. Moves({<<h.to, m>>} \cup {<<Line(l), p>> : p \in {}}, Packets({}) \cup {<<Line(l), p>> : p \in {m}})
    BY <1>1, <1>2, <1>6, <2>1, <2>2, QueueMoves DEF h, q
  <2>4. Moves({<<h.to, m>>}, {<<Line(l), m>>})
    BY <2>3 DEF Packets
  <2> QED
    BY <1>1, <1>6, <2>4 DEF QueueSteps, h
<1>7. CASE queue'[l].queue = q /\ fes' = Tail(fes) /\ finishes' = finishes
           /\ lost' = Count(m) /\ aborted' = aborted
  <2>1. Adds(fes', Tail(fes), {}, {})
    BY <1>2, <1>7 DEF Gains
  <2>3. Moves({<<h.to, m>>} \cup {<<Line(l), p>> : p \in {}}, Packets({}) \cup {<<Line(l), p>> : p \in {}})
    BY <1>1, <1>2, <1>7, <2>1, QueueMoves DEF h, q
  <2>4. Moves({<<h.to, m>>}, {})
    BY <2>3 DEF Packets
  <2> QED
    BY <1>1, <1>7, <2>4 DEF QueueSteps, h
<1> QED
  BY <1>1, <1>5, <1>6, <1>7 DEF q, u

LEMMA QueueTimeoutSteps ==
    ASSUME SimInv, QueueTimeout PROVE QueueSteps
<1> DEFINE h == Head(fes)
           t == h.time
<1>1. PICK l \in Link :
           LET q == queue[l].queue  m == Head(q)  u == t + duration[l][m.id] IN
           /\ h.to = timeout(l)
           /\ \A k \in Link : k # l => queue'[k].queue = queue[k].queue
           /\ \/ /\ q # <<>> /\ q \in Seq(Message) /\ queue'[l].queue = Tail(q) /\ m \in Message
                 /\ finishes' = [finishes EXCEPT ![l] = u]
                 /\ \E b \in BOOLEAN :
                       /\ Gains(fes', Tail(fes), {Arrival(l, t, m, b)}, {TimeoutEvent(u, l)})
                       /\ lost' = IF b /\ m.id # "ping" THEN Count(m) ELSE lost
              \/ /\ q = <<>> /\ queue'[l].queue = <<>>
                 /\ fes' = Tail(fes) /\ finishes' = finishes /\ lost' = lost /\ aborted' = aborted
  BY QueueTimeoutMoves
<1> DEFINE q == queue[l].queue
           m == Head(q)
           u == t + duration[l][m.id]
<1>2. /\ Arrives("timeout") /\ Gains(Tail(fes), Tail(fes), {}, {}) /\ fes # <<>> /\ ~aborted
      /\ h.to[1] = "timeout"
  BY HandledList DEF QueueTimeout
<1>3. ~Carries(h)
  BY <1>2 DEF Carries
<1> HIDE DEF h, u, q
<1>4. ASSUME q # <<>>, q \in Seq(Message)
      PROVE  ToSet(q) = {m} \cup ToSet(Tail(q)) /\ ToSet(Tail(q)) \subseteq ToSet(q) /\ m \in ToSet(q)
  BY <1>4, TailSet
<1>5. ASSUME NEW b \in BOOLEAN, q # <<>>, q \in Seq(Message), queue'[l].queue = Tail(q), m \in Message,
             finishes' = [finishes EXCEPT ![l] = u],
             Gains(fes', Tail(fes), {Arrival(l, t, m, b)}, {TimeoutEvent(u, l)}),
             lost' = IF b /\ m.id # "ping" THEN Count(m) ELSE lost
      PROVE  QueueSteps
  <2> DEFINE e == Arrival(l, t, m, b)
             x == <<Line(l), m>>
  <2>1. Adds(fes', Tail(fes), {e}, {TimeoutEvent(u, l)})
    BY <1>5 DEF Gains
  <2>2. e.to = <<"stack", l[2], FromNet>> /\ e.msg = Damaged(m, b) /\ Carries(e)
    BY ArrivalFields
  <2> HIDE DEF e
  <2>7. ToSet(q) = {m} \cup ToSet(Tail(q)) /\ ToSet(Tail(q)) \subseteq ToSet(q) /\ m \in ToSet(q)
    BY <1>4, <1>5
  <2>8. x \in Carried
    BY <2>7, InCarried DEF q
  <2> HIDE DEF m
  <2>3. Moves({<<h.to, h.msg>>} \cup {<<Line(l), p>> : p \in {m}}, Packets({e}) \cup {<<Line(l), p>> : p \in {}})
    BY <1>1, <1>2, <1>5, <2>1, <2>2, <2>7, QueueMoves DEF h, q
  <2>4. Moves({<<h.to, h.msg>>, x}, {<<<<"stack", l[2], FromNet>>, Damaged(m, b)>>})
    BY <2>2, <2>3, PacketsOne
  <2>5. x[1] = Line(l) /\ x[2] = m
    OBVIOUS
  <2> HIDE DEF x
  <2>6. Leaves(l, x, b)
    BY <1>1, <1>2, <1>5, <2>4, <2>5, <2>8 DEF Leaves, h, u
  <2> QED
    BY <2>6 DEF QueueSteps
<1>6. CASE q = <<>> /\ queue'[l].queue = <<>> /\ fes' = Tail(fes) /\ finishes' = finishes
           /\ lost' = lost /\ aborted' = aborted
  <2>1. ToSet(fes) = {h} \cup ToSet(Tail(fes))
    BY <1>2, NextEvent DEF SimInv, h
  <2>2. \A k \in Link : queue'[k].queue = queue[k].queue
    BY <1>1, <1>6 DEF q
  <2>3. Carried' = Carried
    <3>1. ASSUME NEW x \in Carried PROVE x \in Carried'
      BY <1>3, <1>6, <2>1, <2>2, <3>1, InCarried, InCarriedNext
    <3>2. ASSUME NEW x \in Carried' PROVE x \in Carried
      BY <1>3, <1>6, <2>1, <2>2, <3>2, InCarried, InCarriedNext
    <3> QED
      BY <3>1, <3>2
  <2> QED
    BY <1>2, <1>6, <2>3 DEF QueueSteps, h
<1> QED
  BY <1>1, <1>5, <1>6 DEF q, m, u

LEMMA DamagedFields ==
    ASSUME NEW m \in Message, NEW b \in BOOLEAN
    PROVE  LET d == Damaged(m, b) IN
           /\ d \in Message /\ d.id = m.id /\ d.seqNo = m.seqNo /\ d.reply = m.reply
           /\ d.destNode = m.destNode /\ d.destAppl = m.destAppl
           /\ d.srcNode = m.srcNode /\ d.srcAppl = m.srcAppl /\ d.TTL = m.TTL
<1> DEFINE c == m.bitError \/ b
<1>1. c \in BOOLEAN /\ Damaged(m, b) = [m EXCEPT !.bitError = c]
  BY DEF Message, Damaged
<1> HIDE DEF c
<1>2. [m EXCEPT !.bitError = c] \in Message
  BY <1>1 DEF Message
<1> QED
  BY <1>1, <1>2 DEF Message

LEMMA CarriedOK ==
    ASSUME PacketInv, ~aborted, NEW x \in Carried PROVE PacketOK(x[1], x[2])
BY DEF PacketInv

LEMMA QueuePackets ==
    ASSUME SimInv, PacketInv, QueueSteps, ~aborted,
           fes # <<>>, Carries(Head(fes)) => PacketOK(Head(fes).to, Head(fes).msg)
    PROVE  PacketInv'
<1> DEFINE h == Head(fes)
<1>1. PICK l \in Link :
        \/ \E x : \E b \in BOOLEAN : Leaves(l, x, b)
        \/ LET m == h.msg IN
           /\ h.to = <<"queue", l[1], l[2]>> /\ m \in Message
           /\ UNCHANGED <<finishes, aborted>>
           /\ \/ lost' = lost /\ Moves({<<h.to, m>>}, {<<Line(l), m>>})
              \/ lost' = Count(m) /\ Moves({<<h.to, m>>}, {})
        \/ Carried' = Carried
  BY DEF QueueSteps
<1>2. ASSUME NEW x, NEW b \in BOOLEAN, Leaves(l, x, b) PROVE PacketInv'
  <2> DEFINE m == x[2]
             at == <<"stack", l[2], FromNet>>
  <2>1. /\ m \in Message /\ x \in Carried
        /\ x[1] = <<"queue", l[1], l[2]>> \/ x[1] = Line(l)
        /\ Moves({<<h.to, h.msg>>, x}, {<<at, Damaged(m, b)>>})
    BY <1>2 DEF Leaves
  <2>2. PacketOK(x[1], m) /\ x[1][1] \in {"queue", "waits"}
    <3>1. x[1][1] \in {"queue", "waits"}
      BY <2>1 DEF Line
    <3>2. x \in Carried
      BY <2>1
    <3>3. PacketOK(x[1], x[2])
      BY <3>2, CarriedOK
    <3> QED
      BY <3>1, <3>3
  <2>3. Meant(m) /\ From(m)
    BY <2>2 DEF PacketOK
  <2> HIDE DEF m
  <2> DEFINE d == Damaged(m, b)
  <2>4. /\ d \in Message /\ d.id = m.id /\ d.destNode = m.destNode /\ d.destAppl = m.destAppl
        /\ d.srcNode = m.srcNode /\ d.srcAppl = m.srcAppl
    BY <2>1, DamagedFields
  <2>5. Meant(d) /\ From(d)
    <3> HIDE DEF d
    <3> QED
      BY <2>3, <2>4 DEF Meant, From
  <2>6. at[1] = "stack" /\ at[3] = FromNet
    OBVIOUS
  <2> HIDE DEF d, at
  <2>7. PacketOK(at, d)
    BY <2>4, <2>5, <2>6, PlainAppls DEF PacketOK
  <2> QED
    BY <2>1, <2>7, KeepsPackets DEF d
<1>3. ASSUME h.to = <<"queue", l[1], l[2]>>,
             Moves({<<h.to, h.msg>>}, {<<Line(l), h.msg>>}) \/ Moves({<<h.to, h.msg>>}, {})
      PROVE  PacketInv'
  <2>1. PacketOK(h.to, h.msg) /\ h.to[1] = "queue"
    BY <1>3 DEF Carries
  <2> HIDE DEF h
  <2>2. PacketOK(Line(l), h.msg)
    BY <2>1 DEF PacketOK, Line
  <2> QED
    BY <1>3, <2>2, KeepsPackets
<1>4. CASE Carried' = Carried
  <2>1. Moves({}, {})
    BY <1>4 DEF Moves
  <2> QED
    BY <2>1, KeepsPackets
<1> QED
  BY <1>1, <1>2, <1>3, <1>4

LEMMA NoneCarried ==
    ASSUME Init PROVE Carried = {}
<1>1. \A e \in ToSet(fes) : ~Carries(e)
  <2>1. par \in Parameters /\ fes = InitialEvents
    BY DEF Init
  <2>2. \A i \in DOMAIN fes : fes[i].to[1] \in {"timer0", "pingtimer"}
    <3> DEFINE k == IF par.send THEN 1 ELSE 0
    <3>1. /\ IsList(fes) /\ k \in Int
          /\ \A i \in DOMAIN fes : /\ i =< k => fes[i].to = timer0
                                   /\ i > k => fes[i].to[1] = "pingtimer"
      BY <2>1, FirstEvents
    <3>2. \A i \in DOMAIN fes : i \in Int
      BY <3>1 DEF IsList
    <3>3. ASSUME NEW i \in DOMAIN fes PROVE fes[i].to[1] \in {"timer0", "pingtimer"}
      <4>1. i =< k \/ i > k
        BY <3>1, <3>2
      <4> HIDE DEF k
      <4>2. CASE i =< k
        BY <3>1, <3>3, <4>2, TimersPlain
      <4>3. CASE i > k
        BY <3>1, <3>3, <4>3
      <4> QED
        BY <4>1, <4>2, <4>3
    <3> QED
      BY <3>3
  <2> QED
    BY <2>2, SetIndex DEF Carries
<1>2. \A l \in Link : queue[l].queue = <<>>
  BY DEF Init, Q!NewQueue
<1>3. Carried = {}
  <2>1. ASSUME NEW x \in Carried PROVE FALSE
    BY <1>1, <1>2, <2>1, InCarried, NoneInSet
  <2> QED
    BY <2>1
<1> QED
  BY <1>3

LEMMA PacketsStart == Init => PacketInv
BY NoneCarried DEF PacketInv

LEMMA PacketsGoOn == SimInv /\ PacketInv /\ [Next]_vars => PacketInv'
<1> SUFFICES ASSUME SimInv, PacketInv, [Next]_vars PROVE PacketInv'
  OBVIOUS
<1>1. CASE StackHandles
  BY <1>1, StackPackets
<1>2. CASE DaemonHandles
  BY <1>2, DaemonPackets
<1>3. CASE QueueMessage
  <2>1. Arrives("queue")
    BY <1>3 DEF QueueMessage
  <2> QED
    BY <1>3, <2>1, QueueMessageSteps, HeadPacket, QueuePackets DEF Arrives
<1>4. CASE QueueTimeout
  <2>1. Arrives("timeout")
    BY <1>4 DEF QueueTimeout
  <2>2. ~Carries(Head(fes)) /\ ~aborted /\ fes # <<>>
    BY <2>1 DEF Carries, Arrives
  <2> QED
    BY <1>4, <2>2, QueueTimeoutSteps, QueuePackets
<1>5. ASSUME NEW c \in Commands, ConPar(c[1], c[2]) PROVE PacketInv'
  <2>1. c[1] \in Link
    BY SimulationAssumption
  <2> QED
    BY <1>5, <2>1, ConParPackets
<1>6. CASE SendNext
  BY <1>6, SendNextSends, SendsPackets DEF SendNext
<1>7. CASE Expire
  BY <1>7, ExpireSends, SendsPackets DEF Expire
<1>8. CASE ReceiveAck
  BY <1>8, AckSends, SendsPackets DEF ReceiveAck
<1>9. CASE ReceiveData
  BY <1>9, DataSends, SendsPackets DEF ReceiveData
<1>10. CASE PingTimer
  BY <1>10, PingTimerSends, SendsPackets DEF PingTimer
<1>11. CASE ReceivePing
  BY <1>11, PingSends, SendsPackets DEF ReceivePing
<1>12. CASE UNCHANGED vars
  <2>1. aborted' = aborted /\ Carried' = Carried
    BY <1>12 DEF vars, Carried, Carries, Line
  <2>2. Moves({}, {})
    BY <2>1 DEF Moves
  <2> QED
    BY <2>1, <2>2, KeepsPackets DEF PacketInv
<1> QED
  BY <1>1, <1>2, <1>3, <1>4, <1>5, <1>6, <1>7, <1>8, <1>9, <1>10, <1>11, <1>12 DEF Next

----------------------------------------------------------------------------
(***************************************************************************)
(* How far a packet still has to go.  The nodes closer to its destination  *)
(* get fewer with each link that starts a shortest path.                   *)
(***************************************************************************)
Closer(c, n, dest) ==
    {m \in Node : R!Distance(c)[<<m, dest>>] < R!Distance(c)[<<n, dest>>]}
Rank(c, n, dest) == Cardinality(Closer(c, n, dest))

LEMMA DistanceType ==
    ASSUME NEW c \in [Link -> Int], NEW a \in Node, NEW b \in Node
    PROVE  R!Distance(c)[<<a, b>>] \in Nat
<1> DEFINE K == Cardinality(Node)
<1>1. K \in Nat \ {0} /\ \E f : Lengths(c, f, K) /\ R!Distance(c) = f[K]
  BY SearchEnds
<1> HIDE DEF K
<1>2. PICK f : Lengths(c, f, K) /\ R!Distance(c) = f[K]
  BY <1>1
<1>3. K \in Nat /\ K \in 0 .. K
  BY <1>1
<1>4. f[K][<<a, b>>] \in Nat
  BY <1>2, <1>3, LengthType
<1> QED
  BY <1>2, <1>4

LEMMA StartsCloser ==
    ASSUME NEW c \in [Link -> Int], NEW n \in Node, NEW dest \in Node, NEW m \in Node,
           R!StartsShortest(c, n, dest, m)
    PROVE  R!Distance(c)[<<m, dest>>] < R!Distance(c)[<<n, dest>>]
<1> DEFINE g == R!getMetric(c, <<n, m>>)
           x == R!Distance(c)[<<m, dest>>]
           y == R!Distance(c)[<<n, dest>>]
<1>1. <<n, m>> \in Link /\ y = g + x
  BY DEF R!StartsShortest
<1>2. g \in Int /\ g >= 1
  BY <1>1 DEF R!getMetric
<1>3. x \in Nat /\ y \in Nat
  BY DistanceType
<1> HIDE DEF g, x, y
<1>4. x < y
  BY <1>1, <1>2, <1>3
<1> QED
  BY <1>4 DEF x, y

LEMMA RankType ==
    ASSUME NEW c \in [Link -> Int], NEW n \in Node, NEW dest \in Node
    PROVE  /\ Rank(c, n, dest) \in Nat /\ Rank(c, n, dest) =< Cardinality(Node) - 1
           /\ IsFiniteSet(Closer(c, n, dest))
<1> DEFINE C == Closer(c, n, dest)
<1>1. n \notin C /\ C \subseteq Node
  BY DistanceType DEF Closer
<1> HIDE DEF C
<1>2. IsFiniteSet(Node) /\ Cardinality(Node) \in Nat
  BY NodesCounted
<1>3. IsFiniteSet(C) /\ Cardinality(C) \in Nat
  BY <1>1, <1>2, FS_Subset, FS_CardinalityType
<1>4. IsFiniteSet(C \cup {n}) /\ Cardinality(C \cup {n}) = Cardinality(C) + 1
  BY <1>1, <1>3, Counting
<1>5. C \cup {n} \subseteq Node
  BY <1>1
<1>6. Cardinality(C \cup {n}) =< Cardinality(Node)
  BY <1>2, <1>5, FS_Subset
<1> QED
  BY <1>2, <1>3, <1>4, <1>6 DEF Rank, C

LEMMA RankFalls ==
    ASSUME NEW c \in [Link -> Int], NEW n \in Node, NEW dest \in Node, NEW m \in Node,
           R!StartsShortest(c, n, dest, m)
    PROVE  Rank(c, m, dest) + 1 =< Rank(c, n, dest)
<1> DEFINE C == Closer(c, m, dest)
           B == Closer(c, n, dest)
<1>1. R!Distance(c)[<<m, dest>>] < R!Distance(c)[<<n, dest>>]
  BY StartsCloser
<1>2. m \notin C /\ m \in B /\ C \subseteq B
  <2>1. m \notin C /\ m \in B
    BY <1>1, DistanceType DEF Closer
  <2>2. ASSUME NEW k \in C PROVE k \in B
    <3>1. k \in Node /\ R!Distance(c)[<<k, dest>>] < R!Distance(c)[<<m, dest>>]
      BY <2>2 DEF Closer
    <3>2. /\ R!Distance(c)[<<k, dest>>] \in Nat /\ R!Distance(c)[<<m, dest>>] \in Nat
          /\ R!Distance(c)[<<n, dest>>] \in Nat
      BY <3>1, DistanceType
    <3>3. R!Distance(c)[<<k, dest>>] < R!Distance(c)[<<n, dest>>]
      BY <1>1, <3>1, <3>2
    <3> QED
      BY <3>1, <3>3 DEF Closer
  <2> QED
    BY <2>1, <2>2
<1>3. IsFiniteSet(C) /\ IsFiniteSet(B)
  BY RankType
<1> HIDE DEF C, B
<1>4. IsFiniteSet(C \cup {m}) /\ Cardinality(C \cup {m}) = Cardinality(C) + 1
  BY <1>2, <1>3, Counting
<1>5. C \cup {m} \subseteq B
  BY <1>2
<1>6. Cardinality(C \cup {m}) =< Cardinality(B)
  BY <1>3, <1>5, FS_Subset
<1> QED
  BY <1>4, <1>6 DEF Rank, C, B

LEMMA Product ==
    ASSUME NEW k \in Nat, NEW j \in Nat, k =< j, NEW M \in Nat
    PROVE  /\ (k + 1) * M \in Nat /\ M =< (k + 1) * M
           /\ (k + 1) * M =< (j + 1) * M
           /\ ((k + 1) + 1) * M = (k + 1) * M + M
<1>1. PICK i \in Nat : j = k + i
  <2>1. j - k \in Nat /\ j = k + (j - k)
    OBVIOUS
  <2> QED
    BY <2>1
<1>2. (k + 1) * M = k * M + M /\ (k + 1 + 1) * M = k * M + M + M /\ (j + 1) * M = k * M + M + i * M
  BY <1>1
<1>3. k * M \in Nat /\ i * M \in Nat
  BY <1>1
<1> QED
  BY <1>2, <1>3

----------------------------------------------------------------------------
(***************************************************************************)
(* A packet does not live longer than it has to go.  An acknowledgement is *)
(* not ahead of the receiver.                                              *)
(***************************************************************************)
Fits(c, k, n, p) ==
    p.destNode \in Node => p.TTL + Rank(c, n, p.destNode) =< (k + 1) * (Cardinality(Node) - 1)

Near(c, k, r, at, p) ==
    /\ at[1] = "stack" /\ at[3] = FromNet => Fits(c, k, at[2], p)
    /\ at[1] \in {"queue", "waits"} => Fits(c, k, at[3], p)
    /\ p.id = "ack" => p.seqNo =< r.lastReceivedSeqNo + 1

TravelInv == ~aborted => \A x \in Carried : Near(cost, changes, rcv, x[1], x[2])

CountedLost == lost \in [{"data", "ack", "ping", "linkchange"} -> Nat]

LEMMA KeepsTravel ==
    ASSUME TravelInv, ~aborted, NEW old, NEW new, Moves(old, new),
           UNCHANGED <<cost, changes, rcv>>,
           \A x \in new : Near(cost, changes, rcv, x[1], x[2])
    PROVE  TravelInv'
<1>1. \A x \in Carried' : Near(cost, changes, rcv, x[1], x[2])
  BY DEF TravelInv, Moves
<1>2. (\A x \in Carried : Near(cost, changes, rcv, x[1], x[2]))'
        <=> (\A x \in Carried' : Near(cost', changes', rcv', x[1], x[2]))
  BY DEF Near, Fits, Rank, Closer
<1> QED
  BY <1>1, <1>2 DEF TravelInv

LEMMA SendsTravel ==
    ASSUME SimInv, TravelInv, NEW kind, Arrives(kind), NEW id \in {"data", "ping"}, Sends(id),
           rcv' = rcv
    PROVE  TravelInv'
<1>1. PICK E, N : Gains(fes', Tail(fes), E, N) /\ \A e \in E : Fresh(id, e)
  BY DEF Sends
<1>2. ASSUME NEW e \in E PROVE Carries(e) /\ Near(cost, changes, rcv, e.to, e.msg)
  BY <1>1, <1>2, FreshCarries DEF Fresh, Near
<1>3. queue' = queue /\ UNCHANGED <<cost, changes>>
  BY DEF Sends, Network
<1>4. Adds(fes', Tail(fes), E, N)
  BY <1>1 DEF Gains
<1>5. Moves({<<Head(fes).to, Head(fes).msg>>}, Packets(E))
  BY <1>2, <1>3, <1>4, ListMoves
<1>6. \A x \in Packets(E) : Near(cost, changes, rcv, x[1], x[2])
  BY <1>2 DEF Packets
<1> QED
  BY <1>3, <1>5, <1>6, KeepsTravel DEF Arrives

LEMMA AckMessage ==
    ASSUME PacketInv, ~aborted, NEW x \in Carried, x[2].id = "ack"
    PROVE  /\ Meant(x[2]) \/ x[1][1] = "appl"
           /\ x[2] \in Message
           /\ x[1][1] \in {"stack", "queue", "waits", "appl"}
           /\ x[1][1] = "appl" => x[1][2] = Source /\ x[1][3] = GoBackNSender
<1> DEFINE at == x[1]
           p == x[2]
<1>1. at[1] \in {"stack", "queue", "waits", "appl"}
  <2>1. CASE \E e \in ToSet(fes) : Carries(e) /\ x = <<e.to, e.msg>>
    BY <2>1 DEF Carries
  <2>2. CASE \E l \in Link : \E q \in ToSet(queue[l].queue) : x = <<Line(l), q>>
    BY <2>2 DEF Line
  <2> QED
    BY <2>1, <2>2, InCarried
<1>2. PacketOK(at, p)
  BY CarriedOK
<1>3. Notice.id = "linkchange"
  BY DEF Notice, NetworkPacket
<1> HIDE DEF at, p
<1>4. p.id = "ack"
  BY DEF p
<1>5. p # Notice
  BY <1>3, <1>4
<1>6. p \in Message /\ (Meant(p) \/ at[1] = "appl")
  BY <1>1, <1>2, <1>5 DEF PacketOK
<1>7. at[1] = "appl" => at[2] = Source /\ at[3] = GoBackNSender
  BY <1>2, <1>4, <1>5 DEF PacketOK, Arrived
<1> QED
  BY <1>1, <1>6, <1>7 DEF at, p

LEMMA CarriedPlace ==
    ASSUME SimInv, PacketInv, ~aborted, NEW x \in Carried
    PROVE  /\ x[1][1] \in {"stack", "queue", "waits", "appl"}
           /\ x[1][1] = "stack" => x[1][2] \in Node /\ x[1] = <<"stack", x[1][2], x[1][3]>>
           /\ x[1][1] = "queue" => \E l \in Link : x[1] = <<"queue", l[1], l[2]>>
           /\ x[1][1] = "waits" => \E l \in Link : x[1] = Line(l) /\ x[2] \in ToSet(queue[l].queue)
           /\ x[1][1] \in {"queue", "waits"} => x[1][3] \in Node /\ <<x[1][2], x[1][3]>> \in Link
           /\ \/ x[1][1] \in {"queue", "waits"}
              \/ x[1][1] = "stack" /\ x[1][3] # Local
              => x[2] \in Message
<1> DEFINE at == x[1]
           p == x[2]
<1>1. PacketOK(at, p)
  BY CarriedOK
<1>2. CASE \E e \in ToSet(fes) : Carries(e) /\ x = <<e.to, e.msg>>
  <2>1. PICK e \in ToSet(fes) : Carries(e) /\ x = <<e.to, e.msg>>
    BY <1>2
  <2>2. EventOK(e)
    BY <2>1 DEF SimInv, TimeOK, ListOK
  <2>3. at = e.to /\ p = e.msg
    BY <2>1
  <2> HIDE DEF at, p
  <2>4. at[1] \in {"stack", "queue", "appl"}
    BY <2>1, <2>3 DEF Carries
  <2>5. Passed(at, p) \/ ToTheStack(at, p)
    <3>1. \A k \in Link : timeout(k)[1] = "timeout"
      BY DEF timeout
    <3>2. ~ATimer(at) /\ \A l \in Link : at # timeout(l)
      BY <2>4, <3>1 DEF ATimer, timer0, timer1
    <3> QED
      BY <2>2, <2>3, <3>2 DEF EventOK
  <2>6. at[1] = "stack" => at[2] \in Node /\ at = <<"stack", at[2], at[3]>>
    BY <2>5 DEF Passed, ToTheStack
  <2>7. at[1] = "queue" => \E l \in Link : at = <<"queue", l[1], l[2]>>
    BY <2>5 DEF Passed, ToTheStack
  <2>8. at[1] = "queue" => at[3] \in Node /\ <<at[2], at[3]>> \in Link
    <3>1. \A l \in Link : l[2] \in Node /\ l = <<l[1], l[2]>>
      BY DEF Link
    <3> QED
      BY <2>7, <3>1
  <2>9. at[1] = "queue" \/ (at[1] = "stack" /\ at[3] # Local) => p \in Message
    BY <1>1 DEF PacketOK
  <2> QED
    BY <2>4, <2>6, <2>7, <2>8, <2>9 DEF at, p
<1>3. CASE \E l \in Link : \E q \in ToSet(queue[l].queue) : x = <<Line(l), q>>
  <2>0. PICK l \in Link : \E q \in ToSet(queue[l].queue) : x = <<Line(l), q>>
    BY <1>3
  <2>1. PICK q \in ToSet(queue[l].queue) : x = <<Line(l), q>>
    BY <2>0
  <2>2. at = Line(l) /\ p = q /\ at[1] = "waits" /\ at[2] = l[1] /\ at[3] = l[2]
    BY <2>1 DEF Line
  <2>3. l[2] \in Node /\ l = <<l[1], l[2]>>
    BY DEF Link
  <2> HIDE DEF at, p
  <2>4. p \in Message
    BY <1>1, <2>2 DEF PacketOK
  <2> QED
    BY <2>2, <2>3, <2>4 DEF at, p
<1> QED
  BY <1>2, <1>3, InCarried

\* The routes are current when a stack is about to use them.
LEMMA HeadRoute ==
    ASSUME SimInv, RouteInv, ~aborted, fes # <<>>, Head(fes).to[1] = "stack",
           Head(fes).msg.destNode \in Node \ {Head(fes).to[2]}
    PROVE  LET n == Head(fes).to[2]  dest == Head(fes).msg.destNode IN
           R!StartsShortest(cost, n, dest, routes[n][dest])
<1> DEFINE h == Head(fes)
           n == h.to[2]
           dest == h.msg.destNode
<1>1. /\ EventOK(h) /\ h.time \in Int /\ h.time >= now /\ now \in Int
      /\ ToSet(fes) = {h} \cup ToSet(Tail(fes))
      /\ \A e \in ToSet(Tail(fes)) : NotAfter(h, e)
  BY NextEvent, ParametersType DEF SimInv, TimeOK
<1>2. n \in Node /\ h.prio \in Int
  <2> HIDE DEF h
  <2> QED
    BY <1>1, Kinds DEF EventOK, h
<1>3. ~IsNotice(h)
  <2>1. Notice.destNode = Nobody /\ Nobody \notin Node
    BY NodesAssumption DEF Notice, NetworkPacket, Nobody
  <2> QED
    BY <2>1 DEF IsNotice
<1>4. h.prio >= 0
  BY <1>1, <1>3 DEF RouteInv, Foregoing
<1>5. ~Noticed(fes, now)
  <2> SUFFICES ASSUME NEW e \in ToSet(fes), IsNotice(e), e.prio < 0, e.time = now
               PROVE  FALSE
    BY DEF Noticed
  <2>1. NotAfter(h, e)
    BY <1>1, <1>3
  <2>2. e.prio \in Int
    BY DEF SimInv, TimeOK, ListOK, EventOK
  <2> QED
    BY <1>1, <1>2, <1>4, <2>1, <2>2 DEF NotAfter
<1> QED
  BY <1>2, <1>5 DEF RouteInv, Current

LEMMA DataTravel ==
    ASSUME SimInv, PacketInv, TravelInv, ReceiveData
    PROVE  TravelInv'
<1> DEFINE h == Head(fes)
           last == rcv.lastReceivedSeqNo
           e(i) == ToStack(h.time, Sink, GoBackNReceiver, Ack(h.msg, i))
           next == rcv'.lastReceivedSeqNo
<1>1. /\ last \in Nat \cup {-1}
      /\ \/ rcv' = rcv /\ Gains(fes', Tail(fes), {}, {})
         \/ rcv' = rcv /\ Gains(fes', Tail(fes), {e(last + 1)}, {})
         \/ next = last + 1 /\ Gains(fes', Tail(fes), {e(last + 2)}, {})
  BY DataGains
<1>2. Arrives("appl") /\ UNCHANGED <<queue, cost, changes>>
  BY DEF ReceiveData, Network
<1>3. next \in Int /\ last =< next
  BY <1>1
<1>4. ASSUME NEW i, i =< next + 1 PROVE Carries(e(i)) /\ Near(cost, changes, rcv', e(i).to, e(i).msg)
  <2> DEFINE f == e(i)
             p == Ack(h.msg, i)
  <2>1. p.seqNo = i
    BY DEF Ack, NetworkPacket
  <2> HIDE DEF p
  <2>2. f.to = <<"stack", Sink, GoBackNReceiver>> /\ f.msg = p
    BY DEF ToStack, Event, p
  <2> HIDE DEF f
  <2>3. f.to[1] = "stack" /\ f.to[3] # FromNet /\ f.msg.seqNo = i
    BY <2>1, <2>2 DEF GoBackNReceiver, FromNet
  <2>4. Carries(f) /\ Near(cost, changes, rcv', f.to, f.msg)
    BY <1>4, <2>3 DEF Carries, Near
  <2> QED
    BY <2>4 DEF f
<1> HIDE DEF e
<1>5. \E E : Adds(fes', Tail(fes), E, {}) /\ \A f \in E : Carries(f) /\ Near(cost, changes, rcv', f.to, f.msg)
  <2>1. CASE Gains(fes', Tail(fes), {}, {})
    BY <2>1 DEF Gains
  <2>2. CASE rcv' = rcv /\ Gains(fes', Tail(fes), {e(last + 1)}, {})
    <3>1. last + 1 =< next + 1
      BY <1>1, <1>3
    <3> QED
      BY <1>4, <2>2, <3>1 DEF Gains
  <2>3. CASE next = last + 1 /\ Gains(fes', Tail(fes), {e(last + 2)}, {})
    <3>1. last + 2 =< next + 1
      BY <1>1, <1>3, <2>3
    <3> QED
      BY <1>4, <2>3, <3>1 DEF Gains
  <2> QED
    BY <1>1, <2>1, <2>2, <2>3
<1>6. PICK E : Adds(fes', Tail(fes), E, {}) /\ \A f \in E : Carries(f) /\ Near(cost, changes, rcv', f.to, f.msg)
  BY <1>5
<1>7. Moves({<<h.to, h.msg>>}, Packets(E))
  BY <1>2, <1>6, ListMoves
<1>8. \A x \in Packets(E) : Near(cost, changes, rcv', x[1], x[2])
  BY <1>6 DEF Packets
<1>9. ~aborted
  BY <1>2 DEF Arrives
<1>10. ASSUME NEW x \in Carried PROVE Near(cost, changes, rcv', x[1], x[2])
  <2>1. Near(cost, changes, rcv, x[1], x[2])
    BY <1>9, <1>10 DEF TravelInv
  <2>2. x[2].id = "ack" => x[2].seqNo =< rcv'.lastReceivedSeqNo + 1
    <3>1. x[2].id = "ack" => x[2].seqNo \in Nat
      BY <1>9, <1>10, AckMessage DEF Message
    <3>2. x[2].id = "ack" => x[2].seqNo =< last + 1
      BY <2>1 DEF Near
    <3> HIDE DEF last, next
    <3>3. x[2].id = "ack" => x[2].seqNo =< next + 1
      BY <1>1, <1>3, <3>1, <3>2
    <3> QED
      BY <3>3 DEF next
  <2> QED
    BY <2>1, <2>2 DEF Near
<1>11. \A x \in Carried' : Near(cost, changes, rcv', x[1], x[2])
  BY <1>7, <1>8, <1>10 DEF Moves
<1>12. (\A x \in Carried : Near(cost, changes, rcv, x[1], x[2]))'
        <=> (\A x \in Carried' : Near(cost', changes', rcv', x[1], x[2]))
  BY DEF Near, Fits, Rank, Closer
<1> QED
  BY <1>2, <1>11, <1>12 DEF TravelInv

LEMMA ConParTravel ==
    ASSUME SimInv, TravelInv, PacketInv, cost \in [Link -> Int],
           NEW l \in Link, NEW value \in Int, ConPar(l, value)
    PROVE  TravelInv'
<1> DEFINE e == LinkChanged(now, l[1])
           M == Cardinality(Node) - 1
<1>1. /\ Moves({}, {<<e.to, e.msg>>}) /\ ~aborted
      /\ e.to = <<"stack", l[1], Local>> /\ e.msg = Notice
  BY ConParMoves
<1> HIDE DEF e
<1>2. changes' = changes + 1 /\ cost' \in [Link -> Int] /\ rcv' = rcv /\ changes \in Nat
  BY DEF ConPar, SimInv, NodesOK
<1>3. M \in Nat
  <2>1. Source \in Node /\ Cardinality(Node) \in Nat /\ IsFiniteSet(Node)
    BY SourceFacts, NodesCounted
  <2>2. Cardinality(Node) # 0
    BY <2>1, FS_EmptySet
  <2> QED
    BY <2>1, <2>2
<1>4. /\ ((changes + 1) + 1) * M = (changes + 1) * M + M /\ (changes + 1) * M \in Nat
  BY <1>2, <1>3, Product
<1>5. ASSUME NEW n \in Node, NEW p \in Message, Fits(cost, changes, n, p)
      PROVE  Fits(cost', changes', n, p)
  <2>1. SUFFICES ASSUME p.destNode \in Node
                 PROVE  p.TTL + Rank(cost', n, p.destNode) =< (changes' + 1) * M
    BY DEF Fits
  <2> DEFINE r == Rank(cost, n, p.destNode)
             s == Rank(cost', n, p.destNode)
             a == (changes + 1) * M
  <2>2. r \in Nat /\ s \in Nat /\ s =< M
    BY <1>2, <2>1, RankType
  <2>3. p.TTL + r =< a
    BY <1>5, <2>1 DEF Fits
  <2>4. p.TTL \in Int
    BY <1>5 DEF Message
  <2>5. (changes' + 1) * M = a + M /\ a \in Nat
    BY <1>2, <1>4
  <2> HIDE DEF r, s, a, M
  <2>6. p.TTL + s =< (changes' + 1) * M
    BY <1>3, <2>2, <2>3, <2>4, <2>5
  <2> QED
    BY <2>6 DEF s
<1> HIDE DEF M
<1>6. ASSUME NEW x \in Carried PROVE Near(cost', changes', rcv', x[1], x[2])
  <2> DEFINE at == x[1]
             p == x[2]
  <2>1. Near(cost, changes, rcv, at, p)
    BY <1>1, <1>6 DEF TravelInv
  <2>2. /\ at[1] = "stack" /\ at[3] = FromNet => p \in Message /\ at[2] \in Node
        /\ at[1] \in {"queue", "waits"} => p \in Message /\ at[3] \in Node
    <3>1. FromNet # Local
      BY DEF FromNet, Local
    <3> QED
      BY <1>1, <1>6, <3>1, CarriedPlace
  <2> HIDE DEF at, p
  <2>3. at[1] = "stack" /\ at[3] = FromNet => Fits(cost', changes', at[2], p)
    BY <1>5, <2>1, <2>2 DEF Near
  <2>4. at[1] \in {"queue", "waits"} => Fits(cost', changes', at[3], p)
    BY <1>5, <2>1, <2>2 DEF Near
  <2>5. p.id = "ack" => p.seqNo =< rcv'.lastReceivedSeqNo + 1
    BY <1>2, <2>1 DEF Near
  <2>6. Near(cost', changes', rcv', at, p)
    BY <2>3, <2>4, <2>5 DEF Near
  <2> QED
    BY <2>6 DEF at, p
<1>7. Near(cost', changes', rcv', e.to, e.msg)
  <2>1. Notice.id # "ack"
    BY DEF Notice, NetworkPacket
  <2> QED
    BY <1>1, <2>1 DEF Near, Local, FromNet
<1>8. \A x \in Carried' : Near(cost', changes', rcv', x[1], x[2])
  BY <1>1, <1>6, <1>7 DEF Moves
<1>9. (\A x \in Carried : Near(cost, changes, rcv, x[1], x[2]))'
        <=> (\A x \in Carried' : Near(cost', changes', rcv', x[1], x[2]))
  BY DEF Near, Fits, Rank, Closer
<1> QED
  BY <1>8, <1>9 DEF TravelInv

\* What a stack sends on has a shorter way to go.
LEMMA StackTravel ==
    ASSUME SimInv, RouteInv, PacketInv, TravelInv, StackHandles
    PROVE  TravelInv'
<1> DEFINE h == Head(fes)
           n == h.to[2]
           from == h.to[3]
           q == Originated(n, from, h.msg)
           dest == q.destNode
           M == Cardinality(Node) - 1
           sent == {PassedOn(o) : o \in ToSet(StackOut)}
<1>1. Adds(fes', Tail(fes), sent, {}) /\ \A e \in sent : Carries(e)
  BY StackAdds
<1>2. /\ Arrives("stack") /\ UNCHANGED <<queue, cost, changes, rcv>>
      /\ ~aborted /\ fes # <<>> /\ h.to[1] = "stack"
  BY ZenonT(30) DEF StackHandles, Network, Arrives
<1>3. StackHead
  BY StackMoves
<1>4. Near(cost, changes, rcv, h.to, h.msg)
  BY <1>2, HeadCarried DEF TravelInv, Carries
<1>5. ASSUME from # Local, dest \in Node \ {n}
      PROVE  R!StartsShortest(cost, n, dest, routes[n][dest]) /\ dest = h.msg.destNode
  <2>1. dest = h.msg.destNode
    BY <1>3, <1>5, ZenonT(30) DEF StackHead
  <2> QED
    BY <1>2, <1>5, <2>1, HeadRoute
<1>6. /\ cost \in [Link -> Int] /\ M \in Nat /\ changes \in Nat /\ M =< (changes + 1) * M
      /\ (changes + 1) * M \in Nat
  <2>1. Source \in Node /\ Cardinality(Node) \in Nat /\ IsFiniteSet(Node)
    BY SourceFacts, NodesCounted
  <2>2. Cardinality(Node) # 0
    BY <2>1, FS_EmptySet
  <2>3. M \in Nat /\ changes \in Nat /\ cost \in [Link -> Int]
    BY <2>1, <2>2 DEF SimInv, NodesOK, RouteInv
  <2> QED
    BY <2>3, Product
<1>7. ASSUME NEW o \in ToSet(StackOut) PROVE Near(cost, changes, rcv, o.to, o.msg)
  <2>1. CASE from = Local
    <3>1. o.to = <<"appl", n, RoutingDaemon>> /\ o.msg = Notice
      <4>1. \A x \in ToSet(StackOut) : x.to = <<"appl", n, RoutingDaemon>> /\ x.msg = Notice
        BY <1>3, <2>1, ZenonT(30) DEF StackHead
      <4> QED
        BY <1>7, <4>1
    <3>2. Notice.id # "ack"
      BY DEF Notice, NetworkPacket
    <3> QED
      BY <3>1, <3>2 DEF Near
  <2>2. CASE from # Local
    <3>1. /\ n \in Node /\ q \in Message /\ q.id = h.msg.id /\ q.seqNo = h.msg.seqNo
          /\ IF from = FromNet THEN q = h.msg ELSE q.TTL = 0
          /\ IF q.destNode = n THEN \A x \in ToSet(StackOut) : Delivery(n, q, x)
             ELSE \A x \in ToSet(StackOut) : Relay(n, q, routes[n], x)
      BY <1>3, <2>2, ZenonT(30) DEF StackHead
    <3>2. q.id = "ack" => q.seqNo =< rcv.lastReceivedSeqNo + 1
      BY <1>4, <3>1 DEF Near
    <3>3. CASE q.destNode = n
      <4>1. Delivery(n, q, o)
        BY <1>7, <3>1, <3>3
      <4> HIDE DEF q, h, n, from
      <4>2. o.to[1] = "appl" /\ o.msg = Handed(n, q)
        BY <4>1 DEF Delivery
      <4>3. o.msg.id = q.id /\ o.msg.seqNo = q.seqNo
        BY <3>1, <4>2, CopyOf
      <4> QED
        BY <3>2, <4>2, <4>3 DEF Near
    <3>4. CASE q.destNode # n
      <4>1. Relay(n, q, routes[n], o)
        BY <1>7, <3>1, <3>4
      <4>2. PICK m \in Node : /\ o.to = <<"queue", n, m>> /\ o.msg = Copy(n, q)
                              /\ q.destNode \in Node => m = routes[n][q.destNode]
        BY <4>1 DEF Relay
      <4>3. /\ o.msg.id = q.id /\ o.msg.seqNo = q.seqNo /\ o.msg.destNode = q.destNode
            /\ o.msg.TTL = q.TTL + 1 /\ q.TTL \in Int
        <5> HIDE DEF q, n
        <5>1. q.TTL \in Int
          BY <3>1 DEF Message
        <5> QED
          BY <3>1, <4>2, <5>1, CopyOf
      <4>4. Fits(cost, changes, m, o.msg)
        <5> SUFFICES ASSUME dest \in Node
                     PROVE  q.TTL + 1 + Rank(cost, m, dest) =< (changes + 1) * M
          BY <4>3 DEF Fits
        <5>1. R!StartsShortest(cost, n, dest, m) /\ dest = h.msg.destNode
          BY <1>5, <2>2, <3>4, <4>2
        <5> DEFINE r == Rank(cost, n, dest)
                   s == Rank(cost, m, dest)
                   a == (changes + 1) * M
        <5>2. s + 1 =< r /\ r \in Nat /\ s \in Nat /\ r =< M
          <6> HIDE DEF n, dest
          <6> QED
            BY <1>6, <3>1, <5>1, RankFalls, RankType
        <5>3. q.TTL + r =< a
          <6>1. CASE from = FromNet
            <7>1. Fits(cost, changes, n, h.msg) /\ q = h.msg
              BY <1>2, <1>4, <3>1, <6>1 DEF Near
            <7> QED
              BY <7>1 DEF Fits
          <6>2. CASE from # FromNet
            <7>1. q.TTL = 0
              BY <3>1, <6>2
            <7> HIDE DEF r, a, M, q
            <7> QED
              BY <1>6, <5>2, <7>1 DEF a
          <6> QED
            BY <6>1, <6>2
        <5>4. a \in Nat
          BY <1>6
        <5> HIDE DEF r, s, a, M, q
        <5>5. q.TTL + 1 + s =< a
          BY <4>3, <5>2, <5>3, <5>4
        <5> QED
          BY <5>5 DEF s, a
      <4> HIDE DEF q, h, n, from
      <4>5. o.to[1] = "queue" /\ o.to[3] = m
        BY <4>2
      <4> QED
        BY <3>2, <4>3, <4>4, <4>5 DEF Near
    <3> QED
      BY <3>3, <3>4
  <2> QED
    BY <2>1, <2>2
<1>8. ASSUME NEW e \in sent PROVE Near(cost, changes, rcv, e.to, e.msg)
  <2>1. PICK o \in ToSet(StackOut) : e = PassedOn(o)
    BY <1>8
  <2>2. e.to = o.to /\ e.msg = o.msg
    BY <2>1 DEF PassedOn, Event
  <2> QED
    BY <1>7, <2>2
<1> HIDE DEF sent
<1>9. Moves({<<h.to, h.msg>>}, Packets(sent))
  BY <1>1, <1>2, ListMoves
<1>10. \A x \in Packets(sent) : Near(cost, changes, rcv, x[1], x[2])
  BY <1>8 DEF Packets
<1> QED
  BY <1>2, <1>9, <1>10, KeepsTravel

LEMMA QueueTravel ==
    ASSUME SimInv, PacketInv, TravelInv, QueueSteps, ~aborted, UNCHANGED <<cost, changes, rcv>>,
           fes # <<>>
    PROVE  TravelInv'
<1> DEFINE h == Head(fes)
<1>1. PICK l \in Link :
        \/ \E x : \E b \in BOOLEAN : Leaves(l, x, b)
        \/ LET m == h.msg IN
           /\ h.to = <<"queue", l[1], l[2]>> /\ m \in Message
           /\ UNCHANGED <<finishes, aborted>>
           /\ \/ lost' = lost /\ Moves({<<h.to, m>>}, {<<Line(l), m>>})
              \/ lost' = Count(m) /\ Moves({<<h.to, m>>}, {})
        \/ Carried' = Carried
  BY DEF QueueSteps
<1>2. ASSUME NEW x, NEW b \in BOOLEAN, Leaves(l, x, b) PROVE TravelInv'
  <2> DEFINE at == x[1]
             m == x[2]
             d == Damaged(m, b)
             to == <<"stack", l[2], FromNet>>
  <2>1. /\ m \in Message /\ x \in Carried
        /\ Moves({<<h.to, h.msg>>, x}, {<<to, d>>})
    BY <1>2 DEF Leaves
  <2>2. at = <<"queue", l[1], l[2]>> \/ at = Line(l)
    BY <1>2 DEF Leaves
  <2>3. at[1] \in {"queue", "waits"} /\ at[3] = l[2]
    BY <2>2 DEF Line
  <2>4. Near(cost, changes, rcv, at, m)
    BY <2>1 DEF TravelInv
  <2> HIDE DEF at, m
  <2>5. d.id = m.id /\ d.seqNo = m.seqNo /\ d.TTL = m.TTL /\ d.destNode = m.destNode
    BY <1>2, <2>1, DamagedFields
  <2>6. to[1] = "stack" /\ to[2] = l[2]
    OBVIOUS
  <2> HIDE DEF d, to
  <2>7. Near(cost, changes, rcv, to, d)
    BY <2>3, <2>4, <2>5, <2>6 DEF Near, Fits
  <2> QED
    BY <2>1, <2>7, KeepsTravel
<1>3. ASSUME h.to = <<"queue", l[1], l[2]>>,
             Moves({<<h.to, h.msg>>}, {<<Line(l), h.msg>>}) \/ Moves({<<h.to, h.msg>>}, {})
      PROVE  TravelInv'
  <2>1. Near(cost, changes, rcv, h.to, h.msg)
    BY <1>3, HeadCarried DEF Carries, TravelInv
  <2> HIDE DEF h
  <2>2. Near(cost, changes, rcv, Line(l), h.msg)
    BY <1>3, <2>1 DEF Near, Line
  <2> QED
    BY <1>3, <2>2, KeepsTravel
<1>4. CASE Carried' = Carried
  <2>1. Moves({}, {})
    BY <1>4 DEF Moves
  <2> QED
    BY <2>1, KeepsTravel
<1> QED
  BY <1>1, <1>2, <1>3, <1>4

LEMMA TravelStarts == Init => TravelInv
<1> SUFFICES ASSUME Init PROVE TravelInv
  OBVIOUS
<1>1. Carried = {}
  BY NoneCarried
<1> QED
  BY <1>1 DEF TravelInv

LEMMA TravelGoesOn ==
    SimInv /\ RouteInv /\ PacketInv /\ TravelInv /\ [Next]_vars => TravelInv'
<1> SUFFICES ASSUME SimInv, RouteInv, PacketInv, TravelInv, [Next]_vars PROVE TravelInv'
  OBVIOUS
<1>1. CASE StackHandles
  BY <1>1, StackTravel
<1>2. CASE DaemonHandles
  <2>1. /\ Arrives("appl") /\ Adds(fes', Tail(fes), {}, {})
        /\ UNCHANGED <<queue, cost, changes, rcv>>
    BY <1>2, DaemonAdds DEF Gains
  <2>2. Moves({<<Head(fes).to, Head(fes).msg>>}, Packets({}))
    BY <2>1, ListMoves
  <2> QED
    BY <2>1, <2>2, KeepsTravel DEF Arrives, Packets
<1>3. CASE QueueMessage
  BY <1>3, QueueMessageSteps, QueueTravel DEF QueueMessage, Arrives, QueueStep
<1>4. CASE QueueTimeout
  BY <1>4, QueueTimeoutSteps, QueueTravel DEF QueueTimeout, Arrives, QueueStep
<1>5. ASSUME NEW c \in Commands, ConPar(c[1], c[2]) PROVE TravelInv'
  <2>1. c[1] \in Link /\ c[2] \in Int
    BY SimulationAssumption
  <2> QED
    BY <1>5, <2>1, ConParTravel DEF RouteInv
<1>6. CASE SendNext
  <2>1. rcv' = rcv
    BY <1>6 DEF SendNext, SenderStep
  <2> QED
    BY <1>6, <2>1, SendNextSends, SendsTravel DEF SendNext
<1>7. CASE Expire
  <2>1. rcv' = rcv
    BY <1>7 DEF Expire, SenderStep
  <2> QED
    BY <1>7, <2>1, ExpireSends, SendsTravel DEF Expire
<1>8. CASE ReceiveAck
  <2>1. rcv' = rcv
    BY <1>8 DEF ReceiveAck, Rejected, Acknowledged, SenderStep
  <2> QED
    BY <1>8, <2>1, AckSends, SendsTravel DEF ReceiveAck
<1>9. CASE ReceiveData
  BY <1>9, DataTravel
<1>10. CASE PingTimer
  BY <1>10, PingTimerSends, SendsTravel DEF PingTimer
<1>11. CASE ReceivePing
  BY <1>11, PingSends, SendsTravel DEF ReceivePing
<1>12. CASE UNCHANGED vars
  <2>1. aborted' = aborted /\ Carried' = Carried /\ UNCHANGED <<cost, changes, rcv>>
    BY <1>12 DEF vars, Carried, Carries, Line
  <2>2. Moves({}, {})
    BY <2>1 DEF Moves
  <2> QED
    BY <2>1, <2>2, KeepsTravel DEF TravelInv
<1> QED
  BY <1>1, <1>2, <1>3, <1>4, <1>5, <1>6, <1>7, <1>8, <1>9, <1>10, <1>11, <1>12 DEF Next

----------------------------------------------------------------------------
(***************************************************************************)
(* What is damaged or dropped is counted.                                  *)
(***************************************************************************)
LEMMA CountGrows ==
    ASSUME CountedLost, NEW m \in Message
    PROVE  /\ Count(m) \in [{"data", "ack", "ping", "linkchange"} -> Nat]
           /\ Count(m).ack >= lost.ack /\ lost.ack \in Nat
           /\ m.id = "ack" => Count(m).ack > 0
           /\ Count(m).ping = lost.ping + One(m.id = "ping") /\ lost.ping \in Nat
<1>1. m.id \in {"data", "ack", "ping"}
  BY DEF Message
<1>2. lost[m.id] + 1 \in Nat
  BY <1>1 DEF CountedLost
<1>3. Count(m) = [lost EXCEPT ![m.id] = lost[m.id] + 1]
  BY DEF Count
<1>4. lost.ack \in Nat /\ lost.ping \in Nat
  BY DEF CountedLost
<1>5. Count(m) \in [{"data", "ack", "ping", "linkchange"} -> Nat]
  BY <1>1, <1>2, <1>3 DEF CountedLost
<1>6. CASE m.id = "ack"
  BY <1>3, <1>4, <1>5, <1>6 DEF CountedLost, One
<1>7. CASE m.id = "data"
  BY <1>3, <1>4, <1>5, <1>7 DEF CountedLost, One
<1>8. CASE m.id = "ping"
  BY <1>3, <1>4, <1>5, <1>8 DEF CountedLost, One
<1> QED
  BY <1>1, <1>6, <1>7, <1>8, <1>5

LEMMA LostGrows ==
    ASSUME SimInv, PacketInv, CountedLost, [Next]_vars
    PROVE  lost' = lost \/ \E m \in Message : lost' = Count(m)
<1>1. CASE StackHandles
  BY <1>1, ZenonT(30) DEF StackHandles, Network
<1>2. CASE DaemonHandles
  BY <1>2, DaemonAdds
<1>3. CASE QueueMessage
  BY <1>3, QueueMessageSteps DEF QueueSteps, Leaves
<1>4. CASE QueueTimeout
  BY <1>4, QueueTimeoutSteps DEF QueueSteps, Leaves
<1>5. ASSUME NEW c \in Commands, ConPar(c[1], c[2]) PROVE lost' = lost
  BY <1>5 DEF ConPar
<1>6. CASE SendNext
  BY <1>6, SendNextSends DEF Sends
<1>7. CASE Expire
  BY <1>7, ExpireSends DEF Sends
<1>8. CASE ReceiveAck
  BY <1>8, AckSends DEF Sends
<1>9. CASE ReceiveData
  BY <1>9, DataSends DEF Sends
<1>10. CASE PingTimer
  BY <1>10, PingTimerSends DEF Sends
<1>11. CASE ReceivePing
  BY <1>11, PingSends DEF Sends
<1>12. CASE UNCHANGED vars
  BY <1>12 DEF vars
<1> QED
  BY <1>1, <1>2, <1>3, <1>4, <1>5, <1>6, <1>7, <1>8, <1>9, <1>10, <1>11, <1>12 DEF Next

LEMMA LostCounted ==
    SimInv /\ PacketInv /\ CountedLost /\ [Next]_vars => CountedLost' /\ lost'.ack >= lost.ack
<1> SUFFICES ASSUME SimInv, PacketInv, CountedLost, [Next]_vars
             PROVE  CountedLost' /\ lost'.ack >= lost.ack
  OBVIOUS
<1>1. lost' = lost \/ \E m \in Message : lost' = Count(m)
  BY LostGrows
<1>2. CASE lost' = lost
  BY <1>2 DEF CountedLost
<1>3. CASE \E m \in Message : lost' = Count(m)
  BY <1>3, CountGrows DEF CountedLost
<1> QED
  BY <1>1, <1>2, <1>3

LEMMA NoneLost == Init => CountedLost
BY DEF Init, CountedLost

----------------------------------------------------------------------------
(***************************************************************************)
(* The acknowledgement of all that the receiver has.                       *)
(***************************************************************************)
Tells(p, i) == p.id = "ack" /\ p.seqNo = i /\ ~p.bitError

Told ==
    \/ lost.ack > 0
    \/ snd.lastAckSeqNo = rcv.lastReceivedSeqNo + 1
    \/ \E x \in Carried : Tells(x[2], rcv.lastReceivedSeqNo + 1)

ToldInv == ~aborted => Told

LEMMA ToldWhat == ToldInv /\ SimInv => aborted \/ AckUnderWay
<1> SUFFICES ASSUME ToldInv, SimInv, ~aborted PROVE AckUnderWay
  OBVIOUS
<1> DEFINE next == rcv.lastReceivedSeqNo + 1
<1>1. ASSUME NEW x \in Carried, Tells(x[2], next)
      PROVE  \/ \E i \in UnderWay : Tells(fes[i].msg, next)
             \/ \E w \in Waiting : Tells(queue[w[1]].queue[w[2]], next)
  <2> HIDE DEF next
  <2>1. CASE \E e \in ToSet(fes) : Carries(e) /\ x = <<e.to, e.msg>>
    <3>1. PICK e \in ToSet(fes) : Carries(e) /\ x = <<e.to, e.msg>>
      BY <2>1
    <3>2. PICK i \in DOMAIN fes : fes[i] = e
      BY <3>1, SetIndex
    <3>3. i \in UnderWay /\ Tells(fes[i].msg, next)
      BY <1>1, <3>1, <3>2 DEF UnderWay, Carries
    <3> QED
      BY <3>3
  <2>2. CASE \E l \in Link : \E p \in ToSet(queue[l].queue) : x = <<Line(l), p>>
    <3>1. PICK l \in Link : \E p \in ToSet(queue[l].queue) : x = <<Line(l), p>>
      BY <2>2
    <3>2. PICK p \in ToSet(queue[l].queue) : x = <<Line(l), p>>
      BY <3>1
    <3>3. PICK i \in DOMAIN queue[l].queue : queue[l].queue[i] = p
      BY <3>2, SetIndex
    <3>4. i \in 1 .. par.maxQueueLength
      <4>1. queue[l].queue \in Seq(Message) /\ Len(queue[l].queue) =< par.maxQueueLength
        BY DEF SimInv, LinksOK, QueueType
      <4>2. par.maxQueueLength \in Nat
        BY ParametersType DEF SimInv, TimeOK
      <4> QED
        BY <3>3, <4>1, <4>2
    <3> DEFINE w == <<l, i>>
    <3>5. w \in Waiting /\ Tells(queue[w[1]].queue[w[2]], next)
      BY <1>1, <3>2, <3>3, <3>4 DEF Waiting
    <3> QED
      BY <3>5
  <2> QED
    BY <1>1, <2>1, <2>2, InCarried
<1>2. Told
  BY DEF ToldInv
<1> QED
  BY <1>1, <1>2 DEF Told, AckUnderWay, Tells

LEMMA ToldStarts == Init => ToldInv
BY DEF Init, ToldInv, Told

\* As long as it is not handled, it stays.
LEMMA ToldMoves ==
    ASSUME ToldInv, ~aborted, CountedLost', CountedLost, lost'.ack >= lost.ack,
           NEW old, NEW new, Moves(old, new),
           snd'.lastAckSeqNo = snd.lastAckSeqNo, rcv' = rcv,
           \A x \in old : Tells(x[2], rcv.lastReceivedSeqNo + 1) =>
              \/ lost'.ack > 0 \/ snd.lastAckSeqNo = rcv.lastReceivedSeqNo + 1
              \/ \E y \in new : Tells(y[2], rcv.lastReceivedSeqNo + 1)
    PROVE  ToldInv'
<1> DEFINE i == rcv.lastReceivedSeqNo + 1
<1>1. \/ lost.ack > 0 \/ snd.lastAckSeqNo = i \/ \E x \in Carried : Tells(x[2], i)
  BY DEF ToldInv, Told
<1>2. lost.ack \in Nat /\ lost'.ack \in Nat
  BY DEF CountedLost
<1> HIDE DEF i
<1>3. CASE lost.ack > 0
  BY <1>2, <1>3 DEF ToldInv, Told
<1>4. CASE snd.lastAckSeqNo = i
  BY <1>4 DEF ToldInv, Told, i
<1>5. CASE \E x \in Carried : Tells(x[2], i)
  <2>1. PICK x \in Carried : Tells(x[2], i)
    BY <1>5
  <2>2. \/ lost'.ack > 0 \/ snd.lastAckSeqNo = i \/ \E y \in Carried' : Tells(y[2], i)
    BY <2>1 DEF Moves, i
  <2>3. (\E y \in Carried : Tells(y[2], rcv.lastReceivedSeqNo + 1))'
          <=> \E y \in Carried' : Tells(y[2], rcv'.lastReceivedSeqNo + 1)
    BY DEF Tells
  <2> QED
    BY <2>2, <2>3 DEF ToldInv, Told, i
<1> QED
  BY <1>1, <1>3, <1>4, <1>5

LEMMA SendsTold ==
    ASSUME SimInv, PacketInv, ToldInv, CountedLost,
           NEW kind \in {"timer0", "timer1", "pingtimer", "appl"}, Arrives(kind), NEW id, Sends(id),
           rcv' = rcv, snd'.lastAckSeqNo = snd.lastAckSeqNo,
           kind = "appl" => Head(fes).to[3] # GoBackNSender
    PROVE  ToldInv'
<1> DEFINE x == <<Head(fes).to, Head(fes).msg>>
<1>1. PICK E, N : Gains(fes', Tail(fes), E, N) /\ \A e \in E : Fresh(id, e)
  BY DEF Sends
<1>2. queue' = queue /\ lost' = lost /\ ~aborted /\ fes # <<>> /\ Head(fes).to[1] = kind
      /\ kind \notin {"stack", "queue"}
  BY DEF Sends, Network, Arrives
<1>3. Adds(fes', Tail(fes), E, N) /\ \A e \in E : Carries(e)
  BY <1>1, FreshCarries DEF Gains
<1>4. Moves({x}, Packets(E))
  BY <1>2, <1>3, ListMoves
<1>5. Moves({x} \cap Carried, Packets(E))
  BY <1>4 DEF Moves
<1>6. ~Tells(x[2], rcv.lastReceivedSeqNo + 1) \/ x \notin Carried
  <2> SUFFICES ASSUME Tells(x[2], rcv.lastReceivedSeqNo + 1), x \in Carried PROVE FALSE
    OBVIOUS
  <2>1. x[1][1] = kind /\ x[1][3] = Head(fes).to[3]
    BY <1>2
  <2> HIDE DEF x
  <2>2. x[2].id = "ack"
    BY DEF Tells
  <2>3. /\ x[1][1] \in {"stack", "queue", "waits", "appl"}
        /\ x[1][1] = "appl" => x[1][2] = Source /\ x[1][3] = GoBackNSender
    BY <1>2, <2>2, AckMessage
  <2> QED
    BY <2>1, <2>3
<1>7. CountedLost'
  BY <1>2 DEF CountedLost
<1>8. lost'.ack >= lost.ack
  BY <1>2 DEF CountedLost
<1> QED
  BY <1>2, <1>5, <1>6, <1>7, <1>8, ToldMoves

\* What the receiver has got, it acknowledges.
LEMMA DataTold ==
    ASSUME SimInv, PacketInv, ToldInv, CountedLost, ReceiveData
    PROVE  ToldInv'
<1> DEFINE h == Head(fes)
           last == rcv.lastReceivedSeqNo
           e(i) == ToStack(h.time, Sink, GoBackNReceiver, Ack(h.msg, i))
<1>1. /\ last \in Nat \cup {-1}
      /\ \/ rcv' = rcv
         \/ rcv'.lastReceivedSeqNo = last + 1 /\ Gains(fes', Tail(fes), {e(last + 2)}, {})
  BY DataGains
<1>2. Arrives("appl") /\ queue' = queue /\ snd' = snd /\ h.to[3] = GoBackNReceiver
  BY DEF ReceiveData, Network
<1>3. CASE rcv' = rcv
  <2>1. GoBackNReceiver # GoBackNSender
    BY DEF GoBackNReceiver, GoBackNSender
  <2> QED
    BY <1>2, <1>3, <2>1, DataSends, SendsTold
<1>4. CASE rcv'.lastReceivedSeqNo = last + 1 /\ Gains(fes', Tail(fes), {e(last + 2)}, {})
  <2> DEFINE f == e(last + 2)
             p == Ack(h.msg, last + 2)
             i == rcv'.lastReceivedSeqNo + 1
  <2>1. p.id = "ack" /\ p.seqNo = last + 2 /\ p.bitError = FALSE
    BY DEF Ack, NetworkPacket
  <2>2. i = last + 2
    BY <1>1, <1>4
  <2>3. Tells(p, i)
    BY <2>1, <2>2 DEF Tells
  <2> HIDE DEF p
  <2>4. f.to = <<"stack", Sink, GoBackNReceiver>> /\ f.msg = p
    BY DEF ToStack, Event, p
  <2>5. Gains(fes', Tail(fes), {f}, {})
    BY <1>4
  <2> HIDE DEF f, i
  <2>6. \A g \in {f} : Carries(g)
    BY <2>4 DEF Carries
  <2>7. Moves({<<Head(fes).to, Head(fes).msg>>}, Packets({f}))
    BY <1>2, <2>5, <2>6, ListMoves DEF Gains
  <2>8. <<f.to, f.msg>> \in Carried'
    BY <2>7, PacketsOne DEF Moves
  <2>9. \E x \in Carried' : Tells(x[2], i)
    <3> DEFINE x == <<f.to, f.msg>>
    <3>1. x \in Carried' /\ Tells(x[2], i)
      BY <2>3, <2>4, <2>8
    <3> QED
      BY <3>1
  <2> QED
    BY <2>9 DEF ToldInv, Told, Tells, i
<1> QED
  BY <1>1, <1>3, <1>4

LEMMA AckTold ==
    ASSUME SimInv, PacketInv, TravelInv, ToldInv, CountedLost, ReceiveAck
    PROVE  ToldInv'
<1> SUFFICES ASSUME ~aborted' PROVE Told'
  BY DEF ToldInv
<1> DEFINE h == Head(fes)
           m == h.msg
           x == <<h.to, m>>
           i == rcv.lastReceivedSeqNo + 1
<1>1. Arrives("appl") /\ h.to = <<"appl", Source, GoBackNSender>> /\ ~aborted
      /\ UNCHANGED <<queue, rcv, lost>>
  BY DEF ReceiveAck, Arrives, SenderStep, Rejected, Acknowledged, Network
<1>2. /\ PacketOK(h.to, m) /\ x \in Carried
  BY <1>1, HeadPacket
<1>3. m \in Message /\ m.id = "ack"
  <2>1. m \in Message /\ Arrived(Source, GoBackNSender, m)
    BY <1>1, <1>2 DEF PacketOK, GoBackNSender, RoutingDaemon
  <2> QED
    BY <2>1 DEF Arrived, GoBackNSender, GoBackNReceiver, PingPongAppl
<1>4. m.seqNo =< i
  <2>1. x[2] = m
    OBVIOUS
  <2> HIDE DEF x
  <2> QED
    BY <1>1, <1>2, <1>3, <2>1 DEF TravelInv, Near
<1>5. /\ m.seqNo \in Nat /\ snd.lastAckSeqNo \in Nat /\ i \in Nat
  <2>1. rcv.lastReceivedSeqNo \in Nat \cup {-1}
    BY DEF SimInv, NodesOK
  <2> QED
    BY <1>3, <2>1 DEF Message, SimInv, NodesOK, SenderType
<1>6. PICK N : /\ Gains(fes', Tail(fes), {}, N)
               /\ \/ snd' = snd /\ (m.bitError \/ m.id # "ack")
                  \/ /\ snd' = [snd EXCEPT !.nextSendTime = WokenAt(h.time),
                                           !.nextSendSeqNo = snd.lastAckSeqNo]
                     /\ m.seqNo = snd.lastAckSeqNo
                  \/ snd'.lastAckSeqNo = m.seqNo /\ m.seqNo > snd.lastAckSeqNo
  BY AckGains
<1>7. Moves({x}, {})
  <2>1. Moves({<<Head(fes).to, Head(fes).msg>>}, Packets({}))
    BY <1>1, <1>6, ListMoves DEF Gains
  <2>2. Packets({}) = {}
    BY DEF Packets
  <2> QED
    BY <2>1, <2>2
<1> DEFINE goal == \/ lost.ack > 0 \/ snd'.lastAckSeqNo = i
                   \/ \E y \in Carried' : Tells(y[2], i)
<1>8. goal => Told'
  BY <1>1 DEF Told, Tells
<1>9. \/ snd'.lastAckSeqNo = snd.lastAckSeqNo
      \/ snd'.lastAckSeqNo = m.seqNo /\ m.seqNo > snd.lastAckSeqNo
  BY <1>6 DEF SimInv, NodesOK, SenderType
<1>10. Tells(m, i) => snd'.lastAckSeqNo = i
  BY <1>3, <1>6 DEF Tells, SimInv, NodesOK, SenderType
<1>11. \/ lost.ack > 0 \/ snd.lastAckSeqNo = i \/ \E y \in Carried : Tells(y[2], i)
  BY <1>1 DEF ToldInv, Told
<1>12. x[2] = m
  OBVIOUS
<1> HIDE DEF i, x, m, h
<1>13. CASE lost.ack > 0
  BY <1>8, <1>13
<1>14. CASE snd.lastAckSeqNo = i
  BY <1>4, <1>5, <1>8, <1>9, <1>14
<1>15. CASE \E y \in Carried : Tells(y[2], i)
  <2>1. PICK y \in Carried : Tells(y[2], i)
    BY <1>15
  <2>2. y = x \/ y \in Carried'
    BY <1>7 DEF Moves
  <2> QED
    BY <1>8, <1>10, <1>12, <2>1, <2>2
<1> QED
  BY <1>11, <1>13, <1>14, <1>15

(***************************************************************************)
(* No stack drops a packet for its time to live, a missing route or        *)
(* application.                                                            *)
(***************************************************************************)
Goes(n, q, o) ==
    IF q.destNode = n THEN Delivery(n, q, o) ELSE Relay(n, q, routes[n], o)

LEMMA NoneDropped ==
    ASSUME SimInv, RouteInv, PacketInv, TravelInv, TimeToLive(par), StackHandles,
           Head(fes).to[3] # Local, Head(fes).msg.destNode \in Node
    PROVE  LET h == Head(fes) IN
           \E o : StackOut = <<o>> /\ Goes(h.to[2], Originated(h.to[2], h.to[3], h.msg), o)
<1> DEFINE h == Head(fes)
           n == h.to[2]
           from == h.to[3]
           q == Originated(n, from, h.msg)
           dest == q.destNode
           M == Cardinality(Node) - 1
<1>1. /\ Arrives("stack") /\ ~aborted /\ fes # <<>> /\ h.to[1] = "stack"
  BY ZenonT(30) DEF StackHandles, Arrives
<1>2. StackHead
  BY StackMoves
<1>3. /\ n \in Node /\ q \in Message /\ Meant(q) /\ q.destNode = h.msg.destNode
      /\ IF from = FromNet THEN q = h.msg ELSE q.TTL = 0
      /\ IF q.destNode = n
            THEN /\ \A o \in ToSet(StackOut) : Delivery(n, q, o)
                 /\ q.destAppl \in appls[n] => \E o : StackOut = <<o>>
            ELSE /\ \A o \in ToSet(StackOut) : Relay(n, q, routes[n], o)
                 /\ q.destNode \in Node /\ q.TTL < maxTTL /\ routes[n][q.destNode] # NoRoute
                       => \E o : StackOut = <<o>>
  BY <1>2, ZenonT(30) DEF StackHead
<1>4. Near(cost, changes, rcv, h.to, h.msg)
  BY <1>1, HeadCarried DEF TravelInv, Carries
<1>5. /\ cost \in [Link -> Int] /\ M \in Nat /\ changes \in Nat
      /\ M =< (changes + 1) * M /\ (changes + 1) * M \in Nat
      /\ (changes + 1) * M =< (par.changes + 1) * M
      /\ (par.changes + 1) * M =< maxTTL /\ maxTTL \in Int /\ (par.changes + 1) * M \in Nat
  <2>1. Source \in Node /\ Cardinality(Node) \in Nat /\ IsFiniteSet(Node)
    BY SourceFacts, NodesCounted
  <2>2. Cardinality(Node) # 0
    BY <2>1, FS_EmptySet
  <2>3. M \in Nat /\ changes \in Nat /\ cost \in [Link -> Int]
    BY <2>1, <2>2 DEF SimInv, NodesOK, RouteInv
  <2>4. par.changes \in Nat /\ changes =< par.changes
    BY ParametersType DEF SimInv, TimeOK, NodesOK
  <2> QED
    BY <2>3, <2>4, Product, NodesAssumption DEF TimeToLive
<1>6. \E o : StackOut = <<o>>
  <2>1. CASE dest = n
    <3>1. q.destAppl \in appls[n]
      BY <1>3, <2>1, ApplicationsAssumption DEF Meant
    <3> QED
      BY <1>3, <2>1, <3>1
  <2>2. CASE dest # n
    <3>1. R!StartsShortest(cost, n, dest, routes[n][dest])
      BY <1>1, <1>3, <2>2, HeadRoute
    <3> DEFINE r == Rank(cost, n, dest)
               hop == routes[n][dest]
               a == (changes + 1) * M
               b == (par.changes + 1) * M
    <3>2. hop \in Node
      <4>1. <<n, hop>> \in Link
        BY <3>1 DEF R!StartsShortest
      <4> HIDE DEF n, hop
      <4> QED
        BY <4>1 DEF Link
    <3>3. hop # NoRoute
      BY <3>2, NodesAssumption DEF NoRoute
    <3>4. r \in Nat /\ r =< M /\ r >= 1
      <4>1. R!StartsShortest(cost, n, dest, hop)
        BY <3>1, ZenonT(30)
      <4> DEFINE s == Rank(cost, hop, dest)
      <4>2. dest \in Node
        BY <1>3
      <4> HIDE DEF n, dest, hop
      <4>3. s + 1 =< r /\ r \in Nat /\ s \in Nat /\ r =< M
        BY <1>3, <1>5, <3>2, <4>1, <4>2, RankFalls, RankType
      <4> HIDE DEF s, r, M
      <4> QED
        BY <4>3
    <3>5. q.TTL + r =< a
      <4>1. CASE from = FromNet
        <5>1. Fits(cost, changes, n, h.msg) /\ q = h.msg
          BY <1>1, <1>3, <1>4, <4>1 DEF Near
        <5> QED
          BY <1>3, <5>1 DEF Fits
      <4>2. CASE from # FromNet
        <5>1. q.TTL = 0
          BY <1>3, <4>2
        <5> HIDE DEF r, a, M, q
        <5> QED
          BY <1>5, <3>4, <5>1 DEF a
      <4> QED
        BY <4>1, <4>2
    <3>6. q.TTL \in Int /\ a \in Nat /\ b \in Nat /\ a =< b /\ b =< maxTTL /\ maxTTL \in Int
      <4> HIDE DEF q
      <4> QED
        BY <1>3, <1>5 DEF Message
    <3> HIDE DEF r, a, b, M, q, hop
    <3>7. q.TTL < maxTTL
      BY <3>4, <3>5, <3>6
    <3> QED
      BY <1>3, <2>2, <3>3, <3>7 DEF hop
  <2> QED
    BY <2>1, <2>2
<1>7. PICK o : StackOut = <<o>>
  BY <1>6
<1>8. o \in ToSet(StackOut)
  BY <1>7, OneInSet
<1>9. Goes(n, q, o)
  BY <1>3, <1>8 DEF Goes
<1> QED
  BY <1>7, <1>9

\* The one event by which a stack passes on what it handles.
Passes(e) ==
    LET h == Head(fes)  n == h.to[2]  q == Originated(n, h.to[3], h.msg) IN
    /\ Gains(fes', Tail(fes), {e}, {}) /\ Carries(e) /\ e.time = h.time /\ e.prio = h.prio
    /\ e.msg \in Message /\ e.msg.id = h.msg.id /\ e.msg.seqNo = h.msg.seqNo
    /\ e.msg.bitError = h.msg.bitError /\ e.msg.reply = h.msg.reply
    /\ n \in Node /\ h.msg \in Message
    /\ IF h.msg.destNode = n
          THEN e.to[1] = "appl" /\ e.to[2] = n /\ Arrived(n, e.to[3], h.msg)
          ELSE \E m \in Node : /\ <<n, m>> \in Link /\ e.to = <<"queue", n, m>>
                               /\ R!StartsShortest(cost, n, h.msg.destNode, m)
                               /\ e.msg.destNode = h.msg.destNode

LEMMA StackPassesOn ==
    ASSUME SimInv, RouteInv, PacketInv, TravelInv, TimeToLive(par), StackHandles,
           Head(fes).to[3] # Local, Head(fes).msg.destNode \in Node
    PROVE  \E e : Passes(e)
<1> DEFINE h == Head(fes)
           n == h.to[2]
           from == h.to[3]
           q == Originated(n, from, h.msg)
<1>1. PICK o : StackOut = <<o>> /\ Goes(n, q, o)
  BY NoneDropped
<1>2. /\ Arrives("stack") /\ ~aborted /\ fes # <<>> /\ h.to[1] = "stack"
  BY ZenonT(30) DEF StackHandles, Arrives
<1>3. /\ n \in Node /\ q \in Message /\ h.msg \in Message /\ q.id = h.msg.id
      /\ q.seqNo = h.msg.seqNo /\ q.bitError = h.msg.bitError /\ q.destNode = h.msg.destNode
      /\ from \in Int /\ Meant(q)
      /\ q.destNode = n => \A u \in ToSet(StackOut) : Arrived(n, q.destAppl, q)
  BY StackMoves, ZenonT(30) DEF StackHead
<1>4. q.reply = h.msg.reply
  <2> DEFINE p == h.msg
  <2>1. p \in Message
    BY <1>3
  <2> HIDE DEF n, from, p
  <2> QED
    BY <1>3, <2>1, OriginatedType DEF p
<1> DEFINE e == PassedOn(o)
<1>5. /\ Gains(fes', Tail(fes), {e}, {})
      /\ \A f \in {PassedOn(u) : u \in ToSet(StackOut)} :
            Carries(f) /\ f.time = h.time /\ f.prio = h.prio
  BY <1>1, StackAdds
<1>6. e \in {PassedOn(u) : u \in ToSet(StackOut)}
  BY <1>1, OneInSet
<1>7. e.to = o.to /\ e.msg = o.msg
  BY DEF PassedOn, Event
<1>8. h.msg.destNode # n => R!StartsShortest(cost, n, h.msg.destNode, routes[n][h.msg.destNode])
  BY <1>2, HeadRoute
<1>9. Arrived(n, q.destAppl, q) => Arrived(n, q.destAppl, h.msg)
  BY <1>3 DEF Arrived
<1>10. o \in ToSet(StackOut)
  BY <1>1, OneInSet
<1> DEFINE p == h.msg
<1>11. Passes(e) <=>
         /\ Gains(fes', Tail(fes), {e}, {}) /\ Carries(e) /\ e.time = h.time /\ e.prio = h.prio
         /\ e.msg \in Message /\ e.msg.id = p.id /\ e.msg.seqNo = p.seqNo
         /\ e.msg.bitError = p.bitError /\ e.msg.reply = p.reply
         /\ n \in Node /\ p \in Message
         /\ IF p.destNode = n
               THEN e.to[1] = "appl" /\ e.to[2] = n /\ Arrived(n, e.to[3], p)
               ELSE \E m \in Node : /\ <<n, m>> \in Link /\ e.to = <<"queue", n, m>>
                                    /\ R!StartsShortest(cost, n, p.destNode, m)
                                    /\ e.msg.destNode = p.destNode
  BY DEF Passes
<1>12. Carries(e) /\ e.time = h.time /\ e.prio = h.prio
  BY <1>5, <1>6
<1>13. p.destNode \in Node
  OBVIOUS
<1> HIDE DEF e, h, n, q, from, p
<1>14. CASE q.destNode = n
  <2>1. Delivery(n, q, o)
    BY <1>1, <1>14 DEF Goes
  <2>2. e.to[1] = "appl" /\ e.to[2] = n /\ e.to[3] = q.destAppl /\ e.msg = Handed(n, q)
    BY <1>7, <2>1 DEF Delivery
  <2>3. /\ e.msg \in Message /\ e.msg.id = q.id /\ e.msg.seqNo = q.seqNo
        /\ e.msg.bitError = q.bitError /\ e.msg.reply = q.reply
    BY <1>3, <2>2, CopyOf
  <2>4. Arrived(n, e.to[3], p)
    BY <1>3, <1>9, <1>10, <1>14, <2>2 DEF p
  <2>5. Passes(e)
    BY <1>3, <1>4, <1>5, <1>11, <1>12, <1>14, <2>2, <2>3, <2>4 DEF p
  <2> QED
    BY <2>5
<1>15. CASE q.destNode # n
  <2>1. Relay(n, q, routes[n], o)
    BY <1>1, <1>15 DEF Goes
  <2>2. PICK m \in Node : /\ <<n, m>> \in Link /\ o.to = <<"queue", n, m>> /\ o.msg = Copy(n, q)
                          /\ q.destNode \in Node => m = routes[n][q.destNode]
    BY <2>1 DEF Relay
  <2>3. /\ e.msg \in Message /\ e.msg.id = q.id /\ e.msg.seqNo = q.seqNo
        /\ e.msg.bitError = q.bitError /\ e.msg.reply = q.reply /\ e.msg.destNode = q.destNode
    BY <1>3, <1>7, <2>2, CopyOf
  <2>4. R!StartsShortest(cost, n, p.destNode, m)
    <3>1. q.destNode = p.destNode /\ m = routes[n][p.destNode]
      BY <1>3, <1>13, <2>2 DEF p
    <3> QED
      BY <1>3, <1>8, <1>15, <3>1 DEF p
  <2>5. Passes(e)
    BY <1>3, <1>4, <1>5, <1>7, <1>11, <1>12, <1>15, <2>2, <2>3, <2>4 DEF p
  <2> QED
    BY <2>5
<1> QED
  BY <1>14, <1>15

LEMMA StackTold ==
    ASSUME SimInv, RouteInv, PacketInv, TravelInv, TimeToLive(par), ToldInv, CountedLost, StackHandles
    PROVE  ToldInv'
<1> DEFINE h == Head(fes)
           x == <<h.to, h.msg>>
           i == rcv.lastReceivedSeqNo + 1
           sent == {PassedOn(o) : o \in ToSet(StackOut)}
<1>1. /\ Arrives("stack") /\ ~aborted /\ UNCHANGED <<queue, lost, snd, rcv>>
      /\ h.to[1] = "stack"
  BY ZenonT(30) DEF StackHandles, Network, Arrives
<1>2. CountedLost' /\ lost'.ack >= lost.ack
  BY <1>1 DEF CountedLost
<1>3. CASE ~Tells(x[2], i)
  <2>1. Adds(fes', Tail(fes), sent, {}) /\ \A e \in sent : Carries(e)
    BY StackAdds
  <2> HIDE DEF sent
  <2>2. Moves({x}, Packets(sent))
    BY <1>1, <2>1, ListMoves
  <2> HIDE DEF x
  <2> QED
    BY <1>1, <1>2, <1>3, <2>2, ToldMoves
<1>4. CASE Tells(x[2], i)
  <2>1. PacketOK(h.to, h.msg)
    BY <1>1, HeadPacket
  <2>2. h.msg.id = "ack"
    BY <1>4 DEF Tells
  <2>3. h.to[3] # Local /\ h.msg.destNode = Source
    BY <1>1, <2>1, <2>2 DEF PacketOK, Meant, Notice, NetworkPacket
  <2>4. PICK e : Passes(e)
    BY <2>3, StackPassesOn, SourceFacts
  <2>5. /\ Gains(fes', Tail(fes), {e}, {}) /\ Carries(e)
        /\ e.msg.id = h.msg.id /\ e.msg.seqNo = h.msg.seqNo /\ e.msg.bitError = h.msg.bitError
        /\ e.msg \in Message /\ h.msg \in Message
    BY <2>4 DEF Passes
  <2>6. Moves({x}, Packets({e}))
    BY <1>1, <2>5, ListMoves DEF Gains
  <2> DEFINE y == <<e.to, e.msg>>
  <2>7. y \in Packets({e})
    BY DEF Packets
  <2>8. Tells(y[2], i)
    BY <1>4, <2>5 DEF Tells
  <2> HIDE DEF x, y
  <2> QED
    BY <1>1, <1>2, <2>6, <2>7, <2>8, ToldMoves
<1> QED
  BY <1>3, <1>4

LEMMA NotDamaged == ASSUME NEW m \in Message PROVE Damaged(m, FALSE) = m
BY DamagedMessage

LEMMA QueueTold ==
    ASSUME SimInv, PacketInv, ToldInv, CountedLost, QueueSteps, ~aborted, fes # <<>>,
           snd' = snd, rcv' = rcv
    PROVE  ToldInv'
<1> DEFINE h == Head(fes)
           i == rcv.lastReceivedSeqNo + 1
<1>1. PICK l \in Link :
        \/ \E x : \E b \in BOOLEAN : Leaves(l, x, b)
        \/ LET m == h.msg IN
           /\ h.to = <<"queue", l[1], l[2]>> /\ m \in Message
           /\ UNCHANGED <<finishes, aborted>>
           /\ \/ lost' = lost /\ Moves({<<h.to, m>>}, {<<Line(l), m>>})
              \/ lost' = Count(m) /\ Moves({<<h.to, m>>}, {})
        \/ h.to[1] = "timeout" /\ lost' = lost /\ Carried' = Carried
  BY DEF QueueSteps
<1>2. ASSUME NEW m \in Message, lost' = Count(m)
      PROVE  /\ CountedLost' /\ lost'.ack >= lost.ack /\ (Tells(m, i) => lost'.ack > 0)
  BY <1>2, CountGrows DEF CountedLost, Tells
<1>3. lost' = lost => CountedLost' /\ lost'.ack >= lost.ack
  BY DEF CountedLost
<1> HIDE DEF i
<1>4. ASSUME NEW x, NEW b \in BOOLEAN, Leaves(l, x, b) PROVE ToldInv'
  <2> DEFINE m == x[2]
             y == <<<<"stack", l[2], FromNet>>, Damaged(m, b)>>
             z == <<h.to, h.msg>>
  <2>1. /\ m \in Message /\ x \in Carried
        /\ lost' = IF b /\ m.id # "ping" THEN Count(m) ELSE lost
        /\ Moves({z, x}, {y})
        /\ x[1] = <<"queue", l[1], l[2]>> \/ x[1] = Line(l)
        /\ h.to[1] = "timeout" \/ x = z
    BY <1>4 DEF Leaves
  <2>2. CountedLost' /\ lost'.ack >= lost.ack
    BY <1>2, <1>3, <2>1
  <2>3. Tells(m, i) => lost'.ack > 0 \/ Tells(y[2], i)
    <3>1. CASE b
      BY <1>2, <2>1, <3>1 DEF Tells
    <3>2. CASE ~b
      <4>1. b = FALSE
        BY <1>4, <3>2
      <4>2. y[2] = m
        BY <2>1, <4>1, NotDamaged
      <4> QED
        BY <4>2
    <3> QED
      BY <3>1, <3>2
  <2>4. z \in Carried => z = x
    <3> SUFFICES ASSUME z \in Carried, h.to[1] = "timeout" PROVE FALSE
      BY <2>1
    <3>1. z[1] = h.to
      OBVIOUS
    <3> HIDE DEF z
    <3> QED
      BY <3>1, CarriedPlace
  <2> HIDE DEF z, y
  <2>5. Moves({x}, {y})
    BY <2>1, <2>4 DEF Moves
  <2>6. ASSUME NEW w \in {x}, Tells(w[2], i)
        PROVE  lost'.ack > 0 \/ \E v \in {y} : Tells(v[2], i)
    BY <2>3, <2>6
  <2> QED
    BY <2>2, <2>5, <2>6, ToldMoves DEF i
<1>5. CASE Carried' = Carried /\ lost' = lost
  <2>1. Moves({}, {})
    BY <1>5 DEF Moves
  <2> QED
    BY <1>3, <1>5, <2>1, ToldMoves
<1> DEFINE m == h.msg
           z == <<h.to, m>>
           w == <<Line(l), m>>
<1>6. CASE lost' = lost /\ Moves({z}, {w})
  <2>1. z[2] = m /\ w[2] = m
    OBVIOUS
  <2> HIDE DEF z, w
  <2> QED
    BY <1>3, <1>6, <2>1, ToldMoves DEF i
<1>7. CASE lost' = Count(m) /\ m \in Message /\ Moves({z}, {})
  <2>1. z[2] = m
    OBVIOUS
  <2> HIDE DEF z, m
  <2> QED
    BY <1>2, <1>7, <2>1, ToldMoves DEF i
<1> QED
  BY <1>1, <1>4, <1>5, <1>6, <1>7

LEMMA ToldGoesOn ==
    ASSUME SimInv, RouteInv, PacketInv, TravelInv, TimeToLive(par), CountedLost, ToldInv, [Next]_vars
    PROVE  ToldInv'
<1>1. CASE StackHandles
  BY <1>1, StackTold
<1>2. CASE DaemonHandles
  <2> DEFINE x == <<Head(fes).to, Head(fes).msg>>
  <2>1. /\ Arrives("appl") /\ Adds(fes', Tail(fes), {}, {}) /\ ~aborted
        /\ UNCHANGED <<queue, lost, snd, rcv>> /\ Head(fes).to[3] = RoutingDaemon
    BY <1>2, DaemonAdds DEF Gains, Arrives
  <2>2. Moves({x}, Packets({}))
    BY <2>1, ListMoves
  <2>3. PacketOK(Head(fes).to, Head(fes).msg)
    BY <2>1, HeadPacket
  <2>4. x[2] = Notice /\ Notice.id # "ack"
    BY <2>1, <2>3 DEF PacketOK, Notice, NetworkPacket, Arrives
  <2>5. CountedLost' /\ lost'.ack >= lost.ack
    BY <2>1 DEF CountedLost
  <2> HIDE DEF x
  <2> QED
    BY <2>1, <2>2, <2>4, <2>5, ToldMoves DEF Tells
<1>3. CASE QueueMessage \/ QueueTimeout
  <2>1. ~aborted /\ fes # <<>>
    BY <1>3 DEF QueueMessage, QueueTimeout, Arrives
  <2>2. snd' = snd /\ rcv' = rcv
    BY <1>3, ZenonT(30) DEF QueueMessage, QueueTimeout, QueueStep
  <2> QED
    BY <1>3, <2>1, <2>2, QueueMessageSteps, QueueTimeoutSteps, QueueTold
<1>5. ASSUME NEW c \in Commands, ConPar(c[1], c[2]) PROVE ToldInv'
  <2>1. c[1] \in Link
    BY SimulationAssumption
  <2>2. UNCHANGED <<lost, snd, rcv>> /\ ~aborted
    BY <1>5 DEF ConPar
  <2>3. CountedLost' /\ lost'.ack >= lost.ack
    BY <2>2 DEF CountedLost
  <2>4. \E new : Moves({}, new)
    BY <1>5, <2>1, ConParMoves
  <2> QED
    BY <2>2, <2>3, <2>4, ToldMoves
<1>6. CASE SendNext
  BY <1>6, SendNextSends, SendsTold DEF SendNext, SenderStep, SimInv, NodesOK, SenderType
<1>7. CASE Expire
  BY <1>7, ExpireSends, SendsTold DEF Expire, SenderStep, SimInv, NodesOK, SenderType
<1>8. CASE ReceiveAck
  BY <1>8, AckTold
<1>9. CASE ReceiveData
  BY <1>9, DataTold
<1>10. CASE PingTimer
  BY <1>10, PingTimerSends, SendsTold DEF PingTimer
<1>11. CASE ReceivePing
  BY <1>11, PingSends, SendsTold DEF ReceivePing, PingPongAppl, GoBackNSender
<1>12. CASE UNCHANGED vars
  BY <1>12 DEF vars, ToldInv, Told, Tells, Carried, Carries, Line
<1> QED
  BY <1>1, <1>2, <1>3, <1>5, <1>6, <1>7, <1>8, <1>9, <1>10, <1>11, <1>12 DEF Next

(***************************************************************************)
(* As long as nothing aborts.                                              *)
(***************************************************************************)
FlowInv == SimInv /\ RouteInv /\ PacketInv /\ TravelInv /\ CountedLost /\ ToldInv

LEMMA FlowGoesOn ==
    ASSUME \A p \in Parameters : TimeToLive(p) PROVE Spec => []FlowInv
<1>1. Init => FlowInv
  BY InitInv, RouteStarts, PacketsStart, TravelStarts, NoneLost, ToldStarts DEF FlowInv
<1>2. FlowInv /\ [Next]_vars => FlowInv'
  <2> SUFFICES ASSUME FlowInv, [Next]_vars PROVE FlowInv'
    OBVIOUS
  <2>1. SimInv /\ RouteInv /\ PacketInv /\ TravelInv /\ CountedLost /\ ToldInv
    BY DEF FlowInv
  <2>2. TimeToLive(par)
    BY <2>1 DEF SimInv, TimeOK
  <2>3. SimInv'
    BY <2>1, StepInv
  <2>4. RouteInv'
    BY <2>1, RoutesGoOn
  <2>5. PacketInv' /\ TravelInv' /\ CountedLost'
    BY <2>1, PacketsGoOn, TravelGoesOn, LostCounted
  <2>6. ToldInv'
    BY <2>1, <2>2, ToldGoesOn
  <2> QED
    BY <2>3, <2>4, <2>5, <2>6 DEF FlowInv
<1> QED
  BY <1>1, <1>2, PTL DEF Spec

(***************************************************************************)
(* Until an assertion fails, GoBackNSender knows of all that GoBackNReceiver*)
(* has, or an acknowledgement of it is under way, unless one was damaged or*)
(* dropped by a queue: also in networks with several ways.                 *)
(***************************************************************************)
THEOREM AckTheorem ==
    ASSUME \A p \in Parameters : TimeToLive(p) PROVE Spec => [](aborted \/ AckUnderWay)
<1>1. FlowInv => aborted \/ AckUnderWay
  BY ToldWhat DEF FlowInv
<1> QED
  BY <1>1, FlowGoesOn, PTL

----------------------------------------------------------------------------
(***************************************************************************)
(* Without a sender there is neither data nor an acknowledgement.          *)
(***************************************************************************)
IdleInv ==
    ~par.send /\ ~aborted =>
        /\ \A e \in ToSet(fes) : e.to # timer0 /\ e.to # timer1
        /\ \A x \in Carried : x[2].id \notin {"data", "ack"}

LEMMA KeepsIdle ==
    ASSUME IdleInv, ~aborted, par' = par, NEW s, NEW E, NEW N, Adds(fes', s, E, N),
           ToSet(s) \subseteq ToSet(fes),
           \A e \in E \cup N : ~par.send => e.to # timer0 /\ e.to # timer1,
           NEW old, NEW new, Moves(old, new),
           \A x \in new : ~par.send => x[2].id \notin {"data", "ack"}
    PROVE  IdleInv'
<1> SUFFICES ASSUME ~par.send, ~aborted' PROVE IdleInv'
  BY DEF IdleInv
<1>1. \A e \in ToSet(fes') : e \in ToSet(fes) \cup E \cup N
  BY DEF Adds
<1>2. \A e \in ToSet(fes') : e.to # timer0 /\ e.to # timer1
  BY <1>1 DEF IdleInv
<1>3. \A x \in Carried' : x \in Carried \cup new
  BY DEF Moves
<1>4. \A x \in Carried' : x[2].id \notin {"data", "ack"}
  BY <1>3 DEF IdleInv
<1>5. timer0' = timer0 /\ timer1' = timer1
  BY DEF timer0, timer1
<1> QED
  BY <1>2, <1>4, <1>5 DEF IdleInv

\* Steps of applications; the timers of the sender and the packets show that there is one.
LEMMA SendsIdle ==
    ASSUME SimInv, IdleInv, NEW kind, Arrives(kind), NEW id, Sends(id),
           id \in {"data", "ack"} => par.send
    PROVE  IdleInv'
<1>1. PICK E, N : /\ Gains(fes', Tail(fes), E, N)
                  /\ \A e \in E : Fresh(id, e)
                  /\ \A e \in N : Starting(id, e)
  BY DEF Sends
<1>2. \A e \in E : Carries(e) /\ e.to[1] = "stack" /\ e.msg.id = id
  BY <1>1, FreshCarries DEF Fresh
<1>3. queue' = queue /\ par' = par /\ ~aborted
  BY DEF Sends, Network, Arrives
<1>4. Adds(fes', Tail(fes), E, N)
  BY <1>1 DEF Gains
<1>5. Moves({<<Head(fes).to, Head(fes).msg>>}, Packets(E))
  BY <1>2, <1>3, <1>4, ListMoves
<1>6. ToSet(Tail(fes)) \subseteq ToSet(fes)
  BY NextEvent DEF SimInv, Arrives
<1>7. \A e \in E \cup N : ~par.send => e.to # timer0 /\ e.to # timer1
  BY <1>1, <1>2, TimersPlain DEF Starting
<1>8. \A x \in Packets(E) : ~par.send => x[2].id \notin {"data", "ack"}
  BY <1>2 DEF Packets
<1> QED
  BY <1>3, <1>4, <1>5, <1>6, <1>7, <1>8, KeepsIdle

LEMMA HeadInSet ==
    ASSUME SimInv, NEW kind, Arrives(kind)
    PROVE  Head(fes) \in ToSet(fes) /\ ToSet(Tail(fes)) \subseteq ToSet(fes) /\ ~aborted
BY NextEvent DEF SimInv, Arrives

LEMMA TimersMeanSender ==
    ASSUME SimInv, IdleInv, NEW kind, Arrives(kind), Head(fes).to \in {timer0, timer1}
    PROVE  par.send
BY HeadInSet DEF IdleInv

LEMMA PacketsMeanSender ==
    ASSUME SimInv, PacketInv, IdleInv, NEW kind \in {"stack", "queue", "appl"}, Arrives(kind),
           Head(fes).msg.id \in {"data", "ack"}
    PROVE  par.send
BY HeadPacket, HeadInSet DEF IdleInv

\* What an application of the file transfer is called for.
LEMMA TransferPacket ==
    ASSUME SimInv, PacketInv, Arrives("appl")
    PROVE  /\ Head(fes).to = <<"appl", Source, GoBackNSender>> =>
                 Head(fes).msg \in Message /\ Head(fes).msg.id = "ack"
           /\ Head(fes).to = <<"appl", Sink, GoBackNReceiver>> =>
                 Head(fes).msg \in Message /\ Head(fes).msg.id = "data"
           /\ Head(fes).to[3] = PingPongAppl =>
                 Head(fes).msg \in Message /\ Head(fes).msg.id = "ping"
           /\ Head(fes).to[3] = RoutingDaemon => Head(fes).msg = Notice
<1> DEFINE at == Head(fes).to
           p == Head(fes).msg
<1>1. PacketOK(at, p) /\ at[1] = "appl"
  BY HeadPacket
<1> HIDE DEF at, p
<1>2. CASE at[3] = RoutingDaemon
  BY <1>1, <1>2, PlainAppls DEF PacketOK, GoBackNSender, GoBackNReceiver, PingPongAppl,
     RoutingDaemon, at, p
<1>3. CASE at[3] # RoutingDaemon
  <2>1. p \in Message /\ Arrived(at[2], at[3], p)
    BY <1>1, <1>3 DEF PacketOK
  <2>2. at[3] = GoBackNSender => p.id = "ack"
    BY <2>1 DEF Arrived, GoBackNSender, GoBackNReceiver, PingPongAppl
  <2>3. at[3] = GoBackNReceiver => p.id = "data"
    BY <2>1 DEF Arrived, GoBackNSender, GoBackNReceiver, PingPongAppl
  <2>4. at[3] = PingPongAppl => p.id = "ping"
    BY <2>1 DEF Arrived, GoBackNSender, GoBackNReceiver, PingPongAppl
  <2>5. /\ at = <<"appl", Source, GoBackNSender>> => at[3] = GoBackNSender
        /\ at = <<"appl", Sink, GoBackNReceiver>> => at[3] = GoBackNReceiver
    OBVIOUS
  <2> QED
    BY <1>3, <2>1, <2>2, <2>3, <2>4, <2>5 DEF at, p
<1> QED
  BY <1>2, <1>3

\* The list of what a stack is going to pass on.
LEMMA StackEvents ==
    ASSUME SimInv, PacketInv, StackHandles
    PROVE  \E E : /\ Adds(fes', Tail(fes), E, {}) /\ Moves({<<Head(fes).to, Head(fes).msg>>}, Packets(E))
                  /\ \A e \in E : /\ Carries(e) /\ e.time = Head(fes).time /\ e.prio = Head(fes).prio
                                  /\ e.msg.id = Head(fes).msg.id /\ e.msg.seqNo = Head(fes).msg.seqNo
                                  /\ e.to[1] \in {"queue", "appl"}
<1> DEFINE E == {PassedOn(o) : o \in ToSet(StackOut)}
           h == Head(fes)
           q == Originated(h.to[2], h.to[3], h.msg)
<1>1. /\ Adds(fes', Tail(fes), E, {})
      /\ \A e \in E : Carries(e) /\ e.time = h.time /\ e.prio = h.prio
  BY StackAdds
<1>2. Arrives("stack") /\ queue' = queue
  BY ZenonT(30) DEF StackHandles, Network
<1>3. Moves({<<h.to, h.msg>>}, Packets(E))
  BY <1>1, <1>2, ListMoves
<1>4. ASSUME NEW o \in ToSet(StackOut)
      PROVE  o.msg.id = h.msg.id /\ o.msg.seqNo = h.msg.seqNo /\ o.to[1] \in {"queue", "appl"}
  <2>1. StackHead
    BY StackMoves
  <2>2. CASE h.to[3] = Local
    <3>1. h.msg = Notice /\ o.to = <<"appl", h.to[2], RoutingDaemon>> /\ o.msg = Notice
      BY <1>4, <2>1, <2>2, ZenonT(30) DEF StackHead
    <3> QED
      BY <3>1
  <2>3. CASE h.to[3] # Local
    <3>1. /\ q \in Message /\ q.id = h.msg.id /\ q.seqNo = h.msg.seqNo /\ h.to[2] \in Node
          /\ Delivery(h.to[2], q, o) \/ Relay(h.to[2], q, routes[h.to[2]], o)
      BY <1>4, <2>1, <2>3, ZenonT(30) DEF StackHead
    <3> HIDE DEF q, h
    <3>2. /\ Copy(h.to[2], q).id = q.id /\ Handed(h.to[2], q).id = q.id
          /\ Copy(h.to[2], q).seqNo = q.seqNo /\ Handed(h.to[2], q).seqNo = q.seqNo
      BY <3>1, CopyOf
    <3>3. ASSUME Delivery(h.to[2], q, o)
          PROVE  o.msg.id = q.id /\ o.msg.seqNo = q.seqNo /\ o.to[1] \in {"queue", "appl"}
      BY <3>2, <3>3 DEF Delivery
    <3>4. ASSUME Relay(h.to[2], q, routes[h.to[2]], o)
          PROVE  o.msg.id = q.id /\ o.msg.seqNo = q.seqNo /\ o.to[1] \in {"queue", "appl"}
      <4>1. PICK m \in Node : o.to = <<"queue", h.to[2], m>> /\ o.msg = Copy(h.to[2], q)
        BY <3>4 DEF Relay
      <4> QED
        BY <3>2, <4>1
    <3> QED
      BY <3>1, <3>3, <3>4 DEF q, h
  <2> QED
    BY <2>2, <2>3
<1>5. ASSUME NEW e \in E
      PROVE  e.msg.id = h.msg.id /\ e.msg.seqNo = h.msg.seqNo /\ e.to[1] \in {"queue", "appl"}
  <2>1. PICK o \in ToSet(StackOut) : e = PassedOn(o)
    BY <1>5
  <2>2. e.msg = o.msg /\ e.to = o.to
    BY <2>1 DEF PassedOn, Event
  <2> QED
    BY <1>4, <2>2
<1> HIDE DEF E
<1> QED
  BY <1>1, <1>3, <1>5

LEMMA StackIdle ==
    ASSUME SimInv, PacketInv, IdleInv, StackHandles PROVE IdleInv'
<1>1. Arrives("stack") /\ par' = par
  BY ZenonT(30) DEF StackHandles, Network
<1>2. PICK E : /\ Adds(fes', Tail(fes), E, {})
               /\ Moves({<<Head(fes).to, Head(fes).msg>>}, Packets(E))
               /\ \A e \in E : e.msg.id = Head(fes).msg.id /\ e.to[1] \in {"queue", "appl"}
  BY StackEvents
<1>3. Head(fes).msg.id \in {"data", "ack"} => par.send
  BY <1>1, PacketsMeanSender
<1>4. \A e \in E \cup {} : e.to # timer0 /\ e.to # timer1
  BY <1>2, TimersPlain
<1>5. \A x \in Packets(E) : ~par.send => x[2].id \notin {"data", "ack"}
  BY <1>2, <1>3 DEF Packets
<1> QED
  BY <1>1, <1>2, <1>4, <1>5, HeadInSet, KeepsIdle

LEMMA ListSelf ==
    ASSUME SimInv, NEW kind, Arrives(kind) PROVE Adds(Tail(fes), Tail(fes), {}, {})
BY HandledList DEF Gains

LEMMA DaemonIdle ==
    ASSUME SimInv, IdleInv, DaemonHandles PROVE IdleInv'
<1>1. Arrives("appl") /\ Gains(fes', Tail(fes), {}, {}) /\ UNCHANGED <<queue, par>>
  BY DaemonAdds
<1>2. Adds(fes', Tail(fes), {}, {})
  BY <1>1 DEF Gains
<1>3. Moves({<<Head(fes).to, Head(fes).msg>>}, Packets({}))
  BY <1>1, <1>2, ListMoves
<1>4. Packets({}) = {}
  BY DEF Packets
<1> QED
  BY <1>1, <1>2, <1>3, <1>4, HeadInSet, KeepsIdle

LEMMA ConParIdle ==
    ASSUME SimInv, IdleInv, NEW l \in Link, NEW value, ConPar(l, value) PROVE IdleInv'
<1> DEFINE e == LinkChanged(now, l[1])
<1>1. Moves({}, {<<e.to, e.msg>>}) /\ ~aborted /\ e.to = <<"stack", l[1], Local>> /\ e.msg = Notice
  BY ConParMoves
<1>2. Adds(fes', fes, {e}, {}) /\ par' = par
  BY ConParGains DEF Gains, ConPar
<1> HIDE DEF e
<1>3. Notice.id = "linkchange"
  BY DEF Notice, NetworkPacket
<1>4. e.to[1] = "stack"
  BY <1>1
<1>5. e.to # timer0 /\ e.to # timer1
  BY <1>4, TimersPlain
<1>6. \A x \in {<<e.to, e.msg>>} : x[2].id \notin {"data", "ack"}
  BY <1>1, <1>3
<1>7. \A f \in {e} \cup {} : f.to # timer0 /\ f.to # timer1
  BY <1>5
<1>8. ToSet(fes) \subseteq ToSet(fes)
  OBVIOUS
<1> HIDE DEF IdleInv
<1> QED
  BY <1>1, <1>2, <1>6, <1>7, <1>8, KeepsIdle

\* The list of what a queue does.
LEMMA QueueEvents ==
    ASSUME SimInv, QueueMessage \/ QueueTimeout
    PROVE  /\ \E E, N : /\ Adds(fes', Tail(fes), E, N)
                        /\ \A e \in E : /\ Carries(e) /\ e.to[1] = "stack" /\ e.to[3] = FromNet
                                        /\ e.prio = 0
                        /\ \A e \in N : e.to[1] = "timeout"
           /\ UNCHANGED <<par, changes, cost, routes, snd, rcv, ping>> /\ now' = Head(fes).time
           /\ Arrives("queue") \/ Arrives("timeout")
<1>1. /\ Arrives("queue") \/ Arrives("timeout")
      /\ now' = Head(fes).time /\ UNCHANGED <<par, changes, cost, routes, snd, rcv, ping>>
  BY ZenonT(30) DEF QueueMessage, QueueTimeout, QueueStep
<1>2. ASSUME NEW l, NEW t, NEW m, NEW b, NEW u,
             Gains(fes', Tail(fes), {Arrival(l, t, m, b)}, {TimeoutEvent(u, l)})
      PROVE  \E E, N : /\ Adds(fes', Tail(fes), E, N)
                       /\ \A e \in E : /\ Carries(e) /\ e.to[1] = "stack" /\ e.to[3] = FromNet
                                       /\ e.prio = 0
                       /\ \A e \in N : e.to[1] = "timeout"
  <2> DEFINE a == Arrival(l, t, m, b)
             o == TimeoutEvent(u, l)
  <2>1. a.to = <<"stack", l[2], FromNet>> /\ Carries(a) /\ a.prio = 0
    BY ArrivalFields
  <2>2. a.to[1] = "stack" /\ a.to[3] = FromNet
    BY <2>1
  <2>3. o.to[1] = "timeout"
    BY DEF TimeoutEvent, Event
  <2> HIDE DEF a, o
  <2>4. Adds(fes', Tail(fes), {a}, {o})
    BY <1>2 DEF Gains, a, o
  <2> QED
    BY <2>1, <2>2, <2>3, <2>4
<1>3. ASSUME fes' = Tail(fes)
      PROVE  \E E, N : /\ Adds(fes', Tail(fes), E, N)
                       /\ \A e \in E : /\ Carries(e) /\ e.to[1] = "stack" /\ e.to[3] = FromNet
                                       /\ e.prio = 0
                       /\ \A e \in N : e.to[1] = "timeout"
  <2>1. Adds(fes', Tail(fes), {}, {})
    BY <1>1, <1>3, ListSelf
  <2> QED
    BY <2>1
<1>4. \/ fes' = Tail(fes)
      \/ \E l, t, m, b, u : Gains(fes', Tail(fes), {Arrival(l, t, m, b)}, {TimeoutEvent(u, l)})
  <2>1. CASE QueueMessage
    BY <2>1, QueueMessageMoves
  <2>2. CASE QueueTimeout
    BY <2>2, QueueTimeoutMoves
  <2> QED
    BY <2>1, <2>2
<1> QED
  BY <1>1, <1>2, <1>3, <1>4, ZenonT(30)

LEMMA QueueIdle ==
    ASSUME SimInv, IdleInv, QueueMessage \/ QueueTimeout PROVE IdleInv'
<1> DEFINE h == Head(fes)
<1>1. PICK E, N : /\ Adds(fes', Tail(fes), E, N)
                  /\ \A e \in E : e.to[1] = "stack"
                  /\ \A e \in N : e.to[1] = "timeout"
  BY QueueEvents
<1>2. /\ par' = par /\ ~aborted /\ ToSet(Tail(fes)) \subseteq ToSet(fes)
      /\ fes # <<>>
  BY QueueEvents, HeadInSet DEF Arrives
<1>3. \A e \in E \cup N : e.to # timer0 /\ e.to # timer1
  BY <1>1, TimersPlain
<1>4. \A x \in Carried : ~par.send => x[2].id \notin {"data", "ack"}
  BY <1>2 DEF IdleInv
<1>5. QueueSteps
  BY QueueMessageSteps, QueueTimeoutSteps
<1>6. \E old, new : Moves(old, new) /\ \A x \in new : ~par.send => x[2].id \notin {"data", "ack"}
  <2>1. PICK l \in Link :
          \/ \E x : \E b \in BOOLEAN : Leaves(l, x, b)
          \/ /\ h.to = <<"queue", l[1], l[2]>>
             /\ Moves({<<h.to, h.msg>>}, {<<Line(l), h.msg>>}) \/ Moves({<<h.to, h.msg>>}, {})
          \/ Carried' = Carried
    BY <1>5 DEF QueueSteps
  <2>2. ASSUME NEW x, NEW b \in BOOLEAN, Leaves(l, x, b)
        PROVE  \E old, new : Moves(old, new) /\ \A y \in new : ~par.send => y[2].id \notin {"data", "ack"}
    <3> DEFINE d == Damaged(x[2], b)
               new == {<<<<"stack", l[2], FromNet>>, d>>}
    <3>1. x \in Carried /\ x[2] \in Message /\ Moves({<<h.to, h.msg>>, x}, new)
      BY <2>2 DEF Leaves
    <3>2. d.id = x[2].id
      BY <2>2, <3>1, DamagedFields
    <3> HIDE DEF d
    <3>3. \A y \in new : y[2] = d
      OBVIOUS
    <3> HIDE DEF new
    <3>4. \A y \in new : ~par.send => y[2].id \notin {"data", "ack"}
      BY <1>4, <3>1, <3>2, <3>3
    <3> QED
      BY <3>1, <3>4
  <2>3. ASSUME h.to = <<"queue", l[1], l[2]>>,
               Moves({<<h.to, h.msg>>}, {<<Line(l), h.msg>>}) \/ Moves({<<h.to, h.msg>>}, {})
        PROVE  \E old, new : Moves(old, new) /\ \A y \in new : ~par.send => y[2].id \notin {"data", "ack"}
    <3>1. <<h.to, h.msg>> \in Carried
      BY <1>2, <2>3, HeadCarried DEF Carries
    <3> HIDE DEF h
    <3>2. ~par.send => h.msg.id \notin {"data", "ack"}
      BY <1>4, <3>1
    <3> QED
      BY <2>3, <3>2
  <2>4. CASE Carried' = Carried
    <3>1. Moves({}, {})
      BY <2>4 DEF Moves
    <3> QED
      BY <3>1
  <2> QED
    BY <2>1, <2>2, <2>3, <2>4
<1>7. PICK old, new : Moves(old, new) /\ \A x \in new : ~par.send => x[2].id \notin {"data", "ack"}
  BY <1>6
<1> QED
  BY <1>1, <1>2, <1>3, <1>7, KeepsIdle

LEMMA FirstTimers ==
    ASSUME Init, NEW e \in ToSet(fes)
    PROVE  (par.send /\ e.to = timer0) \/ e.to[1] = "pingtimer"
<1>1. par \in Parameters /\ fes = InitialEvents
  BY DEF Init
<1>2. PICK i \in DOMAIN fes : fes[i] = e
  BY SetIndex
<1> DEFINE k == IF par.send THEN 1 ELSE 0
<1>3. /\ IsList(fes)
      /\ i =< k => fes[i].to = timer0
      /\ i > k => fes[i].to[1] = "pingtimer"
  BY <1>1, <1>2, FirstEvents
<1>4. i \in Nat /\ i >= 1
  BY <1>2, <1>3 DEF IsList
<1>5. CASE par.send
  BY <1>2, <1>3, <1>4, <1>5
<1>6. CASE ~par.send
  BY <1>2, <1>3, <1>4, <1>6
<1> QED
  BY <1>5, <1>6

LEMMA IdleStarts == Init => IdleInv
<1> SUFFICES ASSUME Init, ~par.send PROVE IdleInv
  BY DEF IdleInv
<1>1. \A e \in ToSet(fes) : e.to # timer0 /\ e.to # timer1
  BY FirstTimers, TimersPlain
<1> QED
  BY <1>1, NoneCarried DEF IdleInv

LEMMA IdleGoesOn == SimInv /\ PacketInv /\ IdleInv /\ [Next]_vars => IdleInv'
<1> SUFFICES ASSUME SimInv, PacketInv, IdleInv, [Next]_vars PROVE IdleInv'
  OBVIOUS
<1>1. CASE StackHandles
  BY <1>1, StackIdle
<1>2. CASE DaemonHandles
  BY <1>2, DaemonIdle
<1>3. CASE QueueMessage
  BY <1>3, QueueIdle
<1>4. CASE QueueTimeout
  BY <1>4, QueueIdle
<1>5. ASSUME NEW c \in Commands, ConPar(c[1], c[2]) PROVE IdleInv'
  <2>1. c[1] \in Link
    BY SimulationAssumption
  <2> QED
    BY <1>5, <2>1, ConParIdle
<1>6. CASE SendNext
  <2>1. Arrives("timer0") /\ par.send
    BY <1>6, TimersMeanSender, Handled, Kinds DEF SendNext
  <2> QED
    BY <1>6, <2>1, SendNextSends, SendsIdle
<1>7. CASE Expire
  <2>1. Arrives("timer1") /\ par.send
    BY <1>7, TimersMeanSender, Handled, Kinds DEF Expire
  <2> QED
    BY <1>7, <2>1, ExpireSends, SendsIdle
<1>8. CASE ReceiveAck
  <2>1. Arrives("appl") /\ par.send
    BY <1>8, TransferPacket, PacketsMeanSender DEF ReceiveAck
  <2> QED
    BY <1>8, <2>1, AckSends, SendsIdle
<1>9. CASE ReceiveData
  <2>1. Arrives("appl") /\ par.send
    BY <1>9, TransferPacket, PacketsMeanSender DEF ReceiveData
  <2> QED
    BY <1>9, <2>1, DataSends, SendsIdle
<1>10. CASE PingTimer
  BY <1>10, PingTimerSends, SendsIdle DEF PingTimer
<1>11. CASE ReceivePing
  BY <1>11, PingSends, SendsIdle DEF ReceivePing
<1>12. CASE UNCHANGED vars
  BY <1>12 DEF vars, IdleInv, Carried, Carries, Line, timer0, timer1
<1> QED
  BY <1>1, <1>2, <1>3, <1>4, <1>5, <1>6, <1>7, <1>8, <1>9, <1>10, <1>11, <1>12 DEF Next

----------------------------------------------------------------------------
(***************************************************************************)
(* Nothing but the links delays a packet, and none but the notices of a    *)
(* change has priority.  So the expiration timer is handled before an      *)
(* acknowledgement that arrives at the same time: it has been scheduled    *)
(* before that time.                                                       *)
(***************************************************************************)
ToSender == <<"appl", Source, GoBackNSender>>
Prompt(e, t) ==
    /\ Carries(e) => e.time = t \/ (e.to[1] = "stack" /\ e.to[3] = FromNet)
    /\ Carries(e) /\ e.msg.id # "linkchange" => e.prio = 0
    /\ e.to = timer1 => e.prio = 0
HasteInv ==
    par.send /\ ~aborted =>
        /\ \A e \in ToSet(fes) : Prompt(e, now)
        /\ \A a, b : Precedes(fes, a, b) /\ a.to = ToSender /\ b.to = timer1 => a.time # b.time

LEMMA TailOrder ==
    ASSUME SimInv, NEW kind, Arrives(kind), NEW a, NEW b, Precedes(Tail(fes), a, b)
    PROVE  Precedes(fes, a, b)
<1>1. IsList(fes) /\ fes # <<>>
  BY HandledList
<1> QED
  BY <1>1, TailWithout, WithoutOrder

LEMMA PrecedesIn ==
    ASSUME NEW s, NEW a, NEW b, Precedes(s, a, b) PROVE a \in ToSet(s) /\ b \in ToSet(s)
BY IndexInSet DEF Precedes

LEMMA KeepsHaste ==
    ASSUME SimInv, SimInv', PacketInv', HasteInv, ~aborted, par' = par,
           NEW s, NEW E, NEW N, Adds(fes', s, E, N),
           ToSet(s) \subseteq ToSet(fes), \A a, b : Precedes(s, a, b) => Precedes(fes, a, b),
           now' >= now, \A e \in ToSet(s) : e.time >= now',
           \A e \in E : Carries(e) /\ Prompt(e, now'),
           \A e \in N : e.to = timer1 /\ ~aborted' /\ par.send => e.prio = 0 /\ e.time > now'
    PROVE  HasteInv'
<1> SUFFICES ASSUME par.send, ~aborted' PROVE HasteInv'
  BY DEF HasteInv
<1>1. timer1' = timer1 /\ ToSender' = ToSender /\ \A e : Carries(e)' <=> Carries(e)
  BY DEF timer1, ToSender, Carries
<1>2. now \in Int /\ now' \in Int
  BY DEF SimInv, TimeOK
<1>3. \A e \in ToSet(fes) : EventOK(e)
  BY DEF SimInv, TimeOK, ListOK
<1>4. ASSUME NEW e \in ToSet(fes') PROVE Prompt(e, now')
  <2>1. CASE e \in ToSet(s)
    <3>1. Prompt(e, now) /\ e.time >= now' /\ e.time \in Int
      BY <1>3, <2>1 DEF HasteInv, EventOK
    <3> QED
      BY <1>2, <3>1 DEF Prompt
  <2>2. CASE e \in E
    BY <2>2
  <2>3. CASE e \in N /\ e \notin ToSet(s) /\ e \notin E
    <3>1. ~Carries(e)
      BY <1>4, <2>3 DEF Adds
    <3> QED
      BY <2>3, <3>1 DEF Prompt
  <2> QED
    BY <1>4, <2>1, <2>2, <2>3 DEF Adds
<1>5. ASSUME NEW a, NEW b, Precedes(fes', a, b), a.to = ToSender, b.to = timer1
      PROVE  a.time # b.time
  <2>1. a \in ToSet(fes') /\ b \in ToSet(fes')
    BY <1>5, PrecedesIn
  <2>2. a.to[1] = "appl" /\ ~Carries(b)
    BY <1>5, TimersPlain DEF ToSender, Carries
  <2>3. Carries(a) /\ a.time = now' /\ b.prio = 0
    BY <1>4, <1>5, <2>1, <2>2 DEF Carries, Prompt
  <2>4. a.prio = 0
    <3>1. <<a.to, a.msg>> \in Carried'
      BY <2>1, <2>3, InCarriedNext
    <3>2. PacketOK(a.to, a.msg)
      BY <3>1 DEF PacketInv, PacketOK, Meant, From, Starts, Arrived, Message
    <3>3. a.to[3] = GoBackNSender
      BY <1>5 DEF ToSender
    <3>4. Arrived(a.to[2], GoBackNSender, a.msg)
      BY <2>2, <3>2, <3>3 DEF PacketOK, GoBackNSender, RoutingDaemon
    <3>5. a.msg.id # "linkchange"
      BY <3>4 DEF Arrived
    <3> QED
      BY <1>4, <2>1, <2>3, <3>5 DEF Prompt
  <2>5. CASE Precedes(s, a, b)
    BY <1>5, <2>5 DEF HasteInv
  <2>6. CASE b \in E \cup N
    <3>1. b \in N
      BY <2>2, <2>6
    <3>2. b.time > now'
      BY <1>5, <3>1
    <3> QED
      BY <1>2, <2>3, <3>2
  <2>7. CASE a \in E /\ ~NotAfter(b, a)
    BY <2>3, <2>4, <2>7 DEF NotAfter
  <2> QED
    BY <1>5, <2>3, <2>5, <2>6, <2>7 DEF Adds
<1> QED
  BY <1>1, <1>4, <1>5 DEF HasteInv, Prompt, Precedes

LEMMA StepTimes ==
    ASSUME SimInv, NEW kind, Arrives(kind)
    PROVE  /\ Head(fes).time >= now /\ \A e \in ToSet(Tail(fes)) : e.time >= Head(fes).time
           /\ ToSet(Tail(fes)) \subseteq ToSet(fes) /\ Head(fes) \in ToSet(fes) /\ ~aborted
BY NextEvent DEF SimInv, Arrives, Later

LEMMA SendsHaste ==
    ASSUME SimInv, SimInv', PacketInv', HasteInv, NEW kind, Arrives(kind), NEW id, Sends(id),
           id # "linkchange", par.send => par.timeout > 0
    PROVE  HasteInv'
<1>1. PICK E, N : /\ Gains(fes', Tail(fes), E, N)
                  /\ \A e \in E : Fresh(id, e)
                  /\ \A e \in N : Starting(id, e)
  BY DEF Sends
<1>2. \A e \in E : Carries(e) /\ Prompt(e, now')
  BY <1>1, FreshCarries, TimersPlain DEF Fresh, Prompt, Sends
<1>3. Adds(fes', Tail(fes), E, N) /\ par' = par /\ now' = Head(fes).time
  BY <1>1 DEF Gains, Sends, Network
<1>4. \A e \in N : e.to = timer1 /\ ~aborted' /\ par.send => e.prio = 0 /\ e.time > now'
  BY <1>1, <1>3 DEF Starting
<1> QED
  BY <1>2, <1>3, <1>4, StepTimes, TailOrder, KeepsHaste

LEMMA StackHaste ==
    ASSUME SimInv, SimInv', PacketInv, PacketInv', HasteInv, StackHandles PROVE HasteInv'
<1>1. Arrives("stack") /\ par' = par /\ now' = Head(fes).time
  BY ZenonT(30) DEF StackHandles, Network, Pass
<1>2. PICK E : /\ Adds(fes', Tail(fes), E, {})
               /\ \A e \in E : /\ Carries(e) /\ e.time = Head(fes).time /\ e.prio = Head(fes).prio
                               /\ e.msg.id = Head(fes).msg.id /\ e.to[1] \in {"queue", "appl"}
  BY StackEvents
<1>3. CASE par.send
  <2>1. Prompt(Head(fes), now) /\ Carries(Head(fes))
    BY <1>1, <1>3, StepTimes DEF HasteInv, Arrives, Carries
  <2>2. \A e \in E : Carries(e) /\ Prompt(e, now')
    BY <1>1, <1>2, <2>1, TimersPlain DEF Prompt
  <2> QED
    BY <1>1, <1>2, <2>2, StepTimes, TailOrder, KeepsHaste
<1>4. CASE ~par.send
  BY <1>1, <1>4 DEF HasteInv
<1> QED
  BY <1>3, <1>4

LEMMA DaemonHaste ==
    ASSUME SimInv, SimInv', PacketInv', HasteInv, DaemonHandles PROVE HasteInv'
<1>1. Arrives("appl") /\ Gains(fes', Tail(fes), {}, {}) /\ par' = par /\ now' = Head(fes).time
  BY DaemonAdds
<1>2. Adds(fes', Tail(fes), {}, {})
  BY <1>1 DEF Gains
<1> QED
  BY <1>1, <1>2, StepTimes, TailOrder, KeepsHaste

LEMMA QueueHaste ==
    ASSUME SimInv, SimInv', PacketInv', HasteInv, QueueMessage \/ QueueTimeout PROVE HasteInv'
<1>1. PICK E, N : /\ Adds(fes', Tail(fes), E, N)
                  /\ \A e \in E : /\ Carries(e) /\ e.to[1] = "stack" /\ e.to[3] = FromNet
                                  /\ e.prio = 0
                  /\ \A e \in N : e.to[1] = "timeout"
  BY QueueEvents
<1>2. /\ par' = par /\ now' = Head(fes).time
      /\ Arrives("queue") \/ Arrives("timeout")
  BY QueueEvents
<1>3. \A e \in E : Carries(e) /\ Prompt(e, now')
  BY <1>1, TimersPlain DEF Prompt
<1>4. \A e \in N : e.to # timer1
  BY <1>1, TimersPlain
<1> QED
  BY <1>1, <1>2, <1>3, <1>4, StepTimes, TailOrder, KeepsHaste

LEMMA ConParHaste ==
    ASSUME SimInv, SimInv', PacketInv', HasteInv, NEW l \in Link, NEW value, ConPar(l, value)
    PROVE  HasteInv'
<1> DEFINE e == LinkChanged(now, l[1])
<1>1. /\ Adds(fes', fes, {e}, {}) /\ par' = par /\ now' = now /\ ~aborted
      /\ e.to = <<"stack", l[1], Local>> /\ e.msg = Notice
  BY ConParGains DEF Gains, ConPar
<1>2. e.time = now
  BY DEF LinkChanged, Event
<1> HIDE DEF e
<1>3. Notice.id = "linkchange"
  BY DEF Notice, NetworkPacket
<1>4. e.to[1] = "stack"
  BY <1>1
<1>5. Carries(e) /\ Prompt(e, now')
  BY <1>1, <1>2, <1>3, <1>4, TimersPlain DEF Prompt, Carries
<1>6. \A f \in ToSet(fes) : f.time >= now'
  BY <1>1 DEF SimInv, TimeOK, Later
<1>7. now \in Int
  BY DEF SimInv, TimeOK
<1> QED
  BY <1>1, <1>5, <1>6, <1>7, KeepsHaste

LEMMA HasteStarts == Init => HasteInv
<1> SUFFICES ASSUME Init PROVE HasteInv
  OBVIOUS
<1>1. ASSUME NEW e \in ToSet(fes) PROVE e.to[1] \in {"timer0", "pingtimer"}
  BY <1>1, FirstTimers, TimersPlain
<1>2. \A e \in ToSet(fes) : Prompt(e, now)
  BY <1>1, TimersPlain DEF Prompt, Carries
<1>3. \A a, b : Precedes(fes, a, b) => a.to # ToSender
  BY <1>1, PrecedesIn DEF ToSender
<1> QED
  BY <1>2, <1>3 DEF HasteInv

LEMMA HasteGoesOn ==
    ASSUME SimInv, SimInv', PacketInv, PacketInv', HasteInv, [Next]_vars,
           par.send => par.timeout > 0
    PROVE  HasteInv'
<1>1. CASE StackHandles
  BY <1>1, StackHaste
<1>2. CASE DaemonHandles
  BY <1>2, DaemonHaste
<1>3. CASE QueueMessage
  BY <1>3, QueueHaste
<1>4. CASE QueueTimeout
  BY <1>4, QueueHaste
<1>5. ASSUME NEW c \in Commands, ConPar(c[1], c[2]) PROVE HasteInv'
  <2>1. c[1] \in Link
    BY SimulationAssumption
  <2> QED
    BY <1>5, <2>1, ConParHaste
<1>6. CASE SendNext
  BY <1>6, SendNextSends, SendsHaste DEF SendNext
<1>7. CASE Expire
  BY <1>7, ExpireSends, SendsHaste DEF Expire
<1>8. CASE ReceiveAck
  BY <1>8, AckSends, SendsHaste DEF ReceiveAck
<1>9. CASE ReceiveData
  BY <1>9, DataSends, SendsHaste DEF ReceiveData
<1>10. CASE PingTimer
  BY <1>10, PingTimerSends, SendsHaste DEF PingTimer
<1>11. CASE ReceivePing
  BY <1>11, PingSends, SendsHaste DEF ReceivePing
<1>12. CASE UNCHANGED vars
  BY <1>12 DEF vars, HasteInv, Prompt, Precedes, Carries, timer1, ToSender
<1> QED
  BY <1>1, <1>2, <1>3, <1>4, <1>5, <1>6, <1>7, <1>8, <1>9, <1>10, <1>11, <1>12 DEF Next

----------------------------------------------------------------------------
(***************************************************************************)
(* What the steps of the sender do to its window, and what they assert.    *)
(***************************************************************************)
TimersOnce(s) == ~Twice(s, timer0) /\ ~Twice(s, timer1)

LEMMA OnceNotTwice ==
    ASSUME NEW s, NEW to, Once(s, to) PROVE ~Twice(s, to)
<1> DEFINE S == {i \in DOMAIN s : s[i].to = to}
<1>1. CASE S = {}
  BY <1>1, FS_EmptySet DEF Twice
<1>2. CASE S # {}
  <2>1. PICK x : x \in S
    BY <1>2
  <2>2. S = {x}
    BY <2>1 DEF Once
  <2>3. Cardinality(S) = 1
    BY <2>2, FS_Singleton
  <2> QED
    BY <2>3 DEF Twice
<1> QED
  BY <1>1, <1>2

LEMMA SendNextWindow ==
    ASSUME SimInv, SendNext
    PROVE  LET q == snd.nextSendSeqNo
               D == DOMAIN snd.packetBuffer
           IN  /\ snd'.lastAckSeqNo = snd.lastAckSeqNo /\ snd'.nextSendSeqNo = q + 1
               /\ DOMAIN snd'.packetBuffer = D \cup {q}
               /\ snd'.nextSendTime # Never => q + 1 < snd.lastAckSeqNo + par.window
               /\ /\ Head(fes).time = snd.nextSendTime
                  /\ q < snd.lastAckSeqNo + par.window
                  /\ \A i \in D : q >= Min(D)
                  /\ Cardinality(D \cup {q}) =< par.window
                  /\ TimersOnce(fes')
                  => ~aborted'
<1> DEFINE t == Head(fes).time
           q == snd.nextSendSeqNo
           D == DOMAIN snd.packetBuffer
           buffer == [i \in D \cup {q} |-> IF i = q THEN t + par.timeout ELSE snd.packetBuffer[i]]
           again == IF q + 1 >= snd.lastAckSeqNo + par.window THEN Never ELSE t + par.interval
           asserted == /\ t = snd.nextSendTime
                       /\ q < snd.lastAckSeqNo + par.window
                       /\ \A i \in D : q >= Min(D)
                       /\ Cardinality(DOMAIN buffer) =< par.window
<1>1. PICK events, expiration :
         SenderStep([snd EXCEPT !.packetBuffer = buffer, !.nextSendSeqNo = q + 1,
                                !.nextSendTime = again, !.timerExpiration = expiration],
                    events, asserted)
  BY ZenonT(30) DEF SendNext
<1>2. DOMAIN buffer = D \cup {q}
  OBVIOUS
<1>3. snd \in SenderType /\ q \in Nat /\ snd.lastAckSeqNo \in Nat /\ par.window \in Nat
  BY ParametersType DEF SimInv, NodesOK, TimeOK, SenderType
<1> HIDE DEF buffer
<1>4. again # Never => q + 1 < snd.lastAckSeqNo + par.window
  BY <1>3
<1> HIDE DEF again
<1>5. /\ snd'.lastAckSeqNo = snd.lastAckSeqNo /\ snd'.nextSendSeqNo = q + 1
      /\ snd'.packetBuffer = buffer /\ snd'.nextSendTime = again
  <2> HIDE DEF asserted, q
  <2> QED
    BY <1>1, <1>3 DEF SenderStep, SenderType
<1>6. aborted' = (~asserted \/ Twice(fes', timer0) \/ Twice(fes', timer1))
  <2> HIDE DEF asserted, q
  <2> QED
    BY <1>1 DEF SenderStep
<1>7. asserted /\ TimersOnce(fes') => ~aborted'
  <2> HIDE DEF asserted
  <2> QED
    BY <1>6, ZenonT(30) DEF TimersOnce
<1>8. (/\ t = snd.nextSendTime
       /\ q < snd.lastAckSeqNo + par.window
       /\ \A i \in D : q >= Min(D)
       /\ Cardinality(D \cup {q}) =< par.window) => asserted
  BY <1>2
<1> HIDE DEF asserted
<1> QED
  BY <1>2, <1>4, <1>5, <1>7, <1>8

LEMMA ExpireWindow ==
    ASSUME SimInv, Expire
    PROVE  /\ snd'.lastAckSeqNo = snd.lastAckSeqNo /\ snd'.nextSendSeqNo = snd.lastAckSeqNo
           /\ DOMAIN snd'.packetBuffer = DOMAIN snd.packetBuffer
           /\ Head(fes).time = snd.timerExpiration /\ TimersOnce(fes') => ~aborted'
<1> DEFINE buffer == [i \in DOMAIN snd.packetBuffer |-> Never]
<1>1. PICK events, w :
         SenderStep([snd EXCEPT !.nextSendTime = w, !.nextSendSeqNo = snd.lastAckSeqNo,
                                !.timerExpiration = Never, !.packetBuffer = buffer],
                    events, Head(fes).time = snd.timerExpiration)
  BY ZenonT(30) DEF Expire
<1>2. DOMAIN buffer = DOMAIN snd.packetBuffer
  OBVIOUS
<1> HIDE DEF buffer
<1>3. snd \in SenderType
  BY DEF SimInv, NodesOK
<1> QED
  BY <1>1, <1>2, <1>3 DEF SenderStep, SenderType, TimersOnce

\* Nothing is heard; what is acknowledged was so before; the window moves on.
Deaf == snd' = snd /\ (Head(fes).msg.bitError \/ Head(fes).msg.id # "ack")
        /\ (Head(fes).msg.id = "ack" /\ TimersOnce(fes') => ~aborted')
HeardAgain ==
    /\ snd'.lastAckSeqNo = snd.lastAckSeqNo /\ snd'.nextSendSeqNo = snd.lastAckSeqNo
    /\ DOMAIN snd'.packetBuffer = DOMAIN snd.packetBuffer
    /\ TimersOnce(fes') => ~aborted'
    /\ Head(fes).msg.seqNo = snd.lastAckSeqNo
HeardNew ==
    LET e == Head(fes).msg.seqNo
        D == DOMAIN snd.packetBuffer
    IN /\ e # snd.lastAckSeqNo /\ snd'.lastAckSeqNo = e
       /\ snd'.nextSendSeqNo = IF snd.nextSendSeqNo > e THEN snd.nextSendSeqNo ELSE e
       /\ DOMAIN snd'.packetBuffer = D \ (snd.lastAckSeqNo .. e - 1)
       /\ ~aborted' => e > snd.lastAckSeqNo
       /\ /\ e > snd.lastAckSeqNo /\ snd.lastAckSeqNo .. e - 1 \subseteq D
          /\ snd.nextSendSeqNo > e => e \in D /\ snd.packetBuffer[e] > Head(fes).time
          /\ TimersOnce(fes')
          => ~aborted'

LEMMA AckWindow ==
    ASSUME SimInv, ReceiveAck, Head(fes).msg.seqNo \in Nat
    PROVE  Deaf \/ HeardAgain \/ HeardNew
<1> DEFINE h == Head(fes)
           t == h.time
           e == h.msg.seqNo
<1>1. snd \in SenderType
  BY DEF SimInv, NodesOK
<1>2. CASE SenderStep(snd, Tail(fes), h.msg.id = "ack") /\ (h.msg.bitError \/ h.msg.id # "ack")
  BY <1>2 DEF SenderStep, Deaf, TimersOnce
<1>3. CASE e = snd.lastAckSeqNo /\ Rejected(t)
  <2>1. PICK events, w :
           SenderStep([snd EXCEPT !.nextSendTime = w, !.nextSendSeqNo = snd.lastAckSeqNo],
                      events, TRUE)
    BY <1>3, ZenonT(30) DEF Rejected
  <2> QED
    BY <1>1, <1>3, <2>1 DEF SenderStep, HeardAgain, SenderType, TimersOnce
<1>4. CASE e # snd.lastAckSeqNo /\ Acknowledged(t, e)
  <2> DEFINE D == DOMAIN snd.packetBuffer
             last == snd.lastAckSeqNo
             next == snd.nextSendSeqNo
             buffer == [i \in D \ (last .. e - 1) |-> snd.packetBuffer[i]]
             waiting == next > e
             expiration == IF ~waiting THEN Never ELSE IF e \in DOMAIN buffer THEN buffer[e] ELSE -1
             asserted == /\ e > last /\ last .. e - 1 \subseteq D
                         /\ waiting => expiration > t /\ expiration > 0
             m == Max({next, e})
  <2>1. PICK events, w :
           SenderStep([snd EXCEPT !.packetBuffer = buffer, !.lastAckSeqNo = e,
                                  !.nextSendSeqNo = m, !.timerExpiration = expiration,
                                  !.nextSendTime = w],
                      events, asserted)
    BY <1>4, ZenonT(30) DEF Acknowledged
  <2>2. DOMAIN buffer = D \ (last .. e - 1) /\ \A i \in DOMAIN buffer : buffer[i] = snd.packetBuffer[i]
    OBVIOUS
  <2>3. next \in Nat /\ last \in Nat /\ e \in Nat
    BY <1>1 DEF SenderType
  <2>4. m = IF next > e THEN next ELSE e
    BY <2>3 DEF Max
  <2>5. t \in Int /\ t >= 0
    BY HandledList, NextEvent DEF ReceiveAck, SimInv, TimeOK, Arrives
  <2>6. ASSUME e > last, last .. e - 1 \subseteq D, waiting => e \in D /\ snd.packetBuffer[e] > t
        PROVE  asserted
    <3> HIDE DEF buffer, t, e, last, next
    <3>1. CASE ~waiting
      BY <2>6, <3>1
    <3>2. CASE waiting
      <4>1. e \in DOMAIN buffer
        BY <2>2, <2>3, <2>6, <3>2
      <4>2. expiration = snd.packetBuffer[e]
        BY <2>2, <3>2, <4>1
      <4>3. expiration > t
        BY <2>6, <3>2, <4>2
      <4>4. expiration > 0
        <5>1. snd.packetBuffer[e] \in Int
          BY <1>1, <2>6, <3>2, BufferType DEF SenderType
        <5> QED
          BY <2>5, <4>2, <4>3, <5>1
      <4> QED
        BY <2>6, <4>3, <4>4
    <3> QED
      BY <3>1, <3>2
  <2> HIDE DEF buffer, m, expiration
  <2>7. snd'.lastAckSeqNo = e /\ snd'.nextSendSeqNo = m /\ snd'.packetBuffer = buffer
    <3> HIDE DEF asserted, e
    <3> QED
      BY <1>1, <2>1 DEF SenderStep, SenderType
  <2>8. /\ ~aborted' => asserted
        /\ asserted /\ TimersOnce(fes') => ~aborted'
    <3> HIDE DEF asserted
    <3> QED
      BY <2>1 DEF SenderStep, TimersOnce
  <2>9. asserted => e > last
    OBVIOUS
  <2> HIDE DEF asserted
  <2> QED
    BY <1>4, <2>2, <2>4, <2>6, <2>7, <2>8, <2>9 DEF HeardNew
<1> QED
  BY <1>2, <1>3, <1>4 DEF ReceiveAck

----------------------------------------------------------------------------
(***************************************************************************)
(* The buffer of the sender: the numbers in it follow each other, from the *)
(* first that is not acknowledged on, and are not more than the window has.*)
(***************************************************************************)
Arq(s, W) ==
    /\ \A i \in DOMAIN s.packetBuffer :
          /\ s.lastAckSeqNo =< i /\ i < s.lastAckSeqNo + W
          /\ s.lastAckSeqNo .. i \subseteq DOMAIN s.packetBuffer
    /\ s.nextSendSeqNo =< s.lastAckSeqNo + W
    /\ s.nextSendTime # Never => s.nextSendSeqNo < s.lastAckSeqNo + W
ArqInv == par.send /\ ~aborted => Arq(snd, par.window)

LEMMA SenderNumbers ==
    ASSUME SimInv
    PROVE  /\ snd.lastAckSeqNo \in Nat /\ snd.nextSendSeqNo \in Nat
           /\ DOMAIN snd.packetBuffer \subseteq Nat /\ par.window \in Nat /\ par \in Parameters
           /\ \A i \in DOMAIN snd.packetBuffer : snd.packetBuffer[i] \in Int
           /\ rcv.lastReceivedSeqNo \in Nat \cup {-1}
           /\ snd.timerExpiration \in Int /\ snd.nextSendTime \in Int
BY ParametersType, BufferType DEF SimInv, NodesOK, TimeOK, SenderType

LEMMA SenderWindow ==
    ASSUME SimInv, SenderInv, par.send, ~aborted
    PROVE  /\ snd.lastAckSeqNo =< snd.nextSendSeqNo
           /\ \A i \in Nat : snd.lastAckSeqNo =< i /\ i < snd.nextSendSeqNo =>
                 i \in DOMAIN snd.packetBuffer /\ snd.timerExpiration =< snd.packetBuffer[i]
<1>1. Window(snd, now + par.timeout)
  BY DEF SenderInv, SenderOK
<1>2. ASSUME NEW i \in Nat, snd.lastAckSeqNo =< i, i < snd.nextSendSeqNo
      PROVE  i \in snd.lastAckSeqNo .. snd.nextSendSeqNo - 1
  BY <1>2, SenderNumbers
<1> QED
  BY <1>1, <1>2 DEF Window

LEMMA SendNextArq ==
    ASSUME SimInv, SenderInv, ArqInv, SendNext, par.send
    PROVE  ArqInv'
<1> DEFINE D == DOMAIN snd.packetBuffer
           a == snd.lastAckSeqNo
           q == snd.nextSendSeqNo
           D1 == DOMAIN snd'.packetBuffer
           W == par.window
<1>1. /\ snd'.lastAckSeqNo = a /\ snd'.nextSendSeqNo = q + 1 /\ D1 = D \cup {q}
      /\ snd'.nextSendTime # Never => q + 1 < a + W
  BY SendNextWindow
<1>2. ~aborted /\ par' = par /\ Arrives("timer0")
  BY DEF SendNext, Arrives, SenderStep, Network
<1>3. /\ \A i \in D : a =< i /\ i < a + W /\ a .. i \subseteq D
      /\ snd.nextSendTime # Never => q < a + W
  BY <1>2 DEF ArqInv, Arq
<1>4. a =< q /\ \A i \in Nat : a =< i /\ i < q => i \in D
  BY <1>2, SenderWindow
<1>5. snd.nextSendTime # Never
  <2>1. Head(fes).to = timer0 /\ fes # <<>>
    BY <1>2, Handled, Kinds
  <2>2. Timers(fes, snd.nextSendTime, snd.timerExpiration)
    BY <1>2 DEF SenderInv, SenderOK
  <2> QED
    BY <2>1, <2>2, TimersTaken
<1>6. a \in Nat /\ q \in Nat /\ D \subseteq Nat /\ W \in Nat
  BY SenderNumbers
<1> HIDE DEF D, a, q, D1, W
<1>7. ASSUME NEW i \in D1 PROVE a =< i /\ i < a + W /\ a .. i \subseteq D1
  <2>1. CASE i \in D
    BY <1>1, <1>3, <2>1
  <2>2. CASE i = q
    <3>1. \A j \in a .. q : j \in D \cup {q}
      BY <1>4, <1>6
    <3> QED
      BY <1>1, <1>3, <1>4, <1>5, <2>2, <3>1
  <2> QED
    BY <1>1, <2>1, <2>2
<1>8. q + 1 =< a + W
  BY <1>3, <1>5, <1>6
<1> QED
  BY <1>1, <1>2, <1>7, <1>8 DEF ArqInv, Arq, a, q, D, D1, W

LEMMA ExpireArq ==
    ASSUME SimInv, ArqInv, Expire, par.send, par.window > 0
    PROVE  ArqInv'
<1>1. ~aborted /\ par' = par
  BY DEF Expire, Arrives, SenderStep, Network
<1>2. /\ snd'.lastAckSeqNo = snd.lastAckSeqNo /\ snd'.nextSendSeqNo = snd.lastAckSeqNo
      /\ DOMAIN snd'.packetBuffer = DOMAIN snd.packetBuffer
  BY ExpireWindow
<1>3. Arq(snd, par.window)
  BY <1>1 DEF ArqInv
<1>4. Arq(snd', par.window)
  BY <1>2, <1>3, SenderNumbers DEF Arq
<1> QED
  BY <1>1, <1>4 DEF ArqInv

LEMMA AckArq ==
    ASSUME SimInv, SenderInv, ArqInv, ReceiveAck, par.send, par.window > 0,
           Head(fes).msg.seqNo \in Nat
    PROVE  ArqInv'
<1> SUFFICES ASSUME ~aborted' PROVE ArqInv'
  BY DEF ArqInv
<1>1. ~aborted /\ par' = par
  BY DEF ReceiveAck, Arrives, Rejected, Acknowledged, SenderStep, Network
<1>2. Arq(snd, par.window)
  BY <1>1 DEF ArqInv
<1>3. CASE Deaf
  BY <1>1, <1>2, <1>3 DEF Deaf, ArqInv
<1>4. CASE HeardAgain
  <2>1. Arq(snd', par.window)
    BY <1>2, <1>4, SenderNumbers DEF Arq, HeardAgain
  <2> QED
    BY <1>1, <2>1 DEF ArqInv
<1>5. CASE HeardNew
  <2> DEFINE D == DOMAIN snd.packetBuffer
             a == snd.lastAckSeqNo
             q == snd.nextSendSeqNo
             D1 == DOMAIN snd'.packetBuffer
             W == par.window
             e == Head(fes).msg.seqNo
  <2>1. /\ snd'.lastAckSeqNo = e /\ e > a /\ D1 = D \ (a .. e - 1)
        /\ snd'.nextSendSeqNo = IF q > e THEN q ELSE e
    BY <1>5 DEF HeardNew
  <2>2. \A i \in D : a =< i /\ i < a + W /\ a .. i \subseteq D
    BY <1>2 DEF Arq
  <2>3. q =< a + W
    BY <1>2 DEF Arq
  <2>4. a \in Nat /\ q \in Nat /\ D \subseteq Nat /\ W \in Nat /\ e \in Nat /\ W > 0
    BY SenderNumbers
  <2> HIDE DEF D, a, q, D1, W, e
  <2>5. ASSUME NEW i \in D1 PROVE e =< i /\ i < e + W /\ e .. i \subseteq D1
    <3>1. i \in D /\ i \in Nat /\ e =< i
      <4>1. i \in D /\ i \notin a .. e - 1
        BY <2>1, <2>5
      <4>2. i \in Nat /\ a =< i
        BY <2>2, <2>4, <4>1
      <4> QED
        BY <2>4, <4>1, <4>2
    <3>2. i < e + W
      BY <2>1, <2>2, <2>4, <3>1
    <3>3. ASSUME NEW j \in e .. i PROVE j \in D1
      <4>1. j \in a .. i /\ j \notin a .. e - 1
        BY <2>1, <2>4, <3>1, <3>3
      <4> QED
        BY <2>1, <2>2, <3>1, <4>1
    <3> QED
      BY <3>1, <3>2, <3>3
  <2>6. snd'.nextSendSeqNo =< e + W /\ snd'.nextSendSeqNo < e + W
    BY <2>1, <2>3, <2>4
  <2>7. Arq(snd', W)
    BY <2>1, <2>5, <2>6 DEF Arq, D1
  <2> QED
    BY <1>1, <2>7 DEF ArqInv, W
<1> QED
  BY <1>3, <1>4, <1>5, AckWindow

LEMMA ArqStarts ==
    ASSUME Init, par.send => par.window > 0 PROVE ArqInv
<1>1. snd.lastAckSeqNo = 0 /\ snd.nextSendSeqNo = 0 /\ snd.packetBuffer = <<>>
  BY DEF Init
<1>2. par \in Parameters /\ par.window \in Nat
  BY ParametersType DEF Init
<1>3. DOMAIN snd.packetBuffer = {}
  BY <1>1
<1> QED
  BY <1>1, <1>2, <1>3 DEF ArqInv, Arq

\* Who changes what.
LEMMA WhoSteps ==
    ASSUME SimInv, [Next]_vars
    PROVE  /\ par' = par /\ (~aborted' => ~aborted)
           /\ SendNext \/ Expire \/ ReceiveAck \/ snd' = snd
           /\ ReceiveData \/ rcv' = rcv
           /\ QueueMessage \/ QueueTimeout \/ (finishes' = finishes /\ queue' = queue)
           /\ (\E c \in Commands : ConPar(c[1], c[2])) \/ cost' = cost
<1>1. CASE StackHandles
  BY <1>1, ZenonT(30) DEF StackHandles, Arrives, Network
<1>2. CASE DaemonHandles
  BY <1>2 DEF DaemonHandles, Arrives
<1>3. CASE QueueMessage
  BY <1>3 DEF QueueMessage, Arrives, QueueStep
<1>4. CASE QueueTimeout
  BY <1>4 DEF QueueTimeout, Arrives, QueueStep
<1>5. CASE \E c \in Commands : ConPar(c[1], c[2])
  BY <1>5 DEF ConPar
<1>6. CASE SendNext
  BY <1>6 DEF SendNext, Arrives, SenderStep, Network
<1>7. CASE Expire
  BY <1>7 DEF Expire, Arrives, SenderStep, Network
<1>8. CASE ReceiveAck
  BY <1>8 DEF ReceiveAck, Arrives, Rejected, Acknowledged, SenderStep, Network
<1>9. CASE ReceiveData
  BY <1>9 DEF ReceiveData, Arrives, Network
<1>10. CASE PingTimer
  BY <1>10 DEF PingTimer, Arrives, Network
<1>11. CASE ReceivePing
  BY <1>11 DEF ReceivePing, Arrives, Network
<1>12. CASE UNCHANGED vars
  BY <1>12 DEF vars
<1> QED
  BY <1>1, <1>2, <1>3, <1>4, <1>5, <1>6, <1>7, <1>8, <1>9, <1>10, <1>11, <1>12 DEF Next

LEMMA AckHead ==
    ASSUME SimInv, PacketInv, ReceiveAck
    PROVE  /\ Head(fes).msg \in Message /\ Head(fes).msg.id = "ack" /\ Head(fes).msg.seqNo \in Nat
           /\ Arrives("appl") /\ Head(fes).to = ToSender
           /\ <<Head(fes).to, Head(fes).msg>> \in Carried
<1>1. Arrives("appl") /\ Head(fes).to = ToSender
  BY DEF ReceiveAck, ToSender
<1>2. Head(fes).msg \in Message /\ Head(fes).msg.id = "ack"
  BY <1>1, TransferPacket DEF ToSender
<1> QED
  BY <1>1, <1>2, HeadPacket DEF Message

LEMMA ArqGoesOn ==
    ASSUME SimInv, PacketInv, SenderInv, ArqInv, [Next]_vars, par.send => par.window > 0
    PROVE  ArqInv'
<1>1. /\ par' = par /\ (~aborted' => ~aborted)
      /\ SendNext \/ Expire \/ ReceiveAck \/ snd' = snd
  BY WhoSteps
<1> SUFFICES ASSUME par.send PROVE ArqInv'
  BY <1>1 DEF ArqInv
<1>2. CASE SendNext
  BY <1>2, SendNextArq
<1>3. CASE Expire
  BY <1>3, ExpireArq
<1>4. CASE ReceiveAck
  BY <1>4, AckHead, AckArq
<1>5. CASE snd' = snd
  BY <1>1, <1>5 DEF ArqInv
<1> QED
  BY <1>1, <1>2, <1>3, <1>4, <1>5

----------------------------------------------------------------------------
(***************************************************************************)
(* Where packets come from: a module passes one on, or makes a new one.    *)
(***************************************************************************)
SameAs(p, x) == x[2].id = p.id /\ x[2].seqNo = p.seqNo
Origin(x) ==
    \/ \E y \in Carried : SameAs(x[2], y)
    \/ x[2].id \in {"linkchange", "ping"}
    \/ x[2].id = "data" /\ SendNext /\ x[2].seqNo = snd.nextSendSeqNo
    \/ x[2].id = "ack" /\ ReceiveData /\ x[2].seqNo = rcv'.lastReceivedSeqNo + 1
Traced == \E old, new : Moves(old, new) /\ \A x \in new : Origin(x)

LEMMA NoneTraced ==
    ASSUME SimInv, NEW kind, Arrives(kind), NEW N, Gains(fes', Tail(fes), {}, N), queue' = queue
    PROVE  Traced
<1>1. Moves({<<Head(fes).to, Head(fes).msg>>}, Packets({}))
  BY ListMoves DEF Gains
<1>2. Packets({}) = {}
  BY DEF Packets
<1> QED
  BY <1>1, <1>2 DEF Traced

LEMMA StackTraced ==
    ASSUME SimInv, PacketInv, StackHandles PROVE Traced
<1> DEFINE x == <<Head(fes).to, Head(fes).msg>>
<1>1. PICK E : /\ Moves({x}, Packets(E))
               /\ \A e \in E : e.msg.id = Head(fes).msg.id /\ e.msg.seqNo = Head(fes).msg.seqNo
  BY StackEvents
<1>2. x \in Carried
  BY HeadPacket, ZenonT(30) DEF StackHandles
<1>3. ASSUME NEW e \in E PROVE SameAs(e.msg, x)
  BY <1>1 DEF SameAs
<1>4. \A y \in Packets(E) : SameAs(y[2], x)
  BY <1>3 DEF Packets
<1> HIDE DEF x
<1> QED
  BY <1>1, <1>2, <1>4 DEF Traced, Origin

LEMMA QueueTraced ==
    ASSUME SimInv, QueueSteps, fes # <<>>, ~aborted PROVE Traced
<1> DEFINE h == Head(fes)
<1>1. PICK l \in Link :
          \/ \E x : \E b \in BOOLEAN : Leaves(l, x, b)
          \/ /\ h.to = <<"queue", l[1], l[2]>>
             /\ Moves({<<h.to, h.msg>>}, {<<Line(l), h.msg>>}) \/ Moves({<<h.to, h.msg>>}, {})
          \/ Carried' = Carried
    BY DEF QueueSteps
<1>2. ASSUME NEW x, NEW b \in BOOLEAN, Leaves(l, x, b) PROVE Traced
  <2> DEFINE d == Damaged(x[2], b)
             y == <<<<"stack", l[2], FromNet>>, d>>
  <2>1. x \in Carried /\ x[2] \in Message /\ Moves({<<h.to, h.msg>>, x}, {y})
    BY <1>2 DEF Leaves
  <2>2. d.id = x[2].id /\ d.seqNo = x[2].seqNo
    BY <1>2, <2>1, DamagedFields
  <2> HIDE DEF d
  <2>3. SameAs(y[2], x)
    BY <2>2 DEF SameAs
  <2> HIDE DEF y
  <2> QED
    BY <2>1, <2>3 DEF Traced, Origin
<1>3. ASSUME h.to = <<"queue", l[1], l[2]>>,
             Moves({<<h.to, h.msg>>}, {<<Line(l), h.msg>>}) \/ Moves({<<h.to, h.msg>>}, {})
      PROVE  Traced
  <2> DEFINE x == <<h.to, h.msg>>
             y == <<Line(l), h.msg>>
  <2>1. x \in Carried
    BY <1>3, HeadCarried DEF Carries
  <2>2. SameAs(y[2], x)
    BY DEF SameAs
  <2>3. Moves({x}, {y}) \/ Moves({x}, {})
    BY <1>3
  <2> HIDE DEF x, y, h
  <2>4. Origin(y)
    BY <2>1, <2>2 DEF Origin
  <2> QED
    BY <2>3, <2>4 DEF Traced
<1>4. CASE Carried' = Carried
  <2>1. Moves({}, {})
    BY <1>4 DEF Moves
  <2> QED
    BY <2>1 DEF Traced
<1> QED
  BY <1>1, <1>2, <1>3, <1>4

LEMMA ConParTraced ==
    ASSUME SimInv, NEW l \in Link, NEW value, ConPar(l, value) PROVE Traced
<1> DEFINE e == LinkChanged(now, l[1])
<1>1. Moves({}, {<<e.to, e.msg>>}) /\ e.msg = Notice
  BY ConParMoves
<1> HIDE DEF e
<1>2. Notice.id = "linkchange"
  BY DEF Notice, NetworkPacket
<1>3. \A x \in {<<e.to, e.msg>>} : Origin(x)
  BY <1>1, <1>2 DEF Origin
<1> QED
  BY <1>1, <1>3 DEF Traced

LEMMA PingTraced ==
    ASSUME SimInv, NEW kind, Arrives(kind), Sends("ping") PROVE Traced
<1>1. PICK E, N : Gains(fes', Tail(fes), E, N) /\ \A e \in E : Fresh("ping", e)
  BY DEF Sends
<1>2. \A e \in E : Carries(e) /\ e.msg.id = "ping"
  BY <1>1, FreshCarries DEF Fresh
<1>3. Moves({<<Head(fes).to, Head(fes).msg>>}, Packets(E))
  BY <1>1, <1>2, ListMoves DEF Gains, Sends, Network
<1>4. \A x \in Packets(E) : Origin(x)
  BY <1>2 DEF Packets, Origin
<1> QED
  BY <1>3, <1>4 DEF Traced

LEMMA OneTraced ==
    ASSUME SimInv, NEW kind, Arrives(kind), NEW e, NEW N, Gains(fes', Tail(fes), {e}, N),
           queue' = queue, Carries(e), Origin(<<e.to, e.msg>>)
    PROVE  Traced
<1>1. Moves({<<Head(fes).to, Head(fes).msg>>}, Packets({e}))
  BY ListMoves DEF Gains
<1>2. Packets({e}) = {<<e.to, e.msg>>}
  BY PacketsOne
<1> QED
  BY <1>1, <1>2 DEF Traced

LEMMA ToStackFields ==
    ASSUME NEW t, NEW n, NEW a, NEW p
    PROVE  LET e == ToStack(t, n, a, p) IN
           e.to = <<"stack", n, a>> /\ e.msg = p /\ e.time = t /\ e.prio = 0 /\ Carries(e)
BY DEF ToStack, Event, Carries

LEMMA DataTraced ==
    ASSUME SimInv, ReceiveData PROVE Traced
<1> DEFINE h == Head(fes)
           last == rcv.lastReceivedSeqNo
           a(i) == ToStack(h.time, Sink, GoBackNReceiver, Ack(h.msg, i))
<1>1. /\ \/ rcv' = rcv /\ Gains(fes', Tail(fes), {}, {})
         \/ \E i : i = rcv'.lastReceivedSeqNo + 1 /\ Gains(fes', Tail(fes), {a(i)}, {})
      /\ Arrives("appl") /\ queue' = queue
  <2>1. /\ last \in Nat \cup {-1}
        /\ \/ rcv' = rcv /\ Gains(fes', Tail(fes), {}, {})
           \/ rcv' = rcv /\ Gains(fes', Tail(fes), {a(last + 1)}, {})
           \/ rcv'.lastReceivedSeqNo = last + 1 /\ Gains(fes', Tail(fes), {a(last + 2)}, {})
    BY DataGains
  <2>2. last + 2 = last + 1 + 1
    BY <2>1
  <2> HIDE DEF a
  <2> QED
    BY <2>1, <2>2 DEF ReceiveData, Network
<1>2. CASE Gains(fes', Tail(fes), {}, {})
  BY <1>1, <1>2, NoneTraced
<1>3. ASSUME NEW i, i = rcv'.lastReceivedSeqNo + 1, Gains(fes', Tail(fes), {a(i)}, {}) PROVE Traced
  <2> DEFINE e == a(i)
  <2>1. Carries(e) /\ e.msg = Ack(h.msg, i)
    BY ToStackFields
  <2>2. Ack(h.msg, i).id = "ack" /\ Ack(h.msg, i).seqNo = i
    BY DEF Ack, NetworkPacket
  <2> HIDE DEF a
  <2>3. Origin(<<e.to, e.msg>>)
    BY <1>3, <2>1, <2>2 DEF Origin
  <2> HIDE DEF e
  <2> QED
    BY <1>1, <1>3, <2>1, <2>3, OneTraced DEF e
<1> QED
  BY <1>1, <1>2, <1>3

LEMMA SendNextTraced ==
    ASSUME SimInv, SendNext PROVE Traced
<1> DEFINE p == Data(snd.nextSendSeqNo)
           e == ToStack(Head(fes).time, Source, GoBackNSender, p)
<1>1. PICK N : Gains(fes', Tail(fes), {e}, N)
  BY SendNextGains
<1>2. Arrives("timer0") /\ queue' = queue
  BY DEF SendNext, SenderStep, Network
<1>3. Carries(e) /\ e.msg = p
  BY ToStackFields
<1>4. p.id = "data" /\ p.seqNo = snd.nextSendSeqNo
  BY DEF Data, NetworkPacket
<1> HIDE DEF p, e
<1>5. Origin(<<e.to, e.msg>>)
  BY <1>3, <1>4 DEF Origin
<1> QED
  BY <1>1, <1>2, <1>3, <1>5, OneTraced

LEMMA AllTraced ==
    ASSUME SimInv, PacketInv, [Next]_vars PROVE Traced
<1>1. CASE StackHandles
  BY <1>1, StackTraced
<1>2. CASE DaemonHandles
  BY <1>2, DaemonAdds, NoneTraced
<1>3. CASE QueueMessage
  BY <1>3, QueueMessageSteps, QueueTraced DEF QueueMessage, Arrives
<1>4. CASE QueueTimeout
  BY <1>4, QueueTimeoutSteps, QueueTraced DEF QueueTimeout, Arrives
<1>5. ASSUME NEW c \in Commands, ConPar(c[1], c[2]) PROVE Traced
  <2>1. c[1] \in Link
    BY SimulationAssumption
  <2> QED
    BY <1>5, <2>1, ConParTraced
<1>6. CASE SendNext
  BY <1>6, SendNextTraced
<1>7. CASE Expire
  BY <1>7, ExpireGains, NoneTraced DEF Expire, SenderStep, Network
<1>8. CASE ReceiveAck
  BY <1>8, AckGains, NoneTraced
     DEF ReceiveAck, Rejected, Acknowledged, SenderStep, Network
<1>9. CASE ReceiveData
  BY <1>9, DataTraced
<1>10. CASE PingTimer
  BY <1>10, PingTimerSends, PingTraced DEF PingTimer
<1>11. CASE ReceivePing
  BY <1>11, PingSends, PingTraced DEF ReceivePing
<1>12. CASE UNCHANGED vars
  <2>1. Carried' = Carried
    BY <1>12 DEF vars, Carried, Carries, Line
  <2>2. Moves({}, {})
    BY <2>1 DEF Moves
  <2> QED
    BY <2>2 DEF Traced
<1> QED
  BY <1>1, <1>2, <1>3, <1>4, <1>5, <1>6, <1>7, <1>8, <1>9, <1>10, <1>11, <1>12 DEF Next

----------------------------------------------------------------------------
(***************************************************************************)
(* What is under way, or has been received, was sent.                      *)
(***************************************************************************)
WasSent(s, i) == i < s.lastAckSeqNo \/ i \in DOMAIN s.packetBuffer
SeqInv ==
    par.send /\ ~aborted =>
        /\ \A x \in Carried : x[2].id = "data" => WasSent(snd, x[2].seqNo)
        /\ rcv.lastReceivedSeqNo = -1 \/ WasSent(snd, rcv.lastReceivedSeqNo)
        /\ snd.lastAckSeqNo =< rcv.lastReceivedSeqNo + 1

\* What was sent has been sent for ever.
LEMMA SentStays ==
    ASSUME SimInv, PacketInv, [Next]_vars, ~aborted', NEW i \in Int, WasSent(snd, i)
    PROVE  WasSent(snd', i)
<1>1. SendNext \/ Expire \/ ReceiveAck \/ snd' = snd
  BY WhoSteps
<1>2. CASE SendNext
  BY <1>2, SendNextWindow DEF WasSent
<1>3. CASE Expire
  BY <1>3, ExpireWindow DEF WasSent
<1>4. CASE ReceiveAck
  <2>1. CASE Deaf
    BY <2>1 DEF Deaf
  <2>2. CASE HeardAgain
    BY <2>2 DEF HeardAgain, WasSent
  <2>3. CASE HeardNew
    <3> DEFINE e == Head(fes).msg.seqNo
               a == snd.lastAckSeqNo
    <3>1. /\ e > a /\ snd'.lastAckSeqNo = e
          /\ DOMAIN snd'.packetBuffer = DOMAIN snd.packetBuffer \ (a .. e - 1)
      BY <2>3 DEF HeardNew
    <3>2. a \in Nat /\ e \in Nat /\ DOMAIN snd.packetBuffer \subseteq Nat
      BY <1>4, AckHead, SenderNumbers
    <3> HIDE DEF a, e
    <3>3. i < a \/ i \in DOMAIN snd.packetBuffer
      BY DEF WasSent, a
    <3>4. CASE i < e
      BY <3>1, <3>4 DEF WasSent
    <3>5. CASE ~(i < e)
      <4>1. i \notin a .. e - 1 /\ ~(i < a)
        BY <3>1, <3>2, <3>5
      <4> QED
        BY <3>1, <3>3, <4>1 DEF WasSent
    <3> QED
      BY <3>4, <3>5
  <2> QED
    BY <1>4, <2>1, <2>2, <2>3, AckHead, AckWindow
<1>5. CASE snd' = snd
  BY <1>5
<1> QED
  BY <1>1, <1>2, <1>3, <1>4, <1>5

LEMMA CarriedNumber ==
    ASSUME PacketInv, ~aborted, NEW x \in Carried, x[2].id \in {"data", "ack", "ping"}
    PROVE  x[2] \in Message /\ x[2].seqNo \in Nat
<1>1. PacketOK(x[1], x[2])
  BY CarriedOK
<1>2. x[1][1] \in {"stack", "queue", "waits", "appl"}
  <2>1. CASE \E e \in ToSet(fes) : Carries(e) /\ x = <<e.to, e.msg>>
    BY <2>1 DEF Carries
  <2>2. CASE \E l \in Link : \E q \in ToSet(queue[l].queue) : x = <<Line(l), q>>
    BY <2>2 DEF Line
  <2> QED
    BY <2>1, <2>2, InCarried
<1>3. Notice.id = "linkchange"
  BY DEF Notice, NetworkPacket
<1>4. x[2] \in Message
  BY <1>1, <1>2, <1>3 DEF PacketOK
<1> QED
  BY <1>4 DEF Message

LEMMA SeqGoesOn ==
    ASSUME SimInv, PacketInv, TravelInv, SeqInv, [Next]_vars
    PROVE  SeqInv'
<1>1. par' = par /\ (~aborted' => ~aborted)
  BY WhoSteps
<1> SUFFICES ASSUME par.send, ~aborted', ~aborted PROVE SeqInv'
  BY <1>1 DEF SeqInv
<1> DEFINE last == rcv.lastReceivedSeqNo
<1>2. /\ last \in Nat \cup {-1} /\ snd.lastAckSeqNo \in Nat
      /\ last = -1 \/ WasSent(snd, last)
      /\ snd.lastAckSeqNo =< last + 1
      /\ \A x \in Carried : x[2].id = "data" => x[2].seqNo \in Nat /\ WasSent(snd, x[2].seqNo)
  BY CarriedNumber, SenderNumbers DEF SeqInv
<1>3. ASSUME NEW x \in Carried', x[2].id = "data" PROVE WasSent(snd', x[2].seqNo)
  <2>1. PICK old, new : Moves(old, new) /\ \A y \in new : Origin(y)
    BY AllTraced DEF Traced
  <2>2. x \in Carried \/ Origin(x)
    BY <2>1 DEF Moves
  <2>3. CASE \E y \in Carried : y[2].id = "data" /\ x[2].seqNo = y[2].seqNo
    BY <1>2, <2>3, SentStays
  <2>4. CASE SendNext /\ x[2].seqNo = snd.nextSendSeqNo
    BY <2>4, SendNextWindow DEF WasSent
  <2> QED
    BY <1>3, <2>2, <2>3, <2>4 DEF Origin, SameAs
<1>4. rcv'.lastReceivedSeqNo = -1 \/ WasSent(snd', rcv'.lastReceivedSeqNo)
  <2>1. CASE rcv' = rcv
    BY <1>2, <2>1, SentStays
  <2>2. CASE ReceiveData /\ rcv' # rcv
    <3>1. rcv'.lastReceivedSeqNo = Head(fes).msg.seqNo
      BY <2>2, DataGains
    <3>2. Head(fes).msg.id = "data" /\ <<Head(fes).to, Head(fes).msg>> \in Carried
      BY <2>2, TransferPacket, HeadPacket DEF ReceiveData
    <3>3. Head(fes).msg.seqNo \in Nat /\ WasSent(snd, Head(fes).msg.seqNo)
      BY <1>2, <3>2
    <3> QED
      BY <3>1, <3>3, SentStays
  <2> QED
    BY <2>1, <2>2, WhoSteps
<1>5. snd'.lastAckSeqNo =< rcv'.lastReceivedSeqNo + 1
  <2>1. rcv'.lastReceivedSeqNo \in {last, last + 1} 
    <3>1. CASE rcv' = rcv
      BY <3>1
    <3>2. CASE ReceiveData
      BY <3>2, DataGains
    <3> QED
      BY <3>1, <3>2, WhoSteps
  <2>2. snd'.lastAckSeqNo =< last + 1
    <3>1. CASE ReceiveAck
      <4>1. <<Head(fes).to, Head(fes).msg>> \in Carried /\ Head(fes).msg.id = "ack"
        BY <3>1, AckHead
      <4>2. Head(fes).msg.seqNo =< last + 1
        BY <4>1 DEF TravelInv, Near
      <4>3. snd'.lastAckSeqNo \in {snd.lastAckSeqNo, Head(fes).msg.seqNo}
        BY <3>1, AckHead, AckWindow DEF Deaf, HeardAgain, HeardNew
      <4> QED
        BY <1>2, <4>2, <4>3
    <3>2. CASE SendNext
      BY <1>2, <3>2, SendNextWindow
    <3>3. CASE Expire
      BY <1>2, <3>3, ExpireWindow
    <3>4. CASE snd' = snd
      BY <1>2, <3>4
    <3> QED
      BY <3>1, <3>2, <3>3, <3>4, WhoSteps
  <2>3. snd'.lastAckSeqNo \in Int
    <3>1. CASE ReceiveAck
      <4>3. snd'.lastAckSeqNo \in {snd.lastAckSeqNo, Head(fes).msg.seqNo}
        BY <3>1, AckHead, AckWindow DEF Deaf, HeardAgain, HeardNew
      <4> QED
        BY <1>2, <3>1, <4>3, AckHead
    <3>2. CASE SendNext
      BY <1>2, <3>2, SendNextWindow
    <3>3. CASE Expire
      BY <1>2, <3>3, ExpireWindow
    <3>4. CASE snd' = snd
      BY <1>2, <3>4
    <3> QED
      BY <3>1, <3>2, <3>3, <3>4, WhoSteps
  <2> QED
    BY <1>2, <2>1, <2>2, <2>3
<1> QED
  BY <1>3, <1>4, <1>5 DEF SeqInv, WasSent

LEMMA SeqStarts == Init => SeqInv
<1> SUFFICES ASSUME Init PROVE SeqInv
  OBVIOUS
<1>1. snd.lastAckSeqNo = 0 /\ rcv.lastReceivedSeqNo = -1
  BY DEF Init
<1> QED
  BY <1>1, NoneCarried DEF SeqInv

----------------------------------------------------------------------------
(***************************************************************************)
(* The way w of the acknowledgements, from the receiver to the sender.     *)
(* The spots on it: a stack, the queue of the next link, and its line.     *)
(***************************************************************************)
FromReceiver == <<"stack", Sink, GoBackNReceiver>>
ToLink(w, i) == <<"queue", w[i], w[i + 1]>>
ForLink(w, i) == <<"waits", w[i], w[i + 1]>>
Landing(w, i) == <<"stack", w[i + 1], FromNet>>
OnWay(w, at) ==
    \/ at = FromReceiver
    \/ \E i \in 1 .. Len(w) - 1 : at = ToLink(w, i) \/ at = ForLink(w, i) \/ at = Landing(w, i)
    \/ at = ToSender

Index(w, n) == CHOOSE i \in 1 .. Len(w) : w[i] = n
Stage(kind) == IF kind = "stack" THEN 0 ELSE IF kind = "waits" THEN 2 ELSE 1
Spot(w, at) == 3 * Index(w, at[2]) + Stage(at[1])

LEMMA IndexOf ==
    ASSUME NEW w, IsWay(w), NEW i \in 1 .. Len(w) PROVE Index(w, w[i]) = i
BY DEF Index, IsWay

LEMMA SpotOf ==
    ASSUME NEW w, IsWay(w)
    PROVE  /\ Spot(w, FromReceiver) = 3 /\ Spot(w, ToSender) = 3 * Len(w) + 1
           /\ Len(w) \in Nat /\ Len(w) > 1
           /\ \A i \in 1 .. Len(w) - 1 :
                 /\ Spot(w, ToLink(w, i)) = 3 * i + 1 /\ Spot(w, ForLink(w, i)) = 3 * i + 2
                 /\ Spot(w, Landing(w, i)) = 3 * i + 3
<1>1. Len(w) \in Nat /\ Len(w) > 1
  BY DEF IsWay
<1>2. Spot(w, FromReceiver) = 3
  <2>1. Index(w, Sink) = 1
    BY <1>1, IndexOf DEF IsWay
  <2> QED
    BY <2>1 DEF Spot, FromReceiver, Stage
<1>3. Spot(w, ToSender) = 3 * Len(w) + 1
  <2>1. Index(w, Source) = Len(w)
    BY <1>1, IndexOf DEF IsWay
  <2> QED
    BY <2>1 DEF Spot, ToSender, Stage
<1>4. ASSUME NEW i \in 1 .. Len(w) - 1
      PROVE  /\ Spot(w, ToLink(w, i)) = 3 * i + 1 /\ Spot(w, ForLink(w, i)) = 3 * i + 2
             /\ Spot(w, Landing(w, i)) = 3 * i + 3
  <2>1. Index(w, w[i]) = i /\ Index(w, w[i + 1]) = i + 1
    BY <1>1, IndexOf
  <2>2. Spot(w, ToLink(w, i)) = 3 * i + 1
    BY <2>1 DEF Spot, Stage, ToLink
  <2>3. Spot(w, ForLink(w, i)) = 3 * i + 2
    BY <2>1 DEF Spot, Stage, ForLink
  <2>4. Spot(w, Landing(w, i)) = 3 * (i + 1)
    BY <2>1 DEF Spot, Stage, Landing
  <2> QED
    BY <1>4, <2>2, <2>3, <2>4
<1> QED
  BY <1>1, <1>2, <1>3, <1>4

\* Different spots are different places.
LEMMA SpotDiffers ==
    ASSUME NEW w, IsWay(w), NEW a, OnWay(w, a)
    PROVE  /\ Spot(w, a) \in Int
           /\ \A b : OnWay(w, b) /\ Spot(w, a) = Spot(w, b) => a = b
<1> DEFINE k == Len(w)
<1>1. k \in Nat /\ k > 1
  BY SpotOf
<1>2. ASSUME NEW b, OnWay(w, b)
      PROVE  \/ b = FromReceiver /\ Spot(w, b) = 3
             \/ \E i \in 1 .. k - 1 :
                   \/ b = ToLink(w, i) /\ Spot(w, b) = 3 * i + 1
                   \/ b = ForLink(w, i) /\ Spot(w, b) = 3 * i + 2
                   \/ b = Landing(w, i) /\ Spot(w, b) = 3 * i + 3
             \/ b = ToSender /\ Spot(w, b) = 3 * k + 1
  BY <1>2, SpotOf DEF OnWay
<1>3. Spot(w, a) \in Int
  BY <1>1, <1>2
<1>4. ASSUME NEW b, OnWay(w, b), Spot(w, a) = Spot(w, b) PROVE a = b
  <2>0. ASSUME NEW i \in 1 .. k - 1,
               \/ b = ToLink(w, i) /\ Spot(w, b) = 3 * i + 1
               \/ b = ForLink(w, i) /\ Spot(w, b) = 3 * i + 2
               \/ b = Landing(w, i) /\ Spot(w, b) = 3 * i + 3
        PROVE  Spot(w, b) # 3 /\ Spot(w, b) # 3 * k + 1
    BY <1>1, <2>0
  <2>1. CASE a = FromReceiver /\ Spot(w, a) = 3
    <3>1. Spot(w, b) = 3 /\ 3 * k + 1 # 3
      BY <1>1, <1>4, <2>1
    <3>2. b = FromReceiver \/ (b = ToSender /\ Spot(w, b) = 3 * k + 1)
      BY <1>2, <1>4, <2>0, <3>1
    <3> QED
      BY <2>1, <3>1, <3>2
  <2>2. CASE a = ToSender /\ Spot(w, a) = 3 * k + 1
    <3>1. Spot(w, b) = 3 * k + 1 /\ 3 * k + 1 # 3
      BY <1>1, <1>4, <2>2
    <3>2. (b = FromReceiver /\ Spot(w, b) = 3) \/ b = ToSender
      BY <1>2, <1>4, <2>0, <3>1
    <3> QED
      BY <2>2, <3>1, <3>2
  <2>3. ASSUME NEW i \in 1 .. k - 1,
               \/ a = ToLink(w, i) /\ Spot(w, a) = 3 * i + 1
               \/ a = ForLink(w, i) /\ Spot(w, a) = 3 * i + 2
               \/ a = Landing(w, i) /\ Spot(w, a) = 3 * i + 3
        PROVE  a = b
    <3>1. CASE \E j \in 1 .. k - 1 :
                   \/ b = ToLink(w, j) /\ Spot(w, b) = 3 * j + 1
                   \/ b = ForLink(w, j) /\ Spot(w, b) = 3 * j + 2
                   \/ b = Landing(w, j) /\ Spot(w, b) = 3 * j + 3
      <4>1. PICK j \in 1 .. k - 1 :
                   \/ b = ToLink(w, j) /\ Spot(w, b) = 3 * j + 1
                   \/ b = ForLink(w, j) /\ Spot(w, b) = 3 * j + 2
                   \/ b = Landing(w, j) /\ Spot(w, b) = 3 * j + 3
        BY <3>1
      <4>2. i = j
        BY <1>1, <1>4, <2>3, <4>1
      <4> QED
        BY <1>1, <1>4, <2>3, <4>1, <4>2
    <3>2. CASE b = FromReceiver /\ Spot(w, b) = 3
      BY <1>1, <1>4, <2>3, <3>2
    <3>3. CASE b = ToSender /\ Spot(w, b) = 3 * k + 1
      BY <1>1, <1>4, <2>3, <3>3
    <3> QED
      BY <1>2, <1>4, <3>1, <3>2, <3>3
  <2> QED
    BY <1>2, <2>1, <2>2, <2>3
<1> QED
  BY <1>3, <1>4

----------------------------------------------------------------------------
(***************************************************************************)
(* Acknowledgements do not overtake each other on that way: those that are *)
(* ahead, in the network, in the list and in the queues, have the lower    *)
(* numbers, and none is behind what the sender knows.                      *)
(***************************************************************************)
IsAck(p) == p.id = "ack"
InOrder(w, C, low) ==
    \A x \in C : IsAck(x[2]) =>
        /\ OnWay(w, x[1]) /\ low =< x[2].seqNo
        /\ \A y \in C : IsAck(y[2]) /\ Spot(w, y[1]) < Spot(w, x[1]) => x[2].seqNo =< y[2].seqNo
ListInOrder(s) ==
    \A a, b : Precedes(s, a, b) /\ Carries(a) /\ Carries(b) /\ a.to = b.to
                 /\ IsAck(a.msg) /\ IsAck(b.msg)
              => a.msg.seqNo =< b.msg.seqNo
QueuesInOrder(qs) ==
    \A l \in Link : \A i, j \in DOMAIN qs[l].queue :
        i < j /\ IsAck(qs[l].queue[i]) /\ IsAck(qs[l].queue[j])
        => qs[l].queue[i].seqNo =< qs[l].queue[j].seqNo
DueInTime(w, s, ends) ==
    \A e \in ToSet(s) : \A i \in 1 .. Len(w) - 1 :
        e.to = Landing(w, i) /\ IsAck(e.msg) => e.time =< ends[Hop(w, i)] + delay[Hop(w, i)]
OrderOK(w) ==
    /\ InOrder(w, Carried, snd.lastAckSeqNo)
    /\ ListInOrder(fes) /\ QueuesInOrder(queue) /\ DueInTime(w, fes, finishes)
OrderInv(w) == par.send /\ ~aborted => OrderOK(w)

LEMMA HeadFirst ==
    ASSUME SimInv, NEW kind, Arrives(kind), NEW f \in ToSet(Tail(fes))
    PROVE  Precedes(fes, Head(fes), f)
<1>1. IsList(fes) /\ fes # <<>>
  BY HandledList
<1>2. WithoutAt(Tail(fes), fes, 1) /\ fes[1] = Head(fes)
  BY <1>1, TailWithout
<1>3. PICK i \in DOMAIN Tail(fes) : Tail(fes)[i] = f
  BY SetIndex
<1>4. Len(fes) \in Nat /\ DOMAIN fes = 1 .. Len(fes) /\ i \in 1 .. Len(fes) - 1 /\ fes[i + 1] = f
  BY <1>2, <1>3 DEF WithoutAt
<1> QED
  BY <1>2, <1>4 DEF Precedes

\* None is new, or moves.
LEMMA FewerInOrder ==
    ASSUME NEW w, NEW C, NEW low, InOrder(w, C, low), NEW D,
           \A x \in D : IsAck(x[2]) => x \in C
    PROVE  InOrder(w, D, low)
BY DEF InOrder

\* One moves on, no further than to those that were ahead of it.
LEMMA MovedInOrder ==
    ASSUME NEW w, IsWay(w), NEW C, NEW low, InOrder(w, C, low), NEW x \in C, IsAck(x[2]),
           NEW z, IsAck(z[2]), z[2].seqNo = x[2].seqNo, OnWay(w, z[1]),
           Spot(w, x[1]) =< Spot(w, z[1]),
           NEW D,
           \A y \in D : IsAck(y[2]) /\ y # z =>
              /\ y \in C
              /\ Spot(w, x[1]) =< Spot(w, y[1]) /\ Spot(w, y[1]) < Spot(w, z[1])
                    => x[2].seqNo =< y[2].seqNo
    PROVE  InOrder(w, D, low)
<1> DEFINE sp(y) == Spot(w, y[1])
<1>0. /\ sp(z) \in Int /\ \A y \in C : IsAck(y[2]) => sp(y) \in Int
  BY SpotDiffers DEF InOrder
<1>1. ASSUME NEW a \in D, IsAck(a[2]) PROVE OnWay(w, a[1]) /\ low =< a[2].seqNo
  <2>1. CASE a = z
    BY <2>1 DEF InOrder
  <2>2. CASE a # z
    BY <1>1, <2>2 DEF InOrder
  <2> QED
    BY <2>1, <2>2
<1>2. ASSUME NEW a \in D, IsAck(a[2]), NEW b \in D, IsAck(b[2]), sp(b) < sp(a)
      PROVE  a[2].seqNo =< b[2].seqNo
  <2>1. CASE a # z /\ b # z
    <3>1. a \in C /\ b \in C
      BY <1>2, <2>1
    <3> QED
      BY <1>2, <3>1 DEF InOrder
  <2>2. CASE a = z /\ b # z
    <3>1. b \in C /\ sp(b) \in Int /\ sp(x) \in Int
      BY <1>0, <1>2, <2>2
    <3>2. CASE sp(x) =< sp(b)
      BY <1>2, <2>2, <3>2
    <3>3. CASE sp(b) < sp(x)
      <4>1. x[2].seqNo =< b[2].seqNo
        BY <1>2, <3>1, <3>3 DEF InOrder
      <4> QED
        BY <2>2, <4>1
    <3> QED
      BY <3>1, <3>2, <3>3
  <2>3. CASE b = z /\ a # z
    <3>1. a \in C /\ sp(a) \in Int /\ sp(x) \in Int
      BY <1>0, <1>2, <2>3
    <3>2. sp(x) < sp(a)
      BY <1>0, <1>2, <2>3, <3>1
    <3>3. a[2].seqNo =< x[2].seqNo
      BY <1>2, <3>1, <3>2 DEF InOrder
    <3> QED
      BY <2>3, <3>3
  <2>4. CASE a = z /\ b = z
    BY <1>0, <1>2, <2>4
  <2> QED
    BY <2>1, <2>2, <2>3, <2>4
<1> QED
  BY <1>1, <1>2 DEF InOrder

\* The receiver sends one that is not behind any other.
LEMMA NewInOrder ==
    ASSUME NEW w, IsWay(w), NEW C, NEW low, InOrder(w, C, low),
           NEW z, z[1] = FromReceiver, low =< z[2].seqNo,
           \A y \in C : IsAck(y[2]) => y[2].seqNo =< z[2].seqNo,
           NEW D, \A y \in D : IsAck(y[2]) => y \in C \/ y = z
    PROVE  InOrder(w, D, low)
<1>1. OnWay(w, z[1]) /\ Spot(w, z[1]) = 3
  BY SpotOf DEF OnWay
<1>2. \A at : OnWay(w, at) => Spot(w, at) \in Int /\ Spot(w, at) >= 3
  BY SpotOf DEF OnWay
<1>3. ASSUME NEW a \in D, IsAck(a[2]) PROVE OnWay(w, a[1]) /\ low =< a[2].seqNo
  BY <1>1, <1>3 DEF InOrder
<1>4. ASSUME NEW a \in D, IsAck(a[2]), NEW b \in D, IsAck(b[2]), Spot(w, b[1]) < Spot(w, a[1])
      PROVE  a[2].seqNo =< b[2].seqNo
  <2>1. Spot(w, b[1]) \in Int /\ Spot(w, b[1]) >= 3
    BY <1>2, <1>3, <1>4
  <2>2. a # z
    BY <1>1, <1>4, <2>1
  <2>3. a \in C
    BY <1>4, <2>2
  <2>4. CASE b = z
    BY <1>4, <2>3, <2>4
  <2>5. CASE b \in C
    BY <1>4, <2>3, <2>5 DEF InOrder
  <2> QED
    BY <1>4, <2>4, <2>5
<1> QED
  BY <1>3, <1>4 DEF InOrder

\* New events are put behind the others for the same place.
LEMMA KeepsListOrder ==
    ASSUME NEW r, ListInOrder(r), NEW s, \A a, b : Precedes(s, a, b) => Precedes(r, a, b),
           NEW new, NEW E, NEW N, Adds(new, s, E, N), \A e \in N : ~Carries(e),
           \A e \in E : IsAck(e.msg) =>
              \A f \in ToSet(s) \cup E : Carries(f) /\ f.to = e.to /\ IsAck(f.msg) =>
                 f.msg.seqNo =< e.msg.seqNo /\ NotAfter(f, e)
    PROVE  ListInOrder(new)
<1>1. ASSUME NEW a, NEW b, Precedes(new, a, b), Carries(a), Carries(b), a.to = b.to,
             IsAck(a.msg), IsAck(b.msg)
      PROVE  a.msg.seqNo =< b.msg.seqNo
  <2>1. a \in ToSet(new) /\ b \in ToSet(new)
    BY <1>1, PrecedesIn
  <2>2. a \in ToSet(s) \cup E /\ b \in ToSet(s) \cup E
    BY <1>1, <2>1 DEF Adds
  <2>3. Precedes(s, a, b) \/ b \in E \cup N \/ (a \in E /\ ~NotAfter(b, a))
    BY <1>1 DEF Adds
  <2>4. CASE Precedes(s, a, b)
    <3>1. Precedes(r, a, b)
      BY <2>4
    <3> QED
      BY <1>1, <3>1 DEF ListInOrder
  <2>5. CASE b \in E \cup N
    <3>1. b \in E
      BY <1>1, <2>5
    <3> QED
      BY <1>1, <2>2, <3>1
  <2>6. CASE a \in E /\ ~NotAfter(b, a)
    BY <1>1, <2>2, <2>6
  <2> QED
    BY <2>3, <2>4, <2>5, <2>6
<1> QED
  BY <1>1 DEF ListInOrder

\* A list without new acknowledgements.
LEMMA KeepsDue ==
    ASSUME NEW w, NEW r, NEW ends, DueInTime(w, r, ends), NEW new, NEW late,
           \A i \in 1 .. Len(w) - 1 : /\ ends[Hop(w, i)] \in Int /\ late[Hop(w, i)] \in Int
                                      /\ delay[Hop(w, i)] \in Int /\ ends[Hop(w, i)] =< late[Hop(w, i)],
           \A e \in ToSet(new) : Carries(e) /\ IsAck(e.msg) =>
              \/ e \in ToSet(r) /\ e.time \in Int
              \/ \A i \in 1 .. Len(w) - 1 :
                    e.to = Landing(w, i) => e.time = late[Hop(w, i)] + delay[Hop(w, i)]
    PROVE  DueInTime(w, new, late)
<1>1. ASSUME NEW e \in ToSet(new), NEW i \in 1 .. Len(w) - 1, e.to = Landing(w, i), IsAck(e.msg)
      PROVE  e.time =< late[Hop(w, i)] + delay[Hop(w, i)]
  <2>1. Carries(e)
    BY <1>1 DEF Carries, Landing
  <2>2. CASE e \in ToSet(r) /\ e.time \in Int
    <3>1. e.time =< ends[Hop(w, i)] + delay[Hop(w, i)]
      BY <1>1, <2>2 DEF DueInTime
    <3> HIDE DEF Hop
    <3> QED
      BY <1>1, <2>2, <3>1
  <2>3. CASE \A j \in 1 .. Len(w) - 1 :
                 e.to = Landing(w, j) => e.time = late[Hop(w, j)] + delay[Hop(w, j)]
    BY <1>1, <2>3
  <2> QED
    BY <1>1, <2>1, <2>2, <2>3
<1> QED
  BY <1>1 DEF DueInTime

\* Steps that neither send nor move an acknowledgement.
LEMMA QuietRest ==
    ASSUME NEW w, OrderOK(w),
           NEW s, \A a, b : Precedes(s, a, b) => Precedes(fes, a, b), ToSet(s) \subseteq ToSet(fes),
           NEW E, NEW N, Adds(fes', s, E, N),
           \A e \in E : ~IsAck(e.msg), \A e \in N : ~Carries(e),
           \A k \in Link : queue'[k].queue = queue[k].queue, finishes' = finishes
    PROVE  ListInOrder(fes') /\ QueuesInOrder(queue') /\ DueInTime(w, fes', finishes')
<1>3. ListInOrder(fes')
  <2>1. ListInOrder(fes)
    BY DEF OrderOK
  <2> QED
    BY <2>1, KeepsListOrder
<1>4. QueuesInOrder(queue')
  BY DEF OrderOK, QueuesInOrder
<1>5. DueInTime(w, fes', finishes')
  <2>1. ASSUME NEW e \in ToSet(fes'), NEW i \in 1 .. Len(w) - 1, e.to = Landing(w, i), IsAck(e.msg)
        PROVE  e.time =< finishes'[Hop(w, i)] + delay[Hop(w, i)]
    <3>1. Carries(e)
      BY <2>1 DEF Carries, Landing
    <3>2. e \in ToSet(fes)
      BY <2>1, <3>1 DEF Adds
    <3> QED
      BY <2>1, <3>2 DEF OrderOK, DueInTime
  <2> QED
    BY <2>1 DEF DueInTime
<1> QED
  BY <1>3, <1>4, <1>5
LEMMA QuietOrder ==
    ASSUME SimInv, NEW w, IsWay(w), OrderInv(w), ~aborted, par' = par,
           NEW s, \A a, b : Precedes(s, a, b) => Precedes(fes, a, b), ToSet(s) \subseteq ToSet(fes),
           NEW E, NEW N, Adds(fes', s, E, N),
           \A e \in E : ~IsAck(e.msg), \A e \in N : ~Carries(e),
           \A k \in Link : queue'[k].queue = queue[k].queue,
           finishes' = finishes, snd'.lastAckSeqNo = snd.lastAckSeqNo,
           NEW old, NEW new, Moves(old, new), \A x \in new : ~IsAck(x[2])
    PROVE  OrderInv(w)'
<1> SUFFICES ASSUME par.send, ~aborted' PROVE OrderOK(w)'
  BY DEF OrderInv
<1>1. OrderOK(w)
  BY DEF OrderInv
<1>2. InOrder(w, Carried', snd'.lastAckSeqNo)
  <2>1. InOrder(w, Carried, snd.lastAckSeqNo)
    BY <1>1 DEF OrderOK
  <2>2. \A x \in Carried' : IsAck(x[2]) => x \in Carried
    BY DEF Moves
  <2> QED
    BY <2>1, <2>2, FewerInOrder
<1>3. ListInOrder(fes') /\ QueuesInOrder(queue') /\ DueInTime(w, fes', finishes')
  BY <1>1, QuietRest
<1> QED
  BY <1>2, <1>3 DEF OrderOK

\* The handlers of applications, but that of the receiver.
LEMMA SendsOrder ==
    ASSUME SimInv, NEW w, IsWay(w), OrderInv(w), NEW kind, Arrives(kind),
           NEW id, id # "ack", Sends(id), snd'.lastAckSeqNo = snd.lastAckSeqNo
    PROVE  OrderInv(w)'
<1>1. PICK E, N : /\ Gains(fes', Tail(fes), E, N) /\ (\A e \in E : Fresh(id, e))
                  /\ \A e \in N : Starting(id, e)
  BY DEF Sends
<1>2. UNCHANGED <<par, queue, finishes>> /\ ~aborted
  BY HandledList DEF Sends, Network
<1>3. /\ Adds(fes', Tail(fes), E, N) /\ \A e \in E : Carries(e) /\ ~IsAck(e.msg)
  BY <1>1, FreshCarries DEF Gains, Fresh, IsAck
<1>4. \A e \in N : ~Carries(e)
  BY <1>1 DEF Starting, Carries
<1>5. Moves({<<Head(fes).to, Head(fes).msg>>}, Packets(E))
  BY <1>2, <1>3, ListMoves
<1>6. \A x \in Packets(E) : ~IsAck(x[2])
  BY <1>3 DEF Packets
<1>7. ToSet(Tail(fes)) \subseteq ToSet(fes) /\ \A a, b : Precedes(Tail(fes), a, b) => Precedes(fes, a, b)
  BY TailOrder, HeadInSet
<1> HIDE DEF OrderInv
<1> QED
  BY <1>2, <1>3, <1>4, <1>5, <1>6, <1>7, QuietOrder

LEMMA DaemonOrder ==
    ASSUME SimInv, NEW w, IsWay(w), OrderInv(w), DaemonHandles PROVE OrderInv(w)'
<1>1. Arrives("appl") /\ Gains(fes', Tail(fes), {}, {}) /\ UNCHANGED <<par, queue, finishes, snd>>
  BY DaemonAdds
<1>2. Adds(fes', Tail(fes), {}, {}) /\ ~aborted
  BY <1>1, HandledList DEF Gains
<1>3. Moves({<<Head(fes).to, Head(fes).msg>>}, Packets({}))
  BY <1>1, <1>2, ListMoves
<1>4. \A x \in Packets({}) : ~IsAck(x[2])
  BY DEF Packets
<1>5. ToSet(Tail(fes)) \subseteq ToSet(fes) /\ \A a, b : Precedes(Tail(fes), a, b) => Precedes(fes, a, b)
  BY <1>1, TailOrder, HeadInSet
<1> QED
  BY <1>1, <1>2, <1>3, <1>4, <1>5, QuietOrder

LEMMA ConParOrder ==
    ASSUME SimInv, NEW w, IsWay(w), OrderInv(w), NEW l \in Link, NEW value, ConPar(l, value)
    PROVE  OrderInv(w)'
<1> DEFINE e == LinkChanged(now, l[1])
<1>1. Gains(fes', fes, {e}, {}) /\ e.msg = Notice
  BY ConParGains
<1>2. Moves({}, {<<e.to, e.msg>>}) /\ ~aborted
  BY ConParMoves
<1>3. UNCHANGED <<par, queue, finishes, snd>>
  BY DEF ConPar
<1>4. ~IsAck(e.msg)
  BY <1>1 DEF Notice, NetworkPacket, IsAck
<1>5. Adds(fes', fes, {e}, {})
  BY <1>1 DEF Gains
<1> HIDE DEF e
<1>6. \A x \in {<<e.to, e.msg>>} : ~IsAck(x[2])
  BY <1>4
<1> QED
  BY <1>2, <1>3, <1>4, <1>5, <1>6, QuietOrder

\* An acknowledgement that is handled next.
LEMMA AckPlace ==
    ASSUME SimInv, PacketInv, par.send, NEW w, IsWay(w), OrderInv(w),
           NEW kind \in {"stack", "queue", "appl"}, Arrives(kind), IsAck(Head(fes).msg)
    PROVE  LET h == Head(fes) IN
           /\ OnWay(w, h.to) /\ <<h.to, h.msg>> \in Carried /\ OrderOK(w) /\ ~aborted
           /\ h.to[1] = kind /\ h.msg \in Message
           /\ kind = "stack" => /\ \E i \in 1 .. Len(w) : h.to[2] = w[i] /\ Spot(w, h.to) = 3 * i
                                /\ h.msg.destNode = Source /\ h.to[3] # Local
           /\ kind = "queue" => \E i \in 1 .. Len(w) - 1 : h.to = ToLink(w, i)
           /\ kind = "appl" => h.to = ToSender
<1> DEFINE h == Head(fes)
<1>0. ~aborted /\ OrderOK(w)
  BY HandledList DEF OrderInv
<1>1. PacketOK(h.to, h.msg) /\ h.to[1] = kind /\ <<h.to, h.msg>> \in Carried
  BY HeadPacket
<1>2. OnWay(w, h.to)
  BY <1>0, <1>1 DEF OrderOK, InOrder
<1>3. h.msg.id # "linkchange" /\ h.msg # Notice
  BY DEF IsAck, Notice, NetworkPacket
<1>4. h.msg \in Message
  <2>1. CASE kind = "stack"
    BY <1>1, <1>3, <2>1 DEF PacketOK
  <2>2. CASE kind = "queue"
    BY <1>1, <2>2 DEF PacketOK
  <2>3. CASE kind = "appl"
    BY <1>1, <1>3, <2>3 DEF PacketOK
  <2> QED
    BY <2>1, <2>2, <2>3
<1>5. ASSUME kind = "stack"
      PROVE  /\ \E i \in 1 .. Len(w) : h.to[2] = w[i] /\ Spot(w, h.to) = 3 * i
             /\ h.msg.destNode = Source /\ h.to[3] # Local
  <2>1. h.msg.destNode = Source /\ h.to[3] # Local
    BY <1>1, <1>3, <1>5 DEF PacketOK, Meant, IsAck
  <2>2. Len(w) \in Nat /\ Len(w) > 1 /\ w[1] = Sink
    BY DEF IsWay
  <2>3. CASE h.to = FromReceiver
    <3>1. Spot(w, h.to) = 3
      BY <2>3, SpotOf
    <3>2. h.to[2] = w[1]
      BY <2>2, <2>3 DEF FromReceiver
    <3> QED
      BY <2>1, <2>2, <3>1, <3>2
  <2>4. ASSUME NEW i \in 1 .. Len(w) - 1, h.to = Landing(w, i)
        PROVE  h.to[2] = w[i + 1] /\ Spot(w, h.to) = 3 * i + 3 /\ i + 1 \in 1 .. Len(w)
    <3>1. Spot(w, h.to) = 3 * i + 3
      BY <2>4, SpotOf
    <3>2. h.to[2] = w[i + 1]
      BY <2>4 DEF Landing
    <3> QED
      BY <2>2, <3>1, <3>2
  <2>5. h.to = FromReceiver \/ \E i \in 1 .. Len(w) - 1 : h.to = Landing(w, i)
    BY <1>1, <1>2, <1>5 DEF OnWay, ToLink, ForLink, ToSender
  <2>6. CASE \E i \in 1 .. Len(w) - 1 : h.to = Landing(w, i)
    <3>1. PICK i \in 1 .. Len(w) - 1 : h.to = Landing(w, i)
      BY <2>6
    <3>2. h.to[2] = w[i + 1] /\ Spot(w, h.to) = 3 * (i + 1) /\ i + 1 \in 1 .. Len(w)
      BY <2>2, <2>4, <3>1
    <3> QED
      BY <2>1, <3>2
  <2> QED
    BY <2>3, <2>5, <2>6
<1>6. ASSUME kind = "queue" PROVE \E i \in 1 .. Len(w) - 1 : h.to = ToLink(w, i)
  BY <1>1, <1>2, <1>6 DEF OnWay, FromReceiver, ForLink, Landing, ToSender
<1>7. ASSUME kind = "appl" PROVE h.to = ToSender
  BY <1>1, <1>2, <1>7 DEF OnWay, FromReceiver, ForLink, Landing, ToLink
<1> QED
  BY <1>0, <1>1, <1>2, <1>4, <1>5, <1>6, <1>7

\* It is the oldest of those that are for the same module.
LEMMA OthersBehind ==
    ASSUME SimInv, NEW kind, Arrives(kind), Carries(Head(fes)), ListInOrder(fes), IsAck(Head(fes).msg),
           NEW E, NEW N, Adds(fes', Tail(fes), E, N), \A e \in E : e.to # Head(fes).to,
           NEW y \in Carried', y[1] = Head(fes).to, IsAck(y[2])
    PROVE  Head(fes).msg.seqNo =< y[2].seqNo
<1> DEFINE h == Head(fes)
<1>1. \A l \in Link : Line(l) # h.to
  BY DEF Line, Carries
<1>2. PICK f \in ToSet(fes') : Carries(f) /\ y = <<f.to, f.msg>>
  BY <1>1, InCarriedNext
<1>3. f \in ToSet(Tail(fes))
  BY <1>2 DEF Adds
<1>4. Precedes(fes, h, f)
  BY <1>3, HeadFirst
<1> QED
  BY <1>2, <1>4 DEF ListInOrder

\* An event of the present is behind all others of its module, unless links delay them.
LEMMA PromptBehind ==
    ASSUME SimInv, SimInv', HasteInv', par.send', ~aborted', NEW e, e.time = now', e.prio = 0,
           NEW f \in ToSet(fes'), Carries(f), IsAck(f.msg),
           ~(f.to[1] = "stack" /\ f.to[3] = FromNet)
    PROVE  NotAfter(f, e)
<1>1. Prompt(f, now')
  BY DEF HasteInv
<1>2. f.time = now' /\ f.prio = 0
  BY <1>1 DEF Prompt, IsAck
<1>3. now' \in Int
  BY ParametersType DEF SimInv, TimeOK
<1> QED
  BY <1>2, <1>3 DEF NotAfter

\* A stack passes an acknowledgement on to the next module on the way.
LEMMA RelayPlace ==
    ASSUME SimInv', NEW w, IsWay(w), OneWay(par, w), cost \in PossibleCosts(par),
           NEW i \in 1 .. Len(w), Head(fes).to[2] = w[i], Head(fes).msg.destNode = Source,
           IsAck(Head(fes).msg), NEW e, Passes(e)
    PROVE  /\ OnWay(w, e.to) /\ Spot(w, e.to) = 3 * i + 1
           /\ e.to[1] \in {"queue", "appl"} /\ Carries(e) /\ e \in ToSet(fes')
<1> DEFINE h == Head(fes)
           n == h.to[2]
<1>0. /\ Len(w) \in Nat /\ Len(w) > 1 /\ w[Len(w)] = Source
      /\ \A j, k \in 1 .. Len(w) : w[j] = w[k] => j = k
  BY DEF IsWay
<1>1. Carries(e) /\ e \in ToSet(fes')
  BY DEF Passes, Gains, Adds
<1>2. CASE n = Source
  <2>1. i = Len(w)
    BY <1>0, <1>2
  <2>2. e.to[1] = "appl" /\ e.to[2] = Source /\ Arrived(Source, e.to[3], h.msg)
    BY <1>2 DEF Passes
  <2>3. e.to[3] = GoBackNSender
    BY <2>2 DEF Arrived, IsAck
  <2>4. EventOK(e)
    BY <1>1 DEF SimInv, TimeOK, ListOK
  <2>5. \E m \in Node, a \in Int : e.to = <<"appl", m, a>>
    BY <2>2, <2>4 DEF EventOK, Passed, timeout, ATimer, timer0, timer1, ToTheStack
  <2>6. e.to = ToSender
    BY <2>2, <2>3, <2>5 DEF ToSender
  <2>7. OnWay(w, e.to)
    BY <2>6 DEF OnWay
  <2>8. Spot(w, e.to) = 3 * i + 1
    BY <2>1, <2>6, SpotOf
  <2> QED
    BY <1>1, <2>2, <2>7, <2>8
<1>3. CASE n # Source
  <2>1. i \in 1 .. Len(w) - 1
    BY <1>0, <1>3
  <2>2. PICK m \in Node : /\ <<n, m>> \in Link /\ e.to = <<"queue", n, m>>
                          /\ R!StartsShortest(cost, n, Source, m)
    BY <1>3 DEF Passes
  <2>3. m = w[i + 1]
    BY <2>1, <2>2 DEF OneWay
  <2>4. e.to = ToLink(w, i)
    BY <2>2, <2>3 DEF ToLink
  <2>5. OnWay(w, e.to)
    BY <2>1, <2>4 DEF OnWay
  <2>6. Spot(w, e.to) = 3 * i + 1
    BY <2>1, <2>4, SpotOf
  <2> QED
    BY <1>1, <2>2, <2>5, <2>6
<1> QED
  BY <1>2, <1>3

LEMMA StackOrder ==
    ASSUME SimInv, SimInv', RouteInv, PacketInv, TravelInv, HasteInv, HasteInv', TimeToLive(par),
           NEW w, IsWay(w), OneWay(par, w), cost \in PossibleCosts(par), OrderInv(w), StackHandles
    PROVE  OrderInv(w)'
<1> DEFINE h == Head(fes)
<1>1. Arrives("stack") /\ now' = h.time /\ UNCHANGED <<par, queue, finishes, snd, aborted>>
  BY ZenonT(30) DEF StackHandles, Pass, Network
<1>2. ~aborted /\ h.time \in Int
  BY <1>1, HandledList
<1>3. ToSet(Tail(fes)) \subseteq ToSet(fes) /\ \A a, b : Precedes(Tail(fes), a, b) => Precedes(fes, a, b)
  BY <1>1, TailOrder, HeadInSet
<1>4. CASE ~IsAck(h.msg)
  <2>1. PICK E : /\ Adds(fes', Tail(fes), E, {}) /\ Moves({<<h.to, h.msg>>}, Packets(E))
                 /\ \A e \in E : Carries(e) /\ e.msg.id = h.msg.id
    BY StackEvents
  <2>2. \A e \in E : ~IsAck(e.msg)
    BY <1>4, <2>1 DEF IsAck
  <2>3. \A x \in Packets(E) : ~IsAck(x[2])
    BY <2>2 DEF Packets
  <2> HIDE DEF OrderInv
  <2> QED
    BY <1>1, <1>2, <1>3, <2>1, <2>2, <2>3, QuietOrder
<1>5. ASSUME IsAck(h.msg), par.send, ~aborted' PROVE OrderOK(w)'
  <2>1. /\ OnWay(w, h.to) /\ <<h.to, h.msg>> \in Carried /\ OrderOK(w)
        /\ h.to[1] = "stack" /\ h.msg \in Message /\ h.msg.destNode = Source /\ h.to[3] # Local
    BY <1>1, <1>5, AckPlace
  <2>2. PICK i \in 1 .. Len(w) : h.to[2] = w[i] /\ Spot(w, h.to) = 3 * i
    BY <1>1, <1>5, AckPlace
  <2>3. PICK e : Passes(e)
    BY <2>1, StackPassesOn, SourceFacts
  <2>4. /\ OnWay(w, e.to) /\ Spot(w, e.to) = 3 * i + 1
        /\ e.to[1] \in {"queue", "appl"} /\ Carries(e) /\ e \in ToSet(fes')
    BY <1>5, <2>1, <2>2, <2>3, RelayPlace
  <2>5. /\ Gains(fes', Tail(fes), {e}, {}) /\ e.time = h.time /\ e.prio = h.prio
        /\ e.msg.id = h.msg.id /\ e.msg.seqNo = h.msg.seqNo
    BY <2>3 DEF Passes
  <2>6. Adds(fes', Tail(fes), {e}, {})
    BY <2>5 DEF Gains
  <2>7. Moves({<<h.to, h.msg>>}, Packets({e}))
    BY <1>1, <2>4, <2>6, ListMoves
  <2>8. Packets({e}) = {<<e.to, e.msg>>}
    BY PacketsOne
  <2>9. IsAck(e.msg)
    BY <1>5, <2>5 DEF IsAck
  <2>10. Len(w) \in Nat
    BY DEF IsWay
  <2>11. InOrder(w, Carried', snd'.lastAckSeqNo)
    <3> DEFINE x == <<h.to, h.msg>>
               z == <<e.to, e.msg>>
    <3>1. InOrder(w, Carried, snd.lastAckSeqNo)
      BY <2>1 DEF OrderOK
    <3>2. ASSUME NEW y \in Carried', IsAck(y[2]), y # z
          PROVE  /\ y \in Carried
                 /\ Spot(w, h.to) =< Spot(w, y[1]) /\ Spot(w, y[1]) < Spot(w, e.to)
                       => h.msg.seqNo =< y[2].seqNo
      <4>1. y \in Carried
        BY <2>7, <2>8, <3>2 DEF Moves
      <4>2. ASSUME Spot(w, h.to) =< Spot(w, y[1]), Spot(w, y[1]) < Spot(w, e.to)
            PROVE  h.msg.seqNo =< y[2].seqNo
        <5>1. OnWay(w, y[1])
          BY <3>1, <3>2, <4>1 DEF InOrder
        <5>2. Spot(w, y[1]) \in Int
          BY <5>1, SpotDiffers
        <5>3. Spot(w, h.to) = Spot(w, y[1])
          BY <2>2, <2>4, <2>10, <4>2, <5>2
        <5>4. y[1] = h.to
          BY <2>1, <5>1, <5>3, SpotDiffers
        <5>5. ListInOrder(fes) /\ Carries(h)
          BY <2>1 DEF OrderOK, Carries
        <5>6. e.to # h.to
          BY <2>1, <2>4
        <5> QED
          BY <1>1, <1>5, <2>6, <3>2, <5>4, <5>5, <5>6, OthersBehind
      <4> QED
        BY <4>1, <4>2
    <3>3. Spot(w, h.to) =< Spot(w, e.to)
      BY <2>2, <2>4, <2>10
    <3>4. /\ x \in Carried /\ x[1] = h.to /\ x[2] = h.msg /\ z[1] = e.to /\ z[2] = e.msg
      BY <2>1
    <3> HIDE DEF x, z
    <3>5. InOrder(w, Carried', snd.lastAckSeqNo)
      BY <1>5, <2>4, <2>5, <2>9, <3>1, <3>2, <3>3, <3>4, MovedInOrder
    <3> QED
      BY <1>1, <3>5
  <2>12. ListInOrder(fes')
    <3>1. ListInOrder(fes)
      BY <2>1 DEF OrderOK
    <3>2. ASSUME NEW f \in ToSet(Tail(fes)) \cup {e}, Carries(f), f.to = e.to, IsAck(f.msg)
          PROVE  f.msg.seqNo =< e.msg.seqNo /\ NotAfter(f, e)
      <4>1. f \in ToSet(fes')
        BY <2>6, <3>2 DEF Adds
      <4>2. e.prio = 0
        <5>1. Prompt(h, now)
          BY <1>1, <1>2, <1>5, HeadInSet DEF HasteInv
        <5>2. h.msg.id # "linkchange" /\ Carries(h)
          BY <1>5, <2>1 DEF IsAck, Carries
        <5> QED
          BY <2>5, <5>1, <5>2 DEF Prompt
      <4>3. NotAfter(f, e)
        BY <1>1, <1>5, <2>4, <2>5, <3>2, <4>1, <4>2, PromptBehind
      <4>4. CASE f = e
        <5>1. e.msg.seqNo \in Nat
          BY <2>1, <2>5 DEF Message
        <5> QED
          BY <4>3, <4>4, <5>1
      <4>5. CASE f \in ToSet(Tail(fes))
        <5>1. f \in ToSet(fes)
          BY <1>3, <4>5
        <5>2. <<f.to, f.msg>> \in Carried
          BY <3>2, <5>1, InCarried
        <5>3. Spot(w, h.to) < Spot(w, f.to)
          BY <2>2, <2>4, <2>10, <3>2
        <5>4. InOrder(w, Carried, snd.lastAckSeqNo)
          BY <2>1 DEF OrderOK
        <5>5. f.msg.seqNo =< h.msg.seqNo
          BY <1>5, <2>1, <3>2, <5>2, <5>3, <5>4 DEF InOrder
        <5> QED
          BY <2>5, <4>3, <5>5
      <4> QED
        BY <3>2, <4>4, <4>5
    <3> DEFINE E == {e}
               N == {}
    <3>3. \A g \in E : IsAck(g.msg) =>
              \A f \in ToSet(Tail(fes)) \cup E : Carries(f) /\ f.to = g.to /\ IsAck(f.msg) =>
                 f.msg.seqNo =< g.msg.seqNo /\ NotAfter(f, g)
      BY <3>2
    <3>4. Adds(fes', Tail(fes), E, N) /\ \A g \in N : ~Carries(g)
      BY <2>6
    <3> HIDE DEF E, N
    <3> QED
      BY <1>3, <3>1, <3>3, <3>4, KeepsListOrder
  <2>13. QueuesInOrder(queue')
    BY <1>1, <2>1 DEF OrderOK
  <2>14. DueInTime(w, fes', finishes')
    <3>1. ASSUME NEW f \in ToSet(fes'), NEW j \in 1 .. Len(w) - 1, f.to = Landing(w, j), IsAck(f.msg)
          PROVE  f.time =< finishes'[Hop(w, j)] + delay[Hop(w, j)]
      <4>1. Carries(f) /\ f # e
        BY <2>4, <3>1 DEF Carries, Landing
      <4>2. f \in ToSet(fes)
        BY <1>3, <2>6, <3>1, <4>1 DEF Adds
      <4> QED
        BY <1>1, <2>1, <3>1, <4>2 DEF OrderOK, DueInTime
    <3> QED
      BY <3>1 DEF DueInTime
  <2> QED
    BY <2>11, <2>12, <2>13, <2>14 DEF OrderOK
<1>6. OrderInv(w)' \/ (IsAck(h.msg) /\ par.send /\ ~aborted')
  BY <1>1, <1>4 DEF OrderInv
<1> QED
  BY <1>5, <1>6 DEF OrderInv

(***************************************************************************)
(* The queues of the links on the way.                                     *)
(***************************************************************************)
LEMMA LinkOnWay ==
    ASSUME NEW w, IsWay(w), NEW l \in Link, NEW at, at = <<"queue", l[1], l[2]>> \/ at = Line(l),
           OnWay(w, at)
    PROVE  \E j \in 1 .. Len(w) - 1 :
              /\ l = Hop(w, j)
              /\ \/ at = ToLink(w, j) /\ Spot(w, at) = 3 * j + 1
                 \/ at = ForLink(w, j) /\ Spot(w, at) = 3 * j + 2
<1>1. l = <<l[1], l[2]>>
  BY DEF Link
<1>2. CASE at = <<"queue", l[1], l[2]>>
  <2>1. PICK j \in 1 .. Len(w) - 1 : at = ToLink(w, j)
    BY <1>2 DEF OnWay, FromReceiver, ForLink, Landing, ToSender
  <2>2. l[1] = w[j] /\ l[2] = w[j + 1]
    BY <1>2, <2>1 DEF ToLink
  <2>3. Spot(w, at) = 3 * j + 1
    BY <2>1, SpotOf
  <2> QED
    BY <1>1, <2>1, <2>2, <2>3 DEF Hop
<1>3. CASE at = Line(l)
  <2>1. PICK j \in 1 .. Len(w) - 1 : at = ForLink(w, j)
    BY <1>3 DEF OnWay, FromReceiver, ToLink, Landing, ToSender, Line
  <2>2. l[1] = w[j] /\ l[2] = w[j + 1]
    BY <1>3, <2>1 DEF ForLink, Line
  <2>3. Spot(w, at) = 3 * j + 2
    BY <2>1, SpotOf
  <2> QED
    BY <1>1, <2>1, <2>2, <2>3 DEF Hop
<1> QED
  BY <1>2, <1>3

\* A link begins to send what was at "at".
LEMMA TransmitOrder ==
    ASSUME SimInv, PacketInv, NEW kind, Arrives(kind), NEW w, IsWay(w), OrderOK(w),
           NEW l \in Link, NEW m \in Message, NEW t, t = Head(fes).time,
           NEW u, u = t + duration[l][m.id], finishes[l] =< t,
           finishes' = [finishes EXCEPT ![l] = u], snd' = snd,
           NEW b \in BOOLEAN, Gains(fes', Tail(fes), {Arrival(l, t, m, b)}, {TimeoutEvent(u, l)}),
           NEW at, at = <<"queue", l[1], l[2]>> \/ at = Line(l), <<at, m>> \in Carried,
           \A y \in Carried' : y \in Carried \/ y = <<<<"stack", l[2], FromNet>>, Damaged(m, b)>>,
           IsAck(m) => \A y \in Carried' :
              IsAck(y[2]) /\ y[1] \in {at, Line(l)} => m.seqNo =< y[2].seqNo,
           QueuesInOrder(queue')
    PROVE  OrderOK(w)'
<1> DEFINE e == Arrival(l, t, m, b)
<1>1. /\ e.to = <<"stack", l[2], FromNet>> /\ e.msg = Damaged(m, b) /\ Carries(e)
      /\ e.prio = 0 /\ e.time = u + delay[l]
  BY ArrivalFields
<1>2. e.msg \in Message /\ e.msg.id = m.id /\ e.msg.seqNo = m.seqNo /\ m.seqNo \in Nat
  BY <1>1, DamagedFields DEF Message
<1>3. /\ t \in Int /\ duration[l][m.id] \in Nat \ {0} /\ delay[l] \in Nat /\ u \in Int /\ u > t
      /\ finishes \in [Link -> Int] /\ finishes[l] \in Int
      /\ \A k \in Link : delay[k] \in Nat
  BY HandledList, LinkTimes DEF SimInv, LinksOK
<1>4. /\ finishes'[l] = u /\ finishes' \in [Link -> Int]
      /\ \A k \in Link : finishes'[k] \in Int /\ finishes[k] =< finishes'[k]
  BY <1>3
<1>5. /\ Adds(fes', Tail(fes), {e}, {TimeoutEvent(u, l)})
      /\ TimeoutEvent(u, l).to[1] = "timeout"
  BY DEF Gains, TimeoutEvent, Event
<1>6. /\ ToSet(Tail(fes)) \subseteq ToSet(fes) /\ IsList(fes)
      /\ \A x, y : Precedes(Tail(fes), x, y) => Precedes(fes, x, y)
  BY TailOrder, HeadInSet, HandledList
<1>7. /\ InOrder(w, Carried, snd.lastAckSeqNo) /\ ListInOrder(fes)
      /\ DueInTime(w, fes, finishes)
  BY DEF OrderOK
<1>8. \A i \in 1 .. Len(w) - 1 : Hop(w, i) \in Link
  BY DEF IsWay
<1> HIDE DEF e
\* Where it is on the way.
<1>9. ASSUME IsAck(m)
      PROVE  \E j \in 1 .. Len(w) - 1 :
                /\ l = Hop(w, j) /\ e.to = Landing(w, j) /\ OnWay(w, e.to)
                /\ Spot(w, e.to) = 3 * j + 3 /\ OnWay(w, at)
                /\ \/ at = ToLink(w, j) /\ Spot(w, at) = 3 * j + 1
                   \/ at = ForLink(w, j) /\ Spot(w, at) = 3 * j + 2
  <2>1. OnWay(w, at)
    BY <1>7, <1>9 DEF InOrder
  <2>2. PICK j \in 1 .. Len(w) - 1 :
              /\ l = Hop(w, j)
              /\ \/ at = ToLink(w, j) /\ Spot(w, at) = 3 * j + 1
                 \/ at = ForLink(w, j) /\ Spot(w, at) = 3 * j + 2
    BY <2>1, LinkOnWay
  <2>3. e.to = Landing(w, j)
    BY <1>1, <2>2 DEF Landing, Hop
  <2>4. OnWay(w, e.to)
    BY <2>3 DEF OnWay
  <2>5. Spot(w, e.to) = 3 * j + 3
    BY <2>3, SpotOf
  <2> QED
    BY <2>1, <2>2, <2>3, <2>4, <2>5
<1>10. InOrder(w, Carried', snd'.lastAckSeqNo)
  <2> DEFINE x == <<at, m>>
             z == <<e.to, e.msg>>
  <2>1. x \in Carried /\ x[1] = at /\ x[2] = m /\ z[1] = e.to /\ z[2] = e.msg
    OBVIOUS
  <2>2. \A y \in Carried' : y \in Carried \/ y = z
    BY <1>1
  <2> HIDE DEF x, z
  <2>3. CASE ~IsAck(m)
    <3>1. ~IsAck(z[2])
      BY <1>2, <2>1, <2>3 DEF IsAck
    <3>2. \A y \in Carried' : IsAck(y[2]) => y \in Carried
      BY <2>2, <3>1
    <3>3. InOrder(w, Carried', snd.lastAckSeqNo)
      BY <1>7, <3>2, FewerInOrder
    <3> QED
      BY <3>3
  <2>4. CASE IsAck(m)
    <3>1. PICK j \in 1 .. Len(w) - 1 :
                /\ l = Hop(w, j) /\ e.to = Landing(w, j) /\ OnWay(w, e.to)
                /\ Spot(w, e.to) = 3 * j + 3 /\ OnWay(w, at)
                /\ \/ at = ToLink(w, j) /\ Spot(w, at) = 3 * j + 1
                   \/ at = ForLink(w, j) /\ Spot(w, at) = 3 * j + 2
      BY <1>9, <2>4
    <3>2. Len(w) \in Nat /\ Spot(w, at) =< Spot(w, e.to)
      BY <3>1 DEF IsWay
    <3>3. ASSUME NEW y \in Carried', IsAck(y[2]), y # z,
                 Spot(w, at) =< Spot(w, y[1]), Spot(w, y[1]) < Spot(w, e.to)
          PROVE  m.seqNo =< y[2].seqNo
      <4>1. y \in Carried
        BY <2>2, <3>3
      <4>2. OnWay(w, y[1])
        BY <1>7, <3>3, <4>1 DEF InOrder
      <4>3. Spot(w, y[1]) \in Int
        BY <4>2, SpotDiffers
      <4>4. Spot(w, y[1]) = Spot(w, at) \/ Spot(w, y[1]) = 3 * j + 2
        BY <3>1, <3>2, <3>3, <4>3
      <4>5. Spot(w, ForLink(w, j)) = 3 * j + 2 /\ OnWay(w, ForLink(w, j))
        BY SpotOf DEF OnWay
      <4>6. y[1] = at \/ y[1] = ForLink(w, j)
        BY <3>1, <4>2, <4>4, <4>5, SpotDiffers
      <4>7. ForLink(w, j) = Line(l)
        BY <3>1 DEF ForLink, Line, Hop
      <4> QED
        BY <2>4, <3>3, <4>6, <4>7
    <3>4. IsAck(z[2]) /\ z[2].seqNo = x[2].seqNo
      BY <1>2, <2>1, <2>4 DEF IsAck
    <3>5. InOrder(w, Carried', snd.lastAckSeqNo)
      BY <1>7, <2>1, <2>2, <2>4, <3>1, <3>2, <3>3, <3>4, MovedInOrder
    <3> QED
      BY <3>5
  <2> QED
    BY <2>3, <2>4
<1>11. ListInOrder(fes')
  <2> DEFINE E == {e}
             N == {TimeoutEvent(u, l)}
  <2>1. ASSUME IsAck(e.msg), NEW f \in ToSet(Tail(fes)) \cup {e}, Carries(f), f.to = e.to, IsAck(f.msg)
        PROVE  f.msg.seqNo =< e.msg.seqNo /\ NotAfter(f, e)
    <3>0. IsAck(m)
      BY <1>2, <2>1 DEF IsAck
    <3>1. PICK j \in 1 .. Len(w) - 1 :
                /\ l = Hop(w, j) /\ e.to = Landing(w, j) /\ OnWay(w, e.to)
                /\ Spot(w, e.to) = 3 * j + 3 /\ OnWay(w, at)
                /\ \/ at = ToLink(w, j) /\ Spot(w, at) = 3 * j + 1
                   \/ at = ForLink(w, j) /\ Spot(w, at) = 3 * j + 2
      BY <1>9, <3>0
    <3>2. CASE f = e
      BY <1>1, <1>2, <1>3, <3>2 DEF NotAfter
    <3>3. CASE f \in ToSet(Tail(fes))
      <4>1. f \in ToSet(fes) /\ f.time \in Int
        BY <1>6, <3>3 DEF IsList
      <4>2. f.time =< finishes[l] + delay[l]
        BY <1>7, <2>1, <3>1, <4>1 DEF DueInTime
      <4>3. f.time < e.time
        BY <1>1, <1>3, <4>1, <4>2
      <4>4. <<f.to, f.msg>> \in Carried
        BY <2>1, <4>1, InCarried
      <4>5. Spot(w, at) < Spot(w, f.to)
        BY <2>1, <3>1
      <4>6. f.msg.seqNo =< m.seqNo
        BY <1>7, <2>1, <3>0, <4>4, <4>5 DEF InOrder
      <4> QED
        BY <1>2, <4>3, <4>6 DEF NotAfter
    <3> QED
      BY <2>1, <3>2, <3>3
  <2>2. \A g \in E : IsAck(g.msg) =>
              \A f \in ToSet(Tail(fes)) \cup E : Carries(f) /\ f.to = g.to /\ IsAck(f.msg) =>
                 f.msg.seqNo =< g.msg.seqNo /\ NotAfter(f, g)
    BY <2>1
  <2>3. Adds(fes', Tail(fes), E, N) /\ \A g \in N : ~Carries(g)
    BY <1>5 DEF Carries
  <2> HIDE DEF E, N
  <2> QED
    BY <1>6, <1>7, <2>2, <2>3, KeepsListOrder
<1>12. DueInTime(w, fes', finishes')
  <2>1. ASSUME NEW f \in ToSet(fes'), Carries(f), IsAck(f.msg)
        PROVE  \/ f \in ToSet(fes) /\ f.time \in Int
               \/ \A i \in 1 .. Len(w) - 1 :
                    f.to = Landing(w, i) => f.time = finishes'[Hop(w, i)] + delay[Hop(w, i)]
    <3>1. CASE f \in ToSet(Tail(fes))
      BY <1>6, <3>1 DEF IsList
    <3>2. CASE f = e
      <4>0. IsAck(m)
        BY <1>2, <2>1, <3>2 DEF IsAck
      <4>1. PICK j \in 1 .. Len(w) - 1 : l = Hop(w, j) /\ e.to = Landing(w, j)
        BY <1>9, <4>0
      <4>2. ASSUME NEW i \in 1 .. Len(w) - 1, f.to = Landing(w, i)
            PROVE  f.time = finishes'[Hop(w, i)] + delay[Hop(w, i)]
        <5>1. w[i + 1] = w[j + 1]
          BY <3>2, <4>1, <4>2 DEF Landing
        <5>2. i = j
          <6>1. Len(w) \in Nat /\ \A p, q \in 1 .. Len(w) : w[p] = w[q] => p = q
            BY DEF IsWay
          <6>2. i + 1 \in 1 .. Len(w) /\ j + 1 \in 1 .. Len(w)
            BY <6>1
          <6>3. i + 1 = j + 1
            BY <5>1, <6>1, <6>2
          <6> QED
            BY <6>1, <6>3
        <5> QED
          BY <1>1, <1>4, <3>2, <4>1, <5>2
      <4> QED
        BY <4>2
    <3> QED
      BY <1>5, <2>1, <3>1, <3>2 DEF Adds, Carries
  <2>2. \A i \in 1 .. Len(w) - 1 :
           /\ finishes[Hop(w, i)] \in Int /\ finishes'[Hop(w, i)] \in Int
           /\ delay[Hop(w, i)] \in Int /\ finishes[Hop(w, i)] =< finishes'[Hop(w, i)]
    BY <1>3, <1>4, <1>8
  <2> DEFINE new == fes'
             late == finishes'
  <2>3. /\ DueInTime(w, fes, finishes)
        /\ \A i \in 1 .. Len(w) - 1 : /\ finishes[Hop(w, i)] \in Int /\ late[Hop(w, i)] \in Int
                                      /\ delay[Hop(w, i)] \in Int /\ finishes[Hop(w, i)] =< late[Hop(w, i)]
        /\ \A f \in ToSet(new) : Carries(f) /\ IsAck(f.msg) =>
              \/ f \in ToSet(fes) /\ f.time \in Int
              \/ \A i \in 1 .. Len(w) - 1 :
                    f.to = Landing(w, i) => f.time = late[Hop(w, i)] + delay[Hop(w, i)]
    BY <1>7, <2>1, <2>2
  <2> HIDE DEF new, late
  <2>4. DueInTime(w, new, late)
    BY <2>3, KeepsDue
  <2> QED
    BY <2>4 DEF new, late
<1> QED
  BY <1>10, <1>11, <1>12 DEF OrderOK

LEMMA LineTells ==
    ASSUME NEW k \in Link, NEW l \in Link, Line(k) = Line(l) PROVE k = l
<1>1. k = <<k[1], k[2]>> /\ l = <<l[1], l[2]>>
  BY DEF Link
<1>2. k[1] = l[1] /\ k[2] = l[2]
  BY DEF Line
<1> QED
  BY <1>1, <1>2

\* What waits for a link is in its queue.
LEMMA WaitsThere ==
    ASSUME NEW l \in Link, NEW y \in Carried', y[1] = Line(l) PROVE y[2] \in ToSet(queue'[l].queue)
<1>1. ~(\E f \in ToSet(fes') : Carries(f) /\ y = <<f.to, f.msg>>)
  BY DEF Carries, Line
<1>2. PICK k \in Link : \E p \in ToSet(queue'[k].queue) : y = <<Line(k), p>>
  BY <1>1, InCarriedNext
<1>3. k = l
  BY <1>2, LineTells
<1> QED
  BY <1>2, <1>3

LEMMA NextSpot ==
    ASSUME NEW j \in Int, NEW a, NEW b \in Int, NEW c, a = 3 * j + 1, c = 3 * j + 2, a =< b, b < c
    PROVE  a = b
OBVIOUS

\* A message joins the queue of its link.
LEMMA AppendOrder ==
    ASSUME SimInv, PacketInv, NEW kind, Arrives(kind), NEW w, IsWay(w), OrderOK(w),
           NEW l \in Link, NEW m \in Message, m = Head(fes).msg,
           Head(fes).to = <<"queue", l[1], l[2]>>, <<Head(fes).to, m>> \in Carried,
           \A k \in Link : k # l => queue'[k].queue = queue[k].queue,
           queue'[l].queue = Append(queue[l].queue, m),
           fes' = Tail(fes), finishes' = finishes, snd' = snd,
           \A y \in Carried' : y \in Carried \/ y = <<Line(l), m>>
    PROVE  OrderOK(w)'
<1> DEFINE h == Head(fes)
           q == queue[l].queue
           z == <<Line(l), m>>
           x == <<h.to, m>>
<1>0. /\ Adds(fes', Tail(fes), {}, {}) /\ Carries(h) /\ h.to[1] = "queue"
      /\ x \in Carried /\ x[1] = h.to /\ x[2] = m /\ z[1] = Line(l) /\ z[2] = m
  BY ListSelf DEF Carries
<1>1. /\ ToSet(Tail(fes)) \subseteq ToSet(fes)
      /\ \A a, b : Precedes(Tail(fes), a, b) => Precedes(fes, a, b)
  BY TailOrder, HeadInSet
<1>2. /\ InOrder(w, Carried, snd.lastAckSeqNo) /\ ListInOrder(fes)
      /\ DueInTime(w, fes, finishes) /\ QueuesInOrder(queue)
  BY DEF OrderOK
<1>3. q \in Seq(Message) /\ \A k \in Link : queue[k].queue \in Seq(Message)
  BY DEF SimInv, LinksOK, QueueType
<1> HIDE DEF x, z
<1>4. ASSUME IsAck(m)
      PROVE  \E j \in 1 .. Len(w) - 1 :
                /\ OnWay(w, h.to) /\ Spot(w, h.to) = 3 * j + 1 /\ OnWay(w, Line(l))
                /\ Spot(w, Line(l)) = 3 * j + 2
  <2>1. OnWay(w, h.to)
    BY <1>0, <1>2, <1>4 DEF InOrder
  <2> DEFINE at == h.to
  <2>7. at = <<"queue", l[1], l[2]>> /\ OnWay(w, at)
    BY <2>1
  <2> HIDE DEF at
  <2>8. PICK j \in 1 .. Len(w) - 1 :
              /\ l = Hop(w, j)
              /\ \/ at = ToLink(w, j) /\ Spot(w, at) = 3 * j + 1
                 \/ at = ForLink(w, j) /\ Spot(w, at) = 3 * j + 2
    BY <2>7, LinkOnWay
  <2>2. /\ l = Hop(w, j)
        /\ \/ h.to = ToLink(w, j) /\ Spot(w, h.to) = 3 * j + 1
           \/ h.to = ForLink(w, j) /\ Spot(w, h.to) = 3 * j + 2
    BY <2>8 DEF at
  <2>3. h.to # ForLink(w, j)
    BY <1>0 DEF ForLink
  <2>4. Line(l) = ForLink(w, j)
    BY <2>2 DEF Line, ForLink, Hop
  <2>5. OnWay(w, Line(l))
    BY <2>4 DEF OnWay
  <2>6. Spot(w, Line(l)) = 3 * j + 2
    BY <2>4, SpotOf
  <2> QED
    BY <2>1, <2>2, <2>3, <2>5, <2>6
<1>5. InOrder(w, Carried', snd'.lastAckSeqNo)
  <2>1. CASE ~IsAck(m)
    <3>1. \A y \in Carried' : IsAck(y[2]) => y \in Carried
      BY <1>0, <2>1 DEF z
    <3>2. InOrder(w, Carried', snd.lastAckSeqNo)
      BY <1>2, <3>1, FewerInOrder
    <3> QED
      BY <3>2
  <2>2. CASE IsAck(m)
    <3>1. PICK j \in 1 .. Len(w) - 1 :
                /\ OnWay(w, h.to) /\ Spot(w, h.to) = 3 * j + 1 /\ OnWay(w, Line(l))
                /\ Spot(w, Line(l)) = 3 * j + 2
      BY <1>4, <2>2
    <3>2. Len(w) \in Nat /\ j \in Int
      BY DEF IsWay
    <3>3. ASSUME NEW y \in Carried', IsAck(y[2]), y # z
          PROVE  /\ y \in Carried
                 /\ Spot(w, h.to) =< Spot(w, y[1]) /\ Spot(w, y[1]) < Spot(w, Line(l))
                    => m.seqNo =< y[2].seqNo
      <4>1. y \in Carried
        BY <3>3 DEF z
      <4>2. ASSUME Spot(w, h.to) =< Spot(w, y[1]), Spot(w, y[1]) < Spot(w, Line(l))
            PROVE  m.seqNo =< y[2].seqNo
        <5>1. OnWay(w, y[1])
          BY <1>2, <3>3, <4>1 DEF InOrder
        <5>2. Spot(w, y[1]) \in Int
          BY <5>1, SpotDiffers
        <5> DEFINE a == Spot(w, h.to)
                   b == Spot(w, y[1])
                   c == Spot(w, Line(l))
        <5>5. /\ a = 3 * j + 1 /\ c = 3 * j + 2 /\ b \in Int /\ a =< b /\ b < c
          BY <3>1, <4>2, <5>2
        <5> HIDE DEF a, b, c
        <5>6. a = b
          BY <3>2, <5>5, NextSpot
        <5>3. Spot(w, h.to) = Spot(w, y[1])
          BY <5>6 DEF a, b
        <5>4. y[1] = h.to
          BY <3>1, <5>1, <5>3, SpotDiffers
        <5> QED
          BY <1>0, <1>2, <2>2, <3>3, <5>4, OthersBehind
      <4> QED
        BY <4>1, <4>2
    <3>4. Spot(w, h.to) =< Spot(w, Line(l))
      BY <3>1, <3>2
    <3>5. InOrder(w, Carried', snd.lastAckSeqNo)
      BY <1>0, <1>2, <2>2, <3>1, <3>3, <3>4, MovedInOrder
    <3> QED
      BY <3>5
  <2> QED
    BY <2>1, <2>2
<1>6. ListInOrder(fes')
  <2> DEFINE E == {}
             N == {}
  <2>1. /\ Adds(fes', Tail(fes), E, N) /\ \A e \in N : ~Carries(e)
        /\ \A e \in E : IsAck(e.msg) =>
              \A f \in ToSet(Tail(fes)) \cup E : Carries(f) /\ f.to = e.to /\ IsAck(f.msg) =>
                 f.msg.seqNo =< e.msg.seqNo /\ NotAfter(f, e)
    BY <1>0
  <2> HIDE DEF E, N
  <2> QED
    BY <1>1, <1>2, <2>1, KeepsListOrder
<1>7. DueInTime(w, fes', finishes')
  BY <1>1, <1>2 DEF DueInTime
<1>8. QueuesInOrder(queue')
  <2>1. ASSUME NEW k \in Link, NEW i \in DOMAIN queue'[k].queue, NEW j \in DOMAIN queue'[k].queue,
               i < j, IsAck(queue'[k].queue[i]), IsAck(queue'[k].queue[j])
        PROVE  queue'[k].queue[i].seqNo =< queue'[k].queue[j].seqNo
    <3>1. CASE k # l
      BY <1>2, <2>1, <3>1 DEF QueuesInOrder
    <3>2. CASE k = l
      <4>1. /\ Len(q) \in Nat /\ DOMAIN q = 1 .. Len(q)
            /\ DOMAIN queue'[l].queue = 1 .. Len(q) + 1
            /\ \A n \in 1 .. Len(q) : queue'[l].queue[n] = q[n]
            /\ queue'[l].queue[Len(q) + 1] = m
        BY <1>3
      <4>2. i \in 1 .. Len(q)
        BY <2>1, <3>2, <4>1
      <4>3. CASE j = Len(q) + 1
        <5>1. IsAck(m)
          BY <2>1, <3>2, <4>1, <4>3
        <5>2. PICK n \in 1 .. Len(w) - 1 :
                    Spot(w, h.to) = 3 * n + 1 /\ Spot(w, Line(l)) = 3 * n + 2
          BY <1>4, <5>1
        <5>3. q[i] \in ToSet(q)
          BY <4>1, <4>2, IndexInSet
        <5>4. <<Line(l), q[i]>> \in Carried
          BY <5>3, InCarried
        <5>5. Len(w) \in Nat
          BY DEF IsWay
        <5>6. Spot(w, h.to) < Spot(w, Line(l))
          BY <5>2, <5>5
        <5>7. q[i].seqNo =< m.seqNo
          BY <1>0, <1>2, <2>1, <3>2, <4>1, <4>2, <5>1, <5>4, <5>6 DEF InOrder
        <5>8. queue'[k].queue[i] = q[i] /\ queue'[k].queue[j] = m
          BY <3>2, <4>1, <4>2, <4>3
        <5> QED
          BY <5>7, <5>8
      <4>4. CASE j # Len(q) + 1
        <5>0. j \in DOMAIN queue'[l].queue
          BY <2>1, <3>2
        <5>1. j \in 1 .. Len(q)
          BY <4>1, <4>4, <5>0
        <5> QED
          BY <1>2, <2>1, <3>2, <4>1, <4>2, <5>1 DEF QueuesInOrder
      <4> QED
        BY <4>3, <4>4
    <3> QED
      BY <3>1, <3>2
  <2> QED
    BY <2>1 DEF QueuesInOrder
<1> QED
  BY <1>5, <1>6, <1>7, <1>8 DEF OrderOK

LEMMA QueueMessageOrder ==
    ASSUME SimInv, PacketInv, NEW w, IsWay(w), OrderInv(w), QueueMessage
    PROVE  OrderInv(w)'
<1> DEFINE h == Head(fes)
           m == h.msg
           t == h.time
<1>1. PICK l \in Link :
           LET u == t + duration[l][m.id]  q == queue[l].queue IN
           /\ h.to = <<"queue", l[1], l[2]>> /\ m \in Message
           /\ \A k \in Link : k # l => queue'[k].queue = queue[k].queue
           /\ \/ /\ q = <<>> /\ queue'[l].queue = <<>> /\ finishes[l] =< t
                 /\ finishes' = [finishes EXCEPT ![l] = u]
                 /\ \E b \in BOOLEAN :
                       /\ Gains(fes', Tail(fes), {Arrival(l, t, m, b)}, {TimeoutEvent(u, l)})
                       /\ lost' = IF b /\ m.id # "ping" THEN Count(m) ELSE lost
              \/ /\ queue'[l].queue = Append(q, m)
                 /\ fes' = Tail(fes) /\ finishes' = finishes /\ lost' = lost /\ aborted' = aborted
              \/ /\ queue'[l].queue = q
                 /\ fes' = Tail(fes) /\ finishes' = finishes /\ lost' = Count(m) /\ aborted' = aborted
  BY QueueMessageMoves
<1> DEFINE u == t + duration[l][m.id]
           q == queue[l].queue
<1>2. /\ Arrives("queue") /\ Adds(Tail(fes), Tail(fes), {}, {}) /\ fes # <<>> /\ ~aborted
  BY HandledList, ListSelf DEF QueueMessage
<1>3. Carries(h) /\ <<h.to, m>> \in Carried
  BY <1>2, HeadCarried DEF Carries, Arrives
<1>4. q \in Seq(Message)
  BY DEF SimInv, LinksOK, QueueType
<1>5. UNCHANGED <<par, snd>>
  BY QueueEvents
<1> SUFFICES ASSUME par.send, ~aborted' PROVE OrderOK(w)'
  BY <1>5 DEF OrderInv
<1>6. OrderOK(w)
  BY <1>2 DEF OrderInv
<1> HIDE DEF u, q
<1>7. ASSUME NEW b \in BOOLEAN, q = <<>>, queue'[l].queue = <<>>, finishes[l] =< t,
             finishes' = [finishes EXCEPT ![l] = u],
             Gains(fes', Tail(fes), {Arrival(l, t, m, b)}, {TimeoutEvent(u, l)})
      PROVE  OrderOK(w)'
  <2> DEFINE e == Arrival(l, t, m, b)
             at == h.to
             s == t
  <2>1. Adds(fes', Tail(fes), {e}, {TimeoutEvent(u, l)})
    BY <1>7 DEF Gains
  <2>2. e.to = <<"stack", l[2], FromNet>> /\ e.msg = Damaged(m, b) /\ Carries(e)
    BY ArrivalFields
  <2> HIDE DEF e
  <2>3. Moves({<<h.to, m>>} \cup {<<Line(l), p>> : p \in {}}, Packets({e}) \cup {<<Line(l), p>> : p \in {}})
    BY <1>1, <1>2, <1>7, <2>1, <2>2, QueueMoves DEF q
  <2>4. \A y \in Carried' : y \in Carried \/ y = <<<<"stack", l[2], FromNet>>, Damaged(m, b)>>
    <3>1. Packets({e}) = {<<<<"stack", l[2], FromNet>>, Damaged(m, b)>>}
      BY <2>2, PacketsOne
    <3>2. {<<Line(l), p>> : p \in {}} = {}
      OBVIOUS
    <3>3. Carried' \subseteq Carried \cup (Packets({e}) \cup {<<Line(l), p>> : p \in {}})
      BY <2>3 DEF Moves
    <3> QED
      BY <3>1, <3>2, <3>3
  <2>5. ASSUME IsAck(m), NEW y \in Carried', IsAck(y[2]), y[1] \in {at, Line(l)}
        PROVE  m.seqNo =< y[2].seqNo
    <3>1. CASE y[1] = h.to
      <4>1. \A g \in {e} : g.to # h.to
        BY <1>1, <2>2
      <4>2. ListInOrder(fes)
        BY <1>6 DEF OrderOK
      <4> QED
        BY <1>2, <1>3, <2>1, <2>5, <3>1, <4>1, <4>2, OthersBehind
    <3>2. CASE y[1] = Line(l)
      <4>1. y[2] \in ToSet(queue'[l].queue)
        BY <3>2, WaitsThere
      <4> QED
        BY <1>7, <4>1, NoneInSet
    <3> QED
      BY <2>5, <3>1, <3>2
  <2>6. QueuesInOrder(queue')
    <3>1. QueuesInOrder(queue)
      BY <1>6 DEF OrderOK
    <3>2. \A k \in Link : queue'[k].queue = queue[k].queue
      BY <1>1, <1>7 DEF q
    <3> QED
      BY <3>1, <3>2 DEF QueuesInOrder
  <2>7. /\ at = <<"queue", l[1], l[2]>> /\ <<at, m>> \in Carried /\ m \in Message
        /\ s = Head(fes).time /\ u = s + duration[l][m.id] /\ finishes[l] =< s
        /\ Gains(fes', Tail(fes), {Arrival(l, s, m, b)}, {TimeoutEvent(u, l)})
        /\ IsAck(m) => \A y \in Carried' :
              IsAck(y[2]) /\ y[1] \in {at, Line(l)} => m.seqNo =< y[2].seqNo
        /\ snd' = snd
    BY <1>1, <1>3, <1>5, <1>7, <2>5 DEF u
  <2> HIDE DEF at, m, s
  <2> QED
    BY <1>2, <1>6, <1>7, <2>4, <2>6, <2>7, TransmitOrder
<1>8. CASE queue'[l].queue = Append(q, m) /\ fes' = Tail(fes) /\ finishes' = finishes
  <2>1. Adds(fes', Tail(fes), {}, {})
    BY <1>2, <1>8
  <2>2. ToSet(queue'[l].queue) = ToSet(q) \cup {m}
    BY <1>1, <1>4, <1>8, AppendSet
  <2>3. Moves({<<h.to, m>>} \cup {<<Line(l), p>> : p \in {}}, Packets({}) \cup {<<Line(l), p>> : p \in {m}})
    BY <1>1, <1>2, <1>8, <2>1, <2>2, QueueMoves DEF q
  <2>4. \A y \in Carried' : y \in Carried \/ y = <<Line(l), m>>
    BY <2>3 DEF Moves, Packets
  <2>5. /\ Head(fes).to = <<"queue", l[1], l[2]>> /\ <<Head(fes).to, m>> \in Carried /\ m \in Message
        /\ m = Head(fes).msg /\ queue'[l].queue = Append(queue[l].queue, m) /\ snd' = snd
        /\ \A k \in Link : k # l => queue'[k].queue = queue[k].queue
        /\ fes' = Tail(fes) /\ finishes' = finishes
    BY <1>1, <1>3, <1>5, <1>8 DEF q
  <2> HIDE DEF m
  <2> QED
    BY <1>2, <1>6, <2>4, <2>5, AppendOrder
<1>9. CASE queue'[l].queue = q /\ fes' = Tail(fes) /\ finishes' = finishes
  <2>1. Adds(fes', Tail(fes), {}, {})
    BY <1>2, <1>9
  <2>3. Moves({<<h.to, m>>} \cup {<<Line(l), p>> : p \in {}}, Packets({}) \cup {<<Line(l), p>> : p \in {}})
    BY <1>1, <1>2, <1>9, <2>1, QueueMoves DEF q
  <2>4. Moves({<<h.to, m>>}, {})
    BY <2>3 DEF Packets
  <2>5. \A k \in Link : queue'[k].queue = queue[k].queue
    BY <1>1, <1>9 DEF q
  <2>6. /\ ToSet(Tail(fes)) \subseteq ToSet(fes)
        /\ \A a, b : Precedes(Tail(fes), a, b) => Precedes(fes, a, b)
    BY <1>2, TailOrder, HeadInSet
  <2>7. par' = par /\ snd'.lastAckSeqNo = snd.lastAckSeqNo
    BY <1>5
  <2> DEFINE E == {}  N == {}  new == {}
  <2>8. /\ Adds(fes', Tail(fes), E, N) /\ (\A e \in E : ~IsAck(e.msg)) /\ (\A e \in N : ~Carries(e))
        /\ Moves({<<h.to, m>>}, new) /\ \A x \in new : ~IsAck(x[2])
    BY <2>1, <2>4
  <2> HIDE DEF E, N, new
  <2>9. OrderInv(w)'
    BY <1>2, <1>9, <2>5, <2>6, <2>7, <2>8, QuietOrder
  <2> QED
    BY <1>5, <2>9 DEF OrderInv
<1> QED
  BY <1>1, <1>7, <1>8, <1>9 DEF q, u

LEMMA QueueTimeoutOrder ==
    ASSUME SimInv, PacketInv, NEW w, IsWay(w), OrderInv(w), QueueTimeout
    PROVE  OrderInv(w)'
<1> DEFINE h == Head(fes)
           t == h.time
<1>1. PICK l \in Link :
           LET q == queue[l].queue  m == Head(q)  u == t + duration[l][m.id] IN
           /\ h.to = timeout(l) /\ t = finishes[l]
           /\ \A k \in Link : k # l => queue'[k].queue = queue[k].queue
           /\ \/ /\ q # <<>> /\ q \in Seq(Message) /\ queue'[l].queue = Tail(q) /\ m \in Message
                 /\ finishes' = [finishes EXCEPT ![l] = u]
                 /\ \E b \in BOOLEAN :
                       /\ Gains(fes', Tail(fes), {Arrival(l, t, m, b)}, {TimeoutEvent(u, l)})
                       /\ lost' = IF b /\ m.id # "ping" THEN Count(m) ELSE lost
              \/ /\ q = <<>> /\ queue'[l].queue = <<>>
                 /\ fes' = Tail(fes) /\ finishes' = finishes /\ lost' = lost /\ aborted' = aborted
  BY QueueTimeoutMoves
<1> DEFINE q == queue[l].queue
           m == Head(q)
           u == t + duration[l][m.id]
<1>2. /\ Arrives("timeout") /\ Adds(Tail(fes), Tail(fes), {}, {}) /\ fes # <<>> /\ ~aborted
      /\ h.to[1] = "timeout" /\ t \in Int
  BY HandledList, ListSelf DEF QueueTimeout
<1>3. ~Carries(h)
  BY <1>2 DEF Carries
<1>5. UNCHANGED <<par, snd>>
  BY QueueEvents
<1> SUFFICES ASSUME par.send, ~aborted' PROVE OrderOK(w)'
  BY <1>5 DEF OrderInv
<1>6. OrderOK(w)
  BY <1>2 DEF OrderInv
<1> HIDE DEF u, q
<1>7. ASSUME NEW b \in BOOLEAN, q # <<>>, q \in Seq(Message), queue'[l].queue = Tail(q), m \in Message,
             finishes' = [finishes EXCEPT ![l] = u],
             Gains(fes', Tail(fes), {Arrival(l, t, m, b)}, {TimeoutEvent(u, l)})
      PROVE  OrderOK(w)'
  <2> DEFINE e == Arrival(l, t, m, b)
             at == Line(l)
             s == t
  <2>1. Adds(fes', Tail(fes), {e}, {TimeoutEvent(u, l)})
    BY <1>7 DEF Gains
  <2>2. e.to = <<"stack", l[2], FromNet>> /\ e.msg = Damaged(m, b) /\ Carries(e)
    BY ArrivalFields
  <2> HIDE DEF e
  <2>3. ToSet(q) = {m} \cup ToSet(Tail(q)) /\ ToSet(Tail(q)) \subseteq ToSet(q) /\ m \in ToSet(q)
    BY <1>7, TailSet
  <2>4. <<at, m>> \in Carried
    BY <2>3, InCarried DEF q
  <2>5. QueuesInOrder(queue)
    BY <1>6 DEF OrderOK
  <2>6. /\ Len(q) \in Nat /\ Len(q) >= 1 /\ DOMAIN q = 1 .. Len(q) /\ q[1] = m
        /\ DOMAIN Tail(q) = 1 .. Len(q) - 1 /\ \A i \in 1 .. Len(q) - 1 : Tail(q)[i] = q[i + 1]
    BY <1>7
  <2>7. ASSUME IsAck(m), NEW y \in Carried', IsAck(y[2]), y[1] \in {at, Line(l)}
        PROVE  m.seqNo =< y[2].seqNo
    <3>1. y[2] \in ToSet(queue'[l].queue)
      BY <2>7, WaitsThere
    <3>4. y[2] \in ToSet(Tail(q))
      BY <1>7, <3>1
    <3>2. PICK i \in DOMAIN Tail(q) : Tail(q)[i] = y[2]
      BY <3>4, SetIndex
    <3>3. 1 \in DOMAIN q /\ i + 1 \in DOMAIN q /\ 1 < i + 1 /\ q[i + 1] = y[2]
      BY <2>6, <3>2
    <3>5. \A x, z \in DOMAIN q : x < z /\ IsAck(q[x]) /\ IsAck(q[z]) => q[x].seqNo =< q[z].seqNo
      BY <2>5 DEF QueuesInOrder, q
    <3>6. IsAck(q[1]) /\ IsAck(q[i + 1])
      BY <2>6, <2>7, <3>3
    <3>7. q[1].seqNo =< q[i + 1].seqNo
      BY <3>3, <3>5, <3>6
    <3> QED
      BY <2>6, <3>3, <3>7
  <2>8. QueuesInOrder(queue')
    <3>1. ASSUME NEW k \in Link, NEW i \in DOMAIN queue'[k].queue, NEW j \in DOMAIN queue'[k].queue,
                 i < j, IsAck(queue'[k].queue[i]), IsAck(queue'[k].queue[j])
          PROVE  queue'[k].queue[i].seqNo =< queue'[k].queue[j].seqNo
      <4>1. CASE k # l
        BY <1>1, <2>5, <3>1, <4>1 DEF QueuesInOrder
      <4>2. CASE k = l
        <5>0. queue'[k].queue = Tail(q) /\ i \in DOMAIN Tail(q) /\ j \in DOMAIN Tail(q)
          BY <1>7, <3>1, <4>2
        <5>1. /\ i + 1 \in DOMAIN q /\ j + 1 \in DOMAIN q /\ i + 1 < j + 1
              /\ queue'[k].queue[i] = q[i + 1] /\ queue'[k].queue[j] = q[j + 1]
          BY <2>6, <3>1, <5>0
        <5> QED
          BY <2>5, <3>1, <4>2, <5>1 DEF QueuesInOrder, q
      <4> QED
        BY <4>1, <4>2
    <3> QED
      BY <3>1 DEF QueuesInOrder
  <2> HIDE DEF m
  <2>9. Moves({<<h.to, h.msg>>} \cup {<<Line(l), p>> : p \in {m}}, Packets({e}) \cup {<<Line(l), p>> : p \in {}})
    BY <1>1, <1>2, <1>7, <2>1, <2>2, <2>3, QueueMoves DEF q
  <2>10. \A y \in Carried' : y \in Carried \/ y = <<<<"stack", l[2], FromNet>>, Damaged(m, b)>>
    <3>1. Packets({e}) = {<<<<"stack", l[2], FromNet>>, Damaged(m, b)>>}
      BY <2>2, PacketsOne
    <3>2. {<<Line(l), p>> : p \in {}} = {}
      OBVIOUS
    <3>3. Carried' \subseteq Carried \cup (Packets({e}) \cup {<<Line(l), p>> : p \in {}})
      BY <2>9 DEF Moves
    <3> QED
      BY <3>1, <3>2, <3>3
  <2>11. /\ at = <<"queue", l[1], l[2]>> \/ at = Line(l)
         /\ <<at, m>> \in Carried /\ m \in Message
         /\ s = Head(fes).time /\ u = s + duration[l][m.id] /\ finishes[l] =< s
         /\ Gains(fes', Tail(fes), {Arrival(l, s, m, b)}, {TimeoutEvent(u, l)})
         /\ IsAck(m) => \A y \in Carried' :
              IsAck(y[2]) /\ y[1] \in {at, Line(l)} => m.seqNo =< y[2].seqNo
         /\ snd' = snd
    BY <1>1, <1>2, <1>5, <1>7, <2>4, <2>7 DEF u
  <2> HIDE DEF at, s
  <2> QED
    BY <1>2, <1>6, <1>7, <2>8, <2>10, <2>11, TransmitOrder
<1>8. CASE q = <<>> /\ queue'[l].queue = <<>> /\ fes' = Tail(fes) /\ finishes' = finishes
  <2>1. Adds(fes', Tail(fes), {}, {})
    BY <1>2, <1>8
  <2>3. Moves({<<h.to, h.msg>>} \cup {<<Line(l), p>> : p \in {}}, Packets({}) \cup {<<Line(l), p>> : p \in {}})
    BY <1>1, <1>2, <1>8, <2>1, QueueMoves DEF q
  <2>4. Moves({<<h.to, h.msg>>}, {})
    BY <2>3 DEF Packets
  <2>5. \A k \in Link : queue'[k].queue = queue[k].queue
    BY <1>1, <1>8 DEF q
  <2>6. /\ ToSet(Tail(fes)) \subseteq ToSet(fes)
        /\ \A a, b : Precedes(Tail(fes), a, b) => Precedes(fes, a, b)
    BY <1>2, TailOrder, HeadInSet
  <2>7. par' = par /\ snd'.lastAckSeqNo = snd.lastAckSeqNo
    BY <1>5
  <2> DEFINE E == {}  N == {}  new == {}
  <2>8. /\ Adds(fes', Tail(fes), E, N) /\ (\A e \in E : ~IsAck(e.msg)) /\ (\A e \in N : ~Carries(e))
        /\ Moves({<<h.to, h.msg>>}, new) /\ \A x \in new : ~IsAck(x[2])
    BY <2>1, <2>4
  <2> HIDE DEF E, N, new
  <2>9. OrderInv(w)'
    BY <1>2, <1>8, <2>5, <2>6, <2>7, <2>8, QuietOrder
  <2> QED
    BY <1>5, <2>9 DEF OrderInv
<1> QED
  BY <1>1, <1>7, <1>8 DEF q, m, u

\* The receiver: a new acknowledgement is for all it has.
LEMMA DataOrder ==
    ASSUME SimInv, SimInv', PacketInv, TravelInv, SeqInv, HasteInv', NEW w, IsWay(w), OrderInv(w),
           ReceiveData
    PROVE  OrderInv(w)'
<1> DEFINE h == Head(fes)
           last == rcv.lastReceivedSeqNo
           E(i) == {ToStack(h.time, Sink, GoBackNReceiver, Ack(h.msg, i))}
<1>1. /\ Arrives("appl") /\ UNCHANGED <<par, queue, finishes, snd>> /\ now' = h.time
  BY DEF ReceiveData, Network, Pass
<1>2. /\ Adds(Tail(fes), Tail(fes), {}, {}) /\ fes # <<>> /\ ~aborted /\ h.time \in Int
  BY <1>1, HandledList, ListSelf
<1>3. /\ ToSet(Tail(fes)) \subseteq ToSet(fes)
      /\ \A a, b : Precedes(Tail(fes), a, b) => Precedes(fes, a, b)
  BY <1>1, TailOrder, HeadInSet
<1> SUFFICES ASSUME par.send, ~aborted' PROVE OrderOK(w)'
  BY <1>1 DEF OrderInv
<1>4. OrderOK(w)
  BY <1>2 DEF OrderInv
<1>5. /\ last \in Nat \cup {-1}
      /\ \/ Gains(fes', Tail(fes), {}, {})
         \/ \E i \in Nat : Gains(fes', Tail(fes), E(i), {}) /\ i >= last + 1
  <2>1. /\ last \in Nat \cup {-1}
        /\ \/ Gains(fes', Tail(fes), {}, {})
           \/ Gains(fes', Tail(fes), E(last + 1), {})
           \/ Gains(fes', Tail(fes), E(last + 2), {})
    BY DataGains
  <2> HIDE DEF E, last
  <2>2. last + 1 \in Nat /\ last + 2 \in Nat /\ last + 1 >= last + 1 /\ last + 2 >= last + 1
    BY <2>1
  <2> QED
    BY <2>1, <2>2
<1>6. InOrder(w, Carried, snd.lastAckSeqNo)
  BY <1>4 DEF OrderOK
<1> HIDE DEF last
<1>7. CASE Gains(fes', Tail(fes), {}, {})
  <2>1. Adds(fes', Tail(fes), {}, {})
    BY <1>7 DEF Gains
  <2>2. Moves({<<h.to, h.msg>>}, Packets({}))
    BY <1>1, <2>1, ListMoves
  <2> DEFINE F == {}  N == {}
  <2>3. Adds(fes', Tail(fes), F, N) /\ (\A e \in F : ~IsAck(e.msg)) /\ (\A e \in N : ~Carries(e))
    BY <2>1
  <2> HIDE DEF F, N
  <2>4. ListInOrder(fes') /\ QueuesInOrder(queue') /\ DueInTime(w, fes', finishes')
    BY <1>1, <1>3, <1>4, <2>3, QuietRest
  <2>5. \A x \in Carried' : IsAck(x[2]) => x \in Carried
    BY <2>2 DEF Moves, Packets
  <2>6. InOrder(w, Carried', snd.lastAckSeqNo)
    BY <1>6, <2>5, FewerInOrder
  <2> QED
    BY <1>1, <2>4, <2>6 DEF OrderOK
<1>8. ASSUME NEW i \in Nat, Gains(fes', Tail(fes), E(i), {}), i >= last + 1
      PROVE  OrderOK(w)'
  <2> DEFINE e == ToStack(h.time, Sink, GoBackNReceiver, Ack(h.msg, i))
             z == <<e.to, e.msg>>
  <2>1. /\ e.to = FromReceiver /\ e.msg.id = "ack" /\ e.msg.seqNo = i /\ e.time = h.time /\ e.prio = 0
        /\ Carries(e)
    BY ToStackFields DEF FromReceiver, Ack, NetworkPacket
  <2>2. Adds(fes', Tail(fes), {e}, {})
    BY <1>8 DEF Gains
  <2>3. IsAck(e.msg)
    BY <2>1 DEF IsAck
  <2> HIDE DEF e
  <2>4. Moves({<<h.to, h.msg>>}, Packets({e}))
    BY <1>1, <2>1, <2>2, ListMoves
  <2>5. Packets({e}) = {z}
    BY PacketsOne
  <2>6. \A y \in Carried' : y \in Carried \/ y = z
    BY <2>4, <2>5 DEF Moves
  <2>7. \A y \in Carried : IsAck(y[2]) => y[2].seqNo =< i
    <3>1. ASSUME NEW y \in Carried, IsAck(y[2]) PROVE y[2].seqNo =< i
      <4>1. y[2].seqNo =< last + 1
        BY <1>2, <3>1 DEF TravelInv, Near, IsAck, last
      <4>2. y[2].seqNo \in Nat
        BY <1>2, <3>1, CarriedNumber DEF IsAck
      <4> QED
        BY <1>5, <1>8, <4>1, <4>2
    <3> QED
      BY <3>1
  <2>8. snd.lastAckSeqNo =< i
    <3>1. snd.lastAckSeqNo =< last + 1
      BY <1>2 DEF SeqInv, last
    <3>2. snd.lastAckSeqNo \in Nat
      BY SenderNumbers
    <3> QED
      BY <1>5, <1>8, <3>1, <3>2
  <2>9. z[1] = FromReceiver /\ z[2].seqNo = i
    BY <2>1
  <2> HIDE DEF z
  <2>10. InOrder(w, Carried', snd.lastAckSeqNo)
    BY <1>6, <2>6, <2>7, <2>8, <2>9, NewInOrder
  <2>11. ListInOrder(fes')
    <3>1. ListInOrder(fes)
      BY <1>4 DEF OrderOK
    <3>2. ASSUME NEW f \in ToSet(Tail(fes)) \cup {e}, Carries(f), f.to = e.to, IsAck(f.msg)
          PROVE  f.msg.seqNo =< e.msg.seqNo /\ NotAfter(f, e)
      <4>1. f \in ToSet(fes')
        BY <2>2, <3>2 DEF Adds
      <4>2. ~(f.to[1] = "stack" /\ f.to[3] = FromNet)
        <5>1. FromReceiver[3] # FromNet
          BY DEF FromReceiver, GoBackNReceiver, FromNet
        <5>2. f.to[3] = FromReceiver[3]
          BY <2>1, <3>2
        <5> QED
          BY <5>1, <5>2
      <4>3. NotAfter(f, e)
        BY <1>1, <2>1, <3>2, <4>1, <4>2, PromptBehind
      <4>4. CASE f = e
        BY <2>1, <4>3, <4>4
      <4>5. CASE f \in ToSet(Tail(fes))
        <5>1. f \in ToSet(fes)
          BY <1>3, <4>5
        <5> DEFINE y == <<f.to, f.msg>>
        <5>2. y \in Carried /\ y[2] = f.msg
          BY <3>2, <5>1, InCarried
        <5> HIDE DEF y
        <5>3. f.msg.seqNo =< i
          BY <2>7, <3>2, <5>2
        <5> QED
          BY <2>1, <4>3, <5>3
      <4> QED
        BY <3>2, <4>4, <4>5
    <3> DEFINE F == {e}
               N == {}
    <3>3. \A g \in F : IsAck(g.msg) =>
              \A f \in ToSet(Tail(fes)) \cup F : Carries(f) /\ f.to = g.to /\ IsAck(f.msg) =>
                 f.msg.seqNo =< g.msg.seqNo /\ NotAfter(f, g)
      BY <3>2
    <3>4. Adds(fes', Tail(fes), F, N) /\ \A g \in N : ~Carries(g)
      BY <2>2
    <3> HIDE DEF F, N
    <3> QED
      BY <1>3, <3>1, <3>3, <3>4, KeepsListOrder
  <2>12. QueuesInOrder(queue')
    BY <1>1, <1>4 DEF OrderOK
  <2>13. DueInTime(w, fes', finishes')
    <3>1. ASSUME NEW f \in ToSet(fes'), NEW j \in 1 .. Len(w) - 1, f.to = Landing(w, j), IsAck(f.msg)
          PROVE  f.time =< finishes'[Hop(w, j)] + delay[Hop(w, j)]
      <4>1. Carries(f)
        BY <3>1 DEF Carries, Landing
      <4>2. f # e
        <5>1. FromReceiver # Landing(w, j)
          BY DEF FromReceiver, Landing, GoBackNReceiver, FromNet
        <5> QED
          BY <2>1, <3>1, <5>1
      <4>3. f \in ToSet(fes)
        BY <1>3, <2>2, <3>1, <4>1, <4>2 DEF Adds
      <4> QED
        BY <1>1, <1>4, <3>1, <4>3 DEF OrderOK, DueInTime
    <3> QED
      BY <3>1 DEF DueInTime
  <2> QED
    BY <1>1, <2>10, <2>11, <2>12, <2>13 DEF OrderOK
<1> QED
  BY <1>5, <1>7, <1>8

\* The sender: what it hears of is not ahead of what is still under way.
LEMMA AckOrder ==
    ASSUME SimInv, PacketInv, NEW w, IsWay(w), OrderInv(w), ReceiveAck
    PROVE  OrderInv(w)'
<1> DEFINE h == Head(fes)
<1>1. /\ h.msg \in Message /\ h.msg.id = "ack" /\ h.msg.seqNo \in Nat
      /\ Arrives("appl") /\ h.to = ToSender /\ <<h.to, h.msg>> \in Carried
  BY AckHead
<1>2. par' = par /\ UNCHANGED <<queue, finishes>>
  BY DEF ReceiveAck, SenderStep, Network, Rejected, Acknowledged
<1>3. ~aborted
  BY <1>1, HandledList
<1> SUFFICES ASSUME par.send, ~aborted' PROVE OrderOK(w)'
  BY <1>2 DEF OrderInv
<1>4. OrderOK(w)
  BY <1>3 DEF OrderInv
<1>5. PICK N : Gains(fes', Tail(fes), {}, N) /\ TimersOf(N, {timer0, timer1})
  BY AckGains
<1>6. Adds(fes', Tail(fes), {}, N) /\ \A e \in N : ~Carries(e)
  BY <1>5 DEF Gains, TimersOf, Carries, timer0, timer1
<1>7. Moves({<<h.to, h.msg>>}, Packets({}))
  BY <1>1, <1>2, <1>6, ListMoves
<1>8. \A x \in Carried' : x \in Carried
  BY <1>7 DEF Moves, Packets
<1>9. ListInOrder(fes') /\ QueuesInOrder(queue') /\ DueInTime(w, fes', finishes')
  <2>1. /\ ToSet(Tail(fes)) \subseteq ToSet(fes)
        /\ \A a, b : Precedes(Tail(fes), a, b) => Precedes(fes, a, b)
    BY <1>1, TailOrder, HeadInSet
  <2> DEFINE F == {}
  <2>2. Adds(fes', Tail(fes), F, N) /\ (\A e \in F : ~IsAck(e.msg))
    BY <1>6
  <2> HIDE DEF F
  <2> QED
    BY <1>2, <1>4, <1>6, <2>1, <2>2, QuietRest
<1>10. InOrder(w, Carried, snd.lastAckSeqNo) /\ ListInOrder(fes)
  BY <1>4 DEF OrderOK
<1>11. InOrder(w, Carried', snd.lastAckSeqNo)
  BY <1>8, <1>10, FewerInOrder
<1>12. ASSUME NEW y \in Carried', IsAck(y[2]) PROVE h.msg.seqNo =< y[2].seqNo
  <2>1. OnWay(w, y[1]) /\ OnWay(w, h.to)
    BY <1>8, <1>10, <1>12, <1>1 DEF InOrder, OnWay
  <2>2. Len(w) \in Nat /\ Spot(w, h.to) = 3 * Len(w) + 1
    BY <1>1, SpotOf
  <2>3. Spot(w, y[1]) \in Int /\ Spot(w, y[1]) =< 3 * Len(w) + 1
    <3>1. \A i \in 1 .. Len(w) - 1 : 3 * i + 3 =< 3 * Len(w)
      BY <2>2
    <3>2. CASE y[1] = FromReceiver \/ y[1] = ToSender
      BY <3>2, SpotOf
    <3>3. CASE \E i \in 1 .. Len(w) - 1 :
                  y[1] = ToLink(w, i) \/ y[1] = ForLink(w, i) \/ y[1] = Landing(w, i)
      <4>1. PICK i \in 1 .. Len(w) - 1 :
                  y[1] = ToLink(w, i) \/ y[1] = ForLink(w, i) \/ y[1] = Landing(w, i)
        BY <3>3
      <4>2. Spot(w, y[1]) \in {3 * i + 1, 3 * i + 2, 3 * i + 3}
        BY <4>1, SpotOf
      <4> QED
        BY <2>2, <3>1, <4>2
    <3> QED
      BY <2>1, <3>2, <3>3 DEF OnWay
  <2>4. CASE Spot(w, y[1]) < Spot(w, h.to)
    <3> DEFINE x == <<h.to, h.msg>>
    <3>1. x \in Carried /\ IsAck(x[2]) /\ x[1] = h.to /\ x[2] = h.msg /\ y \in Carried
      BY <1>1, <1>8, <1>12 DEF IsAck
    <3> HIDE DEF x
    <3> QED
      BY <1>10, <1>12, <2>4, <3>1 DEF InOrder
  <2>5. CASE Spot(w, y[1]) = Spot(w, h.to)
    <3>1. y[1] = h.to
      BY <2>1, <2>5, SpotDiffers
    <3>2. Carries(h) /\ IsAck(h.msg)
      BY <1>1 DEF Carries, ToSender, IsAck
    <3> DEFINE F == {}
    <3>3. Adds(fes', Tail(fes), F, N) /\ (\A e \in F : e.to # h.to)
      BY <1>6
    <3> HIDE DEF F
    <3> QED
      BY <1>1, <1>10, <1>12, <3>1, <3>2, <3>3, OthersBehind
  <2> QED
    BY <2>2, <2>3, <2>4, <2>5
<1>13. InOrder(w, Carried', snd'.lastAckSeqNo)
  <2>1. CASE snd'.lastAckSeqNo = snd.lastAckSeqNo
    BY <1>11, <2>1
  <2>2. CASE snd'.lastAckSeqNo = h.msg.seqNo
    BY <1>11, <1>12, <2>2 DEF InOrder
  <2>3. Deaf \/ HeardAgain \/ HeardNew
    BY <1>1, AckWindow
  <2> QED
    BY <2>1, <2>2, <2>3 DEF Deaf, HeardAgain, HeardNew
<1> QED
  BY <1>9, <1>13 DEF OrderOK

LEMMA OrderStarts ==
    ASSUME Init, NEW w PROVE OrderInv(w)
<1>1. Carried = {}
  BY NoneCarried
<1>2. \A e \in ToSet(fes) : ~Carries(e)
  BY <1>1, InCarried
<1>3. InOrder(w, Carried, snd.lastAckSeqNo)
  BY <1>1 DEF InOrder
<1>4. ListInOrder(fes)
  BY <1>2, PrecedesIn DEF ListInOrder
<1>5. QueuesInOrder(queue)
  <2>1. \A l \in Link : queue[l].queue = <<>>
    BY DEF Init, Q!NewQueue
  <2> QED
    BY <2>1 DEF QueuesInOrder
<1>6. DueInTime(w, fes, finishes)
  BY <1>2 DEF DueInTime, Carries, Landing
<1> QED
  BY <1>3, <1>4, <1>5, <1>6 DEF OrderInv, OrderOK

\* What the order of the acknowledgements rests on.
LEMMA OrderGoesOn ==
    ASSUME SimInv, SimInv', RouteInv, PacketInv, TravelInv, SeqInv, HasteInv, HasteInv',
           TimeToLive(par), NEW w, IsWay(w), OneWay(par, w), cost \in PossibleCosts(par),
           OrderInv(w), [Next]_vars
    PROVE  OrderInv(w)'
<1>1. CASE StackHandles
  BY <1>1, StackOrder
<1>2. CASE DaemonHandles
  BY <1>2, DaemonOrder
<1>3. CASE QueueMessage
  BY <1>3, QueueMessageOrder
<1>4. CASE QueueTimeout
  BY <1>4, QueueTimeoutOrder
<1>5. ASSUME NEW c \in Commands, ConPar(c[1], c[2]) PROVE OrderInv(w)'
  <2>1. c[1] \in Link
    BY SimulationAssumption
  <2> QED
    BY <1>5, <2>1, ConParOrder
<1>6. CASE SendNext
  <2>1. snd'.lastAckSeqNo = snd.lastAckSeqNo
    BY <1>6, SendNextWindow
  <2> QED
    BY <1>6, <2>1, SendNextSends, SendsOrder DEF SendNext
<1>7. CASE Expire
  <2>1. snd'.lastAckSeqNo = snd.lastAckSeqNo
    BY <1>7, ExpireWindow
  <2> QED
    BY <1>7, <2>1, ExpireSends, SendsOrder DEF Expire
<1>8. CASE ReceiveAck
  BY <1>8, AckOrder
<1>9. CASE ReceiveData
  BY <1>9, DataOrder
<1>10. CASE PingTimer
  BY <1>10, PingTimerSends, SendsOrder DEF PingTimer
<1>11. CASE ReceivePing
  BY <1>11, PingSends, SendsOrder DEF ReceivePing
<1>12. CASE UNCHANGED vars
  BY <1>12 DEF vars, OrderInv, OrderOK, InOrder, ListInOrder, QueuesInOrder, DueInTime, Carried,
               Carries, Line, Precedes
<1> QED
  BY <1>1, <1>2, <1>3, <1>4, <1>5, <1>6, <1>7, <1>8, <1>9, <1>10, <1>11, <1>12 DEF Next

----------------------------------------------------------------------------
(***************************************************************************)
(* The costs the links have.                                               *)
(***************************************************************************)
LEMMA CostsStart == Init => cost \in PossibleCosts(par)
BY DEF Init, PossibleCosts

LEMMA CostsGoOn ==
    ASSUME SimInv, cost \in PossibleCosts(par), [Next]_vars
    PROVE  (cost \in PossibleCosts(par))'
<1>1. par' = par
  BY WhoSteps
<1>2. ASSUME NEW c \in Commands, ConPar(c[1], c[2]) PROVE cost' \in PossibleCosts(par)
  <2>1. cost' = [cost EXCEPT ![c[1]] = c[2]] /\ changes < par.changes /\ changes \in Nat
    BY <1>2 DEF ConPar, SimInv, TimeOK, LinksOK, NodesOK
  <2>2. c[1] \in Link /\ c = <<c[1], c[2]>> /\ c \in Commands
    BY SimulationAssumption
  <2>3. par.changes > 0
    <3>1. par.changes \in Nat
      BY SenderNumbers, ParametersType
    <3> QED
      BY <2>1, <3>1
  <2> DEFINE V == {1} \cup {d[2] : d \in Commands}
  <2>4. cost' \in [Link -> V]
    BY <2>1, <2>2 DEF PossibleCosts
  <2>5. ASSUME NEW l \in Link, cost'[l] # 1 PROVE par.changes > 0 /\ <<l, cost'[l]>> \in Commands
    BY <2>1, <2>2, <2>3, <2>5 DEF PossibleCosts
  <2> QED
    BY <2>4, <2>5 DEF PossibleCosts
<1> QED
  BY <1>1, <1>2, WhoSteps

----------------------------------------------------------------------------
(***************************************************************************)
(* The assertions, one handler after the other.                            *)
(***************************************************************************)
LEMMA CostsType ==
    ASSUME NEW p, NEW c \in PossibleCosts(p) PROVE c \in [Link -> Int]
<1>1. \A d \in Commands : d[2] \in Int
  BY SimulationAssumption
<1> QED
  BY <1>1 DEF PossibleCosts

LEMMA DijkstraEnds ==
    ASSUME par \in Parameters, Reachable(par), cost \in PossibleCosts(par), NEW n \in Node
    PROVE  ~R!doDijkstra(cost, n).stuck
<1>1. cost \in [Link -> Int]
  BY CostsType
<1>2. \A m \in Node \ {n} : ~(R!Distance(cost)[<<n, m>>] >= INFINITY)
  <2> SUFFICES ASSUME NEW m \in Node \ {n} PROVE ~(R!Distance(cost)[<<n, m>>] >= INFINITY)
    OBVIOUS
  <2> DEFINE d == R!Distance(cost)[<<n, m>>]
  <2>1. d < INFINITY
    BY DEF Reachable
  <2>2. d \in Nat /\ INFINITY \in Nat
    BY <1>1, DistanceType, InfinityType
  <2> HIDE DEF d
  <2>3. ~(d >= INFINITY)
    BY <2>1, <2>2
  <2> QED
    BY <2>3 DEF d
<1> QED
  BY <1>1, <1>2, DijkstraAsserts

LEMMA DaemonAsserts ==
    ASSUME SimInv, PacketInv, Reachable(par), cost \in PossibleCosts(par), DaemonHandles
    PROVE  ~aborted'
<1>1. Arrives("appl") /\ Head(fes).to[3] = RoutingDaemon /\ par \in Parameters
  BY Handled DEF DaemonHandles
<1>2. Head(fes).msg.id = "linkchange"
  BY <1>1, TransferPacket DEF Notice, NetworkPacket
<1>3. \A n \in Node : ~R!doDijkstra(cost, n).stuck
  BY <1>1, DijkstraEnds
<1> QED
  BY <1>2, <1>3 DEF DaemonHandles

LEMMA MessageAsserts ==
    ASSUME SimInv, QueuesInv, BatchesLongEnough(par), QueueMessage
    PROVE  ~aborted'
<1>1. PICK l \in Link :
           LET h == Head(fes)
               q == queue[l]
               r == Q!OnMessage(q, par, h.time, finishes[l], h.msg)
           IN  /\ Arrives("queue") /\ QueueStep(l, r) /\ h.msg \in Message
               /\ \/ r.send = <<>>
                  \/ r.send = <<h.msg>> /\ ~isScheduled(Tail(fes), timeout(l))
  BY MessageHandler
<1> DEFINE m == Head(fes).msg
           r == Q!OnMessage(queue[l], par, Head(fes).time, finishes[l], m)
<1>2. QueueOK(r.q, par)
  BY OnMessageOK DEF QueuesInv
<1>3. Q!Detected(r.q, par)
  BY <1>2 DEF QueueOK
<1>4. /\ Arrives("queue") /\ QueueStep(l, r) /\ m \in Message
      /\ r.send = <<>> \/ (r.send = <<m>> /\ ~isScheduled(Tail(fes), timeout(l)))
  BY <1>1
<1> HIDE DEF r, m
<1>5. Transmit(l, r) /\ ~aborted
  BY <1>4, QueueStepQueues, Handled
<1>6. CASE r.send = <<>>
  BY <1>5, <1>6 DEF Transmit
<1>7. CASE r.send = <<m>> /\ ~isScheduled(Tail(fes), timeout(l))
  BY <1>3, <1>4, <1>5, <1>7, TransmitGains
<1> QED
  BY <1>4, <1>6, <1>7

LEMMA TimeoutAsserts ==
    ASSUME SimInv, QueuesInv, BatchesLongEnough(par), QueueTimeout
    PROVE  ~aborted'
<1>1. PICK l \in Link :
           LET h == Head(fes)
               q == queue[l]
               r == Q!OnTimeout(q, par, h.time, finishes[l])
           IN  /\ Arrives("timeout") /\ QueueStep(l, r)
               /\ ~isScheduled(Tail(fes), timeout(l))
               /\ \/ r.send = <<>>
                  \/ \E m \in Message : r.send = <<m>>
  BY TimeoutHandler
<1> DEFINE r == Q!OnTimeout(queue[l], par, Head(fes).time, finishes[l])
<1>2. QueueOK(r.q, par)
  BY OnTimeoutOK DEF QueuesInv
<1>3. Q!Detected(r.q, par)
  BY <1>2 DEF QueueOK
<1>4. /\ Arrives("timeout") /\ QueueStep(l, r) /\ ~isScheduled(Tail(fes), timeout(l))
      /\ r.send = <<>> \/ \E m \in Message : r.send = <<m>>
  BY <1>1
<1> HIDE DEF r
<1>5. Transmit(l, r) /\ ~aborted
  BY <1>4, QueueStepQueues, Handled
<1>6. CASE r.send = <<>>
  BY <1>5, <1>6 DEF Transmit
<1>7. ASSUME NEW m \in Message, r.send = <<m>> PROVE ~aborted'
  BY <1>3, <1>4, <1>5, <1>7, TransmitGains
<1> QED
  BY <1>4, <1>6, <1>7

LEMMA DataAsserts ==
    ASSUME SimInv, PacketInv, ReceiveData PROVE ~aborted'
BY TransferPacket DEF ReceiveData

LEMMA PingAsserts ==
    ASSUME SimInv, PacketInv, ReceivePing PROVE ~aborted'
BY TransferPacket DEF ReceivePing

----------------------------------------------------------------------------
(***************************************************************************)
(* The sender.                                                             *)
(***************************************************************************)
LEMMA TimersSeen ==
    ASSUME NEW s, NEW t0, NEW t1, Timers(s, t0, t1) PROVE TimersOnce(s)
BY OnceNotTwice DEF Timers, TimerOK, TimersOnce

LEMMA FirstUnacknowledged ==
    ASSUME NEW W \in Nat, NEW s, s.lastAckSeqNo \in Nat, s.nextSendSeqNo \in Nat,
           DOMAIN s.packetBuffer \subseteq Nat, Arq(s, W),
           s.lastAckSeqNo =< s.nextSendSeqNo, s.nextSendSeqNo < s.lastAckSeqNo + W
    PROVE  LET q == s.nextSendSeqNo
               D == DOMAIN s.packetBuffer
           IN  /\ \A i \in D : q >= Min(D)
               /\ Cardinality(D \cup {q}) =< W
<1> DEFINE q == s.nextSendSeqNo
           D == DOMAIN s.packetBuffer
           low == s.lastAckSeqNo
<1>1. \A i \in D : i \in Nat /\ low =< i /\ i < low + W /\ low .. i \subseteq D
  BY DEF Arq
<1>2. low \in Nat /\ q \in Nat /\ low =< q /\ q < low + W
  OBVIOUS
<1> HIDE DEF q, D, low
<1>3. ASSUME NEW i \in D PROVE q >= Min(D)
  <2>1. low \in D
    BY <1>1, <1>2, <1>3
  <2>2. \A y \in D : low =< y
    BY <1>1
  <2>3. Min(D) \in D /\ \A y \in D : Min(D) =< y
    BY <2>1, <2>2 DEF Min
  <2> DEFINE x == Min(D)
  <2>4. x \in Nat /\ x =< low
    BY <1>1, <2>1, <2>3
  <2> HIDE DEF x
  <2>5. q >= x
    BY <1>2, <2>4
  <2> QED
    BY <2>5 DEF x
<1>4. Cardinality(D \cup {q}) =< W
  <2> DEFINE top == low + W - 1
             I == low .. top
  <2>1. top \in Int /\ W > 0
    BY <1>2
  <2>2. D \cup {q} \subseteq I
    <3>1. \A i \in D \cup {q} : i \in Nat /\ low =< i /\ i < low + W
      BY <1>1, <1>2
    <3> QED
      BY <1>2, <3>1
  <2>3. low \in Int /\ ~(low > top) /\ top - low + 1 = W
    BY <1>2, <2>1
  <2>4. IsFiniteSet(I) /\ Cardinality(I) = W
    <3> HIDE DEF top
    <3> QED
      BY <2>1, <2>3, FS_Interval
  <2> HIDE DEF I, top
  <2>5. Cardinality(D \cup {q}) =< Cardinality(I)
    BY <2>2, <2>4, FS_Subset
  <2> QED
    BY <2>4, <2>5
<1> QED
  BY <1>3, <1>4 DEF q, D

LEMMA SendNextAsserts ==
    ASSUME SimInv, SenderInv, IdleInv, ArqInv, SendNext
    PROVE  ~aborted'
<1>1. Arrives("timer0") /\ Head(fes).to = timer0
  BY Handled, Kinds DEF SendNext
<1>2. par.send /\ ~aborted
  BY <1>1, TimersMeanSender, Handled
<1>3. Timers(fes, snd.nextSendTime, snd.timerExpiration) /\ fes # <<>>
  BY <1>1, <1>2, SenderHandles
<1>4. Head(fes).time = snd.nextSendTime /\ snd.nextSendTime # Never
  BY <1>1, <1>3, TimersTaken
<1>5. Arq(snd, par.window)
  BY <1>2 DEF ArqInv
<1>6. snd.nextSendSeqNo < snd.lastAckSeqNo + par.window
  BY <1>4, <1>5 DEF Arq
<1>7. snd.lastAckSeqNo =< snd.nextSendSeqNo
  BY <1>2, SenderWindow
<1>8. LET q == snd.nextSendSeqNo
          D == DOMAIN snd.packetBuffer
      IN  (\A i \in D : q >= Min(D)) /\ Cardinality(D \cup {q}) =< par.window
  BY <1>5, <1>6, <1>7, SenderNumbers, FirstUnacknowledged
<1>9. TimersOnce(fes')
  BY <1>2, SenderSends, TimersSeen DEF SenderOK
<1> QED
  BY <1>4, <1>6, <1>8, <1>9, SendNextWindow

LEMMA ExpireAsserts ==
    ASSUME SimInv, SimInv', SenderInv, IdleInv, Expire
    PROVE  ~aborted'
<1>1. Arrives("timer1") /\ Head(fes).to = timer1
  BY Handled, Kinds DEF Expire
<1>2. par.send /\ ~aborted
  BY <1>1, TimersMeanSender, Handled
<1>3. Timers(fes, snd.nextSendTime, snd.timerExpiration) /\ fes # <<>>
  BY <1>1, <1>2, SenderHandles
<1>4. Head(fes).time = snd.timerExpiration
  BY <1>1, <1>3, TimersTaken
<1>5. TimersOnce(fes')
  BY <1>2, SenderExpires, TimersSeen DEF SenderOK
<1> QED
  BY <1>4, <1>5, ExpireWindow

\* The expiration timer is later than an acknowledgement that is heard.
LEMMA ExpiresLater ==
    ASSUME SimInv, SenderInv, HasteInv, par.send, Arrives("appl"), Head(fes).to = ToSender
    PROVE  snd.timerExpiration > Head(fes).time
<1> DEFINE h == Head(fes)
           x == snd.timerExpiration
<1>1. /\ Timers(fes, snd.nextSendTime, x) /\ h.time \in Int
      /\ h.time =< par.limit /\ par.limit \in Nat /\ par.limit + par.timeout < Never
      /\ par.timeout \in Nat /\ Never \in Int /\ ~aborted
  BY SenderHandles
<1>2. x \in Int
  BY SenderNumbers
<1>3. CASE x = Never
  BY <1>1, <1>3
<1>4. CASE x # Never
  <2>1. isScheduled(fes, timer1) /\ \A e \in ToSet(fes) : e.to = timer1 => e.time = x
    BY <1>1, <1>4 DEF Timers, TimerOK
  <2>2. PICK f \in ToSet(fes) : f.to = timer1
    BY <2>1 DEF isScheduled, ToSet
  <2>3. f # h /\ f.time = x
    BY <2>1, <2>2 DEF ToSender, timer1
  <2>4. f \in ToSet(Tail(fes))
    BY <2>2, <2>3, HandledList, TakeNext
  <2>5. f.time >= h.time
    BY <2>4, StepTimes
  <2>6. h.time # f.time
    BY <1>1, <2>2, <2>4, HeadFirst DEF HasteInv
  <2> HIDE DEF h, x
  <2>7. x > h.time
    BY <1>1, <1>2, <2>3, <2>5, <2>6
  <2> QED
    BY <2>7 DEF h, x
<1> QED
  BY <1>3, <1>4

LEMMA AckAsserts ==
    ASSUME SimInv, SimInv', PacketInv, TravelInv, SenderInv, IdleInv, HasteInv, ArqInv, SeqInv,
           NEW w, OrderInv(w), ReceiveAck
    PROVE  ~aborted'
<1> DEFINE h == Head(fes)
           e == h.msg.seqNo
           low == snd.lastAckSeqNo
           D == DOMAIN snd.packetBuffer
           last == rcv.lastReceivedSeqNo
<1>1. /\ h.msg \in Message /\ h.msg.id = "ack" /\ e \in Nat
      /\ Arrives("appl") /\ h.to = ToSender /\ <<h.to, h.msg>> \in Carried
  BY AckHead
<1>2. par.send /\ ~aborted
  BY <1>1, PacketsMeanSender, Handled
<1>3. low \in Nat /\ last \in Nat \cup {-1} /\ snd.nextSendSeqNo \in Nat /\ D \subseteq Nat
      /\ (\A i \in D : snd.packetBuffer[i] \in Int) /\ snd.timerExpiration \in Int
  BY SenderNumbers
<1>4. low =< e
  <2> DEFINE x == <<h.to, h.msg>>
  <2>1. x \in Carried /\ IsAck(x[2]) /\ x[2].seqNo = e
    BY <1>1 DEF IsAck
  <2> HIDE DEF x
  <2>2. InOrder(w, Carried, low)
    BY <1>2 DEF OrderInv, OrderOK
  <2> QED
    BY <2>1, <2>2 DEF InOrder
<1>5. e =< last + 1
  <2> DEFINE x == <<h.to, h.msg>>
  <2>1. x \in Carried /\ x[2].id = "ack" /\ x[2].seqNo = e
    BY <1>1
  <2> HIDE DEF x
  <2> QED
    BY <1>2, <2>1 DEF TravelInv, Near
<1>6. TimersOnce(fes')
  <2>1. SenderOK'
    BY <1>2, <1>3, <1>1, <1>4, SenderHears
  <2> QED
    BY <2>1, TimersSeen DEF SenderOK
<1>7. ASSUME e # low PROVE low .. e - 1 \subseteq D
  <2>1. e > low /\ last >= low /\ last # -1
    BY <1>1, <1>3, <1>4, <1>5, <1>7
  <2>2. WasSent(snd, last)
    BY <1>2, <2>1 DEF SeqInv
  <2>3. last \in D
    BY <1>3, <2>1, <2>2 DEF WasSent
  <2>4. low .. last \subseteq D
    BY <1>2, <2>3 DEF ArqInv, Arq
  <2>5. \A i \in low .. e - 1 : i \in low .. last
    BY <1>1, <1>3, <1>5
  <2> QED
    BY <2>4, <2>5
<1>8. ASSUME snd.nextSendSeqNo > e PROVE e \in D /\ snd.packetBuffer[e] > h.time
  <2>1. e \in D /\ snd.timerExpiration =< snd.packetBuffer[e]
    BY <1>1, <1>2, <1>3, <1>4, <1>8, SenderWindow
  <2>2. snd.timerExpiration > h.time
    BY <1>1, <1>2, ExpiresLater
  <2>3. h.time \in Int
    BY <1>1, Handled
  <2> QED
    BY <1>3, <2>1, <2>2, <2>3
<1>9. Deaf \/ HeardAgain \/ HeardNew
  BY <1>1, AckWindow
<1>10. CASE Deaf
  BY <1>1, <1>6, <1>10 DEF Deaf
<1>11. CASE HeardAgain
  BY <1>6, <1>11 DEF HeardAgain
<1>12. CASE HeardNew
  <2>1. e # low /\ e > low
    BY <1>1, <1>3, <1>4, <1>12 DEF HeardNew
  <2> QED
    BY <1>6, <1>7, <1>8, <1>12, <2>1 DEF HeardNew
<1> QED
  BY <1>9, <1>10, <1>11, <1>12

----------------------------------------------------------------------------
(***************************************************************************)
(* Nothing aborts.                                                         *)
(***************************************************************************)
\* The acknowledgements keep their order on the one way they have.
KeepsOrder == par.send => \E w \in Ways : IsWay(w) /\ OneWay(par, w) /\ OrderInv(w)

\* The inductive invariant.  That nothing has aborted is a part of it: each assertion
\* needs the others to have held.
RunningInv ==
    /\ SimInv /\ RouteInv /\ PacketInv /\ TravelInv /\ QueuesInv /\ SenderInv
    /\ IdleInv /\ HasteInv /\ ArqInv /\ SeqInv
    /\ cost \in PossibleCosts(par) /\ KeepsOrder
    /\ ~aborted

LEMMA RunningStarts ==
    ASSUME \A p \in Parameters : ProperSetup(p) PROVE Init => RunningInv
<1> SUFFICES ASSUME Init PROVE RunningInv
  OBVIOUS
<1>1. par \in Parameters /\ \A p \in Parameters : BatchesLongEnough(p)
  BY DEF Init, ProperSetup
<1>2. SimInv /\ RouteInv /\ PacketInv /\ TravelInv /\ QueuesInv /\ SenderInv
  BY <1>1, InitInv, RouteStarts, PacketsStart, TravelStarts, BatchesStart, SenderStarts
<1>3. par.send => par.window > 0
  BY <1>1 DEF ProperSetup
<1>4. IdleInv /\ HasteInv /\ ArqInv /\ SeqInv /\ cost \in PossibleCosts(par)
  BY <1>3, IdleStarts, HasteStarts, ArqStarts, SeqStarts, CostsStart
<1>5. KeepsOrder
  BY <1>1, OrderStarts DEF ProperSetup, KeepsOrder
<1>6. ~aborted
  <2>1. Reachable(par)
    BY <1>1 DEF ProperSetup
  <2>2. \A n \in Node : ~R!doDijkstra(cost, n).stuck
    BY <1>1, <1>4, <2>1, DijkstraEnds
  <2> QED
    BY <2>2 DEF Init
<1> QED
  BY <1>2, <1>4, <1>5, <1>6 DEF RunningInv

LEMMA NoneAsserts ==
    ASSUME \A p \in Parameters : ProperSetup(p), RunningInv, SimInv', [Next]_vars
    PROVE  ~aborted'
<1>1. /\ SimInv /\ PacketInv /\ TravelInv /\ QueuesInv /\ SenderInv
      /\ IdleInv /\ HasteInv /\ ArqInv /\ SeqInv /\ cost \in PossibleCosts(par) /\ KeepsOrder
      /\ ~aborted /\ par \in Parameters
  BY DEF RunningInv, SimInv, TimeOK
<1>2. Reachable(par) /\ BatchesLongEnough(par)
  BY <1>1 DEF ProperSetup
<1>3. CASE StackHandles
  BY <1>1, <1>3, ZenonT(30) DEF StackHandles
<1>4. CASE DaemonHandles
  BY <1>1, <1>2, <1>4, DaemonAsserts
<1>5. CASE QueueMessage
  BY <1>1, <1>2, <1>5, MessageAsserts
<1>6. CASE QueueTimeout
  BY <1>1, <1>2, <1>6, TimeoutAsserts
<1>7. ASSUME NEW c \in Commands, ConPar(c[1], c[2]) PROVE ~aborted'
  BY <1>1, <1>7 DEF ConPar
<1>8. CASE SendNext
  BY <1>1, <1>8, SendNextAsserts
<1>9. CASE Expire
  BY <1>1, <1>9, ExpireAsserts
<1>10. CASE ReceiveAck
  <2>1. par.send
    BY <1>1, <1>10, AckHead, PacketsMeanSender
  <2>2. PICK w : OrderInv(w)
    BY <1>1, <2>1 DEF KeepsOrder
  <2> QED
    BY <1>1, <1>10, <2>2, AckAsserts
<1>11. CASE ReceiveData
  BY <1>1, <1>11, DataAsserts
<1>12. CASE PingTimer
  BY <1>1, <1>12 DEF PingTimer
<1>13. CASE ReceivePing
  BY <1>1, <1>13, PingAsserts
<1>14. CASE UNCHANGED vars
  BY <1>1, <1>14 DEF vars
<1> QED
  BY <1>3, <1>4, <1>5, <1>6, <1>7, <1>8, <1>9, <1>10, <1>11, <1>12, <1>13, <1>14 DEF Next

LEMMA RunningGoesOn ==
    ASSUME \A p \in Parameters : ProperSetup(p)
    PROVE  RunningInv /\ [Next]_vars => RunningInv'
<1> SUFFICES ASSUME RunningInv, [Next]_vars PROVE RunningInv'
  OBVIOUS
<1>1. /\ SimInv /\ RouteInv /\ PacketInv /\ TravelInv /\ QueuesInv /\ SenderInv
      /\ IdleInv /\ HasteInv /\ ArqInv /\ SeqInv /\ cost \in PossibleCosts(par) /\ KeepsOrder
      /\ ~aborted /\ par \in Parameters
  BY DEF RunningInv, SimInv, TimeOK
<1>2. /\ TimeToLive(par) /\ \A p \in Parameters : BatchesLongEnough(p)
      /\ par.send => par.window > 0 /\ par.timeout > 0
  BY <1>1 DEF ProperSetup
<1>3. SimInv'
  BY <1>1, StepInv
<1>4. RouteInv' /\ PacketInv' /\ TravelInv'
  BY <1>1, RoutesGoOn, PacketsGoOn, TravelGoesOn
<1>5. QueuesInv' /\ SenderInv' /\ IdleInv'
  BY <1>1, <1>2, BatchesGoOn, SenderGoesOn, IdleGoesOn
<1>6. HasteInv'
  BY <1>1, <1>2, <1>3, <1>4, HasteGoesOn
<1>7. ArqInv' /\ SeqInv' /\ (cost \in PossibleCosts(par))'
  BY <1>1, <1>2, ArqGoesOn, SeqGoesOn, CostsGoOn
<1>8. KeepsOrder'
  <2>1. par' = par
    BY <1>1, WhoSteps
  <2>2. CASE ~par.send
    BY <2>1, <2>2 DEF KeepsOrder
  <2>3. CASE par.send
    <3>1. PICK w \in Ways : IsWay(w) /\ OneWay(par, w) /\ OrderInv(w)
      BY <1>1, <2>3 DEF KeepsOrder
    <3>2. OrderInv(w)'
      BY <1>1, <1>2, <1>3, <1>6, <3>1, OrderGoesOn
    <3> QED
      BY <2>1, <3>1, <3>2 DEF KeepsOrder
  <2> QED
    BY <2>2, <2>3
<1>9. ~aborted'
  BY <1>3, NoneAsserts
<1> QED
  BY <1>3, <1>4, <1>5, <1>6, <1>7, <1>8, <1>9 DEF RunningInv

(***************************************************************************)
(* No assertion of GoBackNSender, of the interface queues or of Dijkstra's *)
(* algorithm fails, no application gets a message that it cannot cast, and *)
(* no timer is scheduled twice.                                            *)
(***************************************************************************)
THEOREM NothingAbortsTheorem ==
    ASSUME \A p \in Parameters : ProperSetup(p) PROVE Spec => []NothingAborts
<1>1. Init => RunningInv
  BY RunningStarts
<1>2. RunningInv /\ [Next]_vars => RunningInv'
  BY RunningGoesOn
<1>3. RunningInv => NothingAborts
  BY DEF RunningInv, NothingAborts
<1> QED
  BY <1>1, <1>2, <1>3, PTL DEF Spec

(***************************************************************************)
(* GoBackNSender knows of all that GoBackNReceiver has, or an              *)
(* acknowledgement of it is under way, unless one was damaged or dropped.  *)
(***************************************************************************)
THEOREM AckUnderWayTheorem ==
    ASSUME \A p \in Parameters : ProperSetup(p) PROVE Spec => []AckUnderWay
<1>1. Spec => []NothingAborts
  BY NothingAbortsTheorem
<1>2. \A p \in Parameters : TimeToLive(p)
  BY DEF ProperSetup
<1>3. Spec => [](aborted \/ AckUnderWay)
  BY <1>2, AckTheorem
<1>4. NothingAborts /\ (aborted \/ AckUnderWay) => AckUnderWay
  BY DEF NothingAborts
<1> QED
  BY <1>1, <1>3, <1>4, PTL

(***************************************************************************)
(* What holds until an assertion fails always holds: the types, the timers *)
(* of GoBackNSender that send again what is not acknowledged, and the      *)
(* routes of the stacks.                                                   *)
(***************************************************************************)
THEOREM WithoutAborts ==
    ASSUME \A p \in Parameters : ProperSetup(p)
    PROVE  Spec => [](TypeOK /\ NoPacketExpiresUnnoticed /\ RoutesCurrentWhenUsed)
<1>1. Spec => []NothingAborts
  BY NothingAbortsTheorem
<1>2. /\ NothingAborts /\ (aborted \/ TypeOK) => TypeOK
      /\ NothingAborts /\ (aborted \/ NoPacketExpiresUnnoticed) => NoPacketExpiresUnnoticed
      /\ NothingAborts /\ (aborted \/ RoutesCurrentWhenUsed) => RoutesCurrentWhenUsed
  BY DEF NothingAborts
<1> QED
  BY <1>1, <1>2, SimTypeCorrect, SentAgain, ShortestRoutes, PTL

----------------------------------------------------------------------------
(***************************************************************************)
(* What the pings add up to.                                               *)
(***************************************************************************)
Pick(s) == CHOOSE x \in s : TRUE
Open(p, n) == p[n].sent - p[n].received
Sums(it, p) ==
    it = [s \in SUBSET Node |-> IF s = {} THEN 0 ELSE Open(p, Pick(s)) + it[s \ {Pick(s)}]]
Total(p) == MapThenSumSet(LAMBDA n : p[n].sent - p[n].received, Node)

LEMMA TotalSums ==
    ASSUME NEW p, \E it : Sums(it, p) PROVE \E it : Sums(it, p) /\ Total(p) = it[Node]
BY DEF Total, MapThenSumSet, MapThenFoldSet, Sums, Open, Pick

\* Up to sets of k nodes.
Small(k) == {s \in SUBSET Node : Cardinality(s) =< k}
SumsTo(it, p, k) ==
    it = [s \in Small(k) |-> IF s = {} THEN 0 ELSE Open(p, Pick(s)) + it[s \ {Pick(s)}]]

LEMMA PickOne ==
    ASSUME NEW s \in SUBSET Node, s # {}
    PROVE  /\ Pick(s) \in s /\ Pick(s) \in Node /\ s \ {Pick(s)} \in SUBSET Node
           /\ Cardinality(s) \in Nat /\ Cardinality(s) # 0
           /\ Cardinality(s \ {Pick(s)}) = Cardinality(s) - 1
<1>1. Pick(s) \in s
  BY DEF Pick
<1>2. IsFiniteSet(s)
  BY NodesAssumption, FS_Subset
<1> HIDE DEF Pick
<1>3. Cardinality(s \ {Pick(s)}) = Cardinality(s) - 1 /\ Cardinality(s) \in Nat
  BY <1>1, <1>2, FS_RemoveElement, FS_CardinalityType
<1>4. Cardinality(s) # 0
  BY <1>2, FS_EmptySet
<1> QED
  BY <1>1, <1>3, <1>4

LEMMA SumsToExist ==
    ASSUME NEW p, NEW K \in Nat PROVE \E it : SumsTo(it, p, K)
<1> DEFINE Bad == {k \in Nat : ~ \E it : SumsTo(it, p, k)}
<1> SUFFICES ASSUME Bad # {} PROVE FALSE
  OBVIOUS
<1>1. PICK m \in Bad : \A k \in Bad : m =< k
  BY Smallest
<1>2. CASE m = 0
  <2> DEFINE g == [s \in Small(0) |-> 0]
  <2>1. \A s \in Small(0) : s = {}
    <3>1. ASSUME NEW s \in Small(0), s # {} PROVE FALSE
      <4>1. s \in SUBSET Node /\ Cardinality(s) =< 0
        BY DEF Small
      <4>2. Cardinality(s) \in Nat /\ Cardinality(s) # 0
        BY <3>1, <4>1, PickOne
      <4> QED
        BY <4>1, <4>2
    <3> QED
      BY <3>1
  <2>2. SumsTo(g, p, 0)
    BY <2>1 DEF SumsTo
  <2> QED
    BY <1>1, <1>2, <2>2
<1>3. CASE m # 0
  <2>1. m \in Nat /\ m - 1 \in Nat /\ m - 1 \notin Bad
    BY <1>1, <1>3
  <2>2. PICK f : SumsTo(f, p, m - 1)
    BY <2>1
  <2> DEFINE New(s) == Open(p, Pick(s)) + f[s \ {Pick(s)}]
             g == [s \in Small(m) |-> IF s = {} THEN 0 ELSE New(s)]
  <2>3. ASSUME NEW s \in Small(m - 1)
        PROVE  f[s] = IF s = {} THEN 0 ELSE New(s)
    BY <2>2, Zenon DEF SumsTo
  <2>4. ASSUME NEW s \in Small(m)
        PROVE  g[s] = IF s = {} THEN 0 ELSE Open(p, Pick(s)) + g[s \ {Pick(s)}]
    <3>1. CASE s = {}
      BY <3>1
    <3>2. CASE s # {}
      <4> DEFINE r == s \ {Pick(s)}
      <4>1. s \in SUBSET Node /\ Cardinality(s) =< m
        BY DEF Small
      <4>2. r \in SUBSET Node /\ Cardinality(r) =< m - 1
        BY <2>1, <3>2, <4>1, PickOne
      <4>3. r \in Small(m - 1) /\ r \in Small(m)
        BY <2>1, <3>2, <4>1, <4>2, PickOne DEF Small
      <4> HIDE DEF r
      <4>4. g[r] = f[r]
        <5> HIDE DEF New
        <5> QED
          BY <2>3, <4>3
      <4>5. g[s] = Open(p, Pick(s)) + f[r]
        BY <3>2 DEF r
      <4> HIDE DEF g
      <4> QED
        BY <3>2, <4>4, <4>5 DEF r
    <3> QED
      BY <3>1, <3>2
  <2>5. SumsTo(g, p, m)
    <3>1. g = [s \in Small(m) |-> g[s]]
      OBVIOUS
    <3> HIDE DEF g
    <3> QED
      BY <2>4, <3>1, Zenon DEF SumsTo
  <2> QED
    BY <1>1, <2>5
<1> QED
  BY <1>2, <1>3

LEMMA SumsExist ==
    ASSUME NEW p PROVE \E it : Sums(it, p)
<1> DEFINE K == Cardinality(Node)
<1>1. K \in Nat /\ \A s \in SUBSET Node : Cardinality(s) =< K
  BY NodesAssumption, FS_CardinalityType, FS_Subset
<1>2. Small(K) = SUBSET Node
  BY <1>1 DEF Small
<1>3. PICK it : SumsTo(it, p, K)
  BY <1>1, SumsToExist
<1> HIDE DEF K
<1>4. Sums(it, p)
  BY <1>2, <1>3 DEF Sums, SumsTo
<1> QED
  BY <1>4

LEMMA SumsOne ==
    ASSUME NEW it, NEW p, Sums(it, p), NEW s \in SUBSET Node
    PROVE  it[s] = IF s = {} THEN 0 ELSE Open(p, Pick(s)) + it[s \ {Pick(s)}]
BY Zenon DEF Sums

\* Another number of open pings at one node.
LEMMA SumsDiffer ==
    ASSUME NEW p, NEW r, \A n \in Node : Open(p, n) \in Int /\ Open(r, n) \in Int,
           NEW node \in Node, \A n \in Node : n # node => Open(r, n) = Open(p, n),
           NEW it, Sums(it, p), NEW jt, Sums(jt, r)
    PROVE  \A s \in SUBSET Node :
              /\ it[s] \in Int
              /\ jt[s] = it[s] + (IF node \in s THEN Open(r, node) - Open(p, node) ELSE 0)
<1> DEFINE Whole(s) == it[s] \in Int
                      /\ jt[s] = it[s] + (IF node \in s THEN Open(r, node) - Open(p, node) ELSE 0)
           Bad == {k \in Nat : \E s \in SUBSET Node : Cardinality(s) = k /\ ~Whole(s)}
<1>1. ASSUME Bad # {} PROVE FALSE
  <2>1. PICK k \in Bad : \A j \in Bad : k =< j
    BY <1>1, Smallest
  <2>2. PICK s \in SUBSET Node : Cardinality(s) = k /\ ~Whole(s)
    BY <2>1
  <2>3. CASE s = {}
    <3>1. it[s] = 0 /\ jt[s] = 0 /\ node \notin s
      BY <2>3, SumsOne
    <3> QED
      BY <2>2, <3>1
  <2>4. CASE s # {}
    <3> DEFINE x == Pick(s)
               t == s \ {x}
    <3>1. x \in s /\ x \in Node /\ t \in SUBSET Node /\ k \in Nat /\ k # 0 /\ Cardinality(t) = k - 1
      BY <2>2, <2>4, PickOne
    <3>2. Whole(t)
      <4>1. k - 1 \notin Bad /\ k - 1 \in Nat
        BY <2>1, <3>1
      <4> HIDE DEF Whole
      <4> QED
        BY <3>1, <4>1
    <3>3. it[s] = Open(p, x) + it[t] /\ jt[s] = Open(r, x) + jt[t]
      BY <2>4, SumsOne
    <3>4. node \in s <=> node = x \/ node \in t
      BY <3>1
    <3>5. x \notin t
      OBVIOUS
    <3>6. Open(p, x) \in Int /\ Open(r, x) \in Int /\ Open(p, node) \in Int /\ Open(r, node) \in Int
          /\ (x # node => Open(r, x) = Open(p, x))
      BY <3>1
    <3> HIDE DEF x, t
    <3>7. it[t] \in Int
      BY <3>2
    <3>8. CASE node = x
      <4>1. jt[t] = it[t] /\ node \in s
        BY <3>2, <3>4, <3>5, <3>7, <3>8
      <4> QED
        BY <2>2, <3>3, <3>6, <3>7, <3>8, <4>1
    <3>9. CASE node # x
      <4>1. node \in s <=> node \in t
        BY <3>4, <3>9
      <4> QED
        BY <2>2, <3>2, <3>3, <3>6, <3>7, <3>9, <4>1
    <3> QED
      BY <3>8, <3>9
  <2> QED
    BY <2>3, <2>4
<1>2. ASSUME NEW s \in SUBSET Node PROVE Whole(s)
  <2>1. Cardinality(s) \in Nat
    BY NodesAssumption, FS_Subset, FS_CardinalityType
  <2> HIDE DEF Whole
  <2> QED
    BY <1>1, <2>1
<1> QED
  BY <1>2

\* No pings are open.
LEMMA SumsNothing ==
    ASSUME NEW p, \A n \in Node : Open(p, n) = 0, NEW it, Sums(it, p)
    PROVE  \A s \in SUBSET Node : it[s] = 0
<1> DEFINE Bad == {k \in Nat : \E s \in SUBSET Node : Cardinality(s) = k /\ it[s] # 0}
<1>1. ASSUME Bad # {} PROVE FALSE
  <2>1. PICK k \in Bad : \A j \in Bad : k =< j
    BY <1>1, Smallest
  <2>2. PICK s \in SUBSET Node : Cardinality(s) = k /\ it[s] # 0
    BY <2>1
  <2>3. s # {}
    BY <2>2, SumsOne
  <2> DEFINE x == Pick(s)
             t == s \ {x}
  <2>4. x \in Node /\ t \in SUBSET Node /\ k \in Nat /\ k # 0 /\ Cardinality(t) = k - 1
    BY <2>2, <2>3, PickOne
  <2>5. k - 1 \notin Bad /\ k - 1 \in Nat
    BY <2>1, <2>4
  <2>6. it[t] = 0
    BY <2>4, <2>5
  <2>7. it[s] = Open(p, x) + it[t] /\ Open(p, x) = 0
    BY <2>3, <2>4, SumsOne
  <2> QED
    BY <2>2, <2>6, <2>7
<1>2. ASSUME NEW s \in SUBSET Node PROVE it[s] = 0
  <2>1. Cardinality(s) \in Nat
    BY NodesAssumption, FS_Subset, FS_CardinalityType
  <2> QED
    BY <1>1, <2>1
<1> QED
  BY <1>2

LEMMA TotalChanges ==
    ASSUME NEW p, NEW r, \A n \in Node : Open(p, n) \in Int /\ Open(r, n) \in Int,
           NEW node \in Node, \A n \in Node : n # node => Open(r, n) = Open(p, n)
    PROVE  Total(p) \in Int /\ Total(r) = Total(p) + (Open(r, node) - Open(p, node))
<1>1. PICK it : Sums(it, p) /\ Total(p) = it[Node]
  BY SumsExist, TotalSums
<1>2. PICK jt : Sums(jt, r) /\ Total(r) = jt[Node]
  BY SumsExist, TotalSums
<1>3. Node \in SUBSET Node /\ node \in Node
  OBVIOUS
<1>4. \A s \in SUBSET Node :
         /\ it[s] \in Int
         /\ jt[s] = it[s] + (IF node \in s THEN Open(r, node) - Open(p, node) ELSE 0)
  BY <1>1, <1>2, SumsDiffer
<1> QED
  BY <1>1, <1>2, <1>3, <1>4

LEMMA TotalNothing ==
    ASSUME NEW p, \A n \in Node : Open(p, n) = 0 PROVE Total(p) = 0
<1>1. PICK it : Sums(it, p) /\ Total(p) = it[Node]
  BY SumsExist, TotalSums
<1> QED
  BY <1>1, SumsNothing

----------------------------------------------------------------------------
(***************************************************************************)
(* The pings in the list and in the queues.                                *)
(***************************************************************************)
IsPing(e) == Carries(e) /\ e.msg.id = "ping"
InList(s) == Cardinality({i \in DOMAIN s : IsPing(s[i])})

LEMMA ListOfPings ==
    ASSUME NEW s, NEW T, \A e \in ToSet(s) : e \in T <=> IsPing(e)
    PROVE  HowMany(s, T) = InList(s)
<1>1. \A i \in DOMAIN s : s[i] \in ToSet(s)
  BY DEF ToSet
<1>2. {i \in DOMAIN s : s[i] \in T} = {i \in DOMAIN s : IsPing(s[i])}
  BY <1>1
<1> QED
  BY <1>2 DEF HowMany, InList

LEMMA ListGains ==
    ASSUME NEW new, NEW s, NEW E, NEW N, Gains(new, s, E, N)
    PROVE  /\ InList(s) \in Nat
           /\ InList(new) = InList(s) + Cardinality({e \in E : IsPing(e)})
<1> DEFINE T == {e \in ToSet(new) \cup ToSet(s) \cup E : IsPing(e)}
<1>1. HowMany(new, T) = InList(new) /\ HowMany(s, T) = InList(s)
  BY ListOfPings
<1>2. HowMany(new, T) = HowMany(s, T) + Cardinality(E \cap T)
  BY DEF Gains, IsPing
<1>3. E \cap T = {e \in E : IsPing(e)}
  OBVIOUS
<1>4. HowMany(s, T) \in Nat
  BY CountType DEF Gains, Adds
<1> QED
  BY <1>1, <1>2, <1>3, <1>4

LEMMA ListHead ==
    ASSUME NEW s, IsList(s), s # <<>>
    PROVE  InList(s) = InList(Tail(s)) + One(IsPing(Head(s))) /\ InList(Tail(s)) \in Nat
<1> DEFINE T == {e \in ToSet(s) : IsPing(e)}
<1>1. WithoutAt(Tail(s), s, 1) /\ s[1] = Head(s)
  BY TailWithout
<1>2. HowMany(Tail(s), T) \in Nat /\ HowMany(s, T) = HowMany(Tail(s), T) + One(Head(s) \in T)
  BY <1>1, WithoutCount
<1>3. ToSet(s) = {Head(s)} \cup ToSet(Tail(s))
  BY TakeNext
<1>4. HowMany(Tail(s), T) = InList(Tail(s)) /\ HowMany(s, T) = InList(s)
  BY <1>3, ListOfPings
<1>5. Head(s) \in T <=> IsPing(Head(s))
  BY <1>3
<1> QED
  BY <1>2, <1>4, <1>5 DEF One

\* No pings, one, and two.
LEMMA PingsOfFew ==
    /\ Cardinality({e \in {} : IsPing(e)}) = 0
    /\ \A a : Cardinality({e \in {a} : IsPing(e)}) = One(IsPing(a))
    /\ \A a, b : a # b /\ IsPing(a) /\ IsPing(b) => Cardinality({e \in {a, b} : IsPing(e)}) = 2
<1>1. {e \in {} : IsPing(e)} = {}
  OBVIOUS
<1>2. ASSUME NEW a PROVE Cardinality({e \in {a} : IsPing(e)}) = One(IsPing(a))
  <2>1. CASE IsPing(a)
    <3>1. {e \in {a} : IsPing(e)} = {a}
      BY <2>1
    <3> QED
      BY <2>1, <3>1, FS_Singleton DEF One
  <2>2. CASE ~IsPing(a)
    <3>1. {e \in {a} : IsPing(e)} = {}
      BY <2>2
    <3> QED
      BY <2>2, <3>1, FS_EmptySet DEF One
  <2> QED
    BY <2>1, <2>2
<1>3. ASSUME NEW a, NEW b, a # b, IsPing(a), IsPing(b)
      PROVE  Cardinality({e \in {a, b} : IsPing(e)}) = 2
  <2>1. {e \in {a, b} : IsPing(e)} = {a} \cup {b} /\ b \notin {a}
    BY <1>3
  <2>2. IsFiniteSet({a}) /\ Cardinality({a}) = 1
    BY FS_Singleton
  <2>3. Cardinality({a} \cup {b}) = Cardinality({a}) + 1
    BY <2>1, <2>2, Counting
  <2> QED
    BY <2>1, <2>2, <2>3
<1> QED
  BY <1>1, <1>2, <1>3, FS_EmptySet

Lined(qs, m) ==
    {w \in Link \X (1 .. m) :
        w[2] \in DOMAIN qs[w[1]].queue /\ qs[w[1]].queue[w[2]].id = "ping"}
OnlyAt(rs, qs, l) == \A k \in Link : k # l => rs[k].queue = qs[k].queue

LEMMA LinesFinite ==
    ASSUME NEW m \in Nat, NEW qs
    PROVE  IsFiniteSet(Lined(qs, m)) /\ Cardinality(Lined(qs, m)) \in Nat
<1>1. IsFiniteSet(Node \X Node)
  BY NodesAssumption, FS_Product
<1>2. Link \subseteq Node \X Node
  BY DEF Link
<1>3. IsFiniteSet(Link)
  BY <1>1, <1>2, FS_Subset
<1>4. IsFiniteSet(1 .. m)
  BY FS_Interval
<1>5. IsFiniteSet(Link \X (1 .. m))
  BY <1>3, <1>4, FS_Product
<1>6. Lined(qs, m) \subseteq Link \X (1 .. m)
  BY DEF Lined
<1> QED
  BY <1>5, <1>6, FS_Subset, FS_CardinalityType

LEMMA LinesSame ==
    ASSUME NEW m, NEW qs, NEW rs, \A k \in Link : rs[k].queue = qs[k].queue
    PROVE  Lined(rs, m) = Lined(qs, m)
<1>1. \A w \in Link \X (1 .. m) : rs[w[1]].queue = qs[w[1]].queue
  OBVIOUS
<1> QED
  BY <1>1 DEF Lined

LEMMA LinesAppend ==
    ASSUME NEW m \in Nat, NEW qs, NEW rs, NEW l \in Link, OnlyAt(rs, qs, l),
           NEW S, qs[l].queue \in Seq(S), NEW p \in S, rs[l].queue = Append(qs[l].queue, p),
           Len(rs[l].queue) =< m
    PROVE  Cardinality(Lined(rs, m)) = Cardinality(Lined(qs, m)) + One(p.id = "ping")
<1> DEFINE q == qs[l].queue
           r == rs[l].queue
           k == Len(q) + 1
           new == <<l, k>>
<1>1. /\ q \in Seq(S) /\ DOMAIN q = 1 .. Len(q) /\ DOMAIN r = 1 .. k /\ r[k] = p /\ Len(q) \in Nat
      /\ k \in Nat /\ k >= 1 /\ k =< m /\ \A i \in 1 .. Len(q) : r[i] = q[i]
  OBVIOUS
<1> HIDE DEF q, r, k
<1>2. new \notin Lined(qs, m)
  BY <1>1 DEF Lined, q, k
<1>3. ASSUME NEW w \in Link \X (1 .. m)
      PROVE  w \in Lined(rs, m) <=> w \in Lined(qs, m) \/ (w = new /\ p.id = "ping")
  <2>1. w = <<w[1], w[2]>> /\ w[1] \in Link /\ w[2] \in 1 .. m
    BY <1>3
  <2>2. CASE w[1] # l
    <3>1. rs[w[1]].queue = qs[w[1]].queue /\ w # new
      BY <2>1, <2>2 DEF OnlyAt
    <3> QED
      BY <1>3, <3>1 DEF Lined
  <2>3. CASE w[1] = l
    <3> DEFINE i == w[2]
    <3>1. w \in Lined(rs, m) <=> i \in DOMAIN r /\ r[i].id = "ping"
      BY <1>3, <2>3 DEF Lined, r
    <3>2. w \in Lined(qs, m) <=> i \in DOMAIN q /\ q[i].id = "ping"
      BY <1>3, <2>3 DEF Lined, q
    <3>3. w = new <=> i = k
      BY <2>1, <2>3
    <3>4. i \in 1 .. k <=> i \in 1 .. Len(q) \/ i = k
      BY <1>1, <2>1 DEF k
    <3> HIDE DEF i, new
    <3> QED
      BY <1>1, <3>1, <3>2, <3>3, <3>4
  <2> QED
    BY <2>2, <2>3
<1>4. new \in Link \X (1 .. m)
  BY <1>1
<1>5. \A s : Lined(s, m) \subseteq Link \X (1 .. m)
  BY DEF Lined
<1>6. IsFiniteSet(Lined(qs, m)) /\ Cardinality(Lined(qs, m)) \in Nat
  BY LinesFinite
<1> HIDE DEF new
<1>7. CASE p.id = "ping"
  <2>1. Lined(rs, m) = Lined(qs, m) \cup {new}
    BY <1>3, <1>4, <1>5, <1>7
  <2> QED
    BY <1>2, <1>6, <1>7, <2>1, Counting DEF One
<1>8. CASE p.id # "ping"
  <2>1. Lined(rs, m) = Lined(qs, m)
    BY <1>3, <1>5, <1>8
  <2> QED
    BY <1>6, <1>8, <2>1 DEF One
<1> QED
  BY <1>7, <1>8

LEMMA LinesTail ==
    ASSUME NEW m \in Nat, NEW qs, NEW rs, NEW l \in Link, OnlyAt(rs, qs, l),
           NEW S, qs[l].queue \in Seq(S), qs[l].queue # <<>>, rs[l].queue = Tail(qs[l].queue),
           Len(qs[l].queue) =< m
    PROVE  Cardinality(Lined(qs, m))
              = Cardinality(Lined(rs, m)) + One(Head(qs[l].queue).id = "ping")
<1> DEFINE q == qs[l].queue
           r == rs[l].queue
           k == Len(q)
           first == <<l, 1>>
           I == Lined(qs, m)
           J == Lined(rs, m)
           f == [w \in J |-> IF w[1] = l THEN <<l, w[2] + 1>> ELSE w]
<1>1. /\ q \in Seq(S) /\ DOMAIN q = 1 .. k /\ k \in Nat /\ k >= 1 /\ k =< m
      /\ Len(r) = k - 1 /\ DOMAIN r = 1 .. k - 1 /\ Head(q) = q[1]
      /\ \A i \in 1 .. k - 1 : r[i] = q[i + 1]
  OBVIOUS
<1>2. ASSUME NEW w \in Link \X (1 .. m)
      PROVE  /\ w = <<w[1], w[2]>> /\ w[1] \in Link /\ w[2] \in 1 .. m
             /\ w[1] = l => /\ w \in I <=> w[2] \in DOMAIN q /\ q[w[2]].id = "ping"
                            /\ w \in J <=> w[2] \in DOMAIN r /\ r[w[2]].id = "ping"
             /\ w[1] # l => (w \in I <=> w \in J)
  <2>1. w = <<w[1], w[2]>> /\ w[1] \in Link /\ w[2] \in 1 .. m
    BY <1>2
  <2>2. CASE w[1] = l
    BY <1>2, <2>1, <2>2 DEF Lined
  <2>3. CASE w[1] # l
    <3>1. rs[w[1]].queue = qs[w[1]].queue
      BY <2>1, <2>3 DEF OnlyAt
    <3> QED
      BY <1>2, <2>1, <2>3, <3>1 DEF Lined
  <2> QED
    BY <2>1, <2>2, <2>3
<1>3. I \subseteq Link \X (1 .. m) /\ J \subseteq Link \X (1 .. m)
  BY DEF Lined
<1>4. /\ IsFiniteSet(I) /\ Cardinality(I) \in Nat
      /\ IsFiniteSet(J) /\ Cardinality(J) \in Nat
  BY LinesFinite
<1>5. first \in I <=> Head(q).id = "ping"
  <2>1. first \in Link \X (1 .. m) /\ first[1] = l /\ first[2] = 1 /\ 1 \in 1 .. k
    BY <1>1
  <2> HIDE DEF first, I, J, q, r, k
  <2> QED
    BY <1>1, <1>2, <2>1
<1> HIDE DEF q, r, k, I, J
<1>6. ASSUME NEW w \in J PROVE f[w] \in I \ {first}
  <2>1. /\ w \in Link \X (1 .. m) /\ w = <<w[1], w[2]>> /\ w[1] \in Link /\ w[2] \in 1 .. m
    BY <1>2, <1>3
  <2>2. CASE w[1] = l
    <3>1. w[2] \in 1 .. k - 1 /\ r[w[2]].id = "ping"
      BY <1>1, <1>2, <2>1, <2>2
    <3> DEFINE v == <<l, w[2] + 1>>
    <3>2. v \in Link \X (1 .. m) /\ v[1] = l /\ v[2] = w[2] + 1 /\ v[2] \in 1 .. k /\ v # first
      BY <1>1, <3>1
    <3>3. q[v[2]].id = "ping"
      BY <1>1, <3>1, <3>2
    <3>4. f[w] = v
      BY <2>2
    <3> HIDE DEF v, first, f
    <3> QED
      BY <1>1, <1>2, <3>2, <3>3, <3>4
  <2>3. CASE w[1] # l
    <3>1. f[w] = w /\ w # first
      BY <2>3
    <3> QED
      BY <1>2, <2>1, <2>3, <3>1
  <2> QED
    BY <2>2, <2>3
<1>7. ASSUME NEW v \in J, NEW w \in J, f[v] = f[w] PROVE v = w
  <2>1. /\ v = <<v[1], v[2]>> /\ v[2] \in 1 .. m
        /\ w = <<w[1], w[2]>> /\ w[2] \in 1 .. m
    BY <1>2, <1>3
  <2>2. CASE v[1] = l /\ w[1] = l
    <3>1. f[v] = <<l, v[2] + 1>> /\ f[w] = <<l, w[2] + 1>>
      BY <2>2
    <3>2. v[2] + 1 = w[2] + 1
      BY <1>7, <3>1
    <3> QED
      BY <2>1, <2>2, <3>2
  <2>3. CASE v[1] = l /\ w[1] # l
    BY <1>7, <2>3
  <2>4. CASE v[1] # l /\ w[1] = l
    BY <1>7, <2>4
  <2>5. CASE v[1] # l /\ w[1] # l
    BY <1>7, <2>5
  <2> QED
    BY <2>2, <2>3, <2>4, <2>5
<1>8. ASSUME NEW v \in I \ {first} PROVE \E w \in J : f[w] = v
  <2>1. /\ v \in Link \X (1 .. m) /\ v = <<v[1], v[2]>> /\ v[1] \in Link /\ v[2] \in 1 .. m
    BY <1>2, <1>3
  <2>2. CASE v[1] = l
    <3> DEFINE w == <<l, v[2] - 1>>
    <3>1. v[2] \in 1 .. k /\ q[v[2]].id = "ping" /\ v[2] # 1
      BY <1>1, <1>2, <2>1, <2>2
    <3>2. w \in Link \X (1 .. m) /\ w[1] = l /\ w[2] = v[2] - 1 /\ w[2] \in 1 .. k - 1 /\ w[2] + 1 = v[2]
      BY <1>1, <2>1, <3>1
    <3>3. r[w[2]].id = "ping"
      BY <1>1, <3>1, <3>2
    <3>4. w \in J
      <4> HIDE DEF w
      <4> QED
        BY <1>1, <1>2, <3>2, <3>3
    <3>5. f[w] = <<l, w[2] + 1>>
      BY <3>4
    <3> QED
      BY <2>1, <2>2, <3>2, <3>4, <3>5
  <2>3. CASE v[1] # l
    <3>1. v \in J
      BY <1>2, <2>1, <2>3
    <3> QED
      BY <2>3, <3>1
  <2> QED
    BY <2>2, <2>3
<1>9. f \in [J -> I \ {first}]
  BY <1>6
<1> HIDE DEF f, first
<1>10. ExistsBijection(J, I \ {first})
  <2>1. f \in Injection(J, I \ {first})
    BY <1>7, <1>9 DEF Injection, IsInjective
  <2>2. f \in Surjection(J, I \ {first})
    BY <1>8, <1>9 DEF Surjection
  <2> QED
    BY <2>1, <2>2 DEF ExistsBijection, Bijection
<1>11. Cardinality(I \ {first}) = Cardinality(J)
  BY <1>4, <1>10, FS_Bijection
<1>12. Cardinality(I \ {first}) = IF first \in I THEN Cardinality(I) - 1 ELSE Cardinality(I)
  BY <1>4, FS_RemoveElement
<1>13. Cardinality(I) = Cardinality(J) + One(Head(q).id = "ping")
  BY <1>4, <1>5, <1>11, <1>12 DEF One
<1> QED
  BY <1>13 DEF I, J, q

----------------------------------------------------------------------------
(***************************************************************************)
(* Where pings go to, and how many there are.                              *)
(***************************************************************************)
ToNodes == Range(par.pingDest) \subseteq Node
DestInv ==
    ToNodes /\ ~aborted =>
        \A x \in Carried : x[2].id = "ping" /\ x[1][1] # "appl" => x[2].destNode \in Node
InQueues == Cardinality(Lined(queue, par.maxQueueLength))
CountInv == ToNodes => Total(ping) = InList(fes) + InQueues + lost.ping
PingsIn(E) == {e \in E : IsPing(e)}

LEMMA KeepsDest ==
    ASSUME DestInv, ~aborted, par' = par, NEW old, NEW new, Moves(old, new),
           \A x \in new : ToNodes /\ x[2].id = "ping" /\ x[1][1] # "appl" => x[2].destNode \in Node
    PROVE  DestInv'
BY DEF DestInv, Moves, ToNodes

\* No queue changes.
LEMMA CountKept ==
    ASSUME SimInv, CountInv, NEW kind, Arrives(kind), NEW E, NEW N, Gains(fes', Tail(fes), E, N),
           par' = par, queue' = queue, lost'.ping = lost.ping, lost.ping \in Nat,
           Total(ping) \in Int,
           Total(ping') = Total(ping) - One(IsPing(Head(fes))) + Cardinality(PingsIn(E))
    PROVE  CountInv'
<1>1. IsList(fes) /\ fes # <<>>
  BY HandledList
<1>2. InList(fes) = InList(Tail(fes)) + One(IsPing(Head(fes))) /\ InList(Tail(fes)) \in Nat
  BY <1>1, ListHead
<1>3. InList(fes') = InList(Tail(fes)) + Cardinality(PingsIn(E))
  BY ListGains DEF PingsIn
<1>4. IsFiniteSet(E) /\ PingsIn(E) \subseteq E
  BY DEF Gains, PingsIn
<1>5. Cardinality(PingsIn(E)) \in Nat /\ One(IsPing(Head(fes))) \in Nat
  BY <1>4, FS_Subset, FS_CardinalityType DEF One
<1>6. InQueues' = InQueues
  BY DEF InQueues
<1>7. InQueues \in Nat
  <2>1. par.maxQueueLength \in Nat
    BY SenderNumbers, ParametersType
  <2> QED
    BY <2>1, LinesFinite DEF InQueues
<1>8. ToNodes' => ToNodes
  BY DEF ToNodes
<1>9. ASSUME ToNodes PROVE Total(ping') = InList(fes') + InQueues + lost.ping
  BY <1>2, <1>3, <1>5, <1>7, <1>9 DEF CountInv
<1> QED
  BY <1>6, <1>8, <1>9 DEF CountInv

LEMMA TotalType ==
    ASSUME SimInv
    PROVE  /\ Total(ping) \in Int /\ \A n \in Node : Open(ping, n) \in Int
           /\ ping \in [Node -> PingType]
<1>1. ping \in [Node -> PingType]
  BY DEF SimInv, NodesOK
<1>2. \A n \in Node : Open(ping, n) \in Int
  BY <1>1 DEF Open, PingType
<1>3. Source \in Node
  BY SimulationAssumption
<1> QED
  BY <1>1, <1>2, <1>3, TotalChanges

\* A step that has nothing to do with pings.
LEMMA NoPings ==
    ASSUME SimInv, CountInv, DestInv, CountedLost, NEW kind, Arrives(kind), NEW E, NEW N,
           Gains(fes', Tail(fes), E, N), \A e \in E : e.msg.id # "ping" /\ Carries(e),
           ~IsPing(Head(fes)), par' = par, queue' = queue, lost' = lost, ping' = ping
    PROVE  CountInv' /\ DestInv'
<1>1. PingsIn(E) = {}
  BY DEF PingsIn, IsPing
<1>2. Cardinality(PingsIn(E)) = 0 /\ One(IsPing(Head(fes))) = 0
  BY <1>1, FS_EmptySet DEF One
<1>3. lost.ping \in Nat
  BY DEF CountedLost
<1>4. Total(ping) \in Int
  BY TotalType
<1>5. CountInv'
  BY <1>2, <1>3, <1>4, CountKept
<1>6. Moves({<<Head(fes).to, Head(fes).msg>>}, Packets(E))
  BY ListMoves DEF Gains
<1>7. \A x \in Packets(E) : x[2].id # "ping"
  BY DEF Packets
<1>8. ~aborted
  BY Handled
<1> QED
  BY <1>5, <1>6, <1>7, <1>8, KeepsDest

LEMMA SendsNoPings ==
    ASSUME SimInv, CountInv, DestInv, CountedLost, NEW kind, Arrives(kind),
           NEW id, id # "ping", Sends(id), ~IsPing(Head(fes)), ping' = ping
    PROVE  CountInv' /\ DestInv'
<1>1. PICK E, N : /\ Gains(fes', Tail(fes), E, N)
                  /\ \A e \in E : Fresh(id, e)
  BY DEF Sends
<1>2. \A e \in E : e.msg.id # "ping" /\ Carries(e)
  BY <1>1, FreshCarries DEF Fresh
<1>3. UNCHANGED <<par, queue, lost>>
  BY DEF Sends, Network
<1> QED
  BY <1>1, <1>2, <1>3, NoPings

LEMMA SenderPings ==
    ASSUME SimInv, PacketInv, CountInv, DestInv, CountedLost,
           SendNext \/ Expire \/ ReceiveAck \/ ReceiveData
    PROVE  CountInv' /\ DestInv'
<1>1. CASE SendNext
  <2>1. Arrives("timer0") /\ ping' = ping
    BY <1>1 DEF SendNext, SenderStep
  <2>2. ~IsPing(Head(fes))
    BY <2>1, Handled DEF IsPing, Carries
  <2> QED
    BY <1>1, <2>1, <2>2, SendNextSends, SendsNoPings
<1>2. CASE Expire
  <2>1. Arrives("timer1") /\ ping' = ping
    BY <1>2 DEF Expire, SenderStep
  <2>2. ~IsPing(Head(fes))
    BY <2>1, Handled DEF IsPing, Carries
  <2> QED
    BY <1>2, <2>1, <2>2, ExpireSends, SendsNoPings
<1>3. CASE ReceiveAck
  <2>1. Arrives("appl") /\ ping' = ping
    BY <1>3 DEF ReceiveAck, SenderStep, Rejected, Acknowledged
  <2>2. ~IsPing(Head(fes))
    BY <1>3, AckHead DEF IsPing
  <2> QED
    BY <1>3, <2>1, <2>2, AckSends, SendsNoPings
<1>4. CASE ReceiveData
  <2>1. Arrives("appl") /\ ping' = ping /\ Head(fes).to = <<"appl", Sink, GoBackNReceiver>>
    BY <1>4 DEF ReceiveData
  <2>2. ~IsPing(Head(fes))
    BY <2>1, TransferPacket DEF IsPing
  <2> QED
    BY <1>4, <2>1, <2>2, DataSends, SendsNoPings
<1> QED
  BY <1>1, <1>2, <1>3, <1>4

LEMMA DaemonPings ==
    ASSUME SimInv, PacketInv, CountInv, DestInv, CountedLost, DaemonHandles
    PROVE  CountInv' /\ DestInv'
<1>1. /\ Arrives("appl") /\ Gains(fes', Tail(fes), {}, {}) /\ Head(fes).to[3] = RoutingDaemon
      /\ UNCHANGED <<queue, par, ping, lost>>
  BY DaemonAdds
<1>2. ~IsPing(Head(fes))
  BY <1>1, TransferPacket DEF IsPing, Notice, NetworkPacket
<1> DEFINE E == {}
           N == {}
<1>3. Gains(fes', Tail(fes), E, N) /\ \A e \in E : e.msg.id # "ping" /\ Carries(e)
  BY <1>1
<1> HIDE DEF E, N
<1> QED
  BY <1>1, <1>2, <1>3, NoPings

LEMMA ConParPings ==
    ASSUME SimInv, CountInv, DestInv, NEW l \in Link, NEW value, ConPar(l, value)
    PROVE  CountInv' /\ DestInv'
<1> DEFINE e == LinkChanged(now, l[1])
<1>1. Gains(fes', fes, {e}, {}) /\ e.msg = Notice
  BY ConParGains
<1>2. Moves({}, {<<e.to, e.msg>>}) /\ ~aborted
  BY ConParMoves
<1>3. UNCHANGED <<par, queue, lost, ping>>
  BY DEF ConPar
<1> HIDE DEF e
<1>4. e.msg.id # "ping" /\ ~IsPing(e)
  BY <1>1 DEF Notice, NetworkPacket, IsPing
<1>5. DestInv'
  <2> DEFINE new == {<<e.to, e.msg>>}
             old == {}
  <2>1. Moves(old, new) /\ \A x \in new : x[2].id # "ping"
    BY <1>2, <1>4
  <2> HIDE DEF old, new
  <2> QED
    BY <1>2, <1>3, <2>1, KeepsDest
<1>6. InList(fes') = InList(fes)
  BY <1>1, <1>4, ListGains, PingsOfFew DEF One
<1>7. CountInv'
  BY <1>3, <1>6 DEF CountInv, ToNodes, InQueues
<1> QED
  BY <1>5, <1>7

\* A stack passes on the message it handles: a ping stays one.
LEMMA StackOne ==
    ASSUME SimInv, RouteInv, PacketInv, TravelInv, TimeToLive(par), DestInv, ToNodes, StackHandles
    PROVE  \E e : /\ Gains(fes', Tail(fes), {e}, {}) /\ Carries(e)
                  /\ e.msg.id = Head(fes).msg.id
                  /\ e.msg.id = "ping" /\ e.to[1] # "appl" => e.msg.destNode \in Node
<1> DEFINE h == Head(fes)
           n == h.to[2]
           sent == {PassedOn(o) : o \in ToSet(StackOut)}
<1>1. Arrives("stack") /\ ~aborted /\ fes # <<>> /\ h.to[1] = "stack"
  BY ZenonT(30) DEF StackHandles, Arrives
<1>2. PacketOK(h.to, h.msg) /\ <<h.to, h.msg>> \in Carried
  BY <1>1, HeadPacket
<1>3. CASE h.to[3] = Local
  <2>1. h.msg = Notice /\ n \in Node
    BY <1>1, <1>2, <1>3, StackAdds DEF PacketOK
  <2>2. Notice.id # "ping"
    BY DEF Notice, NetworkPacket
  <2>3. \E o : StackOut = <<o>>
    BY <1>3, <2>1, NoticeDelivered DEF StackOut
  <2>4. PICK o : StackOut = <<o>>
    BY <2>3
  <2>5. Gains(fes', Tail(fes), {PassedOn(o)}, {})
    BY <2>4, StackAdds
  <2>6. PassedOn(o) \in sent /\ o \in ToSet(StackOut)
    BY <2>4, OneInSet
  <2>7. Carries(PassedOn(o))
    BY <2>6, StackAdds
  <2>8. StackHead
    BY StackMoves
  <2>9. \A u \in ToSet(StackOut) : u.to = <<"appl", n, RoutingDaemon>> /\ u.msg = Notice
    BY <1>3, <2>8, ZenonT(30) DEF StackHead
  <2>10. o.msg = Notice /\ PassedOn(o).msg = o.msg
    BY <2>6, <2>9 DEF PassedOn, Event
  <2> DEFINE e == PassedOn(o)
  <2> HIDE DEF e, sent
  <2>11. e.msg = h.msg /\ Gains(fes', Tail(fes), {e}, {}) /\ Carries(e)
    BY <2>1, <2>5, <2>7, <2>10 DEF e
  <2>12. e.msg.id # "ping"
    BY <2>1, <2>2, <2>11
  <2> QED
    BY <2>11, <2>12
<1>4. CASE h.to[3] # Local
  <2>1. Meant(h.msg)
    BY <1>1, <1>2, <1>4 DEF PacketOK
  <2>2. h.msg.destNode \in Node
    <3> DEFINE x == <<h.to, h.msg>>
    <3>1. x[1] = h.to /\ x[2] = h.msg
      OBVIOUS
    <3> HIDE DEF x
    <3>2. h.msg.id = "ping" => h.msg.destNode \in Node
      BY <1>1, <1>2, <3>1 DEF DestInv, x
    <3> QED
      BY <2>1, <3>2, SimulationAssumption DEF Meant
  <2>3. PICK e : Passes(e)
    BY <1>4, <2>2, StackPassesOn
  <2>4. /\ Gains(fes', Tail(fes), {e}, {}) /\ Carries(e) /\ e.msg.id = h.msg.id
        /\ e.to[1] = "appl" \/ e.msg.destNode = h.msg.destNode
    BY <2>3, ZenonT(30) DEF Passes
  <2> QED
    BY <2>2, <2>4
<1> QED
  BY <1>3, <1>4, ZenonT(30)

LEMMA StackPings ==
    ASSUME SimInv, RouteInv, PacketInv, TravelInv, TimeToLive(par), CountedLost, DestInv, CountInv,
           StackHandles
    PROVE  CountInv' /\ DestInv'
<1>1. /\ Arrives("stack") /\ UNCHANGED <<par, queue, lost, ping>> /\ ~aborted /\ Head(fes).to[1] = "stack"
  BY ZenonT(30) DEF StackHandles, Network, Arrives
<1>2. CASE ~ToNodes
  BY <1>1, <1>2 DEF CountInv, DestInv, ToNodes
<1>3. CASE ToNodes
  <2>1. PICK e : /\ Gains(fes', Tail(fes), {e}, {}) /\ Carries(e)
                 /\ e.msg.id = Head(fes).msg.id
                 /\ e.msg.id = "ping" /\ e.to[1] # "appl" => e.msg.destNode \in Node
    BY <1>3, StackOne
  <2>2. One(IsPing(e)) = One(IsPing(Head(fes)))
    BY <1>1, <2>1 DEF IsPing, Carries
  <2>3. Cardinality(PingsIn({e})) = One(IsPing(Head(fes)))
    BY <2>2, PingsOfFew DEF PingsIn
  <2>4. lost.ping \in Nat
    BY DEF CountedLost
  <2>5. Total(ping) \in Int
    BY TotalType
  <2> DEFINE E == {e}
             N == {}
  <2>6. Gains(fes', Tail(fes), E, N) /\ Cardinality(PingsIn(E)) = One(IsPing(Head(fes)))
        /\ \A f \in E : Carries(f)
    BY <2>1, <2>3
  <2>7. \A x \in Packets(E) : x[2].id = "ping" /\ x[1][1] # "appl" => x[2].destNode \in Node
    BY <2>1 DEF Packets
  <2> HIDE DEF E, N
  <2>8. Total(ping') = Total(ping) - One(IsPing(Head(fes))) + Cardinality(PingsIn(E))
    <3>1. One(IsPing(Head(fes))) \in Int
      BY DEF One
    <3>2. Total(ping') = Total(ping)
      BY <1>1
    <3> QED
      BY <2>5, <2>6, <3>1, <3>2
  <2>9. CountInv'
    BY <1>1, <2>4, <2>5, <2>6, <2>8, CountKept
  <2>10. Moves({<<Head(fes).to, Head(fes).msg>>}, Packets(E))
    BY <1>1, <2>6, ListMoves DEF Gains
  <2> QED
    BY <1>1, <2>7, <2>9, <2>10, KeepsDest
<1> QED
  BY <1>2, <1>3

\* The queues: what changes in the list, in them, and among the pings that are lost.
LEMMA QueuesCount ==
    ASSUME SimInv, CountInv, ToNodes, NEW kind, Arrives(kind), par' = par, ping' = ping,
           NEW a \in Nat, NEW b \in Nat, NEW c \in Nat, NEW d \in Nat, lost.ping \in Nat,
           InList(fes') = InList(Tail(fes)) + a,
           InQueues' + b = InQueues + c, lost'.ping = lost.ping + d,
           One(IsPing(Head(fes))) + b = a + c + d
    PROVE  CountInv'
<1>1. IsList(fes) /\ fes # <<>>
  BY HandledList
<1>2. InList(fes) = InList(Tail(fes)) + One(IsPing(Head(fes))) /\ InList(Tail(fes)) \in Nat
  BY <1>1, ListHead
<1>3. par.maxQueueLength \in Nat
  BY SenderNumbers, ParametersType
<1>4. InQueues \in Nat /\ InQueues' \in Nat
  BY <1>3, LinesFinite DEF InQueues
<1>5. Total(ping) \in Int /\ Total(ping') = Total(ping)
  BY TotalType
<1>6. One(IsPing(Head(fes))) \in Nat
  BY DEF One
<1>7. Total(ping) = InList(fes) + InQueues + lost.ping
  BY DEF CountInv
<1>8. Total(ping') = InList(fes') + InQueues' + lost'.ping
  <2> DEFINE i == InList(Tail(fes))
             o == One(IsPing(Head(fes)))
             q == InQueues
             q1 == InQueues'
             k == lost.ping
  <2>2. i \in Nat /\ o \in Nat /\ q \in Nat /\ q1 \in Nat /\ k \in Nat
        /\ q1 + b = q + c /\ o + b = a + c + d
    BY <1>2, <1>4, <1>6
  <2> HIDE DEF i, o, q, q1, k
  <2>3. (i + o) + q + k = (i + a) + q1 + (k + d)
    BY <2>2
  <2>1. (InList(Tail(fes)) + One(IsPing(Head(fes)))) + InQueues + lost.ping
          = (InList(Tail(fes)) + a) + InQueues' + (lost.ping + d)
    BY <2>3 DEF i, o, q, q1, k
  <2> QED
    BY <1>2, <1>5, <1>7, <2>1
<1> QED
  BY <1>8 DEF CountInv

\* A link sends a message: it arrives at the other end.
LEMMA ArrivalPings ==
    ASSUME SimInv, CountedLost, NEW l \in Link, NEW t, NEW m \in Message, NEW b \in BOOLEAN, NEW N,
           Gains(fes', Tail(fes), {Arrival(l, t, m, b)}, N),
           lost' = IF b /\ m.id # "ping" THEN Count(m) ELSE lost
    PROVE  /\ InList(fes') = InList(Tail(fes)) + One(m.id = "ping")
           /\ lost'.ping = lost.ping /\ lost.ping \in Nat
<1> DEFINE e == Arrival(l, t, m, b)
           E == {e}
<1>1. e.msg = Damaged(m, b) /\ Carries(e)
  BY ArrivalFields
<1>2. Damaged(m, b).id = m.id
  BY DamagedFields
<1> HIDE DEF e
<1>3. IsPing(e) <=> m.id = "ping"
  BY <1>1, <1>2 DEF IsPing
<1>4. Cardinality({f \in {e} : IsPing(f)}) = One(m.id = "ping")
  BY <1>3, PingsOfFew DEF One
<1>5. Gains(fes', Tail(fes), {e}, N)
  BY DEF e
<1>6. InList(fes') = InList(Tail(fes)) + Cardinality({f \in {e} : IsPing(f)})
  BY <1>5, ListGains
<1>7. lost'.ping = lost.ping /\ lost.ping \in Nat
  <2>1. m.id # "ping" => Count(m).ping = lost.ping + 0
    BY CountGrows DEF One
  <2>2. lost.ping \in Nat
    BY DEF CountedLost
  <2> QED
    BY <2>1, <2>2
<1> QED
  BY <1>4, <1>6, <1>7

LEMMA QueueLengths ==
    ASSUME SimInv, NEW l \in Link
    PROVE  /\ queue[l].queue \in Seq(Message) /\ Len(queue[l].queue) =< par.maxQueueLength
           /\ par.maxQueueLength \in Nat
<1>1. par.maxQueueLength \in Nat
  BY SenderNumbers, ParametersType
<1> QED
  BY <1>1 DEF SimInv, LinksOK, QueueType

LEMMA MessagePings ==
    ASSUME SimInv, SimInv', CountedLost, CountInv, ToNodes, QueueMessage
    PROVE  CountInv'
<1> DEFINE h == Head(fes)
           t == h.time
           m == h.msg
<1>1. PICK l \in Link :
           LET u == t + duration[l][m.id]  q == queue[l].queue IN
           /\ h.to = <<"queue", l[1], l[2]>> /\ m \in Message
           /\ \A k \in Link : k # l => queue'[k].queue = queue[k].queue
           /\ \/ /\ q = <<>> /\ queue'[l].queue = <<>> /\ finishes[l] =< t
                 /\ \E b \in BOOLEAN :
                       /\ Gains(fes', Tail(fes), {Arrival(l, t, m, b)}, {TimeoutEvent(u, l)})
                       /\ lost' = IF b /\ m.id # "ping" THEN Count(m) ELSE lost
              \/ /\ queue'[l].queue = Append(q, m)
                 /\ fes' = Tail(fes) /\ lost' = lost
              \/ /\ queue'[l].queue = q
                 /\ fes' = Tail(fes) /\ lost' = Count(m)
  BY QueueMessageMoves
<1> DEFINE q == queue[l].queue
           isping == One(m.id = "ping")
           M == par.maxQueueLength
<1>2. Arrives("queue") /\ par' = par /\ ping' = ping
  BY DEF QueueMessage, QueueStep
<1>3. isping \in Nat /\ 0 \in Nat
  BY DEF One
<1>4. One(IsPing(h)) = isping
  BY <1>1 DEF IsPing, Carries
<1>5. InList(Tail(fes)) \in Nat /\ lost.ping \in Nat
  <2>1. IsList(fes) /\ fes # <<>>
    BY <1>2, HandledList
  <2> QED
    BY <2>1, ListHead DEF CountedLost
<1>6. InQueues \in Nat /\ M \in Nat
  BY <1>2, LinesFinite, QueueLengths DEF InQueues
<1>7. Len(queue'[l].queue) =< M /\ q \in Seq(Message)
  <2>1. Len(queue'[l].queue) =< par'.maxQueueLength
    BY DEF SimInv, LinksOK
  <2> QED
    BY <1>2, <2>1, QueueLengths
<1>8. OnlyAt(queue', queue, l)
  BY <1>1 DEF OnlyAt
<1> HIDE DEF isping, h, t, m, M, q
<1>9. CASE q = <<>> /\ queue'[l].queue = <<>>
           /\ \E b \in BOOLEAN :
                  /\ Gains(fes', Tail(fes), {Arrival(l, t, m, b)},
                           {TimeoutEvent(t + duration[l][m.id], l)})
                  /\ lost' = IF b /\ m.id # "ping" THEN Count(m) ELSE lost
  <2>1. InList(fes') = InList(Tail(fes)) + isping /\ lost'.ping = lost.ping
    BY <1>1, <1>9, ArrivalPings DEF isping, m
  <2>2. \A k \in Link : queue'[k].queue = queue[k].queue
    BY <1>1, <1>9 DEF q
  <2>3. InQueues' = InQueues
    BY <1>2, <2>2, LinesSame DEF InQueues
  <2>4. lost'.ping = lost.ping + 0 /\ InQueues' + 0 = InQueues + 0 /\ isping + 0 = isping + 0 + 0
    BY <1>3, <1>5, <1>6, <2>1, <2>3
  <2> QED
    BY <1>2, <1>3, <1>4, <1>5, <2>1, <2>4, QueuesCount DEF h
<1>10. CASE queue'[l].queue = Append(q, m) /\ fes' = Tail(fes) /\ lost' = lost
  <2>1. InQueues' = InQueues + isping
    BY <1>1, <1>2, <1>6, <1>7, <1>8, <1>10, LinesAppend DEF InQueues, isping, M, q, m
  <2>2. InList(fes') = InList(Tail(fes)) + 0 /\ lost'.ping = lost.ping + 0
        /\ InQueues' + 0 = InQueues + isping /\ isping + 0 = 0 + isping + 0
    BY <1>3, <1>5, <1>6, <1>10, <2>1
  <2> QED
    BY <1>2, <1>3, <1>4, <1>5, <2>2, QueuesCount DEF h
<1>11. CASE queue'[l].queue = q /\ fes' = Tail(fes) /\ lost' = Count(m)
  <2>1. lost'.ping = lost.ping + isping
    BY <1>1, <1>11, CountGrows DEF m, isping
  <2>2. \A k \in Link : queue'[k].queue = queue[k].queue
    BY <1>1, <1>11 DEF q
  <2>3. InQueues' = InQueues
    BY <1>2, <2>2, LinesSame DEF InQueues
  <2>4. InList(fes') = InList(Tail(fes)) + 0
        /\ InQueues' + 0 = InQueues + 0 /\ isping + 0 = 0 + 0 + isping
    BY <1>3, <1>5, <1>6, <1>11, <2>3
  <2> QED
    BY <1>2, <1>3, <1>4, <1>5, <2>1, <2>4, QueuesCount DEF h
<1> QED
  BY <1>1, <1>9, <1>10, <1>11 DEF q, m, t

LEMMA TimeoutPings ==
    ASSUME SimInv, CountedLost, CountInv, ToNodes, QueueTimeout
    PROVE  CountInv'
<1> DEFINE h == Head(fes)
           t == h.time
<1>1. PICK l \in Link :
           LET q == queue[l].queue  m == Head(q)  u == t + duration[l][m.id] IN
           /\ \A k \in Link : k # l => queue'[k].queue = queue[k].queue
           /\ \/ /\ q # <<>> /\ q \in Seq(Message) /\ queue'[l].queue = Tail(q) /\ m \in Message
                 /\ \E b \in BOOLEAN :
                       /\ Gains(fes', Tail(fes), {Arrival(l, t, m, b)}, {TimeoutEvent(u, l)})
                       /\ lost' = IF b /\ m.id # "ping" THEN Count(m) ELSE lost
              \/ /\ q = <<>> /\ queue'[l].queue = <<>>
                 /\ fes' = Tail(fes) /\ lost' = lost
  BY QueueTimeoutMoves
<1> DEFINE q == queue[l].queue
           m == Head(q)
           isping == One(m.id = "ping")
           M == par.maxQueueLength
<1>2. Arrives("timeout") /\ par' = par /\ ping' = ping
  BY DEF QueueTimeout, QueueStep
<1>3. isping \in Nat /\ 0 \in Nat
  BY DEF One
<1>4. One(IsPing(h)) = 0
  <2>1. h.to[1] = "timeout"
    BY <1>2 DEF Arrives
  <2> QED
    BY <2>1 DEF IsPing, Carries, One
<1>5. InList(Tail(fes)) \in Nat /\ lost.ping \in Nat
  <2>1. IsList(fes) /\ fes # <<>>
    BY <1>2, HandledList
  <2> QED
    BY <2>1, ListHead DEF CountedLost
<1>6. InQueues \in Nat /\ InQueues' \in Nat /\ M \in Nat
  BY <1>2, LinesFinite, QueueLengths DEF InQueues
<1>7. q \in Seq(Message) /\ Len(q) =< M
  BY QueueLengths
<1>8. OnlyAt(queue', queue, l)
  BY <1>1 DEF OnlyAt
<1> HIDE DEF isping, h, t, m, M, q
<1>9. CASE q # <<>> /\ queue'[l].queue = Tail(q) /\ m \in Message
           /\ \E b \in BOOLEAN :
                  /\ Gains(fes', Tail(fes), {Arrival(l, t, m, b)},
                           {TimeoutEvent(t + duration[l][m.id], l)})
                  /\ lost' = IF b /\ m.id # "ping" THEN Count(m) ELSE lost
  <2>1. InList(fes') = InList(Tail(fes)) + isping /\ lost'.ping = lost.ping
    BY <1>9, ArrivalPings DEF isping
  <2>2. InQueues = InQueues' + isping
    BY <1>2, <1>6, <1>7, <1>8, <1>9, LinesTail DEF InQueues, isping, M, q, m
  <2>3. lost'.ping = lost.ping + 0 /\ InQueues' + isping = InQueues + 0 /\ 0 + isping = isping + 0 + 0
    BY <1>3, <1>5, <1>6, <2>1, <2>2
  <2> QED
    BY <1>2, <1>3, <1>4, <1>5, <2>1, <2>3, QueuesCount DEF h
<1>10. CASE q = <<>> /\ queue'[l].queue = <<>> /\ fes' = Tail(fes) /\ lost' = lost
  <2>1. \A k \in Link : queue'[k].queue = queue[k].queue
    BY <1>1, <1>10 DEF q
  <2>2. InQueues' = InQueues
    BY <1>2, <2>1, LinesSame DEF InQueues
  <2>3. InList(fes') = InList(Tail(fes)) + 0 /\ lost'.ping = lost.ping + 0
        /\ InQueues' + 0 = InQueues + 0 /\ 0 + 0 = 0 + 0 + 0
    BY <1>5, <1>6, <1>10, <2>2
  <2> QED
    BY <1>2, <1>3, <1>4, <1>5, <2>3, QueuesCount DEF h
<1> QED
  BY <1>1, <1>9, <1>10 DEF q, m, t

LEMMA QueueDests ==
    ASSUME SimInv, DestInv, QueueSteps, ~aborted, fes # <<>>, par' = par
    PROVE  DestInv'
<1> DEFINE h == Head(fes)
           to(x) == x[2].id = "ping" /\ x[1][1] # "appl" => x[2].destNode \in Node
<1>1. PICK l \in Link :
        \/ \E x : \E b \in BOOLEAN : Leaves(l, x, b)
        \/ LET m == h.msg IN
           /\ h.to = <<"queue", l[1], l[2]>> /\ m \in Message
           /\ \/ Moves({<<h.to, m>>}, {<<Line(l), m>>})
              \/ Moves({<<h.to, m>>}, {})
        \/ Carried' = Carried
  BY DEF QueueSteps
<1>2. CASE ~ToNodes
  BY <1>2 DEF DestInv, ToNodes
<1>3. \A x \in Carried : ToNodes => to(x)
  BY DEF DestInv
<1> HIDE DEF h
<1>4. ASSUME NEW x, NEW b \in BOOLEAN, Leaves(l, x, b), ToNodes PROVE DestInv'
  <2> DEFINE y == <<<<"stack", l[2], FromNet>>, Damaged(x[2], b)>>
             old == {<<h.to, h.msg>>, x}
             new == {y}
  <2>1. /\ x[2] \in Message /\ x \in Carried /\ Moves(old, new)
        /\ x[1] = <<"queue", l[1], l[2]>> \/ x[1] = Line(l)
    BY <1>4 DEF Leaves, h
  <2>2. x[1][1] # "appl"
    BY <2>1 DEF Line
  <2>3. y[2] = Damaged(x[2], b)
    OBVIOUS
  <2>4. y[2].id = x[2].id /\ y[2].destNode = x[2].destNode
    BY <2>1, <2>3, DamagedFields
  <2>5. \A z \in new : z[2].id = "ping" => z[2].destNode \in Node
    BY <1>3, <1>4, <2>1, <2>2, <2>4
  <2> HIDE DEF old, new
  <2> QED
    BY <2>1, <2>5, KeepsDest
<1>5. CASE Carried' = Carried
  <2> DEFINE old == {}
             new == {}
  <2>1. Moves(old, new) /\ \A x \in new : FALSE
    BY <1>5 DEF Moves
  <2> HIDE DEF old, new
  <2> QED
    BY <2>1, KeepsDest
<1> DEFINE z == <<h.to, h.msg>>
           w == <<Line(l), h.msg>>
<1>6. CASE h.to = <<"queue", l[1], l[2]>> /\ Moves({z}, {w}) /\ ToNodes
  <2> DEFINE old == {z}
             new == {w}
  <2>1. Carries(h)
    BY <1>6 DEF Carries
  <2>2. z \in Carried
    BY <2>1, HeadCarried DEF h
  <2>3. w[2] = z[2] /\ z[1][1] # "appl"
    BY <1>6
  <2>4. \A x \in new : x[2].id = "ping" => x[2].destNode \in Node
    BY <1>3, <1>6, <2>2, <2>3
  <2>5. Moves(old, new)
    BY <1>6
  <2> HIDE DEF old, new
  <2> QED
    BY <2>4, <2>5, KeepsDest
<1>7. CASE Moves({z}, {})
  <2> DEFINE old == {z}
             new == {}
  <2>1. Moves(old, new) /\ \A x \in new : FALSE
    BY <1>7
  <2> HIDE DEF old, new
  <2> QED
    BY <2>1, KeepsDest
<1> QED
  BY <1>1, <1>2, <1>4, <1>5, <1>6, <1>7

LEMMA QueuePings ==
    ASSUME SimInv, SimInv', DestInv, CountedLost, CountInv, QueueMessage \/ QueueTimeout
    PROVE  CountInv' /\ DestInv'
<1>1. ~aborted /\ fes # <<>> /\ par' = par
  BY ZenonT(30) DEF QueueMessage, QueueTimeout, Arrives, QueueStep
<1>2. QueueSteps
  BY QueueMessageSteps, QueueTimeoutSteps
<1>3. DestInv'
  BY <1>1, <1>2, QueueDests
<1>4. CountInv'
  <2>1. CASE ~ToNodes
    BY <1>1, <2>1 DEF CountInv, ToNodes
  <2>2. CASE ToNodes
    BY <2>2, MessagePings, TimeoutPings
  <2> QED
    BY <2>1, <2>2
<1> QED
  BY <1>3, <1>4
----------------------------------------------------------------------------
(***************************************************************************)
(* The activities of PingPongAppl.                                         *)
(***************************************************************************)
\* An activity handles a pong or not, and sends what is in E and perhaps a ping.
LEMMA WaitPings ==
    ASSUME SimInv, CountedLost, DestInv, CountInv, NEW kind, Arrives(kind),
           NEW n \in Node, NEW a \in PingType, NEW E,
           Waits(n, a, Head(fes).time, Tail(fes), E), a.sent = ping[n].sent,
           \A e \in E : Carries(e) /\ e.msg.reply = TRUE /\ e.msg.destNode \in Node,
           E = {} \/ \E e : E = {e} /\ IsPing(e),
           Cardinality(PingsIn(E)) + (a.received - ping[n].received) = One(IsPing(Head(fes))),
           par' = par, queue' = queue, lost' = lost
    PROVE  CountInv' /\ DestInv'
<1> DEFINE t == Head(fes).time
           r == Tail(fes)
           ball(i) == ToStack(t, n, PingPongAppl, Ping(n, i))
<1>1. PICK N : \E i \in Nat :
        \/ /\ n \in Pingers /\ Ping(n, i) \in Message
           /\ Gains(fes', r, E \cup {ball(i)}, N)
           /\ \E x : ping' = [ping EXCEPT ![n] = x] /\ x.sent = a.sent + 1 /\ x.received = a.received
        \/ Gains(fes', r, E, N) /\ ping' = [ping EXCEPT ![n] = a]
  BY DEF Waits
<1>2. PICK i \in Nat :
        \/ /\ n \in Pingers /\ Ping(n, i) \in Message
           /\ Gains(fes', r, E \cup {ball(i)}, N)
           /\ \E x : ping' = [ping EXCEPT ![n] = x] /\ x.sent = a.sent + 1 /\ x.received = a.received
        \/ Gains(fes', r, E, N) /\ ping' = [ping EXCEPT ![n] = a]
  BY <1>1
<1>3. /\ Total(ping) \in Int /\ ping \in [Node -> PingType]
      /\ \A m \in Node : Open(ping, m) \in Int
  BY TotalType
<1>4. lost.ping \in Nat /\ ~aborted
  BY HandledList DEF CountedLost
<1>5. ping[n].sent \in Int /\ ping[n].received \in Int /\ a.sent \in Int /\ a.received \in Int
  BY <1>3 DEF PingType
<1>6. ASSUME NEW x, ping' = [ping EXCEPT ![n] = x], x.sent \in Int, x.received \in Int
      PROVE  Total(ping') = Total(ping) + ((x.sent - x.received) - (ping[n].sent - ping[n].received))
  <2>1. ping'[n] = x /\ \A m \in Node : m # n => ping'[m] = ping[m]
    BY <1>3, <1>6
  <2>2. \A m \in Node : m # n => Open(ping', m) = Open(ping, m)
    BY <2>1 DEF Open
  <2>3. Open(ping', n) = x.sent - x.received /\ Open(ping, n) = ping[n].sent - ping[n].received
    BY <2>1 DEF Open
  <2>4. \A m \in Node : Open(ping, m) \in Int /\ Open(ping', m) \in Int
    <3>1. Open(ping', n) \in Int
      BY <1>5, <1>6, <2>3
    <3> QED
      BY <1>3, <2>2, <3>1
  <2> QED
    BY <2>2, <2>3, <2>4, TotalChanges
<1> HIDE DEF t, r
<1>7. CASE /\ n \in Pingers /\ Ping(n, i) \in Message
           /\ Gains(fes', r, E \cup {ball(i)}, N)
           /\ \E x : ping' = [ping EXCEPT ![n] = x] /\ x.sent = a.sent + 1 /\ x.received = a.received
  <2> DEFINE b == ball(i)
             F == E \cup {b}
             c == Cardinality(PingsIn(E))
             d == Cardinality(PingsIn(F))
             o == One(IsPing(Head(fes)))
  <2>1. /\ b.to = <<"stack", n, PingPongAppl>> /\ b.msg = Ping(n, i)
    BY DEF ToStack, Event
  <2>2. Ping(n, i).id = "ping" /\ Ping(n, i).reply = FALSE /\ Ping(n, i).destNode = par.pingDest[n]
    BY DEF Ping, NetworkPacket
  <2> HIDE DEF b
  <2>3. IsPing(b) /\ Carries(b) /\ b \notin E
    BY <2>1, <2>2 DEF IsPing, Carries
  <2>4. ToNodes => b.msg.destNode \in Node
    BY <1>7, <2>1, <2>2 DEF ToNodes, Pingers, Range
  <2>5. d = c + 1 /\ c \in Nat
    <3>1. CASE E = {}
      <4>1. F = {b}
        BY <3>1
      <4> QED
        BY <2>3, <3>1, <4>1, PingsOfFew DEF PingsIn, One
    <3>2. ASSUME NEW e, E = {e}, IsPing(e) PROVE d = c + 1 /\ c \in Nat
      <4>1. F = {e, b} /\ e # b
        BY <2>3, <3>2
      <4>2. d = 2
        BY <2>3, <3>2, <4>1, PingsOfFew DEF PingsIn
      <4>3. c = 1
        BY <3>2, PingsOfFew DEF PingsIn, One
      <4> QED
        BY <4>2, <4>3
    <3> QED
      BY <3>1, <3>2
  <2>6. Total(ping') = Total(ping) + (((a.sent + 1) - a.received) - (ping[n].sent - ping[n].received))
    <3>1. PICK x : ping' = [ping EXCEPT ![n] = x] /\ x.sent = a.sent + 1 /\ x.received = a.received
      BY <1>7
    <3>2. x.sent \in Int /\ x.received \in Int
      BY <1>5, <3>1
    <3>3. Total(ping') = Total(ping) + ((x.sent - x.received) - (ping[n].sent - ping[n].received))
      BY <1>6, <3>1, <3>2
    <3> QED
      BY <3>1, <3>3
  <2>7. o \in Int
    BY DEF One
  <2> HIDE DEF c, d, o
  <2>8. c + (a.received - ping[n].received) = o
    BY DEF c, o
  <2>9. Total(ping') = Total(ping) - o + d
    BY <1>3, <1>5, <2>5, <2>6, <2>7, <2>8
  <2>10. \A e \in F : Carries(e)
    BY <2>3
  <2>11. \A x \in Packets(F) : ToNodes /\ x[2].id = "ping" => x[2].destNode \in Node
    BY <2>4 DEF Packets
  <2> HIDE DEF F
  <2>12. Gains(fes', Tail(fes), F, N)
    BY <1>7 DEF F, r, b
  <2>13. CountInv'
    BY <1>3, <1>4, <2>9, <2>12, CountKept DEF d, o
  <2>14. Moves({<<Head(fes).to, Head(fes).msg>>}, Packets(F))
    BY <2>10, <2>12, ListMoves DEF Gains
  <2> QED
    BY <1>4, <2>11, <2>13, <2>14, KeepsDest
<1>8. CASE Gains(fes', r, E, N) /\ ping' = [ping EXCEPT ![n] = a]
  <2> DEFINE c == Cardinality(PingsIn(E))
             o == One(IsPing(Head(fes)))
  <2>1. Total(ping') = Total(ping) + ((a.sent - a.received) - (ping[n].sent - ping[n].received))
    BY <1>5, <1>6, <1>8
  <2>2. o \in Int
    BY DEF One
  <2>3. c \in Nat
    <3>1. IsFiniteSet(E) /\ PingsIn(E) \subseteq E
      BY <1>8 DEF Gains, PingsIn
    <3> QED
      BY <3>1, FS_Subset, FS_CardinalityType
  <2> HIDE DEF c, o
  <2>4. c + (a.received - ping[n].received) = o
    BY DEF c, o
  <2>5. Total(ping') = Total(ping) - o + c
    BY <1>3, <1>5, <2>1, <2>2, <2>3, <2>4
  <2>6. Gains(fes', Tail(fes), E, N)
    BY <1>8 DEF r
  <2>7. CountInv'
    BY <1>3, <1>4, <2>5, <2>6, CountKept DEF c, o
  <2>8. Moves({<<Head(fes).to, Head(fes).msg>>}, Packets(E))
    BY <2>6, ListMoves DEF Gains
  <2>9. \A x \in Packets(E) : x[2].id = "ping" => x[2].destNode \in Node
    BY DEF Packets
  <2> QED
    BY <1>4, <2>7, <2>8, <2>9, KeepsDest
<1> QED
  BY <1>2, <1>7, <1>8

LEMMA PingTimerPings ==
    ASSUME SimInv, CountedLost, DestInv, CountInv, PingTimer
    PROVE  CountInv' /\ DestInv'
<1> DEFINE n == Head(fes).to[2]
           E == {}
<1>1. Arrives("pingtimer") /\ UNCHANGED <<par, queue, lost>>
  BY DEF PingTimer, Network
<1>2. n \in Node /\ Waits(n, ping[n], Head(fes).time, Tail(fes), E)
  BY PingTimerGains
<1>3. One(IsPing(Head(fes))) = 0
  <2>1. Head(fes).to[1] = "pingtimer"
    BY <1>1 DEF Arrives
  <2> QED
    BY <2>1 DEF IsPing, Carries, One
<1>4. ping[n] \in PingType
  BY <1>2, TotalType
<1> DEFINE a == ping[n]
<1>5. Cardinality(PingsIn(E)) = 0
  <2>1. PingsIn(E) = {}
    BY DEF PingsIn
  <2> QED
    BY <2>1, FS_EmptySet
<1>6. a.received \in Int
  BY <1>4 DEF PingType
<1>7. Cardinality(PingsIn(E)) + (a.received - ping[n].received) = One(IsPing(Head(fes)))
  BY <1>3, <1>5, <1>6
<1>8. E = {} /\ \A e \in E : FALSE
  OBVIOUS
<1>9. a.sent = ping[n].sent /\ a = ping[n]
  OBVIOUS
<1> HIDE DEF E, a, n
<1> QED
  BY <1>1, <1>2, <1>4, <1>7, <1>8, <1>9, WaitPings DEF a

LEMMA ReceivePings ==
    ASSUME SimInv, PacketInv, CountedLost, DestInv, CountInv, ReceivePing
    PROVE  CountInv' /\ DestInv'
<1> DEFINE h == Head(fes)
           n == h.to[2]
           p == h.msg
<1>1. Arrives("appl") /\ UNCHANGED <<par, queue, lost>> /\ h.to[3] = PingPongAppl
  BY DEF ReceivePing, Network
<1>2. PacketOK(h.to, p) /\ h.to[1] = "appl"
  BY <1>1, HeadPacket
<1>3. n \in Node /\ p \in Message
  BY PingGains
<1>4. p.id = "ping" /\ From(p)
  <2> HIDE DEF h
  <2>1. From(p) /\ Arrived(n, PingPongAppl, p)
    BY <1>1, <1>2, PlainAppls DEF PacketOK
  <2> QED
    BY <2>1, PlainAppls DEF Arrived
<1>5. p.srcNode \in Node /\ p.srcAppl = PingPongAppl
  BY <1>4 DEF From
<1>6. One(IsPing(Head(fes))) = 1
  BY <1>2, <1>4 DEF IsPing, Carries, One
<1>7. ping[n] \in PingType /\ ping[n].received \in Int
  BY <1>3, TotalType DEF PingType
<1>8. CASE p.reply
  <2> DEFINE a == [ping[n] EXCEPT !.received = @ + 1]
             E == {}
  <2>1. Waits(n, a, h.time, Tail(fes), E)
    BY <1>8, PingGains
  <2>2. a \in PingType /\ a.received = ping[n].received + 1 /\ a.sent = ping[n].sent
    BY <1>7 DEF PingType
  <2>3. Cardinality(PingsIn(E)) = 0
    <3>1. PingsIn(E) = {}
      BY DEF PingsIn
    <3> QED
      BY <3>1, FS_EmptySet
  <2>4. E = {} /\ \A e \in E : FALSE
    OBVIOUS
  <2> HIDE DEF a, E
  <2>5. Cardinality(PingsIn(E)) + (a.received - ping[n].received) = One(IsPing(Head(fes)))
    BY <1>6, <1>7, <2>2, <2>3
  <2> HIDE DEF n, p
  <2> QED
    BY <1>1, <1>3, <2>1, <2>2, <2>4, <2>5, WaitPings
<1>9. CASE ~p.reply
  <2> DEFINE a == ping[n]
             e == ToStack(h.time, n, PingPongAppl, Pong(p))
             E == {e}
  <2>1. Waits(n, a, h.time, Tail(fes), E)
    BY <1>9, PingGains
  <2>2. a \in PingType /\ a.received = ping[n].received /\ a.sent = ping[n].sent
    BY <1>7
  <2>3. Pong(p).destNode \in Node /\ Pong(p).reply = TRUE /\ Pong(p).id = "ping"
    BY <1>3, <1>4, <1>5, PongPacket
  <2>4. e.msg = Pong(p) /\ e.to = <<"stack", n, PingPongAppl>>
    BY DEF ToStack, Event
  <2> HIDE DEF e, a
  <2>5. IsPing(e) /\ Carries(e) /\ e.msg.reply = TRUE /\ e.msg.destNode \in Node
    BY <2>3, <2>4 DEF IsPing, Carries
  <2>6. Cardinality(PingsIn(E)) = 1
    BY <2>5, PingsOfFew DEF PingsIn, One
  <2>7. Cardinality(PingsIn(E)) + (a.received - ping[n].received) = One(IsPing(Head(fes)))
    BY <1>6, <1>7, <2>2, <2>6
  <2>8. E = {e} /\ \A f \in E : Carries(f) /\ f.msg.reply = TRUE /\ f.msg.destNode \in Node
    BY <2>5
  <2> HIDE DEF n, p, E
  <2> QED
    BY <1>1, <1>3, <2>1, <2>2, <2>5, <2>7, <2>8, WaitPings
<1> QED
  BY <1>8, <1>9

LEMMA PingsGoOn ==
    ASSUME SimInv, SimInv', RouteInv, PacketInv, TravelInv, TimeToLive(par), CountedLost,
           DestInv, CountInv, [Next]_vars
    PROVE  CountInv' /\ DestInv'
<1>1. CASE StackHandles
  BY <1>1, StackPings
<1>2. CASE DaemonHandles
  BY <1>2, DaemonPings
<1>3. CASE QueueMessage \/ QueueTimeout
  BY <1>3, QueuePings
<1>4. ASSUME NEW c \in Commands, ConPar(c[1], c[2]) PROVE CountInv' /\ DestInv'
  <2>1. c[1] \in Link
    BY SimulationAssumption
  <2> QED
    BY <1>4, <2>1, ConParPings
<1>5. CASE SendNext \/ Expire \/ ReceiveAck \/ ReceiveData
  BY <1>5, SenderPings
<1>6. CASE PingTimer
  BY <1>6, PingTimerPings
<1>7. CASE ReceivePing
  BY <1>7, ReceivePings
<1>8. CASE UNCHANGED vars
  BY <1>8 DEF vars, CountInv, DestInv, ToNodes, InQueues, Carried
<1> QED
  BY <1>1, <1>2, <1>3, <1>4, <1>5, <1>6, <1>7, <1>8 DEF Next

LEMMA PingsStart == Init => CountInv /\ DestInv
<1> SUFFICES ASSUME Init PROVE CountInv /\ DestInv
  OBVIOUS
<1>1. Carried = {}
  BY NoneCarried
<1>2. DestInv
  BY <1>1 DEF DestInv
<1>3. InList(fes) = 0
  <2>1. ASSUME NEW i \in DOMAIN fes, Carries(fes[i]) PROVE FALSE
    <3>1. fes[i] \in ToSet(fes)
      BY DEF ToSet
    <3>2. <<fes[i].to, fes[i].msg>> \in Carried
      BY <2>1, <3>1, InCarried
    <3> QED
      BY <1>1, <3>2
  <2>2. {i \in DOMAIN fes : IsPing(fes[i])} = {}
    BY <2>1 DEF IsPing
  <2> QED
    BY <2>2, FS_EmptySet DEF InList
<1>4. InQueues = 0
  <2>1. \A l \in Link : queue[l].queue = <<>>
    BY DEF Init, Q!NewQueue
  <2>2. Lined(queue, par.maxQueueLength) = {}
    BY <2>1 DEF Lined
  <2> QED
    BY <2>2, FS_EmptySet DEF InQueues
<1>5. Total(ping) = 0
  <2>1. \A n \in Node : ping[n].sent = 0 /\ ping[n].received = 0
    BY DEF Init
  <2>2. \A n \in Node : Open(ping, n) = 0
    BY <2>1 DEF Open
  <2> QED
    BY <2>2, TotalNothing
<1>6. lost.ping = 0
  BY DEF Init
<1> QED
  BY <1>2, <1>3, <1>4, <1>5, <1>6 DEF CountInv

\* The inductive invariant.
PingInv ==
    SimInv /\ RouteInv /\ PacketInv /\ TravelInv /\ CountedLost /\ DestInv /\ CountInv

LEMMA PingsCounted == CountInv => PingsComeBack
<1> SUFFICES ASSUME CountInv, Range(par.pingDest) \subseteq Node
             PROVE  Total(ping) = Cardinality({i \in UnderWay : fes[i].msg.id = "ping"})
                      + Cardinality({w \in Waiting : queue[w[1]].queue[w[2]].id = "ping"})
                      + lost.ping
  BY ZenonT(30) DEF PingsComeBack, Total
<1>1. {i \in UnderWay : fes[i].msg.id = "ping"} = {i \in DOMAIN fes : IsPing(fes[i])}
  BY DEF UnderWay, IsPing, Carries
<1>2. {w \in Waiting : queue[w[1]].queue[w[2]].id = "ping"} = Lined(queue, par.maxQueueLength)
  BY DEF Waiting, Lined
<1> QED
  BY <1>1, <1>2 DEF CountInv, ToNodes, InList, InQueues

(***************************************************************************)
(* Every ping that a PingPongAppl has sent, or its pong, is under way,     *)
(* waits in a queue, has come back, or was dropped at a full queue: none is*)
(* lost in a stack, also while the costs of the links change.              *)
(***************************************************************************)
THEOREM PingsComeBackTheorem ==
    ASSUME \A p \in Parameters : TimeToLive(p) PROVE Spec => []PingsComeBack
<1>1. Init => PingInv
  BY InitInv, RouteStarts, PacketsStart, TravelStarts, NoneLost, PingsStart DEF PingInv
<1>2. PingInv /\ [Next]_vars => PingInv'
  <2> SUFFICES ASSUME PingInv, [Next]_vars PROVE PingInv'
    OBVIOUS
  <2>1. SimInv' /\ RouteInv' /\ PacketInv' /\ TravelInv' /\ CountedLost'
    BY StepInv, RoutesGoOn, PacketsGoOn, TravelGoesOn, LostCounted DEF PingInv
  <2>2. par \in Parameters
    BY DEF PingInv, SimInv, TimeOK
  <2>3. CountInv' /\ DestInv'
    BY <2>1, <2>2, PingsGoOn DEF PingInv
  <2> QED
    BY <2>1, <2>3 DEF PingInv
<1>3. PingInv => PingsComeBack
  BY PingsCounted DEF PingInv
<1> QED
  BY <1>1, <1>2, <1>3, PTL DEF Spec
===============================================================================
