------------------------------- MODULE Simulation -------------------------------
(***************************************************************************)
(* The network simulator of GoBackN/protsim: network stacks, interface     *)
(* queues, routing daemons and the applications of userapps/, driven by the*)
(* events of the simulation kernel.  Each action is the handler of one kind*)
(* of event; the event at the head of the list is always the next one, so  *)
(* that a simulation is determined by its parameters, the bit errors of the*)
(* links, and what the user types into the shell of a stack.               *)
(*                                                                         *)
(* Time is counted in ticks.  Node Source runs GoBackNSender and node Sink *)
(* GoBackNReceiver; every node runs PingPongAppl (addresses 2, 1 and 0, as *)
(* in omnetpp.ini) and a FakedRoutingDaemon.  Bounds: par.limit (the       *)
(* .ini file's sim-time-limit), par.faults and par.changes.                *)
(***************************************************************************)
EXTENDS NetworkStack, EventList, TLC

CONSTANTS Parameters,     \* what the .ini file may give to the modules: see par
          Source, Sink,
          duration, delay, \* of a message of each kind, and of each link
          errorLinks,      \* links with a bit error rate
          INFINITY,        \* no path is that long
          Commands         \* the links and costs the user may type

Link == {l \in Node \X Node : l[2] \in Range(netOut[l[1]])}

ASSUME SimulationAssumption ==
    /\ Source \in Node /\ Sink \in Node \ {Source} /\ INFINITY \in Nat \ {0}
    /\ \A n \in Node : RoutingDaemon \in appls[n]  \* the others are not in the topology
    /\ {<<l[2], l[1]>> : l \in Link} = Link
    /\ \A l \in Link, id \in {"data", "ack", "ping"} :
          duration[l][id] \in Nat \ {0} /\ delay[l] \in Nat
    /\ Commands \subseteq Link \X Int

VARIABLES now, fes,
          par,     \* never changes
          faults, changes,
          cost, routes,
          queue, finishes, \* of each link; finishes: gate.transmissionFinishes()
          snd, rcv, ping,
          aborted, \* by an assertion, or an error of the kernel
          \* Not in the code, to compare it with what really happens: the use of each
          \* link and of its queue, that of the last batch, and messages damaged or dropped.
          meter, measured, lost

vars == <<now, fes, par, faults, changes, cost, routes, queue, finishes,
          snd, rcv, ping, aborted, meter, measured, lost>>

Never == 1000000  \* INFINITY as a time
INT_MIN == -1000

\* All times of a simulation, and the first ones after it, are finite.
ASSUME ParametersAssumption ==
    \A p \in Parameters :
        /\ {p.limit, p.window, p.timeout, p.interval, p.maxQueueLength, p.faults, p.changes,
             p.pingStart, p.pingInterval} \subseteq Nat
        /\ p.limit + p.timeout < Never /\ p.limit + p.interval < Never
        /\ {p.transientRemoval, p.batchLength} \subseteq Int
        /\ DOMAIN p.pingDest \subseteq Node
        /\ \A n \in DOMAIN p.pingDest : p.pingDest[n] \in Int

PingPongAppl == 0
GoBackNReceiver == 1
GoBackNSender == 2

\* The stacks have detected the applications at their gates (NetworkStack.cc:287-293).
ASSUME ApplicationsAssumption ==
    /\ GoBackNSender \in appls[Source] /\ GoBackNReceiver \in appls[Sink]
    /\ \A n \in Node : PingPongAppl \in appls[n]

R == INSTANCE Routing
Q == INSTANCE InterfaceQueue

----------------------------------------------------------------------------
Meter(t) == [busy |-> 0, length |-> 0, since |-> t]

Pingers == DOMAIN par.pingDest  \* the others have no interval: they only answer

\* What the modules schedule when they are initialized, in the order of time.
InitialEvents ==
    (IF par.send THEN <<Event(0, 0, <<"timer0", Source>>, <<>>)>> ELSE <<>>) \o
    [i \in 1 .. Cardinality(Pingers) |->
        Event(par.pingStart, 0, <<"pingtimer", SetToSeq(Pingers)[i]>>, <<>>)]

Init ==
    /\ par \in Parameters
    /\ now = 0 /\ fes = InitialEvents
    /\ faults = 0 /\ changes = 0
    /\ cost = [l \in Link |-> 1]
    /\ routes = [n \in Node |-> R!calculateRoutes(cost, n, [m \in Node |-> NoRoute])]
    /\ queue = [l \in Link |-> Q!NewQueue(par)] /\ finishes = [l \in Link |-> 0]
    /\ snd = [lastAckSeqNo |-> 0, nextSendSeqNo |-> 0, nextSendTime |-> 0,
              timerExpiration |-> Never,
              packetBuffer |-> <<>>]  \* the timeout of each packet in it, by number
    /\ rcv = [lastReceivedSeqNo |-> -1]
    /\ ping = [n \in Node |->
                 [lastSentSeqNo |-> -1, sent |-> 0, received |-> 0,
                  nextSend |-> IF n \in Pingers THEN par.pingStart ELSE Never]]
    /\ aborted = (\E n \in Node : R!doDijkstra(cost, n).stuck)
    /\ meter = [l \in Link |-> Meter(0)] /\ measured = meter
    /\ lost = [data |-> 0, ack |-> 0, ping |-> 0, linkchange |-> 0]

----------------------------------------------------------------------------
(***************************************************************************)
(* The next message, unless the simulation is over; time passes until then.*)
(***************************************************************************)
Arrives(kind) == ~aborted /\ fes # <<>> /\ Head(fes).time =< par.limit /\ Head(fes).to[1] = kind

MeterAt(t) ==
    [l \in Link |-> [meter[l] EXCEPT
        !.busy = @ + (IF finishes[l] =< now THEN 0 ELSE Min({finishes[l], t}) - now),
        !.length = @ + Len(queue[l].queue) * (t - now)]]

Pass == now' = Head(fes).time /\ meter' = MeterAt(Head(fes).time)

\* The messages an application sends reach the stack of its node at once.
ToStack(t, n, appl, p) == Event(t, 0, <<"stack", n, appl>>, p)

Network == <<par, faults, changes, cost, routes, queue, finishes, measured, lost>>

(***************************************************************************)
(* The stacks, and the routing daemons.  A message that is passed on keeps *)
(* its priority.                                                           *)
(***************************************************************************)
StackHandles ==
    /\ Arrives("stack") /\ Pass
    /\ LET e == Head(fes)
           r == handleMessage(e.to[2], e.to[3], e.msg, routes[e.to[2]])
       IN fes' = scheduleAll(Tail(fes), [i \in DOMAIN r.out |->
                                Event(e.time, e.prio, r.out[i].to, r.out[i].msg)])
    /\ UNCHANGED <<Network, snd, rcv, ping, aborted>>

\* Mutant: the notification has no priority.
LinkChangedAsAny(t, n) ==
    Event(t, 0, <<"stack", n, Local>>, NetworkPacket("linkchange", 0, Nobody, RoutingDaemon))

LinkChanged(t, n) ==
    Event(t, -1, <<"stack", n, Local>>, NetworkPacket("linkchange", 0, Nobody, RoutingDaemon))
TimeoutEvent(t, l) == Event(t, INT_MIN, <<"timeout", l[1], l[2]>>, <<>>)

\* "conpar cost", typed into the shell of a stack between two events.
ConPar(l, value) ==
    /\ ~aborted /\ fes # <<>> /\ Head(fes).time =< par.limit
    /\ changes < par.changes /\ value # cost[l]
    /\ changes' = changes + 1
    /\ cost' = [cost EXCEPT ![l] = value]
    /\ fes' = scheduleAt(fes, LinkChanged(now, l[1]))
    /\ UNCHANGED <<now, par, faults, routes, queue, finishes, snd, rcv, ping, aborted,
                   meter, measured, lost>>

\* One daemon hears of the change; it calls calculateRoutes() of all of them.
DaemonHandles ==
    /\ Arrives("appl") /\ Head(fes).to[3] = RoutingDaemon /\ Pass
    /\ fes' = Tail(fes)
    /\ routes' = [n \in Node |-> R!calculateRoutes(cost, n, routes[n])]
    /\ aborted' = (Head(fes).msg.id # "linkchange" \/ \E n \in Node : R!doDijkstra(cost, n).stuck)
    /\ UNCHANGED <<par, faults, changes, cost, queue, finishes, snd, rcv, ping, measured, lost>>

(***************************************************************************)
(* The interface queues.  What one sends arrives at the other end of the   *)
(* link after its transmission and the delay, maybe damaged.               *)
(***************************************************************************)
Count(msg) == [lost EXCEPT ![msg.id] = @ + 1]

Transmit(l, r) ==
    LET t == Head(fes).time
        timeout == <<"timeout", l[1], l[2]>>
    IN IF r.send = <<>>
       THEN /\ fes' = Tail(fes)
            /\ lost' = IF r.q.dropped > queue[l].dropped THEN Count(Head(fes).msg) ELSE lost
            /\ UNCHANGED <<finishes, faults, aborted>>
       ELSE \E bitError \in IF l \in errorLinks /\ faults < par.faults THEN BOOLEAN ELSE {FALSE} :
            LET msg == [Head(r.send) EXCEPT !.bitError = @ \/ bitError]
                end == t + duration[l][msg.id]
            IN /\ finishes' = [finishes EXCEPT ![l] = end]
               /\ fes' = scheduleAt(scheduleAt(Tail(fes),
                             Event(end + delay[l], 0, <<"stack", l[2], FromNet>>, msg)),
                           TimeoutEvent(end, l))
               /\ faults' = faults + (IF bitError THEN 1 ELSE 0)
               /\ lost' = IF bitError /\ msg.id # "ping" THEN Count(msg) ELSE lost
               /\ aborted' = (isScheduled(Tail(fes), timeout) \/ ~Q!Detected(r.q, par))

QueueStep(l, r) ==
    LET t == Head(fes).time
        reset == \/ r.q.batchNum # queue[l].batchNum
                 \/ r.q.transientOver # queue[l].transientOver
    IN /\ now' = t
       /\ queue' = [queue EXCEPT ![l] = r.q]
       /\ meter' = [MeterAt(t) EXCEPT ![l] = IF reset THEN Meter(t) ELSE @]
       /\ measured' = IF r.q.batchNum # queue[l].batchNum
                         THEN [measured EXCEPT ![l] = MeterAt(t)[l]] ELSE measured
       /\ Transmit(l, r)
       /\ UNCHANGED <<par, changes, cost, routes, snd, rcv, ping>>

QueueMessage ==
    /\ Arrives("queue")
    /\ LET e == Head(fes)  l == <<e.to[2], e.to[3]>>
       IN QueueStep(l, Q!OnMessage(queue[l], par, e.time, finishes[l], e.msg))

QueueTimeout ==
    /\ Arrives("timeout")
    /\ LET e == Head(fes)  l == <<e.to[2], e.to[3]>>
       IN QueueStep(l, Q!OnTimeout(queue[l], par, e.time, finishes[l]))

(***************************************************************************)
(* GoBackNSender, which always has the next packet to send.                *)
(***************************************************************************)
timer0 == <<"timer0", Source>>  \* nextSendTimer
timer1 == <<"timer1", Source>>  \* expirationTimer

Twice(events, to) == Cardinality({i \in DOMAIN events : events[i].to = to}) > 1

\* The new state of the sender, the events, and whether the assertions hold.
SenderStep(s, events, asserted) ==
    /\ Pass
    /\ snd' = s
    /\ fes' = events
    /\ aborted' = (~asserted \/ Twice(events, timer0) \/ Twice(events, timer1))
    /\ UNCHANGED <<Network, rcv, ping>>

Data(seqNo) == NetworkPacket("data", seqNo, Sink, GoBackNReceiver)

\* eTIMER0: time for sending the next packet.
SendNext ==
    /\ Arrives("timer0")
    /\ LET t == Head(fes).time
           seqNo == snd.nextSendSeqNo
           buffer == [i \in DOMAIN snd.packetBuffer \cup {seqNo} |->
                        IF i = seqNo THEN t + par.timeout ELSE snd.packetBuffer[i]]
           first == t + par.timeout < snd.timerExpiration
           again == IF seqNo + 1 >= snd.lastAckSeqNo + par.window
                       THEN Never ELSE t + par.interval
           sent == scheduleAt(Tail(fes), ToStack(t, Source, GoBackNSender, Data(seqNo)))
           timed == IF first
                       THEN scheduleAt(cancelEvent(sent, timer1),
                                       Event(t + par.timeout, 0, timer1, <<>>))
                       ELSE sent
       IN SenderStep([snd EXCEPT !.packetBuffer = buffer,
                                 !.nextSendSeqNo = seqNo + 1,
                                 !.nextSendTime = again,
                                 !.timerExpiration = IF first THEN t + par.timeout ELSE @],
                     IF again = Never THEN timed ELSE scheduleAt(timed, Event(again, 0, timer0, <<>>)),
                     /\ t = snd.nextSendTime
                     /\ seqNo < snd.lastAckSeqNo + par.window
                     /\ \A i \in DOMAIN snd.packetBuffer : seqNo >= Min(DOMAIN snd.packetBuffer)
                     /\ Cardinality(DOMAIN buffer) =< par.window)

\* Mutant: it is not asked whether the sender waits.
WokenAlways(events, t) == scheduleAt(events, Event(t, 0, timer0, <<>>))

\* If the sender waits for its window to open, it sends now.
Woken(events, t) ==
    IF snd.nextSendTime = Never THEN scheduleAt(events, Event(t, 0, timer0, <<>>)) ELSE events
WokenAt(t) == IF snd.nextSendTime = Never THEN t ELSE snd.nextSendTime

\* eTIMER1: all packets of the window are sent again.
Expire ==
    /\ Arrives("timer1")
    /\ LET t == Head(fes).time IN
       SenderStep([snd EXCEPT !.nextSendTime = WokenAt(t),
                              !.nextSendSeqNo = snd.lastAckSeqNo,
                              !.timerExpiration = Never,
                              !.packetBuffer = [i \in DOMAIN @ |-> Never]],
                  cancelEvent(Woken(Tail(fes), t), timer1),
                  t = snd.timerExpiration)

\* The acknowledgement of what has been acknowledged already asks for the packets again.
Rejected(t) ==
    SenderStep([snd EXCEPT !.nextSendTime = WokenAt(t), !.nextSendSeqNo = snd.lastAckSeqNo],
               Woken(Tail(fes), t), TRUE)

\* Mutant: the expiration timer is not started again for the packets that remain.
AcknowledgedStopsTimer(t, e) ==
    LET buffer == [i \in DOMAIN snd.packetBuffer \ (snd.lastAckSeqNo .. e - 1) |->
                     snd.packetBuffer[i]]
    IN SenderStep([snd EXCEPT !.packetBuffer = buffer, !.lastAckSeqNo = e,
                              !.nextSendSeqNo = Max({snd.nextSendSeqNo, e}),
                              !.timerExpiration = Never,
                              !.nextSendTime = WokenAt(t)],
                  Woken(cancelEvent(Tail(fes), timer1), t),
                  /\ e > snd.lastAckSeqNo
                  /\ snd.lastAckSeqNo .. e - 1 \subseteq DOMAIN snd.packetBuffer)

Acknowledged(t, e) ==
    LET buffer == [i \in DOMAIN snd.packetBuffer \ (snd.lastAckSeqNo .. e - 1) |->
                     snd.packetBuffer[i]]
        waiting == snd.nextSendSeqNo > e
        expiration == IF ~waiting THEN Never ELSE IF e \in DOMAIN buffer THEN buffer[e] ELSE -1
        idle == cancelEvent(Tail(fes), timer1)
        timed == IF waiting THEN scheduleAt(idle, Event(expiration, 0, timer1, <<>>)) ELSE idle
    IN SenderStep([snd EXCEPT !.packetBuffer = buffer, !.lastAckSeqNo = e,
                              !.nextSendSeqNo = Max({snd.nextSendSeqNo, e}),
                              !.timerExpiration = expiration,
                              !.nextSendTime = WokenAt(t)],
                  Woken(timed, t),
                  /\ e > snd.lastAckSeqNo
                  /\ snd.lastAckSeqNo .. e - 1 \subseteq DOMAIN snd.packetBuffer
                  /\ waiting => expiration > t /\ expiration > 0)

ReceiveAck ==
    /\ Arrives("appl") /\ Head(fes).to = <<"appl", Source, GoBackNSender>>
    /\ LET e == Head(fes)  expected == e.msg.seqNo IN
       IF e.msg.bitError \/ e.msg.id # "ack"
          THEN SenderStep(snd, Tail(fes), e.msg.id = "ack")
          ELSE IF expected = snd.lastAckSeqNo THEN Rejected(e.time)
               ELSE Acknowledged(e.time, expected)

(***************************************************************************)
(* GoBackNReceiver.  Packets it has had before are ignored.                *)
(***************************************************************************)
\* Mutant: it names the packet received, not the one expected.
AckOfReceived(p, expected) == NetworkPacket("ack", expected - 1, p.srcNode, p.srcAppl)
Ack(p, expected) == NetworkPacket("ack", expected, p.srcNode, p.srcAppl)

ReceiveData ==
    /\ Arrives("appl") /\ Head(fes).to = <<"appl", Sink, GoBackNReceiver>> /\ Pass
    /\ LET p == Head(fes).msg
           last == rcv.lastReceivedSeqNo
           next == ~p.bitError /\ p.seqNo = last + 1
           gap == ~p.bitError /\ par.sendNack /\ p.seqNo = last + 2
           expected == IF next THEN last + 2 ELSE last + 1
       IN /\ rcv' = [lastReceivedSeqNo |-> IF next THEN last + 1 ELSE last]
          /\ fes' = IF next \/ gap
                       THEN scheduleAt(Tail(fes),
                              ToStack(Head(fes).time, Sink, GoBackNReceiver, Ack(p, expected)))
                       ELSE Tail(fes)
          /\ aborted' = (p.id # "data")
    /\ UNCHANGED <<Network, snd, ping>>

(***************************************************************************)
(* PingPongAppl: an activity that waits for messages until it is time to   *)
(* send the next ping.                                                     *)
(***************************************************************************)
Ping(n, seqNo) == NetworkPacket("ping", seqNo, par.pingDest[n], PingPongAppl)

\* Mutant: the pong does not name the application it is for.
PongNoAppl(p) == [p EXCEPT !.destNode = p.srcNode, !.reply = TRUE]
Pong(p) == [p EXCEPT !.destNode = p.srcNode, !.destAppl = p.srcAppl, !.reply = TRUE]

\* After "events" the activity sends a ping if it is time, and waits again.
Wait(n, a, t, events) ==
    LET due == a.nextSend =< t
        next == IF due THEN t + par.pingInterval ELSE a.nextSend
        idle == cancelEvent(events, <<"pingtimer", n>>)
        pinged == IF due
                     THEN scheduleAt(idle, ToStack(t, n, PingPongAppl, Ping(n, a.lastSentSeqNo + 1)))
                     ELSE idle
    IN /\ ping' = [ping EXCEPT ![n] = IF due
                     THEN [a EXCEPT !.lastSentSeqNo = @ + 1, !.sent = @ + 1, !.nextSend = next]
                     ELSE a]
       /\ fes' = IF next = Never THEN pinged
                  ELSE scheduleAt(pinged, Event(next, 0, <<"pingtimer", n>>, <<>>))

PingTimer ==
    /\ Arrives("pingtimer") /\ Pass
    /\ LET n == Head(fes).to[2] IN Wait(n, ping[n], Head(fes).time, Tail(fes))
    /\ UNCHANGED <<Network, snd, rcv, aborted>>

ReceivePing ==
    /\ Arrives("appl") /\ Head(fes).to[3] = PingPongAppl /\ Pass
    /\ LET p == Head(fes).msg  n == Head(fes).to[2]  t == Head(fes).time IN
       IF p.reply
          THEN Wait(n, [ping[n] EXCEPT !.received = @ + 1], t, Tail(fes))
          ELSE Wait(n, ping[n], t, scheduleAt(Tail(fes), ToStack(t, n, PingPongAppl, Pong(p))))
    /\ aborted' = (Head(fes).msg.id # "ping")
    /\ UNCHANGED <<Network, snd, rcv>>

Next ==
    \/ StackHandles \/ DaemonHandles \/ QueueMessage \/ QueueTimeout
    \/ \E c \in Commands : ConPar(c[1], c[2])
    \/ SendNext \/ Expire \/ ReceiveAck \/ ReceiveData
    \/ PingTimer \/ ReceivePing

Spec == Init /\ [][Next]_vars

----------------------------------------------------------------------------
(***************************************************************************)
(* What NothingAborts, AckUnderWay and PingsComeBack need of the           *)
(* parameters: see the theorems of DeliveryProofs.                         *)
(***************************************************************************)
\* A packet may go all the way again after every change of a cost.
TimeToLive(p) == maxTTL >= (p.changes + 1) * (Cardinality(Node) - 1)

\* The costs the links may get.
PossibleCosts(p) ==
    {c \in [Link -> {1} \cup {d[2] : d \in Commands}] :
        \A l \in Link : c[l] # 1 => p.changes > 0 /\ <<l, c[l]>> \in Commands}

\* No node is cut off: doDijkstra() never runs into its assertion (Dijkstra.cc).
Reachable(p) ==
    \A c \in PossibleCosts(p) :
        LET distance == R!Distance(c) IN \A a, b \in Node : distance[<<a, b>>] < INFINITY

\* What the assertion in detectBatch() needs (InterfaceQueue.cc).
BatchesLongEnough(p) ==
    /\ p.transientRemoval \in Int /\ p.batchLength \in Int
    /\ p.batchLength =< 0 \/ p.batchLength >= p.transientRemoval

\* The acknowledgements have one way, and cannot overtake each other: what the
\* assertion on their numbers in the sender needs (GoBackNSender.cc).
Hop(w, i) == <<w[i], w[i + 1]>>
Ways == UNION {[1 .. k -> Node] : k \in 2 .. Cardinality(Node)}
IsWay(w) ==
    /\ w \in Seq(Node) /\ Len(w) > 1 /\ w[1] = Sink /\ w[Len(w)] = Source
    /\ \A i, j \in 1 .. Len(w) : w[i] = w[j] => i = j
    /\ \A i \in 1 .. Len(w) - 1 : Hop(w, i) \in Link
OneWay(p, w) ==
    \A c \in PossibleCosts(p) : \A i \in 1 .. Len(w) - 1 : \A m \in Node :
        R!StartsShortest(c, w[i], Source, m) => m = w[i + 1]

ProperSetup(p) ==
    /\ TimeToLive(p) /\ Reachable(p) /\ BatchesLongEnough(p)
    /\ p.send => p.window > 0 /\ p.timeout > 0 /\ \E w \in Ways : IsWay(w) /\ OneWay(p, w)

----------------------------------------------------------------------------
timeout(l) == <<"timeout", l[1], l[2]>>

UnderWay == {i \in DOMAIN fes : fes[i].to[1] \in {"stack", "queue", "appl"}}
Waiting == {w \in Link \X (1 .. par.maxQueueLength) : w[2] \in DOMAIN queue[w[1]].queue}

TypeOK ==
    /\ now \in 0 .. par.limit
    /\ \A i \in DOMAIN fes : fes[i].time >= now
    /\ faults \in 0 .. par.faults /\ changes \in 0 .. par.changes
    /\ \A l \in Link : Len(queue[l].queue) =< par.maxQueueLength
    /\ snd.lastAckSeqNo \in Nat /\ snd.nextSendSeqNo \in Nat /\ rcv.lastReceivedSeqNo >= -1

(***************************************************************************)
(* No assertion of the queues, of the sender or of Dijkstra's algorithm    *)
(* fails, no application gets a message of another kind than it casts to,  *)
(* and no timer is scheduled while it is (an error of the kernel).         *)
(***************************************************************************)
NothingAborts == ~aborted

(***************************************************************************)
(* The assertions of detectTransient() and detectBatch() (InterfaceQueue.cc*)
(* 225 and 240): neither the transient phase nor a batch gets too long.    *)
(***************************************************************************)
BatchesEndInTime == \A l \in Link : Q!Detected(queue[l], par)

(***************************************************************************)
(* While a link sends or messages wait for it, one timeout is scheduled, at*)
(* the end of the transmission: the queue always goes on.                  *)
(***************************************************************************)
QueueRestarts ==
    \A l \in Link :
        finishes[l] > now \/ queue[l].queue # <<>> =>
            Cardinality({i \in DOMAIN fes :
                fes[i].to = timeout(l) /\ fes[i].time = finishes[l]}) = 1

(***************************************************************************)
(* The utilization of a link and the length of its queue are weighted by   *)
(* how long they lasted: since the last reset, at any time, the sums are   *)
(* the time the link was busy and the integral of the length; and so they  *)
(* were for each batch that was recorded.                                  *)
(***************************************************************************)
StatisticsExact ==
    \A l \in Link :
        LET q == queue[l]
            busy == IF isScheduled(fes, timeout(l)) THEN 1 ELSE 0
        IN /\ Q!collect2(q.linkUtilization, busy, now - q.lastUtilChange)
                = [sum |-> meter[l].busy, weight |-> now - meter[l].since]
           /\ Q!collect2(q.queueLength, Len(q.queue), now - q.lastQueueChange)
                = [sum |-> meter[l].length, weight |-> now - meter[l].since]
           /\ q.report # Q!NoReport =>
                /\ q.report.linkUtilization.sum = measured[l].busy
                /\ q.report.queueLength.sum = measured[l].length

(***************************************************************************)
(* A stack that is about to forward a packet has a route that starts a     *)
(* shortest path for the costs the links have by then: the notification of *)
(* a change overtakes the packets of the same time.                        *)
(***************************************************************************)
RoutesCurrentWhenUsed ==
    LET n == Head(fes).to[2]  p == Head(fes).msg IN
    fes # <<>> /\ Head(fes).to[1] = "stack" /\ p.destNode \in Node \ {n} =>
        R!StartsShortest(cost, n, p.destNode, routes[n][p.destNode])

(***************************************************************************)
(* Every ping or its pong is under way, waits, has come back, or was       *)
(* dropped at a full queue: none is lost in a stack (for its time to live, *)
(* a missing route or application), also while routes change.              *)
(***************************************************************************)
PingsComeBack ==
    Pingers # {} /\ Range(par.pingDest) \subseteq Node =>
        MapThenSumSet(LAMBDA n : ping[n].sent - ping[n].received, Node)
            = Cardinality({i \in UnderWay : fes[i].msg.id = "ping"})
              + Cardinality({w \in Waiting : queue[w[1]].queue[w[2]].id = "ping"})
              + lost.ping

(***************************************************************************)
(* The timers of the sender are scheduled when its variables say so, and no*)
(* packet of the window times out before the timer does: a packet that is  *)
(* not acknowledged is always going to be sent again.                      *)
(***************************************************************************)
ScheduledAt(timer, t) ==
    {fes[i].time : i \in {j \in DOMAIN fes : fes[j].to = timer}}
        = IF t = Never THEN {} ELSE {t}

NoPacketExpiresUnnoticed ==
    par.send =>
    /\ ScheduledAt(timer0, snd.nextSendTime) /\ ScheduledAt(timer1, snd.timerExpiration)
    /\ \A i \in snd.lastAckSeqNo .. snd.nextSendSeqNo - 1 :
          i \in DOMAIN snd.packetBuffer /\ snd.packetBuffer[i] >= snd.timerExpiration
    /\ DOMAIN snd.packetBuffer # {} =>
          snd.nextSendTime # Never \/ snd.timerExpiration # Never

(***************************************************************************)
(* Unless an acknowledgement was damaged or dropped, the sender knows of   *)
(* all that the receiver has, or an acknowledgement of it is under way.    *)
(* (The receiver ignores what it has had before, so that a lost one may    *)
(* never be made up for.)                                                  *)
(***************************************************************************)
AckUnderWay ==
    LET next == rcv.lastReceivedSeqNo + 1
        tells(msg) == msg.id = "ack" /\ msg.seqNo = next /\ ~msg.bitError
    IN \/ lost.ack > 0
       \/ snd.lastAckSeqNo = next
       \/ \E i \in UnderWay : tells(fes[i].msg)
       \/ \E w \in Waiting : tells(queue[w[1]].queue[w[2]])
=============================================================================
