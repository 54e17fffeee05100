------------------------------ MODULE MCSimulation ------------------------------
(***************************************************************************)
(* Simulation with the nodes of ARQNetwork (N = 1): LeftNode 0, LeftRouter *)
(* 1000, RightRouter 2000 and RightNode 10.  A second way leads around     *)
(* RightRouter, so that there are routes to choose from.                   *)
(***************************************************************************)
EXTENDS Simulation

MCNode == {0, 1000, 2000, 10}
\* gates in the order of the .ned file, the added link last
MCnetOut == (0 :> <<1000>>) @@ (1000 :> <<2000, 0, 10>>) @@ (2000 :> <<1000, 10>>)
              @@ (10 :> <<2000, 1000>>)
MCappls == [n \in MCNode |-> {RoutingDaemon, PingPongAppl}
                              \cup (IF n = 0 THEN {GoBackNSender} ELSE {})
                              \cup (IF n = 10 THEN {GoBackNReceiver} ELSE {})]
MCduration == [l \in Link |-> [data |-> 2, ack |-> 1, ping |-> 2]]
MCdelay == [l \in Link |-> 1]
MCerrorLinks == {<<0, 1000>>, <<1000, 0>>}
MCCommands == {<<1000, 10>>, <<10, 1000>>, <<2000, 10>>} \X {0, 3}

Base == [send |-> FALSE, window |-> 3, interval |-> 1, timeout |-> 12, sendNack |-> TRUE,
         maxQueueLength |-> 2, transientRemoval |-> 0, batchLength |-> 0,
         pingDest |-> <<>>, pingStart |-> 0, pingInterval |-> 2, limit |-> 30,
         faults |-> 0, changes |-> 0]

Transfers == {[Base EXCEPT !.send = TRUE, !.timeout = t, !.window = w, !.sendNack = nack,
                           !.interval = i, !.maxQueueLength = 2, !.faults = 3, !.limit = 40] :
                t \in {9, 16}, w \in {1, 3}, nack \in BOOLEAN, i \in {1, 3}}
Rerouted == {[Base EXCEPT !.pingDest = (0 :> 10), !.pingInterval = 5, !.changes = 2, !.limit = 19],
             [Base EXCEPT !.pingDest = (0 :> 10) @@ (10 :> 0), !.pingInterval = 3,
                          !.changes = 1, !.limit = 26]}
Flooded == {[Base EXCEPT !.pingDest = (0 :> d), !.pingInterval = 12, !.limit = 60] :
                d \in {Nobody, ToAll, ToAllButLast}}
Measured == {[Base EXCEPT !.pingDest = (0 :> 10) @@ (10 :> 2000), !.pingInterval = i,
                          !.transientRemoval = r, !.batchLength = b] :
                i \in 1 .. 3, r \in 0 .. 2, b \in {2, 3}}
MCParameters == Transfers \cup Rerouted \cup Flooded \cup Measured

\* They are what the theorems of DeliveryProofs ask for.
ASSUME MCParametersProper == \A p \in MCParameters : ProperSetup(p)
================================================================================
