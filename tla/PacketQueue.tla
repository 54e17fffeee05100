------------------------------ MODULE PacketQueue ------------------------------
(***************************************************************************)
(* What the send buffer promises its user: a bounded first-in first-out    *)
(* queue of packets with consecutive sequence numbers from base on, each   *)
(* with a payload and a timeout.                                           *)
(***************************************************************************)
EXTENDS Integers, Sequences

CONSTANTS Bound,      \* most packets at a time
          Contents,   \* the payloads
          Times,      \* the timeouts
          NoTime,     \* of a packet that was never sent
          Disabled    \* of a packet whose timer was reset

VARIABLES base, queue

queueVars == <<base, queue>>

QInit == base = 0 /\ queue = <<>>

QPut ==
    /\ Len(queue) < Bound
    /\ \E c \in Contents : queue' = Append(queue, [payload |-> c, timeout |-> NoTime])
    /\ UNCHANGED base

QFree ==
    \E n \in 1 .. Len(queue) :
        /\ queue' = SubSeq(queue, n + 1, Len(queue))
        /\ base' = base + n

QSetTimeout ==
    \E i \in 1 .. Len(queue), t \in Times :
        /\ queue' = [queue EXCEPT ![i].timeout = t]
        /\ UNCHANGED base

\* The timers of all packets.
QReset ==
    /\ queue' = [i \in 1 .. Len(queue) |-> [queue[i] EXCEPT !.timeout = Disabled]]
    /\ UNCHANGED base

QNext == QPut \/ QFree \/ QSetTimeout \/ QReset

QSpec == QInit /\ [][QNext]_queueVars
===============================================================================
