----------------------------- MODULE InterfaceQueue -----------------------------
(***************************************************************************)
(* The queue in front of each link of the simulated network                *)
(* (GoBackN/protsim/support/InterfaceQueue.cc): what its handlers do with  *)
(* the queue and its statistics, as operators from queue to queue.         *)
(*                                                                         *)
(* "finishes" is when the link will have sent what it is sending; t is the *)
(* time; "par" holds the parameters of the .ini file.  A weighted statistic*)
(* is its sum and its weight; waiting times are only counted, in "samples";*)
(* vectors and histograms are left out.                                    *)
(***************************************************************************)
EXTENDS Integers, Sequences

NoWeight == [sum |-> 0, weight |-> 0]
NoReport == [batch |-> -1]

collect2(stat, value, weight) ==
    [sum |-> stat.sum + value * weight, weight |-> stat.weight + weight]

NewQueue(par) ==
    [queue |-> <<>>,
     transientOver |-> par.transientRemoval =< 0,
     batchNum |-> 0, lastUtilChange |-> 0, lastQueueChange |-> 0,
     linkUtilization |-> NoWeight, queueLength |-> NoWeight, samples |-> 0,
     dropped |-> 0,
     report |-> NoReport]  \* the scalars recorded last

resetStatistics(q, t) ==
    [q EXCEPT !.lastUtilChange = t, !.lastQueueChange = t,
              !.linkUtilization = NoWeight, !.queueLength = NoWeight,
              !.samples = 0, !.dropped = 0]

CollectUtil(q, value, t) ==
    [q EXCEPT !.linkUtilization = collect2(@, value, t - q.lastUtilChange),
              !.lastUtilChange = t]
CollectLength(q, t) ==
    [q EXCEPT !.queueLength = collect2(@, Len(q.queue), t - q.lastQueueChange),
              !.lastQueueChange = t]

recordStatistics(q, t, finishes) ==
    LET r == CollectLength(CollectUtil(q, IF finishes < t THEN 0 ELSE 1, t), t) IN
    [r EXCEPT !.report = [batch |-> q.batchNum, linkUtilization |-> r.linkUtilization,
                          queueLength |-> r.queueLength, samples |-> r.samples]]

detectTransient(q, par, t) ==
    IF ~q.transientOver /\ q.samples >= par.transientRemoval
       THEN [resetStatistics(q, t) EXCEPT !.transientOver = TRUE]
       ELSE q

detectBatch(q, par, t, finishes) ==
    IF q.transientOver /\ par.batchLength > 0 /\ q.samples >= par.batchLength
       THEN [resetStatistics(recordStatistics(q, t, finishes), t) EXCEPT !.batchNum = @ + 1]
       ELSE q

detect(q, par, t, finishes) == detectBatch(detectTransient(q, par, t), par, t, finishes)

\* The assertions at the end of both.
Detected(q, par) ==
    /\ q.transientOver \/ q.samples < par.transientRemoval
    /\ par.batchLength =< 0 \/ q.samples < par.batchLength

----------------------------------------------------------------------------
(***************************************************************************)
(* handleMessage: the queue afterwards, and what it sends.  Whenever it    *)
(* sends, the timeout is scheduled for the end of the transmission.        *)
(***************************************************************************)
Sample(q) == [q EXCEPT !.samples = @ + 1]

SendFirst(q, par, t, finishes) ==
    [q |-> detect(Sample([CollectLength(q, t) EXCEPT !.queue = Tail(@)]), par, t, finishes),
     send |-> <<Head(q.queue)>>]
Idle(q, t) == [q |-> CollectUtil(q, 1, t), send |-> <<>>]

\* Mutant: the last message stays.
OnTimeoutLeavesOne(q, par, t, finishes) ==
    IF Len(q.queue) > 1 THEN SendFirst(q, par, t, finishes) ELSE Idle(q, t)

OnTimeout(q, par, t, finishes) ==
    IF q.queue # <<>> THEN SendFirst(q, par, t, finishes) ELSE Idle(q, t)

\* Mutants: one message too many may wait; the length is noted after it has changed.
HasRoomForOneMore(q, par) == Len(q.queue) =< par.maxQueueLength
InsertThenCollect(q, t, msg) == CollectLength([q EXCEPT !.queue = Append(@, msg)], t)

HasRoom(q, par) == Len(q.queue) < par.maxQueueLength
Insert(q, t, msg) == [CollectLength(q, t) EXCEPT !.queue = Append(@, msg)]

SendAtOnce(q, par, t, finishes, msg) ==
    [q |-> detect(Sample(CollectUtil(q, 0, t)), par, t, finishes), send |-> <<msg>>]

OnMessage(q, par, t, finishes, msg) ==
    IF q.queue = <<>> /\ finishes =< t THEN SendAtOnce(q, par, t, finishes, msg)
    ELSE [q |-> IF HasRoom(q, par) THEN Insert(q, t, msg) ELSE [q EXCEPT !.dropped = @ + 1],
          send |-> <<>>]
===============================================================================
