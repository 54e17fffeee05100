------------------------------ MODULE DataBuffer ------------------------------
(***************************************************************************)
(* The send buffer of the go-back-N file sender                            *)
(* (GoBackN/src.task/DataBuffer.c): a ring of MaxCount packet pointers     *)
(* that holds the packets minSeqNo .. minSeqNo+count-1.                    *)
(*                                                                         *)
(* A buffer is a record with the fields of struct DataBufferHead.  Each    *)
(* function of the C file is an operator from buffer to buffer; the        *)
(* assert()s it starts with are a predicate of their own, so that a caller *)
(* can say "the process aborts here".                                      *)
(*                                                                         *)
(* Clock values are kept relative to now: a stored struct timeval is the   *)
(* number of ticks left until it is reached, Expired when it is in the     *)
(* past, Never for LONG_MAX, and Unset while the malloc()ed field has not  *)
(* been written.                                                           *)
(***************************************************************************)
EXTENDS Integers, Sequences

CONSTANTS MaxCount,      \* slots of the ring (MAX_FILE_SIZE)
          TimeoutTicks,  \* the sender's timeout, in clock ticks
          Payload        \* what a packet can carry

ASSUME DataBufferAssumption == /\ MaxCount \in Nat \ {0}
                               /\ TimeoutTicks \in Nat \ {0}

Expired == 0
Never   == TimeoutTicks + 1
Unset   == -1
Instant == Unset .. Never

Packet == [seqNo : Nat, payload : Payload, timeout : Instant]

\* A slot whose packet was freed, or that was never filled (calloc).
NoPacket == [seqNo |-> -1, payload |-> <<>>, timeout |-> Unset]

Slot == 0 .. MaxCount - 1

Buffer == [minSeqNo   : Nat,
           firstIndex : Slot,
           freeIndex  : Slot,
           count      : 0 .. MaxCount,
           data       : [Slot -> Packet \cup {NoPacket}]]

allocateDataBuffer ==
    [minSeqNo |-> 0, firstIndex |-> 0, freeIndex |-> 0, count |-> 0,
     data |-> [i \in Slot |-> NoPacket]]

getFirstSeqNoOfBuffer(b) == b.minSeqNo

\* Mutant: the last packet is forgotten.
LastSeqNoShort(b) == b.minSeqNo + b.count - 2

getLastSeqNoOfBuffer(b) == b.minSeqNo + b.count - 1

getBufferSize(b) == b.count

\* seqNo is one of the buffered packets: the test of bufferContainsPacket,
\* and the negation of the early return of getDataPacketFromBuffer.
bufferContainsPacket(b, seqNo) ==
    /\ seqNo >= b.minSeqNo
    /\ seqNo < b.minSeqNo + b.count

IndexOf(b, seqNo) == (seqNo - b.minSeqNo + b.firstIndex) % MaxCount

\* NoPacket stands for the NULL that the C function returns.
getDataPacketFromBuffer(b, seqNo) ==
    IF bufferContainsPacket(b, seqNo) THEN b.data[IndexOf(b, seqNo)] ELSE NoPacket

-------------------------------------------------------------------------------
putAsserts(b, p) ==
    /\ b.count < MaxCount
    /\ p.seqNo >= b.minSeqNo
    /\ p.seqNo < b.minSeqNo + MaxCount
    /\ IndexOf(b, p.seqNo) = b.freeIndex

putDataPacketIntoBuffer(b, p) ==
    [b EXCEPT !.data[b.freeIndex] = p,
              !.freeIndex = (b.freeIndex + 1) % MaxCount,
              !.count = b.count + 1]

freeAsserts(b, start, end) ==
    /\ end >= start
    /\ start = b.minSeqNo
    /\ end - start <= b.count

\* Mutant: the loop runs once too often.
FreedSlotsTooMany(b, n) == {(b.firstIndex + k) % MaxCount : k \in 0 .. n}

\* The slots that the loop of freeBuffer walks over when it frees n packets.
FreedSlots(b, n) == {(b.firstIndex + k) % MaxCount : k \in 0 .. n - 1}

\* Mutant: count is not decremented.
FreeNoCount(b, start, end) ==
    LET n == end - start + 1
    IN  [b EXCEPT !.data = [i \in Slot |-> IF i \in FreedSlots(b, n) THEN NoPacket
                                           ELSE b.data[i]],
                  !.firstIndex = (b.firstIndex + n) % MaxCount, !.minSeqNo = b.minSeqNo + n]

freeBuffer(b, start, end) ==
    LET n == end - start + 1
    IN  [b EXCEPT !.data = [i \in Slot |-> IF i \in FreedSlots(b, n) THEN NoPacket
                                           ELSE b.data[i]],
                  !.firstIndex = (b.firstIndex + n) % MaxCount,
                  !.minSeqNo = b.minSeqNo + n,
                  !.count = b.count - n]

\* Mutants: the loop starts behind firstIndex; it stops at the end of the array.
LoopSlotsLate(b) ==
    IF b.firstIndex <= b.freeIndex
    THEN {i \in Slot : b.firstIndex < i /\ i < b.freeIndex}
    ELSE {i \in Slot : b.firstIndex < i \/ i < b.freeIndex}
LoopSlotsNoWrap(b) ==
    IF b.firstIndex <= b.freeIndex
    THEN {i \in Slot : b.firstIndex <= i /\ i < b.freeIndex}
    ELSE {i \in Slot : b.firstIndex <= i}

\* The slots visited by "for (i = firstIndex; i != freeIndex; i = (i+1) % maxCount)":
\* none when the two indices meet, which they also do when the ring is full.
LoopSlots(b) ==
    IF b.firstIndex <= b.freeIndex
    THEN {i \in Slot : b.firstIndex <= i /\ i < b.freeIndex}
    ELSE {i \in Slot : b.firstIndex <= i \/ i < b.freeIndex}

resetTimers(b) ==
    [b EXCEPT !.data = [i \in Slot |->
                           IF i \in LoopSlots(b) THEN [b.data[i] EXCEPT !.timeout = Never]
                           ELSE b.data[i]]]

\* The caller stores a send timeout in the packet that
\* getDataPacketFromBuffer returned to it (data->timeout = ...).
SetTimeout(b, seqNo, t) == [b EXCEPT !.data[IndexOf(b, seqNo)].timeout = t]

\* Time passes: what is not yet in the past comes one tick closer.
Closer(t) == IF t \in 1 .. TimeoutTicks THEN t - 1 ELSE t

AgeTimeouts(b) ==
    [b EXCEPT !.data = [i \in Slot |-> [b.data[i] EXCEPT !.timeout = Closer(@)]]]

-------------------------------------------------------------------------------
\* The buffered sequence numbers.
Buffered(b) == b.minSeqNo .. b.minSeqNo + b.count - 1

\* The ring is consistent: freeIndex is count slots after firstIndex, and every
\* buffered sequence number finds its packet.
RingOK(b) ==
    /\ b \in Buffer
    /\ b.freeIndex = (b.firstIndex + b.count) % MaxCount
    /\ \A s \in Buffered(b) : /\ b.data[IndexOf(b, s)] \in Packet
                              /\ b.data[IndexOf(b, s)].seqNo = s
===============================================================================
