----------------------------- MODULE DataBufferUse -----------------------------
(***************************************************************************)
(* The data buffer under every sequence of calls that respects its         *)
(* assert()s, also the ones the file sender does not make: packets keep    *)
(* being put while others are freed, so that the ring wraps around.        *)
(***************************************************************************)
EXTENDS DataBuffer

CONSTANT MaxSeqNo  \* bound on the sequence numbers put, for model checking

ASSUME DataBufferUseAssumption == MaxSeqNo \in Nat

VARIABLE buffer

Init == buffer = allocateDataBuffer

Put ==
    \E seqNo \in 0 .. MaxSeqNo, c \in Payload :
        LET p == [seqNo |-> seqNo, payload |-> c, timeout |-> Unset]
        IN  /\ putAsserts(buffer, p)
            /\ buffer' = putDataPacketIntoBuffer(buffer, p)

\* The callers never free more than there is: end is a buffered packet.
Free ==
    \E end \in 0 .. MaxSeqNo :
        /\ bufferContainsPacket(buffer, end)
        /\ freeAsserts(buffer, getFirstSeqNoOfBuffer(buffer), end)
        /\ buffer' = freeBuffer(buffer, getFirstSeqNoOfBuffer(buffer), end)

Stamp ==
    \E seqNo \in 0 .. MaxSeqNo :
        /\ getDataPacketFromBuffer(buffer, seqNo) # NoPacket
        /\ buffer' = SetTimeout(buffer, seqNo, TimeoutTicks)

\* Only for a buffer that is not full: on a full one the loop of resetTimers ends
\* before it starts.
Reset ==
    /\ getBufferSize(buffer) < MaxCount
    /\ buffer' = resetTimers(buffer)

Next == Put \/ Free \/ Stamp \/ Reset

Spec == Init /\ [][Next]_buffer

-------------------------------------------------------------------------------
\* The k-th packet from the front.
PacketAt(k) == buffer.data[(buffer.firstIndex + k) % MaxCount]

\* The type invariant of the buffer: no index leaves the ring and count cannot
\* drop below 0 or exceed maxCount.
TypeOK == buffer \in Buffer

\* The ring is consistent (DataBuffer.c:8-14): freeIndex is count slots after
\* firstIndex, the slots between them hold the packets minSeqNo, minSeqNo+1, ...
\* in this order, and no packet that was freed can still be reached.
RingConsistent ==
    /\ buffer.freeIndex = (buffer.firstIndex + buffer.count) % MaxCount
    /\ \A k \in 0 .. buffer.count - 1 : PacketAt(k).seqNo = buffer.minSeqNo + k
    /\ \A k \in buffer.count .. MaxCount - 1 : PacketAt(k) = NoPacket

Queue == INSTANCE PacketQueue
    WITH Bound <- MaxCount, Contents <- Payload, Times <- Instant,
         NoTime <- Unset, Disabled <- Never,
         base  <- buffer.minSeqNo,
         queue <- [i \in 1 .. buffer.count |->
                     [payload |-> PacketAt(i - 1).payload,
                      timeout |-> PacketAt(i - 1).timeout]]

\* The ring implements a bounded first-in first-out queue: what is put comes out
\* once, in order, and resetTimers and a stamp touch the buffered packets only.
IsQueue == Queue!QSpec
===============================================================================
