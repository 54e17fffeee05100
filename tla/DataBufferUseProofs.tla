-------------------------- MODULE DataBufferUseProofs --------------------------
(***************************************************************************)
(* The send buffer is a bounded first-in first-out queue, for every size   *)
(* of the ring: the invariant and the refinement of DataBufferUse.         *)
(***************************************************************************)
EXTENDS DataBufferUse, DataBufferProofs, SequenceTheorems

\* The k-th slot from the first one on, around the ring.
Behind(b, k) == (b.firstIndex + k) % MaxCount

\* No packet that was freed is left in the ring: without this a stale packet could
\* come back when count grows again.
RestEmpty(b) == \A k \in b.count .. MaxCount - 1 : b.data[Behind(b, k)] = NoPacket

Ring(b) == RingOK(b) /\ RestEmpty(b)

\* What the queue knows of the packets of b, in their order.
Entry == [payload : Payload, timeout : Instant]
EntryOf(p) == [payload |-> p.payload, timeout |-> p.timeout]
AsQueue(b) == [i \in 1 .. b.count |-> EntryOf(b.data[Behind(b, i - 1)])]

\* The slots of a ring are reached once each within one turn.
LEMMA Turn ==
    ASSUME NEW b \in Buffer, NEW k \in 0 .. MaxCount - 1
    PROVE  /\ Behind(b, k) \in Slot
           /\ Behind(b, k) = IF b.firstIndex + k < MaxCount THEN b.firstIndex + k
                             ELSE b.firstIndex + k - MaxCount
<1> DEFINE a == b.firstIndex + k
<1>1. b.firstIndex \in 0 .. MaxCount - 1
  BY DEF Buffer, Slot
<1>2. a \in 0 .. 2 * MaxCount - 1 /\ Behind(b, k) = a % MaxCount
  BY <1>1, DataBufferAssumption DEF Behind
<1> HIDE DEF a
<1>3. a % MaxCount = IF a < MaxCount THEN a ELSE a - MaxCount
  BY <1>2, WrapAround
<1> QED
  BY <1>1, <1>2, <1>3, DataBufferAssumption DEF a, Slot

\* The packet in the k-th slot is the one with the k-th sequence number.
LEMMA KthPacket ==
    ASSUME NEW b, RingOK(b), NEW k \in 0 .. b.count - 1
    PROVE  /\ k \in 0 .. MaxCount - 1
           /\ b.minSeqNo + k \in Buffered(b)
           /\ IndexOf(b, b.minSeqNo + k) = Behind(b, k)
           /\ b.data[Behind(b, k)] = getDataPacketFromBuffer(b, b.minSeqNo + k)
           /\ b.data[Behind(b, k)] \in Packet
           /\ b.data[Behind(b, k)].seqNo = b.minSeqNo + k
<1>1. b.minSeqNo \in Nat /\ b.count \in 0 .. MaxCount /\ b.firstIndex \in Nat
  BY DEF RingOK, Buffer, Slot
<1>2. b.minSeqNo + k \in Buffered(b) /\ b.minSeqNo + k \in Int
  BY <1>1 DEF Buffered
<1>3. (b.minSeqNo + k) - b.minSeqNo + b.firstIndex = b.firstIndex + k
  BY <1>1
<1>4. IndexOf(b, b.minSeqNo + k) = Behind(b, k)
  <2> DEFINE x == (b.minSeqNo + k) - b.minSeqNo + b.firstIndex
             y == b.firstIndex + k
  <2>1. IndexOf(b, b.minSeqNo + k) = x % MaxCount /\ Behind(b, k) = y % MaxCount
    BY DEF IndexOf, Behind
  <2>2. x = y
    BY <1>3
  <2> HIDE DEF x, y
  <2> QED
    BY <2>1, <2>2
<1> QED
  BY <1>1, <1>2, <1>4, GetFacts, DataBufferAssumption

LEMMA AsQueueType ==
    ASSUME NEW b, RingOK(b)
    PROVE  /\ b.count \in Nat
           /\ AsQueue(b) \in Seq(Entry)
           /\ Len(AsQueue(b)) = b.count
           /\ \A i \in 1 .. b.count : AsQueue(b)[i] = EntryOf(b.data[Behind(b, i - 1)])
<1>1. b.count \in 0 .. MaxCount
  BY DEF RingOK, Buffer
<1>2. ASSUME NEW i \in 1 .. b.count PROVE EntryOf(b.data[Behind(b, i - 1)]) \in Entry
  <2>1. i - 1 \in 0 .. b.count - 1
    BY <1>1
  <2>2. b.data[Behind(b, i - 1)] \in Packet
    BY <2>1, KthPacket
  <2> QED
    BY <2>2 DEF EntryOf, Entry, Packet
<1> QED
  BY <1>1, <1>2, DataBufferAssumption DEF AsQueue

-------------------------------------------------------------------------------
\* allocateDataBuffer makes the empty queue (DataBuffer.c:16-24).
LEMMA EmptyQueue ==
    Ring(allocateDataBuffer) /\ AsQueue(allocateDataBuffer) = <<>>
<1> DEFINE b == allocateDataBuffer
<1>1. RingOK(b) /\ b.count = 0
  BY AllocateOK
<1>2. \A i \in Slot : b.data[i] = NoPacket
  BY DEF allocateDataBuffer
<1>3. b \in Buffer
  BY <1>1 DEF RingOK
<1> HIDE DEF b
<1>4. RestEmpty(b)
  BY <1>1, <1>2, <1>3, Turn, DataBufferAssumption DEF RestEmpty
<1>5. AsQueue(b) = <<>>
  BY <1>1, AsQueueType
<1> QED
  BY <1>1, <1>4, <1>5 DEF Ring, b

\* The assert()s of putDataPacketIntoBuffer admit the next sequence number only: any
\* other one belongs into another slot (DataBuffer.c:57-60).
LEMMA PutIsNext ==
    ASSUME NEW b, RingOK(b), NEW p \in Packet, putAsserts(b, p)
    PROVE  p.seqNo = b.minSeqNo + b.count
<1>1. /\ b.minSeqNo \in Nat /\ b.firstIndex \in 0 .. MaxCount - 1
      /\ b.count \in 0 .. MaxCount - 1 /\ p.seqNo \in Nat
  BY DataBufferAssumption DEF RingOK, Buffer, Slot, Packet, putAsserts
<1> DEFINE x == p.seqNo - b.minSeqNo + b.firstIndex
           y == b.firstIndex + b.count
<1>2. /\ x \in 0 .. 2 * MaxCount - 1 /\ y \in 0 .. 2 * MaxCount - 1
      /\ p.seqNo - b.minSeqNo \in 0 .. MaxCount - 1
  BY <1>1, DataBufferAssumption DEF putAsserts
<1>3. x % MaxCount = y % MaxCount
  BY DEF putAsserts, IndexOf, RingOK
<1>4. x \in b.firstIndex .. b.firstIndex + MaxCount - 1
      /\ y \in b.firstIndex .. b.firstIndex + MaxCount - 1
  BY <1>1, <1>2, DataBufferAssumption
<1>5. x = y => p.seqNo = b.minSeqNo + b.count
  BY <1>1
<1> HIDE DEF x, y
<1>6. /\ x % MaxCount = IF x < MaxCount THEN x ELSE x - MaxCount
      /\ y % MaxCount = IF y < MaxCount THEN y ELSE y - MaxCount
  BY <1>2, WrapAround
<1>7. x = y
  BY <1>1, <1>2, <1>3, <1>4, <1>6, DataBufferAssumption
<1> QED
  BY <1>5, <1>7

\* putDataPacketIntoBuffer appends (DataBuffer.c:55-64).
LEMMA PutAppends ==
    ASSUME NEW b, Ring(b), NEW p \in Packet, putAsserts(b, p)
    PROVE  /\ Ring(putDataPacketIntoBuffer(b, p))
           /\ putDataPacketIntoBuffer(b, p).minSeqNo = b.minSeqNo
           /\ Len(AsQueue(b)) < MaxCount
           /\ AsQueue(putDataPacketIntoBuffer(b, p)) = Append(AsQueue(b), EntryOf(p))
<1> DEFINE c == putDataPacketIntoBuffer(b, p)
<1>1. RingOK(b) /\ RestEmpty(b) /\ p.seqNo = b.minSeqNo + b.count
  BY PutIsNext DEF Ring
<1>2. /\ b \in Buffer /\ b.minSeqNo \in Nat /\ b.count \in 0 .. MaxCount - 1
      /\ b.firstIndex \in 0 .. MaxCount - 1
  BY <1>1, DataBufferAssumption DEF RingOK, Buffer, Slot, putAsserts
<1>3. /\ RingOK(c) /\ c \in Buffer
      /\ c.minSeqNo = b.minSeqNo /\ c.count = b.count + 1
      /\ \A s \in Buffered(b) : getDataPacketFromBuffer(c, s) = getDataPacketFromBuffer(b, s)
      /\ getDataPacketFromBuffer(c, b.minSeqNo + b.count) = p
  BY <1>1, <1>2, PutFacts DEF RingOK
<1>4. c.firstIndex = b.firstIndex /\ c.data = [b.data EXCEPT ![b.freeIndex] = p]
  BY <1>2 DEF putDataPacketIntoBuffer, Buffer
<1>5. b.freeIndex = Behind(b, b.count) /\ b.data \in [Slot -> Packet \cup {NoPacket}]
  BY <1>1 DEF RingOK, Behind, Buffer
<1> HIDE DEF c
<1>6. \A k : Behind(c, k) = Behind(b, k)
  BY <1>4 DEF Behind
<1>7. RestEmpty(c)
  <2> SUFFICES ASSUME NEW k \in c.count .. MaxCount - 1
               PROVE  c.data[Behind(b, k)] = NoPacket
    BY <1>6 DEF RestEmpty
  <2>1. k \in 0 .. MaxCount - 1 /\ b.count \in 0 .. MaxCount - 1 /\ b.count < k
        /\ k \in b.count .. MaxCount - 1
    BY <1>2, <1>3, DataBufferAssumption
  <2>2. Behind(b, k) # Behind(b, b.count) /\ Behind(b, k) \in Slot
    BY <1>2, <2>1, Turn, DataBufferAssumption
  <2>3. b.data[Behind(b, k)] = NoPacket
    BY <1>1, <2>1 DEF RestEmpty
  <2> QED
    BY <1>4, <1>5, <2>2, <2>3
<1>8. \A k \in 0 .. b.count - 1 : c.data[Behind(c, k)] = b.data[Behind(b, k)]
  <2> SUFFICES ASSUME NEW k \in 0 .. b.count - 1
               PROVE  c.data[Behind(c, k)] = b.data[Behind(b, k)]
    OBVIOUS
  <2>1. k \in 0 .. c.count - 1
    BY <1>2, <1>3
  <2>2. c.data[Behind(c, k)] = getDataPacketFromBuffer(c, b.minSeqNo + k)
    BY <1>3, <2>1, KthPacket
  <2>3. /\ b.data[Behind(b, k)] = getDataPacketFromBuffer(b, b.minSeqNo + k)
        /\ b.minSeqNo + k \in Buffered(b)
    BY <1>1, KthPacket
  <2> QED
    BY <1>3, <2>2, <2>3
<1>9. c.data[Behind(c, b.count)] = p
  <2>1. b.count \in 0 .. c.count - 1
    BY <1>2, <1>3
  <2> QED
    BY <1>3, <2>1, KthPacket
<1>10. EntryOf(p) \in Entry
  BY DEF EntryOf, Entry, Packet
<1>11. AsQueue(c) = Append(AsQueue(b), EntryOf(p))
  <2>1. /\ AsQueue(b) \in Seq(Entry) /\ Len(AsQueue(b)) = b.count
        /\ AsQueue(c) \in Seq(Entry) /\ Len(AsQueue(c)) = b.count + 1
    BY <1>1, <1>3, AsQueueType
  <2>2. \A i \in 1 .. b.count : AsQueue(c)[i] = AsQueue(b)[i]
    <3> SUFFICES ASSUME NEW i \in 1 .. b.count PROVE AsQueue(c)[i] = AsQueue(b)[i]
      OBVIOUS
    <3>1. i - 1 \in 0 .. b.count - 1 /\ i \in 1 .. c.count
      BY <1>2, <1>3
    <3> QED
      BY <1>1, <1>3, <1>8, <3>1, AsQueueType
  <2>3. AsQueue(c)[b.count + 1] = EntryOf(p)
    <3> DEFINE i == b.count + 1
    <3>1. i \in 1 .. c.count /\ i - 1 = b.count
      BY <1>2, <1>3
    <3> HIDE DEF i
    <3>2. AsQueue(c)[i] = EntryOf(c.data[Behind(c, i - 1)])
      BY <1>3, <3>1, AsQueueType
    <3> QED
      BY <1>9, <3>1, <3>2 DEF i
  <2> QED
    BY <1>2, <1>10, <2>1, <2>2, <2>3
<1>12. Len(AsQueue(b)) < MaxCount
  BY <1>1, <1>2, AsQueueType, DataBufferAssumption
<1> QED
  BY <1>3, <1>7, <1>11, <1>12 DEF Ring, c

\* freeBuffer up to a buffered packet drops the packets before it and this one, and
\* leaves their slots empty (DataBuffer.c:66-79).
LEMMA FreeDrops ==
    ASSUME NEW b, Ring(b), NEW end \in Buffered(b),
           NEW n, n = end - b.minSeqNo + 1
    PROVE  /\ Ring(freeBuffer(b, b.minSeqNo, end))
           /\ n \in 1 .. Len(AsQueue(b))
           /\ freeBuffer(b, b.minSeqNo, end).minSeqNo = b.minSeqNo + n
           /\ AsQueue(freeBuffer(b, b.minSeqNo, end))
                = SubSeq(AsQueue(b), n + 1, Len(AsQueue(b)))
<1> DEFINE c == freeBuffer(b, b.minSeqNo, end)
<1>1. RingOK(b) /\ RestEmpty(b)
  BY DEF Ring
<1>2. /\ b \in Buffer /\ b.minSeqNo \in Nat /\ b.count \in 0 .. MaxCount
      /\ b.firstIndex \in 0 .. MaxCount - 1
  BY <1>1 DEF RingOK, Buffer, Slot
<1>3. n \in 1 .. b.count /\ end + 1 = b.minSeqNo + n
  BY <1>2 DEF Buffered
<1>4. /\ RingOK(c) /\ c \in Buffer
      /\ c.minSeqNo = b.minSeqNo + n /\ c.count = b.count - n
      /\ \A s \in Buffered(c) : getDataPacketFromBuffer(c, s) = getDataPacketFromBuffer(b, s)
  <2>1. /\ RingOK(c)
        /\ c.minSeqNo = end + 1 /\ c.count = b.count - (end - b.minSeqNo + 1)
        /\ \A s \in Buffered(c) : getDataPacketFromBuffer(c, s) = getDataPacketFromBuffer(b, s)
    BY <1>1, FreeFacts
  <2> QED
    BY <1>3, <2>1 DEF RingOK
<1>5. /\ c.firstIndex = Behind(b, n)
      /\ c.data = [i \in Slot |-> IF i \in FreedSlots(b, n) THEN NoPacket ELSE b.data[i]]
  BY <1>2 DEF freeBuffer, Buffer, Behind
<1> HIDE DEF c
<1>6. RestEmpty(c)
  <2> SUFFICES ASSUME NEW k \in c.count .. MaxCount - 1
               PROVE  c.data[Behind(c, k)] = NoPacket
    BY DEF RestEmpty
  <2>1. k \in 0 .. MaxCount - 1 /\ n + k >= b.count /\ c.firstIndex \in 0 .. MaxCount - 1
    BY <1>2, <1>3, <1>4, DataBufferAssumption DEF Buffer, Slot
  <2>2. /\ Behind(c, k) \in Slot
        /\ Behind(c, k) = IF c.firstIndex + k < MaxCount THEN c.firstIndex + k
                          ELSE c.firstIndex + k - MaxCount
    BY <1>4, <2>1, Turn
  <2>3. c.firstIndex = IF b.firstIndex + n < MaxCount THEN b.firstIndex + n
                       ELSE b.firstIndex + n - MaxCount
    <3>1. CASE n < MaxCount
      BY <1>2, <1>3, <1>5, <3>1, Turn, DataBufferAssumption
    <3>2. CASE n = MaxCount
      <4> DEFINE a == b.firstIndex + n
      <4>1. a \in 0 .. 2 * MaxCount - 1 /\ Behind(b, n) = a % MaxCount
        BY <1>2, <3>2, DataBufferAssumption DEF Behind
      <4> HIDE DEF a
      <4>2. a % MaxCount = IF a < MaxCount THEN a ELSE a - MaxCount
        BY <4>1, WrapAround
      <4>3. Behind(b, n) = IF a < MaxCount THEN a ELSE a - MaxCount
        BY <4>1, <4>2
      <4>4. c.firstIndex = Behind(b, n)
        BY <1>5
      <4> QED
        BY <1>2, <1>3, <4>3, <4>4, DataBufferAssumption DEF a
    <3> QED
      BY <1>2, <1>3, <3>1, <3>2, DataBufferAssumption
  <2>4. CASE n + k < MaxCount
    <3>1. n + k \in 0 .. MaxCount - 1 /\ n + k \in b.count .. MaxCount - 1
      BY <1>2, <1>3, <2>1, <2>4, DataBufferAssumption
    <3>2. Behind(b, n + k) = IF b.firstIndex + (n + k) < MaxCount THEN b.firstIndex + (n + k)
                             ELSE b.firstIndex + (n + k) - MaxCount
      BY <1>2, <3>1, Turn
    <3>3. Behind(c, k) = Behind(b, n + k)
      BY <1>2, <1>3, <2>1, <2>2, <2>3, <2>4, <3>2, DataBufferAssumption
    <3>4. b.data[Behind(b, n + k)] = NoPacket
      BY <1>1, <3>1 DEF RestEmpty
    <3> QED
      BY <1>5, <2>2, <3>3, <3>4
  <2>5. CASE n + k >= MaxCount
    <3> DEFINE j == n + k - MaxCount
    <3>1. j \in 0 .. n - 1 /\ j \in 0 .. MaxCount - 1 /\ j + MaxCount = n + k
      BY <1>2, <1>3, <2>1, <2>5, DataBufferAssumption
    <3> HIDE DEF j
    <3>2. Behind(b, j) = IF b.firstIndex + j < MaxCount THEN b.firstIndex + j
                         ELSE b.firstIndex + j - MaxCount
      BY <1>2, <3>1, Turn
    <3>3. Behind(c, k) = Behind(b, j)
      BY <1>2, <1>3, <2>1, <2>2, <2>3, <3>1, <3>2, DataBufferAssumption
    <3>4. Behind(b, j) \in FreedSlots(b, n)
      BY <3>1 DEF FreedSlots, Behind
    <3> QED
      BY <1>5, <2>2, <3>3, <3>4
  <2> QED
    BY <1>2, <1>3, <2>1, <2>4, <2>5, DataBufferAssumption
<1>7. ASSUME NEW k \in 0 .. c.count - 1
      PROVE  c.data[Behind(c, k)] = b.data[Behind(b, n + k)]
  <2>1. /\ c.data[Behind(c, k)] = getDataPacketFromBuffer(c, c.minSeqNo + k)
        /\ c.minSeqNo + k \in Buffered(c)
    BY <1>4, <1>7, KthPacket
  <2>2. n + k \in 0 .. b.count - 1 /\ c.minSeqNo + k = b.minSeqNo + (n + k)
    BY <1>2, <1>3, <1>4, <1>7
  <2>3. b.data[Behind(b, n + k)] = getDataPacketFromBuffer(b, b.minSeqNo + (n + k))
    BY <1>1, <2>2, KthPacket
  <2> QED
    BY <1>4, <2>1, <2>2, <2>3
<1>8. /\ AsQueue(b) \in Seq(Entry) /\ Len(AsQueue(b)) = b.count
      /\ AsQueue(c) \in Seq(Entry) /\ Len(AsQueue(c)) = b.count - n
  BY <1>1, <1>4, AsQueueType
<1>9. \A i \in 1 .. b.count - n : AsQueue(c)[i] = AsQueue(b)[n + i]
  <2> SUFFICES ASSUME NEW i \in 1 .. b.count - n PROVE AsQueue(c)[i] = AsQueue(b)[n + i]
    OBVIOUS
  <2> DEFINE j == n + i
  <2>1. /\ i \in 1 .. c.count /\ i - 1 \in 0 .. c.count - 1
        /\ j \in 1 .. b.count /\ j - 1 = n + (i - 1)
    BY <1>2, <1>3, <1>4
  <2> HIDE DEF j
  <2>2. AsQueue(c)[i] = EntryOf(c.data[Behind(c, i - 1)])
    BY <1>4, <2>1, AsQueueType
  <2>3. AsQueue(b)[j] = EntryOf(b.data[Behind(b, j - 1)])
    BY <1>1, <2>1, AsQueueType
  <2>4. c.data[Behind(c, i - 1)] = b.data[Behind(b, n + (i - 1))]
    BY <1>7, <2>1
  <2> QED
    BY <2>1, <2>2, <2>3, <2>4 DEF j
<1>10. AsQueue(c) = SubSeq(AsQueue(b), n + 1, Len(AsQueue(b)))
  <2> DEFINE t == SubSeq(AsQueue(b), n + 1, b.count)
  <2>1. /\ t \in Seq(Entry) /\ Len(t) = b.count - n
        /\ \A i \in 1 .. b.count - n : t[i] = AsQueue(b)[n + i]
    <3> DEFINE s == AsQueue(b)  m == b.count - n
    <3>1. /\ s \in Seq(Entry) /\ Len(s) = b.count
          /\ n \in Nat /\ b.count \in Nat /\ n + 1 =< b.count + 1
      BY <1>2, <1>3, <1>8
    <3> HIDE DEF s
    <3>2. m \in Nat /\ b.count = n + m
      BY <3>1
    <3> HIDE DEF m
    <3>3. n + 1 \in Int /\ b.count \in Int /\ \A i \in n + 1 .. b.count : s[i] \in Entry
      BY <3>1
    <3>4. /\ t \in Seq(Entry)
          /\ Len(t) = IF n + 1 =< b.count THEN b.count - (n + 1) + 1 ELSE 0
          /\ \A i \in 1 .. b.count - (n + 1) + 1 : t[i] = s[n + 1 + i - 1]
      BY <3>3, SubSeqProperties DEF s
    <3> HIDE DEF t
    <3>5. b.count - (n + 1) + 1 = m /\ Len(t) = m
      BY <3>1, <3>2, <3>4
    <3>6. ASSUME NEW i \in 1 .. m PROVE t[i] = s[n + i]
      <4>1. t[i] = s[n + 1 + i - 1]
        BY <3>4, <3>5
      <4>2. n + 1 + i - 1 = n + i
        BY <3>1
      <4> QED
        BY <4>1, <4>2
    <3> QED
      BY <3>4, <3>5, <3>6 DEF s, m
  <2> HIDE DEF t
  <2>2. b.count - n \in Nat
    BY <1>2, <1>3
  <2>3. AsQueue(c) = t
    <3> DEFINE m == b.count - n
    <3>1. \A i \in 1 .. m : AsQueue(c)[i] = t[i]
      BY <1>9, <2>1
    <3>2. m \in Nat /\ Len(AsQueue(c)) = m /\ Len(t) = m
      BY <1>8, <2>1, <2>2
    <3> HIDE DEF m
    <3>3. AsQueue(c) \in Seq(Entry) /\ t \in Seq(Entry)
      BY <1>8, <2>1
    <3> QED
      BY <3>1, <3>2, <3>3
  <2> QED
    BY <1>8, <2>3 DEF t
<1> QED
  BY <1>3, <1>4, <1>6, <1>8, <1>10 DEF Ring, c

\* A function that rewrites timeouts keeps the ring, and each packet its place.
LEMMA RewriteKeepsPlaces ==
    ASSUME NEW b, Ring(b), NEW c, RingOK(c), SamePackets(b, c),
           c.firstIndex = b.firstIndex,
           \A i \in Slot : b.data[i] = NoPacket => c.data[i] = NoPacket
    PROVE  /\ Ring(c)
           /\ Len(AsQueue(c)) = b.count
           /\ \A i \in 1 .. b.count : AsQueue(c)[i].payload = AsQueue(b)[i].payload
<1>1. RingOK(b) /\ RestEmpty(b) /\ b \in Buffer /\ c.count = b.count /\ c.minSeqNo = b.minSeqNo
      /\ b.count \in 0 .. MaxCount
  BY DEF Ring, RingOK, SamePackets, Buffer
<1>2. \A k : Behind(c, k) = Behind(b, k)
  BY DEF Behind
<1>3. RestEmpty(c)
  <2> SUFFICES ASSUME NEW k \in b.count .. MaxCount - 1
               PROVE  c.data[Behind(b, k)] = NoPacket
    BY <1>1, <1>2 DEF RestEmpty
  <2>1. k \in 0 .. MaxCount - 1
    BY <1>1, DataBufferAssumption
  <2> QED
    BY <1>1, <2>1, Turn DEF RestEmpty
<1>4. ASSUME NEW i \in 1 .. b.count
      PROVE  AsQueue(c)[i].payload = AsQueue(b)[i].payload
  <2>1. i - 1 \in 0 .. b.count - 1 /\ i - 1 \in 0 .. c.count - 1 /\ i \in 1 .. c.count
    BY <1>1
  <2>2. /\ b.data[Behind(b, i - 1)] = getDataPacketFromBuffer(b, b.minSeqNo + (i - 1))
        /\ b.minSeqNo + (i - 1) \in Buffered(b)
    BY <1>1, <2>1, KthPacket
  <2>3. c.data[Behind(c, i - 1)] = getDataPacketFromBuffer(c, b.minSeqNo + (i - 1))
    BY <1>1, <2>1, KthPacket
  <2>4. c.data[Behind(c, i - 1)].payload = b.data[Behind(b, i - 1)].payload
    BY <2>2, <2>3 DEF SamePackets
  <2>5. /\ AsQueue(b)[i] = EntryOf(b.data[Behind(b, i - 1)])
        /\ AsQueue(c)[i] = EntryOf(c.data[Behind(c, i - 1)])
    BY <1>1, <2>1, AsQueueType
  <2> QED
    BY <2>4, <2>5 DEF EntryOf
<1> QED
  BY <1>1, <1>3, <1>4, AsQueueType DEF Ring

\* resetTimers switches off every timer of a ring that is not full (DataBuffer.c:93-98).
LEMMA ResetDisables ==
    ASSUME NEW b, Ring(b), b.count < MaxCount
    PROVE  /\ Ring(resetTimers(b))
           /\ AsQueue(resetTimers(b))
                = [i \in 1 .. Len(AsQueue(b)) |-> [AsQueue(b)[i] EXCEPT !.timeout = Never]]
<1> DEFINE c == resetTimers(b)
<1>1. RingOK(b) /\ b \in Buffer /\ b.count \in Nat
  BY DEF Ring, RingOK, Buffer
<1>2. RingOK(c) /\ SamePackets(b, c)
      /\ \A s \in Buffered(b) : getDataPacketFromBuffer(c, s).timeout = Never
  BY <1>1, ResetFacts
<1>3. c.firstIndex = b.firstIndex
      /\ c.data = [i \in Slot |-> IF i \in LoopSlots(b) THEN [b.data[i] EXCEPT !.timeout = Never]
                                  ELSE b.data[i]]
  BY <1>1 DEF resetTimers, Buffer
<1> HIDE DEF c
<1>4. NoPacket \notin Packet
  BY DEF NoPacket, Packet
<1>5. \A i \in Slot : b.data[i] = NoPacket => c.data[i] = NoPacket
  <2> SUFFICES ASSUME NEW i \in Slot, b.data[i] = NoPacket PROVE c.data[i] = NoPacket
    OBVIOUS
  <2>1. i \notin LoopSlots(b)
    BY <1>1, <1>4, LoopVisitsPackets
  <2> QED
    BY <1>3, <2>1
<1>6. /\ Ring(c) /\ Len(AsQueue(c)) = b.count
      /\ \A i \in 1 .. b.count : AsQueue(c)[i].payload = AsQueue(b)[i].payload
  BY <1>2, <1>3, <1>5, RewriteKeepsPlaces
<1>7. ASSUME NEW i \in 1 .. b.count
      PROVE  AsQueue(c)[i] = [AsQueue(b)[i] EXCEPT !.timeout = Never]
  <2>1. /\ c.count = b.count /\ c.minSeqNo = b.minSeqNo
        /\ i - 1 \in 0 .. b.count - 1 /\ i \in 1 .. c.count
    BY <1>1, <1>2 DEF SamePackets
  <2>2. c.data[Behind(c, i - 1)] = getDataPacketFromBuffer(c, b.minSeqNo + (i - 1))
    BY <1>2, <2>1, KthPacket
  <2>3. b.minSeqNo + (i - 1) \in Buffered(b)
    BY <1>1, <2>1, KthPacket
  <2>4. AsQueue(c)[i].timeout = Never
    <3>1. c.data[Behind(c, i - 1)].timeout = Never
      BY <1>2, <2>2, <2>3
    <3>2. AsQueue(c)[i] = EntryOf(c.data[Behind(c, i - 1)])
      BY <1>2, <2>1, AsQueueType
    <3> QED
      BY <3>1, <3>2 DEF EntryOf
  <2>5. AsQueue(c)[i] \in Entry /\ AsQueue(b)[i] \in Entry
    BY <1>1, <1>2, <2>1, AsQueueType
  <2> QED
    BY <1>6, <2>4, <2>5 DEF Entry
<1>8. /\ AsQueue(b) \in Seq(Entry) /\ Len(AsQueue(b)) = b.count
      /\ AsQueue(c) \in Seq(Entry)
  BY <1>1, <1>2, AsQueueType
<1>9. AsQueue(c) = [i \in 1 .. b.count |-> [AsQueue(b)[i] EXCEPT !.timeout = Never]]
  <2> DEFINE m == b.count
             q == [i \in 1 .. m |-> [AsQueue(b)[i] EXCEPT !.timeout = Never]]
  <2>1. m \in Nat /\ \A i \in 1 .. m : AsQueue(c)[i] = q[i]
    BY <1>1, <1>7
  <2>2. AsQueue(c) \in [1 .. m -> Entry]
    BY <1>1, <1>6, <1>8
  <2> QED
    BY <2>1, <2>2
<1> QED
  BY <1>6, <1>8, <1>9 DEF c

\* A stamp sets the timer of one packet (GoBackNSender.c:413).
LEMMA StampSets ==
    ASSUME NEW b, Ring(b), NEW s \in Buffered(b), NEW t \in Instant,
           NEW j, j = s - b.minSeqNo + 1
    PROVE  /\ Ring(SetTimeout(b, s, t))
           /\ SetTimeout(b, s, t).minSeqNo = b.minSeqNo
           /\ j \in 1 .. Len(AsQueue(b))
           /\ AsQueue(SetTimeout(b, s, t)) = [AsQueue(b) EXCEPT ![j].timeout = t]
<1> DEFINE c == SetTimeout(b, s, t)
<1>1. RingOK(b) /\ b \in Buffer /\ b.count \in Nat /\ b.minSeqNo \in Nat
  BY DEF Ring, RingOK, Buffer
<1>2. RingOK(c) /\ SamePackets(b, c)
  BY <1>1, StampFacts
<1>3. IndexOf(b, s) \in Slot /\ b.data \in [Slot -> Packet \cup {NoPacket}]
      /\ b.data[IndexOf(b, s)] \in Packet
  BY <1>1, IndexFacts DEF RingOK, Buffer
<1>4. /\ c.firstIndex = b.firstIndex
      /\ c.data = [b.data EXCEPT ![IndexOf(b, s)] = [b.data[IndexOf(b, s)] EXCEPT !.timeout = t]]
  BY <1>1 DEF SetTimeout, Buffer
<1> HIDE DEF c
<1>5. NoPacket \notin Packet
  BY DEF NoPacket, Packet
<1>6. \A i \in Slot : b.data[i] = NoPacket => c.data[i] = NoPacket
  BY <1>3, <1>4, <1>5
<1>7. /\ Ring(c) /\ Len(AsQueue(c)) = b.count
      /\ \A i \in 1 .. b.count : AsQueue(c)[i].payload = AsQueue(b)[i].payload
  <2>1. c.firstIndex = b.firstIndex
    BY <1>4
  <2> QED
    BY <1>2, <1>6, <2>1, RewriteKeepsPlaces
<1>8. j \in 1 .. b.count /\ s = b.minSeqNo + (j - 1)
  BY <1>1 DEF Buffered
<1>9. ASSUME NEW i \in 1 .. b.count
      PROVE  AsQueue(c)[i].timeout = IF i = j THEN t ELSE AsQueue(b)[i].timeout
  <2>1. /\ c.count = b.count /\ c.minSeqNo = b.minSeqNo
        /\ i - 1 \in 0 .. b.count - 1 /\ i \in 1 .. c.count
    BY <1>1, <1>2 DEF SamePackets
  <2>2. /\ b.minSeqNo + (i - 1) \in Buffered(b)
        /\ IndexOf(b, b.minSeqNo + (i - 1)) = Behind(b, i - 1)
    BY <1>1, <2>1, KthPacket
  <2>3. Behind(c, i - 1) = Behind(b, i - 1) /\ Behind(b, i - 1) \in Slot
    BY <1>1, <1>4, <2>2, IndexFacts DEF Behind
  <2>4. i = j <=> b.minSeqNo + (i - 1) = s
    BY <1>1, <1>8
  <2>5. i = j <=> Behind(b, i - 1) = IndexOf(b, s)
    BY <1>1, <2>2, <2>4, IndexFacts
  <2>6. c.data[Behind(b, i - 1)].timeout
          = IF i = j THEN t ELSE b.data[Behind(b, i - 1)].timeout
    BY <1>3, <1>4, <2>3, <2>5 DEF Packet
  <2>7. /\ AsQueue(b)[i] = EntryOf(b.data[Behind(b, i - 1)])
        /\ AsQueue(c)[i] = EntryOf(c.data[Behind(c, i - 1)])
    BY <1>1, <1>2, <2>1, AsQueueType
  <2> QED
    BY <2>3, <2>6, <2>7 DEF EntryOf
<1>10. /\ AsQueue(b) \in Seq(Entry) /\ Len(AsQueue(b)) = b.count
       /\ AsQueue(c) \in Seq(Entry)
  BY <1>1, <1>2, AsQueueType
<1>11. ASSUME NEW i \in 1 .. b.count
       PROVE  AsQueue(c)[i] = IF i = j THEN [AsQueue(b)[i] EXCEPT !.timeout = t]
                              ELSE AsQueue(b)[i]
  <2>1. AsQueue(b)[i] \in Entry /\ AsQueue(c)[i] \in Entry
    BY <1>7, <1>10
  <2> QED
    BY <1>7, <1>9, <2>1 DEF Entry
<1>12. AsQueue(c) = [AsQueue(b) EXCEPT ![j] = [AsQueue(b)[j] EXCEPT !.timeout = t]]
  <2> DEFINE m == b.count
             q == [AsQueue(b) EXCEPT ![j] = [AsQueue(b)[j] EXCEPT !.timeout = t]]
  <2>1. m \in Nat /\ AsQueue(b) \in [1 .. m -> Entry] /\ AsQueue(c) \in [1 .. m -> Entry]
    BY <1>1, <1>7, <1>10
  <2>2. \A i \in 1 .. m : AsQueue(c)[i] = q[i]
    BY <1>8, <1>11, <2>1
  <2>3. DOMAIN q = 1 .. m /\ q = [i \in 1 .. m |-> q[i]]
    BY <2>1
  <2> HIDE DEF q
  <2> QED
    BY <2>1, <2>2, <2>3 DEF q
<1> QED
  BY <1>2, <1>7, <1>8, <1>10, <1>12 DEF c, SamePackets

-------------------------------------------------------------------------------
\* The steps of DataBufferUse.

LEMMA PutStep ==
    ASSUME Ring(buffer), Put
    PROVE  \E p \in Packet : /\ p.timeout = Unset
                            /\ putAsserts(buffer, p)
                            /\ buffer' = putDataPacketIntoBuffer(buffer, p)
<1>1. PICK seqNo \in 0 .. MaxSeqNo, c \in Payload :
         LET p == [seqNo |-> seqNo, payload |-> c, timeout |-> Unset]
         IN  /\ putAsserts(buffer, p)
             /\ buffer' = putDataPacketIntoBuffer(buffer, p)
  BY DEF Put
<1> DEFINE p == [seqNo |-> seqNo, payload |-> c, timeout |-> Unset]
<1>2. p \in Packet
  BY DataBufferAssumption, DataBufferUseAssumption DEF Packet, Instant, Unset, Never
<1> QED
  BY <1>1, <1>2

LEMMA FreeStep ==
    ASSUME Ring(buffer), Free
    PROVE  \E end \in Buffered(buffer) :
              buffer' = freeBuffer(buffer, buffer.minSeqNo, end)
<1>1. PICK end \in 0 .. MaxSeqNo :
         /\ bufferContainsPacket(buffer, end)
         /\ buffer' = freeBuffer(buffer, getFirstSeqNoOfBuffer(buffer), end)
  BY DEF Free
<1>2. end \in Buffered(buffer)
  BY <1>1, GetFacts, DataBufferUseAssumption DEF Ring
<1> QED
  BY <1>1, <1>2 DEF getFirstSeqNoOfBuffer

LEMMA StampStep ==
    ASSUME Ring(buffer), Stamp
    PROVE  \E s \in Buffered(buffer) : buffer' = SetTimeout(buffer, s, TimeoutTicks)
<1>1. PICK s \in 0 .. MaxSeqNo :
         /\ getDataPacketFromBuffer(buffer, s) # NoPacket
         /\ buffer' = SetTimeout(buffer, s, TimeoutTicks)
  BY DEF Stamp
<1>2. s \in Buffered(buffer)
  BY <1>1, GetFacts, DataBufferUseAssumption DEF Ring
<1> QED
  BY <1>1, <1>2

LEMMA Ticks == TimeoutTicks \in Instant
  BY DataBufferAssumption DEF Instant, Unset, Never

LEMMA RingStays ==
    ASSUME Ring(buffer), [Next]_buffer
    PROVE  Ring(buffer)'
<1>1. CASE Put
  <2>1. PICK p \in Packet : /\ putAsserts(buffer, p)
                            /\ buffer' = putDataPacketIntoBuffer(buffer, p)
    BY <1>1, PutStep
  <2>2. Ring(putDataPacketIntoBuffer(buffer, p))
    BY <2>1, PutAppends
  <2> QED
    BY <2>1, <2>2
<1>2. CASE Free
  <2>1. PICK end \in Buffered(buffer) :
           buffer' = freeBuffer(buffer, buffer.minSeqNo, end)
    BY <1>2, FreeStep
  <2>2. Ring(freeBuffer(buffer, buffer.minSeqNo, end))
    BY FreeDrops
  <2> QED
    BY <2>1, <2>2
<1>3. CASE Stamp
  <2>1. PICK s \in Buffered(buffer) : buffer' = SetTimeout(buffer, s, TimeoutTicks)
    BY <1>3, StampStep
  <2>2. Ring(SetTimeout(buffer, s, TimeoutTicks))
    BY Ticks, StampSets
  <2> QED
    BY <2>1, <2>2
<1>4. CASE Reset
  <2>1. buffer.count < MaxCount /\ buffer' = resetTimers(buffer)
    BY <1>4 DEF Reset, getBufferSize
  <2>2. Ring(resetTimers(buffer))
    BY <2>1, ResetDisables
  <2> QED
    BY <2>1, <2>2
<1> QED
  BY <1>1, <1>2, <1>3, <1>4 DEF Next

LEMMA AlwaysRing == Spec => []Ring(buffer)
<1>1. Init => Ring(buffer)
  BY EmptyQueue DEF Init
<1> QED
  BY <1>1, RingStays, PTL DEF Spec

\* What the invariant says in the words of RingConsistent.
LEMMA RingIsConsistent == Ring(buffer) => RingConsistent
<1> SUFFICES ASSUME Ring(buffer) PROVE RingConsistent
  OBVIOUS
<1>1. RingOK(buffer) /\ RestEmpty(buffer)
  BY DEF Ring
<1>2. \A k : PacketAt(k) = buffer.data[Behind(buffer, k)]
  BY DEF PacketAt, Behind
<1>3. \A k \in 0 .. buffer.count - 1 : PacketAt(k).seqNo = buffer.minSeqNo + k
  BY <1>1, <1>2, KthPacket
<1>4. \A k \in buffer.count .. MaxCount - 1 : PacketAt(k) = NoPacket
  BY <1>1, <1>2 DEF RestEmpty
<1> QED
  BY <1>1, <1>3, <1>4 DEF RingConsistent, RingOK

\* However the packets wrap around, the slots from firstIndex to freeIndex hold the
\* buffered packets in their order and all others are empty (DataBuffer.c:8-14).
THEOREM AlwaysConsistent == Spec => []RingConsistent
  BY AlwaysRing, RingIsConsistent, PTL

-------------------------------------------------------------------------------
\* The refinement of PacketQueue.

LEMMA QueueStarts == Init => Queue!QInit
<1> SUFFICES ASSUME Init PROVE Queue!QInit
  OBVIOUS
<1>1. AsQueue(buffer) = <<>> /\ buffer.minSeqNo = 0
  BY EmptyQueue, AllocateOK DEF Init
<1> QED
  BY <1>1 DEF Queue!QInit, AsQueue, EntryOf, PacketAt, Behind

LEMMA QueueSteps ==
    ASSUME Ring(buffer), [Next]_buffer
    PROVE  [Queue!QNext]_(Queue!queueVars)
<1> DEFINE q == [i \in 1 .. buffer.count |-> [payload |-> PacketAt(i - 1).payload,
                                             timeout |-> PacketAt(i - 1).timeout]]
<1>1. q = AsQueue(buffer) /\ q' = AsQueue(buffer')
  BY DEF AsQueue, EntryOf, PacketAt, Behind
<1>2. CASE Put
  <2>1. PICK p \in Packet : /\ p.timeout = Unset
                            /\ putAsserts(buffer, p)
                            /\ buffer' = putDataPacketIntoBuffer(buffer, p)
    BY <1>2, PutStep
  <2>2. /\ buffer'.minSeqNo = buffer.minSeqNo
        /\ Len(AsQueue(buffer)) < MaxCount
        /\ AsQueue(buffer') = Append(AsQueue(buffer), EntryOf(p))
    BY <2>1, PutAppends
  <2>3. p.payload \in Payload /\ EntryOf(p) = [payload |-> p.payload, timeout |-> Unset]
    BY <2>1 DEF Packet, EntryOf
  <2>4. /\ buffer'.minSeqNo = buffer.minSeqNo
        /\ Len(q) < MaxCount
        /\ q' = Append(q, [payload |-> p.payload, timeout |-> Unset])
    BY <1>1, <2>2, <2>3
  <2> QED
    BY <2>3, <2>4 DEF Queue!QNext, Queue!QPut
<1>3. CASE Free
  <2>1. PICK end \in Buffered(buffer) :
           buffer' = freeBuffer(buffer, buffer.minSeqNo, end)
    BY <1>3, FreeStep
  <2>2. PICK n : n = end - buffer.minSeqNo + 1
    OBVIOUS
  <2>3. /\ n \in 1 .. Len(AsQueue(buffer))
        /\ buffer'.minSeqNo = buffer.minSeqNo + n
        /\ AsQueue(buffer') = SubSeq(AsQueue(buffer), n + 1, Len(AsQueue(buffer)))
    BY <2>1, <2>2, FreeDrops
  <2>4. /\ n \in 1 .. Len(q)
        /\ buffer'.minSeqNo = buffer.minSeqNo + n
        /\ q' = SubSeq(q, n + 1, Len(q))
    BY <1>1, <2>3
  <2> QED
    BY <2>4 DEF Queue!QNext, Queue!QFree
<1>4. CASE Stamp
  <2>1. PICK s \in Buffered(buffer) : buffer' = SetTimeout(buffer, s, TimeoutTicks)
    BY <1>4, StampStep
  <2>2. PICK j : j = s - buffer.minSeqNo + 1
    OBVIOUS
  <2>3. /\ j \in 1 .. Len(AsQueue(buffer))
        /\ buffer'.minSeqNo = buffer.minSeqNo
        /\ AsQueue(buffer') = [AsQueue(buffer) EXCEPT ![j].timeout = TimeoutTicks]
    <3> DEFINE c == SetTimeout(buffer, s, TimeoutTicks)
    <3>1. /\ j \in 1 .. Len(AsQueue(buffer)) /\ c.minSeqNo = buffer.minSeqNo
          /\ AsQueue(c) = [AsQueue(buffer) EXCEPT ![j].timeout = TimeoutTicks]
      BY <2>2, Ticks, StampSets
    <3> HIDE DEF c
    <3>2. buffer' = c
      BY <2>1 DEF c
    <3> QED
      BY <3>1, <3>2
  <2>4. /\ j \in 1 .. Len(q) /\ TimeoutTicks \in Instant
        /\ buffer'.minSeqNo = buffer.minSeqNo
        /\ q' = [q EXCEPT ![j].timeout = TimeoutTicks]
    BY <1>1, <2>3, Ticks
  <2> QED
    BY <2>4 DEF Queue!QNext, Queue!QSetTimeout
<1>5. CASE Reset
  <2>1. buffer.count < MaxCount /\ buffer' = resetTimers(buffer)
    BY <1>5 DEF Reset, getBufferSize
  <2>2. AsQueue(buffer') = [i \in 1 .. Len(AsQueue(buffer)) |->
                              [AsQueue(buffer)[i] EXCEPT !.timeout = Never]]
    BY <2>1, ResetDisables
  <2>3. buffer'.minSeqNo = buffer.minSeqNo
    BY <2>1, ResetFacts DEF Ring, SamePackets
  <2>4. q' = [i \in 1 .. Len(q) |-> [q[i] EXCEPT !.timeout = Never]]
    BY <1>1, <2>2
  <2> QED
    BY <2>3, <2>4 DEF Queue!QNext, Queue!QReset
<1>6. CASE UNCHANGED buffer
  BY <1>6 DEF Queue!queueVars, PacketAt
<1> QED
  BY <1>2, <1>3, <1>4, <1>5, <1>6 DEF Next

\* The ring implements the bounded first-in first-out queue: whatever is put comes
\* out once and in order, and the timers of the packets are touched one by one by
\* the send loop and all together by resetTimers (DataBuffer.c:50-98).
THEOREM RingIsQueue == Spec => IsQueue
  BY AlwaysRing, QueueStarts, QueueSteps, PTL DEF Spec, IsQueue, Queue!QSpec
===============================================================================
