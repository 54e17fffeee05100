---------------------------- MODULE DataBufferProofs ----------------------------
(***************************************************************************)
(* What the functions of DataBuffer.c do to a consistent ring, for every   *)
(* size of the ring: the lemmas that the proofs about the sender cite.     *)
(***************************************************************************)
EXTENDS DataBuffer, TLAPS

\* Ring arithmetic: an index that passes the end of the ring once comes back to
\* its start (the "% maxCount" of DataBuffer.c:52, 62 and 75).
LEMMA WrapAround ==
    ASSUME NEW a \in 0 .. 2 * MaxCount - 1
    PROVE  a % MaxCount = IF a < MaxCount THEN a ELSE a - MaxCount
  BY DataBufferAssumption

\* allocateDataBuffer makes a consistent, empty ring (DataBuffer.c:16-24).
LEMMA AllocateOK ==
    /\ RingOK(allocateDataBuffer)
    /\ allocateDataBuffer.minSeqNo = 0
    /\ allocateDataBuffer.count = 0
<1> DEFINE b == allocateDataBuffer
<1>1. b.minSeqNo = 0 /\ b.firstIndex = 0 /\ b.freeIndex = 0 /\ b.count = 0
  BY DEF allocateDataBuffer
<1>2. b \in Buffer
  BY DataBufferAssumption DEF allocateDataBuffer, Buffer, Slot
<1>3. (b.firstIndex + b.count) % MaxCount = 0
  BY <1>1, WrapAround, DataBufferAssumption
<1>4. Buffered(b) = {}
  BY <1>1 DEF Buffered
<1> QED
  BY <1>1, <1>2, <1>3, <1>4 DEF RingOK

\* A buffered sequence number is found in a slot of its own (DataBuffer.c:50-53).
LEMMA IndexFacts ==
    ASSUME NEW b, RingOK(b), NEW s \in Buffered(b)
    PROVE  /\ s \in Nat
           /\ s - b.minSeqNo + b.firstIndex \in 0 .. 2 * MaxCount - 1
           /\ IndexOf(b, s) \in Slot
           /\ \A t \in Buffered(b) : t # s => IndexOf(b, t) # IndexOf(b, s)
<1>1. b \in Buffer
  BY DEF RingOK
<1>2. /\ b.minSeqNo \in Nat /\ b.firstIndex \in 0 .. MaxCount - 1
      /\ b.count \in 0 .. MaxCount
  BY <1>1 DEF Buffer, Slot
<1>3. \A t \in Buffered(b) :
         /\ t \in Nat
         /\ t - b.minSeqNo + b.firstIndex \in 0 .. 2 * MaxCount - 1
  BY <1>2, DataBufferAssumption DEF Buffered
<1>4. \A t \in Buffered(b) :
         IndexOf(b, t) = IF t - b.minSeqNo + b.firstIndex < MaxCount
                         THEN t - b.minSeqNo + b.firstIndex
                         ELSE t - b.minSeqNo + b.firstIndex - MaxCount
  <2> SUFFICES ASSUME NEW t \in Buffered(b)
               PROVE  IndexOf(b, t) = IF t - b.minSeqNo + b.firstIndex < MaxCount
                                      THEN t - b.minSeqNo + b.firstIndex
                                      ELSE t - b.minSeqNo + b.firstIndex - MaxCount
    OBVIOUS
  <2> DEFINE a == t - b.minSeqNo + b.firstIndex
  <2>1. a \in 0 .. 2 * MaxCount - 1
    BY <1>3
  <2>2. IndexOf(b, t) = a % MaxCount
    BY DEF IndexOf
  <2> HIDE DEF a
  <2>3. a % MaxCount = IF a < MaxCount THEN a ELSE a - MaxCount
    BY <2>1, WrapAround
  <2> QED
    BY <1>2, <2>1, <2>2, <2>3, DataBufferAssumption DEF a, Buffered
<1>5. IndexOf(b, s) \in Slot
  BY <1>2, <1>3, <1>4, DataBufferAssumption DEF Slot
<1>6. ASSUME NEW t \in Buffered(b), t # s
      PROVE  IndexOf(b, t) # IndexOf(b, s)
  <2>1. /\ t - b.minSeqNo \in 0 .. MaxCount - 1
        /\ s - b.minSeqNo \in 0 .. MaxCount - 1
    BY <1>2, DataBufferAssumption DEF Buffered
  <2> QED
    BY <1>2, <1>3, <1>4, <1>6, <2>1, DataBufferAssumption
<1> QED
  BY <1>3, <1>5, <1>6

\* getDataPacketFromBuffer answers with the packet asked for if it is buffered and
\* with NULL if not.
LEMMA GetFacts ==
    ASSUME NEW b, RingOK(b), NEW s \in Int
    PROVE  /\ bufferContainsPacket(b, s) <=> s \in Buffered(b)
           /\ s \in Buffered(b) =>
                /\ getDataPacketFromBuffer(b, s) = b.data[IndexOf(b, s)]
                /\ getDataPacketFromBuffer(b, s) \in Packet
                /\ getDataPacketFromBuffer(b, s).seqNo = s
                /\ getDataPacketFromBuffer(b, s) # NoPacket
           /\ s \notin Buffered(b) => getDataPacketFromBuffer(b, s) = NoPacket
<1>1. b.minSeqNo \in Nat /\ b.count \in 0 .. MaxCount
  BY DEF RingOK, Buffer
<1>2. bufferContainsPacket(b, s) <=> s \in Buffered(b)
  BY <1>1, DataBufferAssumption DEF bufferContainsPacket, Buffered
<1>3. ASSUME s \in Buffered(b)
      PROVE  /\ getDataPacketFromBuffer(b, s) = b.data[IndexOf(b, s)]
             /\ getDataPacketFromBuffer(b, s) \in Packet
             /\ getDataPacketFromBuffer(b, s).seqNo = s
             /\ getDataPacketFromBuffer(b, s) # NoPacket
  <2>1. getDataPacketFromBuffer(b, s) = b.data[IndexOf(b, s)]
    BY <1>2, <1>3 DEF getDataPacketFromBuffer
  <2>2. b.data[IndexOf(b, s)] \in Packet /\ b.data[IndexOf(b, s)].seqNo = s
    BY <1>3 DEF RingOK
  <2>3. s # -1
    BY <1>1, <1>3 DEF Buffered
  <2> QED
    BY <2>1, <2>2, <2>3 DEF NoPacket
<1> QED
  BY <1>2, <1>3 DEF getDataPacketFromBuffer

-------------------------------------------------------------------------------
\* The buffers b and c hold the same packets, possibly with other timeouts.
SamePackets(b, c) ==
    /\ c.minSeqNo = b.minSeqNo
    /\ c.count = b.count
    /\ \A s \in Buffered(b) :
          getDataPacketFromBuffer(c, s).payload = getDataPacketFromBuffer(b, s).payload

\* A function that rewrites timeouts only: resetTimers, the stamp of the send loop,
\* and the passing of time all have this form.
LEMMA RewriteTimeouts ==
    ASSUME NEW b, RingOK(b), NEW d \in [Slot -> Packet \cup {NoPacket}],
           \A i \in Slot : /\ b.data[i] \in Packet => d[i] \in Packet
                           /\ d[i].seqNo = b.data[i].seqNo
                           /\ d[i].payload = b.data[i].payload
    PROVE  /\ RingOK([b EXCEPT !.data = d])
           /\ SamePackets(b, [b EXCEPT !.data = d])
           /\ \A s \in Buffered(b) :
                 getDataPacketFromBuffer([b EXCEPT !.data = d], s) = d[IndexOf(b, s)]
<1> DEFINE c == [b EXCEPT !.data = d]
<1>1. b \in Buffer
  BY DEF RingOK
<1>2. /\ c \in Buffer
      /\ c.minSeqNo = b.minSeqNo /\ c.count = b.count
      /\ c.firstIndex = b.firstIndex /\ c.freeIndex = b.freeIndex
      /\ c.data = d
  BY <1>1 DEF Buffer
<1> HIDE DEF c
<1>3. Buffered(c) = Buffered(b) /\ \A s : IndexOf(c, s) = IndexOf(b, s)
  BY <1>2 DEF Buffered, IndexOf
<1>4. ASSUME NEW s \in Buffered(b)
      PROVE  /\ d[IndexOf(b, s)] \in Packet
             /\ d[IndexOf(b, s)].seqNo = s
             /\ d[IndexOf(b, s)].payload = b.data[IndexOf(b, s)].payload
  <2>1. IndexOf(b, s) \in Slot
    BY <1>4, IndexFacts
  <2>2. b.data[IndexOf(b, s)] \in Packet /\ b.data[IndexOf(b, s)].seqNo = s
    BY <1>4 DEF RingOK
  <2> QED
    BY <2>1, <2>2
<1>5. RingOK(c)
  BY <1>2, <1>3, <1>4 DEF RingOK
<1>6. ASSUME NEW s \in Buffered(b)
      PROVE  /\ getDataPacketFromBuffer(c, s) = d[IndexOf(b, s)]
             /\ getDataPacketFromBuffer(b, s) = b.data[IndexOf(b, s)]
  <2>1. s \in Int
    BY <1>6, IndexFacts
  <2> QED
    BY <1>2, <1>3, <1>5, <1>6, <2>1, GetFacts
<1>7. SamePackets(b, c)
  BY <1>2, <1>4, <1>6 DEF SamePackets
<1> QED
  BY <1>5, <1>6, <1>7 DEF c

\* How far behind firstIndex (f) a slot i is that the loop up to freeIndex (r) visits:
\* the loop visits the count slots that hold packets.
LEMMA LoopDistance ==
    ASSUME NEW M \in Nat \ {0}, NEW f \in 0 .. M - 1, NEW i \in 0 .. M - 1, NEW c \in 0 .. M,
           NEW r \in Int, r = IF f + c < M THEN f + c ELSE f + c - M,
           IF f <= r THEN f <= i /\ i < r ELSE f <= i \/ i < r
    PROVE  (IF f <= i THEN i - f ELSE i - f + M) \in 0 .. c - 1
  OBVIOUS

\* The loop of resetTimers visits buffered packets only, so that it never follows a
\* NULL pointer (DataBuffer.c:95-97).
LEMMA LoopVisitsPackets ==
    ASSUME NEW b, RingOK(b), NEW i \in Slot, i \in LoopSlots(b)
    PROVE  b.data[i] \in Packet
<1>a. /\ b \in Buffer
      /\ b.minSeqNo \in Nat /\ b.firstIndex \in 0 .. MaxCount - 1
      /\ b.freeIndex \in 0 .. MaxCount - 1 /\ b.count \in 0 .. MaxCount
      /\ b.data \in [Slot -> Packet \cup {NoPacket}]
  BY DEF RingOK, Buffer, Slot
<1>b. b.freeIndex = IF b.firstIndex + b.count < MaxCount THEN b.firstIndex + b.count
                    ELSE b.firstIndex + b.count - MaxCount
  <2> DEFINE a == b.firstIndex + b.count
  <2>1. a \in 0 .. 2 * MaxCount - 1 /\ b.freeIndex = a % MaxCount
    BY <1>a, DataBufferAssumption DEF RingOK
  <2> HIDE DEF a
  <2>2. b.freeIndex = IF a < MaxCount THEN a ELSE a - MaxCount
    BY <2>1, WrapAround
  <2> QED
    BY <1>a, <2>1, <2>2, DataBufferAssumption DEF a
<1> DEFINE k == IF b.firstIndex <= i THEN i - b.firstIndex
                ELSE i - b.firstIndex + MaxCount
           s == b.minSeqNo + k
<1>1. k \in 0 .. b.count - 1
  <2>1. i \in 0 .. MaxCount - 1 /\ MaxCount \in Nat \ {0}
    BY DataBufferAssumption DEF Slot
  <2>2. IF b.firstIndex <= b.freeIndex THEN b.firstIndex <= i /\ i < b.freeIndex
        ELSE b.firstIndex <= i \/ i < b.freeIndex
    BY DEF LoopSlots
  <2> QED
    BY <1>a, <1>b, <2>1, <2>2, LoopDistance
<1>2. s \in Buffered(b)
  BY <1>a, <1>1 DEF Buffered
<1>3. s - b.minSeqNo + b.firstIndex = IF b.firstIndex <= i THEN i ELSE i + MaxCount
  BY <1>a, DataBufferAssumption DEF Slot
<1>4. IndexOf(b, s) = i
  <2> DEFINE a == s - b.minSeqNo + b.firstIndex
  <2>1. a \in 0 .. 2 * MaxCount - 1
    BY <1>a, <1>3, DataBufferAssumption DEF Slot
  <2>2. IndexOf(b, s) = a % MaxCount
    BY DEF IndexOf
  <2> HIDE DEF a, s
  <2>3. a % MaxCount = IF a < MaxCount THEN a ELSE a - MaxCount
    BY <2>1, WrapAround
  <2> QED
    BY <2>1, <2>2, <2>3, <1>3, DataBufferAssumption DEF a, Slot
<1> HIDE DEF s
<1> QED
  BY <1>2, <1>4 DEF RingOK

\* resetTimers keeps every packet (DataBuffer.c:93-98), and leaves all of them
\* without a timeout unless the ring is full: then its loop does not run at all.
LEMMA ResetFacts ==
    ASSUME NEW b, RingOK(b)
    PROVE  /\ RingOK(resetTimers(b))
           /\ SamePackets(b, resetTimers(b))
           /\ b.count < MaxCount =>
                 \A s \in Buffered(b) :
                    getDataPacketFromBuffer(resetTimers(b), s).timeout = Never
           /\ b.count = MaxCount => resetTimers(b) = b
<1> DEFINE d == [i \in Slot |-> IF i \in LoopSlots(b) THEN [b.data[i] EXCEPT !.timeout = Never]
                                ELSE b.data[i]]
<1>1. /\ b \in Buffer
      /\ b.minSeqNo \in Nat /\ b.firstIndex \in 0 .. MaxCount - 1
      /\ b.freeIndex \in 0 .. MaxCount - 1 /\ b.count \in 0 .. MaxCount
      /\ b.data \in [Slot -> Packet \cup {NoPacket}]
  BY DEF RingOK, Buffer, Slot
<1>2. b.freeIndex = IF b.firstIndex + b.count < MaxCount THEN b.firstIndex + b.count
                    ELSE b.firstIndex + b.count - MaxCount
  <2> DEFINE a == b.firstIndex + b.count
  <2>1. a \in 0 .. 2 * MaxCount - 1 /\ b.freeIndex = a % MaxCount
    BY <1>1, DataBufferAssumption DEF RingOK
  <2> HIDE DEF a
  <2>2. b.freeIndex = IF a < MaxCount THEN a ELSE a - MaxCount
    BY <2>1, WrapAround
  <2> QED
    BY <1>1, <2>1, <2>2, DataBufferAssumption DEF a
<1>3. \A i \in Slot : i \in LoopSlots(b) => b.data[i] \in Packet
  BY LoopVisitsPackets
<1>4. Never \in Instant
  BY DataBufferAssumption DEF Instant, Never, Unset
<1>5. \A i \in Slot : /\ d[i] \in Packet \cup {NoPacket}
                      /\ b.data[i] \in Packet => d[i] \in Packet
                      /\ d[i].seqNo = b.data[i].seqNo
                      /\ d[i].payload = b.data[i].payload
  BY <1>1, <1>3, <1>4 DEF Packet, NoPacket
<1>6. d \in [Slot -> Packet \cup {NoPacket}]
  BY <1>5
<1>7. resetTimers(b) = [b EXCEPT !.data = d]
  BY DEF resetTimers
<1>8. ASSUME b.count < MaxCount, NEW s \in Buffered(b)
      PROVE  d[IndexOf(b, s)].timeout = Never
  <2> DEFINE a == s - b.minSeqNo + b.firstIndex
  <2>1. /\ s \in Nat /\ s - b.minSeqNo \in 0 .. b.count - 1
        /\ a \in 0 .. 2 * MaxCount - 1
        /\ IndexOf(b, s) \in Slot
        /\ IndexOf(b, s) = a % MaxCount
    BY <1>1, IndexFacts DEF Buffered, IndexOf
  <2>2. IndexOf(b, s) = IF a < MaxCount THEN a ELSE a - MaxCount
    <3> HIDE DEF a
    <3> QED
      BY <2>1, WrapAround
  <2>3. IndexOf(b, s) \in LoopSlots(b)
    <3> DEFINE k == s - b.minSeqNo
               i == IndexOf(b, s)
    <3>1. /\ k \in 0 .. b.count - 1 /\ a = k + b.firstIndex
          /\ i \in 0 .. MaxCount - 1
          /\ i = IF a < MaxCount THEN a ELSE a - MaxCount
      BY <1>1, <2>1, <2>2 DEF Slot
    <3> HIDE DEF k, i, a
    <3>2. IF b.firstIndex <= b.freeIndex THEN b.firstIndex <= i /\ i < b.freeIndex
          ELSE b.firstIndex <= i \/ i < b.freeIndex
      BY <1>1, <1>2, <1>8, <3>1, DataBufferAssumption
    <3> QED
      BY <3>1, <3>2 DEF LoopSlots, Slot, i
  <2>4. b.data[IndexOf(b, s)] \in Packet
    BY <1>8 DEF RingOK
  <2> QED
    BY <2>1, <2>3, <2>4 DEF Packet
<1>9. ASSUME b.count = MaxCount
      PROVE  resetTimers(b) = b
  <2>1. LoopSlots(b) = {}
    BY <1>1, <1>2, <1>9, DataBufferAssumption DEF LoopSlots, Slot
  <2>2. d = b.data
    BY <1>1, <2>1
  <2> QED
    BY <1>1, <1>7, <2>2 DEF Buffer
<1> HIDE DEF d
<1>10. /\ RingOK(resetTimers(b))
       /\ SamePackets(b, resetTimers(b))
       /\ \A s \in Buffered(b) : getDataPacketFromBuffer(resetTimers(b), s) = d[IndexOf(b, s)]
  BY <1>5, <1>6, <1>7, RewriteTimeouts
<1> QED
  BY <1>8, <1>9, <1>10

\* Storing the send time in a buffered packet changes no other packet and nothing
\* else of this one (GoBackNSender.c:413).
LEMMA StampFacts ==
    ASSUME NEW b, RingOK(b), NEW s \in Buffered(b), NEW t \in Instant
    PROVE  RingOK(SetTimeout(b, s, t)) /\ SamePackets(b, SetTimeout(b, s, t))
<1> DEFINE d == [b.data EXCEPT ![IndexOf(b, s)].timeout = t]
<1>1. b \in Buffer /\ b.data \in [Slot -> Packet \cup {NoPacket}]
  BY DEF RingOK, Buffer
<1>2. IndexOf(b, s) \in Slot /\ b.data[IndexOf(b, s)] \in Packet
  BY IndexFacts DEF RingOK
<1>3. \A i \in Slot : /\ d[i] \in Packet \cup {NoPacket}
                      /\ b.data[i] \in Packet => d[i] \in Packet
                      /\ d[i].seqNo = b.data[i].seqNo
                      /\ d[i].payload = b.data[i].payload
  BY <1>1, <1>2 DEF Packet, NoPacket
<1>4. d \in [Slot -> Packet \cup {NoPacket}]
  BY <1>1, <1>3
<1>5. SetTimeout(b, s, t) = [b EXCEPT !.data = d]
  BY <1>1 DEF SetTimeout, Buffer
<1> HIDE DEF d
<1> QED
  BY <1>3, <1>4, <1>5, RewriteTimeouts

\* The clock only moves timeouts.
LEMMA AgeFacts ==
    ASSUME NEW b, RingOK(b)
    PROVE  RingOK(AgeTimeouts(b)) /\ SamePackets(b, AgeTimeouts(b))
<1> DEFINE d == [i \in Slot |-> [b.data[i] EXCEPT !.timeout = Closer(@)]]
<1>1. b \in Buffer /\ b.data \in [Slot -> Packet \cup {NoPacket}]
  BY DEF RingOK, Buffer
<1>2. \A t \in Instant : Closer(t) \in Instant
  BY DataBufferAssumption DEF Instant, Closer, Never, Unset
<1>3. NoPacket.timeout = Unset /\ Closer(Unset) = Unset
  BY DataBufferAssumption DEF NoPacket, Closer, Unset
<1>4. \A i \in Slot : /\ b.data[i] \in Packet => d[i] \in Packet
                      /\ d[i].seqNo = b.data[i].seqNo
                      /\ d[i].payload = b.data[i].payload
  BY <1>1, <1>2 DEF Packet, NoPacket
<1>5. \A i \in Slot : b.data[i] = NoPacket => d[i] = NoPacket
  BY <1>3 DEF NoPacket
<1>6. d \in [Slot -> Packet \cup {NoPacket}]
  BY <1>1, <1>4, <1>5
<1>7. AgeTimeouts(b) = [b EXCEPT !.data = d]
  BY DEF AgeTimeouts
<1> HIDE DEF d
<1> QED
  BY <1>4, <1>6, <1>7, RewriteTimeouts

\* putDataPacketIntoBuffer (DataBuffer.c:55-64) of the next sequence number: its
\* assert()s hold while the ring has room, and the packet joins the others.
LEMMA PutFacts ==
    ASSUME NEW b, RingOK(b), NEW p \in Packet, p.seqNo = b.minSeqNo + b.count
    PROVE  /\ putAsserts(b, p) <=> b.count < MaxCount
           /\ b.count < MaxCount =>
                /\ RingOK(putDataPacketIntoBuffer(b, p))
                /\ putDataPacketIntoBuffer(b, p).minSeqNo = b.minSeqNo
                /\ putDataPacketIntoBuffer(b, p).count = b.count + 1
                /\ \A s \in Buffered(b) :
                      getDataPacketFromBuffer(putDataPacketIntoBuffer(b, p), s)
                        = getDataPacketFromBuffer(b, s)
                /\ getDataPacketFromBuffer(putDataPacketIntoBuffer(b, p), p.seqNo) = p
<1> DEFINE c == putDataPacketIntoBuffer(b, p)
<1>1. /\ b \in Buffer
      /\ b.minSeqNo \in Nat /\ b.firstIndex \in 0 .. MaxCount - 1
      /\ b.freeIndex \in 0 .. MaxCount - 1 /\ b.count \in 0 .. MaxCount
      /\ b.data \in [Slot -> Packet \cup {NoPacket}]
  BY DEF RingOK, Buffer, Slot
<1>2. IndexOf(b, p.seqNo) = b.freeIndex
  <2>1. p.seqNo - b.minSeqNo + b.firstIndex = b.firstIndex + b.count
    BY <1>1
  <2> QED
    BY <2>1 DEF RingOK, IndexOf
<1>3. putAsserts(b, p) <=> b.count < MaxCount
  BY <1>1, <1>2, DataBufferAssumption DEF putAsserts
<1> SUFFICES ASSUME b.count < MaxCount
             PROVE  /\ RingOK(c)
                    /\ c.minSeqNo = b.minSeqNo
                    /\ c.count = b.count + 1
                    /\ \A s \in Buffered(b) :
                          getDataPacketFromBuffer(c, s) = getDataPacketFromBuffer(b, s)
                    /\ getDataPacketFromBuffer(c, p.seqNo) = p
  BY <1>3
<1>4. (b.freeIndex + 1) % MaxCount
        = IF b.freeIndex + 1 < MaxCount THEN b.freeIndex + 1 ELSE b.freeIndex + 1 - MaxCount
  <2> DEFINE a == b.freeIndex + 1
  <2>1. a \in 0 .. 2 * MaxCount - 1
    BY <1>1, DataBufferAssumption
  <2> HIDE DEF a
  <2>2. a % MaxCount = IF a < MaxCount THEN a ELSE a - MaxCount
    BY <2>1, WrapAround
  <2> QED
    BY <1>1, <2>1, <2>2, DataBufferAssumption DEF a
<1>5. /\ c \in Buffer
      /\ c.minSeqNo = b.minSeqNo /\ c.count = b.count + 1
      /\ c.firstIndex = b.firstIndex
      /\ c.freeIndex = (b.freeIndex + 1) % MaxCount
      /\ c.data = [b.data EXCEPT ![b.freeIndex] = p]
  <2>1. (b.freeIndex + 1) % MaxCount \in Slot
    BY <1>1, <1>4, DataBufferAssumption DEF Slot
  <2>2. b.count + 1 \in 0 .. MaxCount
    BY <1>1, DataBufferAssumption
  <2> QED
    BY <1>1, <2>1, <2>2 DEF putDataPacketIntoBuffer, Buffer
<1> HIDE DEF c
<1>6. c.freeIndex = (c.firstIndex + c.count) % MaxCount
  <2> DEFINE x == b.firstIndex + b.count
             y == b.firstIndex + (b.count + 1)
  <2>1. /\ x \in 0 .. 2 * MaxCount - 1 /\ y \in 0 .. 2 * MaxCount - 1
        /\ y = x + 1 /\ b.freeIndex = x % MaxCount
    BY <1>1, DataBufferAssumption DEF RingOK
  <2> HIDE DEF x, y
  <2>2. x % MaxCount = IF x < MaxCount THEN x ELSE x - MaxCount
    BY <2>1, WrapAround
  <2>3. y % MaxCount = IF y < MaxCount THEN y ELSE y - MaxCount
    BY <2>1, WrapAround
  <2>4. y % MaxCount = (b.freeIndex + 1) % MaxCount
    BY <1>4, <2>1, <2>2, <2>3, DataBufferAssumption
  <2> QED
    BY <1>5, <2>4 DEF y
<1>7. Buffered(c) = Buffered(b) \cup {p.seqNo} /\ p.seqNo \notin Buffered(b)
  BY <1>1, <1>5 DEF Buffered
<1>8. \A s : IndexOf(c, s) = IndexOf(b, s)
  BY <1>5 DEF IndexOf
<1>9. ASSUME NEW s \in Buffered(b)
      PROVE  c.data[IndexOf(b, s)] = b.data[IndexOf(b, s)]
  <2> DEFINE x == s - b.minSeqNo + b.firstIndex
             y == b.firstIndex + b.count
  <2>1. /\ x \in 0 .. 2 * MaxCount - 1 /\ y \in 0 .. 2 * MaxCount - 1
        /\ x < y /\ y - x < MaxCount
        /\ b.freeIndex = y % MaxCount /\ IndexOf(b, s) = x % MaxCount
    <3>1. x \in 0 .. 2 * MaxCount - 1 /\ IndexOf(b, s) = x % MaxCount
      BY <1>9, IndexFacts DEF IndexOf
    <3>2. b.freeIndex = y % MaxCount
      BY DEF RingOK
    <3>3. y \in 0 .. 2 * MaxCount - 1 /\ x < y /\ y - x < MaxCount
      BY <1>1, <1>9, DataBufferAssumption DEF Buffered
    <3> QED
      BY <3>1, <3>2, <3>3
  <2> HIDE DEF x, y
  <2>2. x % MaxCount = IF x < MaxCount THEN x ELSE x - MaxCount
    BY <2>1, WrapAround
  <2>3. y % MaxCount = IF y < MaxCount THEN y ELSE y - MaxCount
    BY <2>1, WrapAround
  <2>4. IndexOf(b, s) # b.freeIndex
    BY <2>1, <2>2, <2>3, DataBufferAssumption
  <2>5. IndexOf(b, s) \in Slot
    BY <1>9, IndexFacts
  <2> QED
    BY <1>1, <1>5, <2>4, <2>5
<1>10. c.data[IndexOf(c, p.seqNo)] = p
  BY <1>1, <1>2, <1>5, <1>8 DEF Slot
<1>11. RingOK(c)
  <2> SUFFICES ASSUME NEW s \in Buffered(c)
               PROVE  c.data[IndexOf(c, s)] \in Packet /\ c.data[IndexOf(c, s)].seqNo = s
    BY <1>5, <1>6 DEF RingOK
  <2>1. CASE s \in Buffered(b)
    BY <1>8, <1>9, <2>1 DEF RingOK
  <2>2. CASE s = p.seqNo
    BY <1>10, <2>2
  <2> QED
    BY <1>7, <2>1, <2>2
<1>12. ASSUME NEW s \in Buffered(b)
       PROVE  getDataPacketFromBuffer(c, s) = getDataPacketFromBuffer(b, s)
  <2>1. s \in Int /\ s \in Buffered(c)
    BY <1>7, <1>12, IndexFacts
  <2> QED
    BY <1>8, <1>9, <1>11, <1>12, <2>1, GetFacts
<1>13. getDataPacketFromBuffer(c, p.seqNo) = p
  <2>1. p.seqNo \in Int /\ p.seqNo \in Buffered(c)
    BY <1>7 DEF Packet
  <2> QED
    BY <1>10, <1>11, <2>1, GetFacts
<1> QED
  BY <1>5, <1>11, <1>12, <1>13

\* freeBuffer (DataBuffer.c:66-79) of the oldest packets, up to a buffered one: its
\* assert()s hold, and the packets that stay are not touched.
LEMMA FreeFacts ==
    ASSUME NEW b, RingOK(b), NEW end \in Buffered(b)
    PROVE  /\ freeAsserts(b, b.minSeqNo, end)
           /\ RingOK(freeBuffer(b, b.minSeqNo, end))
           /\ freeBuffer(b, b.minSeqNo, end).minSeqNo = end + 1
           /\ freeBuffer(b, b.minSeqNo, end).count = b.count - (end - b.minSeqNo + 1)
           /\ \A s \in Buffered(freeBuffer(b, b.minSeqNo, end)) :
                 getDataPacketFromBuffer(freeBuffer(b, b.minSeqNo, end), s)
                   = getDataPacketFromBuffer(b, s)
<1> DEFINE n == end - b.minSeqNo + 1
           c == freeBuffer(b, b.minSeqNo, end)
<1>1. /\ b \in Buffer
      /\ b.minSeqNo \in Nat /\ b.firstIndex \in 0 .. MaxCount - 1
      /\ b.freeIndex \in 0 .. MaxCount - 1 /\ b.count \in 0 .. MaxCount
      /\ b.data \in [Slot -> Packet \cup {NoPacket}]
  BY DEF RingOK, Buffer, Slot
<1>2. end \in Nat /\ n \in 1 .. b.count /\ b.minSeqNo + n = end + 1
  BY <1>1 DEF Buffered
<1>3. freeAsserts(b, b.minSeqNo, end)
  BY <1>1, <1>2 DEF freeAsserts, Buffered
<1> HIDE DEF n
<1>4. (b.firstIndex + n) % MaxCount
        = IF b.firstIndex + n < MaxCount THEN b.firstIndex + n
          ELSE b.firstIndex + n - MaxCount
  <2> DEFINE a == b.firstIndex + n
  <2>1. a \in 0 .. 2 * MaxCount - 1
    BY <1>1, <1>2, DataBufferAssumption
  <2> HIDE DEF a
  <2>2. a % MaxCount = IF a < MaxCount THEN a ELSE a - MaxCount
    BY <2>1, WrapAround
  <2> QED
    BY <1>1, <1>2, <2>1, <2>2, DataBufferAssumption DEF a
<1>5. /\ c \in Buffer
      /\ c.minSeqNo = end + 1 /\ c.count = b.count - n
      /\ c.firstIndex = (b.firstIndex + n) % MaxCount
      /\ c.freeIndex = b.freeIndex
      /\ c.data = [i \in Slot |-> IF i \in FreedSlots(b, n) THEN NoPacket ELSE b.data[i]]
  <2>1. (b.firstIndex + n) % MaxCount \in Slot
    BY <1>1, <1>2, <1>4, DataBufferAssumption DEF Slot
  <2>2. b.count - n \in 0 .. MaxCount /\ end + 1 \in Nat
    BY <1>1, <1>2, DataBufferAssumption
  <2>3. [i \in Slot |-> IF i \in FreedSlots(b, n) THEN NoPacket ELSE b.data[i]]
          \in [Slot -> Packet \cup {NoPacket}]
    BY <1>1
  <2>4. c = [b EXCEPT !.data = [i \in Slot |-> IF i \in FreedSlots(b, n) THEN NoPacket
                                              ELSE b.data[i]],
                      !.firstIndex = (b.firstIndex + n) % MaxCount,
                      !.minSeqNo = b.minSeqNo + n,
                      !.count = b.count - n]
    BY DEF freeBuffer, n
  <2> QED
    BY <1>1, <1>2, <2>1, <2>2, <2>3, <2>4 DEF Buffer
<1> HIDE DEF c
<1>6. c.freeIndex = (c.firstIndex + c.count) % MaxCount
  <2> DEFINE x == b.firstIndex + b.count
             z == c.firstIndex + c.count
             f == b.firstIndex + n
  <2>a. c.firstIndex = IF f < MaxCount THEN f ELSE f - MaxCount
    BY <1>1, <1>2, <1>4, <1>5, DataBufferAssumption
  <2>b. b.freeIndex = x % MaxCount
    BY DEF RingOK
  <2>c. x \in 0 .. 2 * MaxCount - 1 /\ f \in Nat /\ f <= x /\ c.count = x - f
    BY <1>1, <1>2, <1>5, DataBufferAssumption
  <2>d. c.firstIndex \in 0 .. MaxCount - 1 /\ c.count \in 0 .. MaxCount
    BY <1>5 DEF Buffer, Slot
  <2>e. z \in 0 .. 2 * MaxCount - 1 /\ z = c.firstIndex + (x - f)
    BY <1>2, <2>c, <2>d, <1>1, <1>5, DataBufferAssumption
  <2>1. /\ x \in 0 .. 2 * MaxCount - 1 /\ z \in 0 .. 2 * MaxCount - 1
        /\ c.firstIndex \in 0 .. MaxCount - 1
        /\ c.firstIndex = IF f < MaxCount THEN f ELSE f - MaxCount
        /\ c.count = x - f /\ z = c.firstIndex + (x - f)
        /\ f \in Nat /\ f <= x
        /\ b.freeIndex = x % MaxCount
    BY <2>a, <2>b, <2>c, <2>d, <2>e
  <2>2. c.freeIndex = b.freeIndex
    BY <1>5
  <2> HIDE DEF x, z, f
  <2>3. x % MaxCount = IF x < MaxCount THEN x ELSE x - MaxCount
    BY <2>1, WrapAround
  <2>4. z % MaxCount = IF z < MaxCount THEN z ELSE z - MaxCount
    BY <2>1, WrapAround
  <2>5. x % MaxCount = z % MaxCount
    BY <2>1, <2>3, <2>4, DataBufferAssumption
  <2> QED
    BY <2>1, <2>2, <2>5 DEF z
<1>7. \A s \in Buffered(c) : s \in Buffered(b) /\ s > end
  BY <1>1, <1>2, <1>5 DEF Buffered
<1>8. ASSUME NEW s \in Buffered(c)
      PROVE  IndexOf(c, s) = IndexOf(b, s) /\ c.data[IndexOf(b, s)] = b.data[IndexOf(b, s)]
  <2> DEFINE x == s - b.minSeqNo + b.firstIndex
             z == s - c.minSeqNo + c.firstIndex
             f == b.firstIndex + n
  <2>0. s \in Buffered(b) /\ s > end /\ s \in Nat
    BY <1>7, <1>8, IndexFacts
  <2>1. /\ x \in 0 .. 2 * MaxCount - 1
        /\ IndexOf(b, s) = x % MaxCount /\ IndexOf(c, s) = z % MaxCount
        /\ IndexOf(b, s) \in Slot
    BY <2>0, IndexFacts DEF IndexOf
  <2>a. c.firstIndex = IF f < MaxCount THEN f ELSE f - MaxCount
    BY <1>1, <1>2, <1>4, <1>5, DataBufferAssumption
  <2>b. f \in Nat /\ f <= x /\ x - f \in 0 .. MaxCount - 1
    BY <1>1, <1>2, <2>0, DataBufferAssumption DEF Buffered
  <2>c. c.firstIndex \in 0 .. MaxCount - 1
    BY <1>5 DEF Buffer, Slot
  <2>d. s - c.minSeqNo = x - f
    BY <1>1, <1>2, <1>5, <2>0
  <2>2. /\ c.firstIndex = IF f < MaxCount THEN f ELSE f - MaxCount
        /\ f \in Nat /\ f <= x /\ z = x - f + c.firstIndex
        /\ z \in 0 .. 2 * MaxCount - 1
    BY <2>a, <2>b, <2>c, <2>d, DataBufferAssumption
  <2>3. \A k \in 0 .. n - 1 : /\ b.firstIndex + k \in 0 .. 2 * MaxCount - 1
                              /\ b.firstIndex + k < x
                              /\ x - (b.firstIndex + k) < MaxCount
    BY <1>1, <1>2, <2>0, DataBufferAssumption DEF Buffered
  <2> HIDE DEF x, z, f
  <2>4. x % MaxCount = IF x < MaxCount THEN x ELSE x - MaxCount
    BY <2>1, WrapAround
  <2>5. z % MaxCount = IF z < MaxCount THEN z ELSE z - MaxCount
    BY <2>2, WrapAround
  <2>6. IndexOf(c, s) = IndexOf(b, s)
    BY <2>1, <2>2, <2>4, <2>5, DataBufferAssumption
  <2>7. IndexOf(b, s) \notin FreedSlots(b, n)
    <3> SUFFICES ASSUME NEW k \in 0 .. n - 1
                 PROVE  (b.firstIndex + k) % MaxCount # x % MaxCount
      BY <2>1 DEF FreedSlots
    <3> DEFINE y == b.firstIndex + k
    <3>1. y \in 0 .. 2 * MaxCount - 1 /\ y < x /\ x - y < MaxCount
      BY <2>3
    <3> HIDE DEF y
    <3>2. y % MaxCount = IF y < MaxCount THEN y ELSE y - MaxCount
      BY <3>1, WrapAround
    <3>3. y % MaxCount # x % MaxCount
      BY <2>1, <2>4, <3>1, <3>2, DataBufferAssumption
    <3> QED
      BY <3>3 DEF y
  <2> QED
    BY <1>5, <2>1, <2>6, <2>7
<1>9. RingOK(c)
  BY <1>5, <1>6, <1>7, <1>8 DEF RingOK
<1>10. ASSUME NEW s \in Buffered(c)
       PROVE  getDataPacketFromBuffer(c, s) = getDataPacketFromBuffer(b, s)
  <2>1. s \in Int /\ s \in Buffered(b)
    BY <1>7, <1>10, IndexFacts
  <2> QED
    BY <1>8, <1>9, <1>10, <2>1, GetFacts
<1> QED
  BY <1>3, <1>5, <1>9, <1>10 DEF c, n
===============================================================================
