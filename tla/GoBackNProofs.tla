----------------------------- MODULE GoBackNProofs -----------------------------
(***************************************************************************)
(* The safety of the go-back-N transfer, for every file, window, buffer    *)
(* size, timeout, channel capacity and number of faults: IInv is inductive *)
(* (one lemma for each action), and the properties of GoBackN follow, as   *)
(* does the refinement of FileCopy.                                        *)
(***************************************************************************)
EXTENDS GoBackN, DataBufferProofs

\* The payloads of the file are payloads of packets.
LEMMA PayloadType ==
    ASSUME NEW s \in Nat, s <= Len(File)
    PROVE  /\ PayloadOf(s) \in Payload
           /\ PayloadOf(s) = <<>> <=> s = Len(File)
           /\ s < Len(File) => PayloadOf(s) = <<File[s + 1]>> /\ File[s + 1] \in Chunk
  BY GoBackNAssumption DEF PayloadOf

\* A damaged message is still a message, with the error flag set.
LEMMA DamagedType ==
    /\ \A m \in Message : DamagedData(m) \in Message /\ DamagedData(m).hasErrors
    /\ \A m \in Ack : /\ DamagedAck(m) \in Ack
                      /\ DamagedAck(m).hasErrors
                      /\ DamagedAck(m).seqNoExpected = m.seqNoExpected
<1>1. \A x \in Nat : FlipLowByte(x) \in Nat
  BY DEF FlipLowByte
<1>2. ASSUME NEW m \in Message
      PROVE  DamagedData(m) \in Message /\ DamagedData(m).hasErrors
  <2>1. CASE m.payload # <<>>
    BY <2>1 DEF DamagedData, Message
  <2>2. CASE m.payload = <<>>
    BY <1>1, <2>2 DEF DamagedData, Message
  <2> QED
    BY <2>1, <2>2
<1> QED
  BY <1>2 DEF DamagedAck, Ack

\* The constants that the arithmetic of the proofs uses.
LEMMA Constants ==
    /\ Len(File) \in Nat /\ Window \in Nat \ {0} /\ MaxCount \in Nat \ {0}
    /\ Never \in Instant /\ Unset \in Instant
    /\ Expired .. Never \subseteq Instant
    /\ TimeoutTicks \in Instant /\ TimeoutTicks \in Expired .. Never
    /\ Expired \in Expired .. Never /\ Never \in Expired .. Never
    /\ TimeoutTicks # Never /\ Expired # Never
  BY DataBufferAssumption, GoBackNAssumption DEF Instant, Never, Unset, Expired

\* The buffer while IInv holds: its counters are natural numbers.
LEMMA BufferFacts ==
    ASSUME IInv
    PROVE  /\ dataBuffer.minSeqNo \in Nat /\ dataBuffer.count \in 0 .. MaxCount
           /\ dataBuffer.count \in Nat
           /\ RingOK(dataBuffer)
  BY Constants DEF IInv, BufferInv, RingOK, Buffer

\* The end of a range of numbers is part of it.
LEMMA LaterRange ==
    ASSUME NEW m \in Int, NEW c \in Int, NEW m2 \in Int, NEW c2 \in Int,
           m2 >= m, m2 + c2 = m + c
    PROVE  \A s \in m2 .. m2 + c2 - 1 : s \in m .. m + c - 1
  OBVIOUS

\* Receiving from and sending into a channel.
LEMMA ReceiveFacts ==
    ASSUME NEW S, NEW q \in Seq(S), q # <<>>
    PROVE  /\ Head(q) \in S /\ Head(q) = q[1]
           /\ Len(q) \in Nat /\ Len(q) > 0
           /\ Tail(q) \in Seq(S)
           /\ Len(Tail(q)) = Len(q) - 1
           /\ \A i \in 1 .. Len(Tail(q)) : i + 1 \in 1 .. Len(q) /\ Tail(q)[i] = q[i + 1]
  OBVIOUS

LEMMA SendFacts ==
    ASSUME NEW S, NEW q \in Seq(S), NEW m \in S
    PROVE  /\ Append(q, m) \in Seq(S)
           /\ Len(q) \in Nat /\ Len(Append(q, m)) = Len(q) + 1
           /\ \A i \in 1 .. Len(q) : Append(q, m)[i] = q[i]
           /\ Append(q, m)[Len(q) + 1] = m
  OBVIOUS

-------------------------------------------------------------------------------
\* Before the file is read the buffer is empty and nothing is in flight.
LEMMA InitIInv == Init => IInv
<1> SUFFICES ASSUME Init PROVE IInv
  OBVIOUS
<1> USE DEF Init
<1>1. RingOK(dataBuffer) /\ dataBuffer.minSeqNo = 0 /\ dataBuffer.count = 0
  BY AllocateOK
<1>2. Buffered(dataBuffer) = {}
  BY <1>1 DEF Buffered
<1>3. TypeOK
  <2>1. dataBuffer \in Buffer
    BY <1>1 DEF RingOK
  <2>2. /\ output \in Seq(Chunk \cup {Garbled})
        /\ dataChan \in Seq(Message) /\ ackChan \in Seq(Ack)
    OBVIOUS
  <2>3. timerExpiration \in Expired .. Never /\ faults \in 0 .. MaxFaults
    BY Constants, GoBackNAssumption
  <2>4. /\ readfds \in BOOLEAN /\ writefds \in BOOLEAN /\ outputOpen \in BOOLEAN
        /\ rdata \in Payload \cup {<<Garbled>>}
    BY GoBackNAssumption
  <2> QED
    BY <2>1, <2>2, <2>3, <2>4 DEF TypeOK
<1>4. BufferInv
  BY <1>1, <1>2, Constants DEF BufferInv, Loaded
<1>5. CounterInv
  BY <1>1, Constants DEF CounterInv, Acknowledged
<1>6. DataInv /\ AckInv /\ ReceiverInv /\ OutputInv
  BY Constants DEF ReceiverInv, DataInv, AckInv, OutputInv, Acknowledged, Written
<1> QED
  BY <1>3, <1>4, <1>5, <1>6 DEF IInv

\* A step that changes neither the channels nor the receiver, and of the buffer at
\* most the timeouts, keeps what IInv says of the channels and the output.
LEMMA QuietStep ==
    ASSUME IInv, UNCHANGED <<dataChan, ackChan, receiverVars>>,
           dataBuffer'.minSeqNo = dataBuffer.minSeqNo
    PROVE  DataInv' /\ AckInv' /\ ReceiverInv' /\ OutputInv'
  BY DEF IInv, ReceiverInv, DataInv, AckInv, OutputInv, receiverVars, Acknowledged, Written

\* A buffer with the same packets still holds the packets of the file.
LEMMA SameBuffer ==
    ASSUME IInv, RingOK(dataBuffer'), SamePackets(dataBuffer, dataBuffer')
    PROVE  /\ dataBuffer' \in Buffer
           /\ dataBuffer'.minSeqNo = dataBuffer.minSeqNo
           /\ dataBuffer'.count = dataBuffer.count
           /\ \A s \in Buffered(dataBuffer') :
                 getDataPacketFromBuffer(dataBuffer', s).payload = PayloadOf(s)
<1>1. /\ dataBuffer'.minSeqNo = dataBuffer.minSeqNo
      /\ dataBuffer'.count = dataBuffer.count
      /\ \A s \in Buffered(dataBuffer) :
            getDataPacketFromBuffer(dataBuffer', s).payload
              = getDataPacketFromBuffer(dataBuffer, s).payload
  BY DEF SamePackets
<1>2. Buffered(dataBuffer') = Buffered(dataBuffer)
  BY <1>1 DEF Buffered
<1> QED
  BY <1>1, <1>2 DEF IInv, BufferInv, RingOK

\* readIntoBuffer.
LEMMA ReadIntoBufferStep == IInv /\ ReadIntoBuffer => IInv'
<1> SUFFICES ASSUME IInv, ReadIntoBuffer PROVE IInv'
  OBVIOUS
<1> DEFINE b == dataBuffer
           p == [seqNo   |-> b.count,
                 payload |-> PayloadOf(b.count),
                 timeout |-> Unset]
<1>1. /\ spc = "read" /\ b.minSeqNo = 0 /\ b.count <= Len(File) /\ b.count \in 0 .. MaxCount
      /\ RingOK(b) /\ b.count \in Nat
      /\ nextSendSeqNo = 0 /\ lastReceivedSeqNo = -1
      /\ dataChan = <<>> /\ ackChan = <<>>
  BY BufferFacts DEF ReadIntoBuffer, IInv, BufferInv, Loaded
<1>2. UNCHANGED <<lastAckSeqNo, nextSendSeqNo, timerExpiration, readfds, writefds,
                  receiverVars, dataChan, ackChan, faults>>
  BY DEF ReadIntoBuffer
<1>3. p \in Packet /\ p.seqNo = b.minSeqNo + b.count
  BY <1>1, PayloadType, Constants DEF Packet
<1>4. putAsserts(b, p) <=> b.count < MaxCount
  BY <1>1, <1>3, PutFacts
<1>5. CASE ~ putAsserts(b, p)
  <2>1. spc' = "abort" /\ UNCHANGED dataBuffer /\ Len(File) >= MaxCount
    BY <1>1, <1>4, <1>5, Constants DEF ReadIntoBuffer
  <2>2. TypeOK'
    BY <1>2, <2>1 DEF IInv, TypeOK, receiverVars
  <2>3. BufferInv'
    BY <1>1, <1>2, <2>1 DEF IInv, BufferInv, Loaded, receiverVars
  <2>4. CounterInv'
    BY <1>1, <1>2, <2>1 DEF IInv, CounterInv, receiverVars, Acknowledged
  <2> QED
    BY <1>2, <2>1, <2>2, <2>3, <2>4, QuietStep DEF IInv
<1>6. CASE putAsserts(b, p)
  <2>1. /\ dataBuffer' = putDataPacketIntoBuffer(b, p)
        /\ spc' = IF p.payload = <<>> THEN "select" ELSE "read"
    BY <1>6 DEF ReadIntoBuffer
  <2> HIDE DEF p
  <2>2. /\ RingOK(dataBuffer')
        /\ dataBuffer'.minSeqNo = b.minSeqNo
        /\ dataBuffer'.count = b.count + 1
        /\ \A s \in Buffered(b) :
              getDataPacketFromBuffer(dataBuffer', s) = getDataPacketFromBuffer(b, s)
        /\ getDataPacketFromBuffer(dataBuffer', p.seqNo) = p
    BY <1>1, <1>3, <1>4, <1>6, <2>1, PutFacts
  <2>3. p.seqNo = b.count /\ p.payload = PayloadOf(b.count)
    BY DEF p
  <2>4. \A s \in Buffered(dataBuffer') :
           getDataPacketFromBuffer(dataBuffer', s).payload = PayloadOf(s)
    <3> SUFFICES ASSUME NEW s \in Buffered(dataBuffer')
                 PROVE  getDataPacketFromBuffer(dataBuffer', s).payload = PayloadOf(s)
      OBVIOUS
    <3>1. s \in Buffered(b) \/ s = b.count
      BY <1>1, <2>2 DEF Buffered
    <3>2. CASE s \in Buffered(b)
      BY <2>2, <3>2 DEF IInv, BufferInv
    <3>3. CASE s = b.count
      BY <2>2, <2>3, <3>3
    <3> QED
      BY <3>1, <3>2, <3>3
  <2>5. p.payload = <<>> <=> b.count = Len(File)
    BY <1>1, <2>3, PayloadType
  <2>6. TypeOK'
    BY <1>2, <2>1, <2>2 DEF IInv, TypeOK, receiverVars, RingOK
  <2>7. BufferInv'
    <3>1. /\ rpc' = "recv" /\ nextSendSeqNo' = 0 /\ lastReceivedSeqNo' = -1
          /\ dataChan' = <<>> /\ ackChan' = <<>>
      BY <1>1, <1>2 DEF receiverVars, IInv, BufferInv, Loaded
    <3> QED
      BY <1>1, <1>4, <1>6, <2>1, <2>2, <2>4, <2>5, <3>1, Constants DEF BufferInv, Loaded
  <2>8. CounterInv'
    BY <1>1, <1>2, <2>1, <2>2 DEF IInv, CounterInv, receiverVars, Acknowledged
  <2> QED
    BY <1>2, <2>2, <2>6, <2>7, <2>8, QuietStep DEF IInv
<1> QED
  BY <1>5, <1>6

\* select() only decides what this pass of the loop will look at.
LEMMA SelectStep == IInv /\ Select => IInv'
<1> SUFFICES ASSUME IInv, Select PROVE IInv'
  OBVIOUS
<1>1. /\ spc = "select" /\ spc' = "ack" /\ readfds' = (ackChan # <<>>)
      /\ writefds' \in BOOLEAN
      /\ UNCHANGED <<dataBuffer, lastAckSeqNo, nextSendSeqNo, timerExpiration,
                     receiverVars, dataChan, ackChan, faults>>
  BY DEF Select, WantsToSend
<1>2. TypeOK'
  BY <1>1 DEF IInv, TypeOK, receiverVars
<1>3. BufferInv'
  BY <1>1 DEF IInv, BufferInv, Loaded, receiverVars
<1>4. CounterInv'
  BY <1>1 DEF IInv, CounterInv, receiverVars, Acknowledged
<1> QED
  BY <1>1, <1>2, <1>3, <1>4, QuietStep DEF IInv

\* The end of the main loop.
LEMMA FinishStep == IInv /\ Finish => IInv'
<1> SUFFICES ASSUME IInv, Finish PROVE IInv'
  OBVIOUS
<1>1. /\ spc = "select" /\ spc' = "done" /\ dataBuffer.count = 0
      /\ UNCHANGED <<dataBuffer, lastAckSeqNo, nextSendSeqNo, timerExpiration, readfds,
                     writefds, receiverVars, dataChan, ackChan, faults>>
  BY DEF Finish, getBufferSize
<1>2. TypeOK'
  BY <1>1 DEF IInv, TypeOK, receiverVars
<1>3. BufferInv'
  BY <1>1 DEF IInv, BufferInv, Loaded, receiverVars
<1>4. CounterInv'
  BY <1>1 DEF IInv, CounterInv, receiverVars, Acknowledged
<1> QED
  BY <1>1, <1>2, <1>3, <1>4, QuietStep DEF IInv

\* An acknowledgement leaves its channel: those behind it are still new and in order.
LEMMA AckReceived ==
    ASSUME IInv, ackChan # <<>>, NEW e, e = Head(ackChan).seqNoExpected
    PROVE  /\ Tail(ackChan) \in Seq(Ack)
           /\ e \in Nat /\ e > dataBuffer.minSeqNo /\ e <= Acknowledged
           /\ \A i \in 1 .. Len(Tail(ackChan)) :
                 /\ Tail(ackChan)[i].seqNoExpected > e
                 /\ Tail(ackChan)[i].seqNoExpected > dataBuffer.minSeqNo
                 /\ Tail(ackChan)[i].seqNoExpected <= Acknowledged
           /\ \A i, j \in 1 .. Len(Tail(ackChan)) :
                 i < j => Tail(ackChan)[i].seqNoExpected < Tail(ackChan)[j].seqNoExpected
<1>1. ackChan \in Seq(Ack)
  BY DEF IInv, TypeOK
<1>2. /\ Head(ackChan) \in Ack /\ Head(ackChan) = ackChan[1]
      /\ Len(ackChan) \in Nat /\ Len(ackChan) > 0
      /\ Tail(ackChan) \in Seq(Ack)
      /\ Len(Tail(ackChan)) = Len(ackChan) - 1
      /\ \A i \in 1 .. Len(Tail(ackChan)) :
            i + 1 \in 1 .. Len(ackChan) /\ Tail(ackChan)[i] = ackChan[i + 1]
  BY <1>1, ReceiveFacts
<1>3. /\ \A i \in 1 .. Len(ackChan) :
            /\ ackChan[i].seqNoExpected > dataBuffer.minSeqNo
            /\ ackChan[i].seqNoExpected <= Acknowledged
      /\ \A i, j \in 1 .. Len(ackChan) :
            i < j => ackChan[i].seqNoExpected < ackChan[j].seqNoExpected
  BY DEF IInv, AckInv, Acknowledged
<1>4. 1 \in 1 .. Len(ackChan)
  BY <1>2
<1>5. e \in Nat /\ e > dataBuffer.minSeqNo /\ e <= Acknowledged
  BY <1>2, <1>3, <1>4 DEF Ack
<1>6. ASSUME NEW i \in 1 .. Len(Tail(ackChan))
      PROVE  /\ Tail(ackChan)[i].seqNoExpected > e
             /\ Tail(ackChan)[i].seqNoExpected > dataBuffer.minSeqNo
             /\ Tail(ackChan)[i].seqNoExpected <= Acknowledged
  <2>1. i + 1 \in 1 .. Len(ackChan) /\ 1 < i + 1 /\ Tail(ackChan)[i] = ackChan[i + 1]
    BY <1>2
  <2>2. ackChan[1].seqNoExpected < ackChan[i + 1].seqNoExpected
    BY <1>3, <1>4, <2>1
  <2>3. ackChan[i + 1] \in Ack
    BY <1>1, <2>1
  <2> QED
    BY <1>2, <1>3, <1>5, <2>1, <2>2, <2>3 DEF Ack
<1>7. ASSUME NEW i \in 1 .. Len(Tail(ackChan)), NEW j \in 1 .. Len(Tail(ackChan)), i < j
      PROVE  Tail(ackChan)[i].seqNoExpected < Tail(ackChan)[j].seqNoExpected
  <2>1. /\ i + 1 \in 1 .. Len(ackChan) /\ Tail(ackChan)[i] = ackChan[i + 1]
        /\ j + 1 \in 1 .. Len(ackChan) /\ Tail(ackChan)[j] = ackChan[j + 1]
        /\ i + 1 < j + 1
    BY <1>2, <1>7
  <2> QED
    BY <1>3, <2>1
<1> QED
  BY <1>2, <1>5, <1>6, <1>7

\* What a new acknowledgement does to the sender: never an assert, never a NULL
\* pointer, and the packets that stay are those the acknowledgement does not cover.
LEMMA AcceptAckFacts ==
    ASSUME IInv, spc = "ack", NEW e \in Nat,
           e > dataBuffer.minSeqNo, e <= Acknowledged, AcceptAck(e)
    PROVE  /\ spc' = "timer" /\ lastAckSeqNo' = e - 1
           /\ dataBuffer' \in Buffer /\ RingOK(dataBuffer')
           /\ dataBuffer'.minSeqNo = e
           /\ dataBuffer'.minSeqNo + dataBuffer'.count = Len(File) + 1
           /\ timerExpiration' \in Expired .. Never
           /\ \A s \in Buffered(dataBuffer') :
                 getDataPacketFromBuffer(dataBuffer', s).payload = PayloadOf(s)
<1> DEFINE b == dataBuffer
           freed == freeBuffer(b, b.minSeqNo, e - 1)
<1>1. /\ b.minSeqNo \in Nat /\ b.count \in Nat /\ RingOK(b)
      /\ b.minSeqNo + b.count = Len(File) + 1
      /\ Acknowledged <= Len(File) + 1 /\ Acknowledged \in Int
  BY BufferFacts, Constants
  DEF IInv, BufferInv, CounterInv, Loaded, TypeOK, Acknowledged
<1>2. e - 1 \in Buffered(b)
  BY <1>1, Constants DEF Buffered
<1>3. /\ freeAsserts(b, b.minSeqNo, e - 1)
      /\ RingOK(freed)
      /\ freed.minSeqNo = e - 1 + 1
      /\ freed.count = b.count - (e - 1 - b.minSeqNo + 1)
      /\ \A s \in Buffered(freed) :
            getDataPacketFromBuffer(freed, s) = getDataPacketFromBuffer(b, s)
  BY <1>1, <1>2, FreeFacts
<1> HIDE DEF freed
<1>4. /\ freed.minSeqNo = e /\ freed.count \in Nat
      /\ freed.minSeqNo + freed.count = Len(File) + 1
  BY <1>1, <1>3, Constants
<1>5. \A s \in Buffered(freed) :
         s \in Buffered(b) /\ getDataPacketFromBuffer(freed, s).payload = PayloadOf(s)
  <2>1. \A s \in Buffered(freed) : s \in Buffered(b)
    <3>1. freed.minSeqNo \in Int /\ freed.minSeqNo >= b.minSeqNo
      BY <1>1, <1>4
    <3>2. freed.minSeqNo + freed.count = b.minSeqNo + b.count
      BY <1>1, <1>4
    <3> QED
      BY <1>1, <1>4, <3>1, <3>2, LaterRange DEF Buffered
  <2> QED
    BY <1>3, <2>1 DEF IInv, BufferInv
<1>6. /\ dataBuffer' = freed
      /\ lastAckSeqNo' = e - 1
      /\ IF freed.count > 0
         THEN IF getDataPacketFromBuffer(freed, e) = NoPacket
              THEN spc' = "segfault" /\ UNCHANGED timerExpiration
              ELSE /\ spc' = "timer"
                   /\ timerExpiration' \in
                         CopiedTimeout(getDataPacketFromBuffer(freed, e).timeout)
         ELSE spc' = "timer" /\ timerExpiration' = Never
  BY <1>3 DEF AcceptAck, getFirstSeqNoOfBuffer, getBufferSize, freed
<1>7. spc' = "timer" /\ timerExpiration' \in Expired .. Never
  <2>1. CASE freed.count > 0
    <3>1. e \in Buffered(freed) /\ e \in Int
      BY <1>4, <2>1 DEF Buffered
    <3>2. /\ getDataPacketFromBuffer(freed, e) # NoPacket
          /\ getDataPacketFromBuffer(freed, e).timeout \in Instant
      BY <1>3, <3>1, GetFacts DEF Packet
    <3>3. CopiedTimeout(getDataPacketFromBuffer(freed, e).timeout) \subseteq Expired .. Never
      BY <3>2, DataBufferAssumption DEF CopiedTimeout, Instant, Unset, Expired, Never
    <3> QED
      BY <1>6, <2>1, <3>2, <3>3
  <2>2. CASE ~ (freed.count > 0)
    BY <1>6, <2>2, Constants
  <2> QED
    BY <2>1, <2>2
<1> QED
  BY <1>3, <1>4, <1>5, <1>6, <1>7 DEF RingOK

LEMMA HandleAckStep == IInv /\ HandleAck => IInv'
<1> SUFFICES ASSUME IInv, HandleAck PROVE IInv'
  OBVIOUS
<1>1. /\ spc = "ack"
      /\ UNCHANGED <<nextSendSeqNo, readfds, writefds, receiverVars, dataChan, faults>>
  BY DEF HandleAck
<1>2. /\ dataBuffer.minSeqNo \in Nat /\ dataBuffer.count \in Nat
      /\ dataBuffer.minSeqNo + dataBuffer.count = Len(File) + 1
      /\ Len(File) < MaxCount
  BY <1>1, BufferFacts DEF IInv, BufferInv, Loaded
<1>3. CASE ~ readfds
  <2>1. spc' = "timer" /\ UNCHANGED <<dataBuffer, lastAckSeqNo, timerExpiration, ackChan>>
    BY <1>3 DEF HandleAck
  <2>2. TypeOK'
    BY <1>1, <2>1 DEF IInv, TypeOK, receiverVars
  <2>3. BufferInv' /\ CounterInv'
    BY <1>1, <2>1 DEF IInv, BufferInv, CounterInv, Loaded, receiverVars, Acknowledged
  <2> QED
    BY <1>1, <2>1, <2>2, <2>3, QuietStep DEF IInv
<1>4. CASE readfds
  <2> DEFINE e == Head(ackChan).seqNoExpected
  <2>1. ackChan # <<>> /\ ackChan' = Tail(ackChan)
    BY <1>1, <1>4 DEF HandleAck, IInv, CounterInv, Acknowledged
  <2>2. /\ ackChan' \in Seq(Ack)
        /\ e \in Nat /\ e > dataBuffer.minSeqNo /\ e <= Acknowledged
        /\ \A i \in 1 .. Len(ackChan') :
              /\ ackChan'[i].seqNoExpected > e
              /\ ackChan'[i].seqNoExpected > dataBuffer.minSeqNo
              /\ ackChan'[i].seqNoExpected <= Acknowledged
        /\ \A i, j \in 1 .. Len(ackChan') :
              i < j => ackChan'[i].seqNoExpected < ackChan'[j].seqNoExpected
    BY <2>1, AckReceived
  <2>3. \/ AcceptAck(e)
        \/ spc' = "timer" /\ UNCHANGED <<dataBuffer, lastAckSeqNo, timerExpiration>>
    BY <1>4 DEF HandleAck
  <2> HIDE DEF e
  <2>4. ReceiverInv' /\ OutputInv' /\ Acknowledged' = Acknowledged
    BY <1>1 DEF IInv, ReceiverInv, Acknowledged, OutputInv, receiverVars, Written
  <2>5. CASE spc' = "timer" /\ UNCHANGED <<dataBuffer, lastAckSeqNo, timerExpiration>>
    <3>1. TypeOK'
      BY <1>1, <2>2, <2>5 DEF IInv, TypeOK, receiverVars
    <3>2. BufferInv' /\ CounterInv'
      BY <1>1, <2>5 DEF IInv, BufferInv, CounterInv, Loaded, receiverVars, Acknowledged
    <3>3. DataInv' /\ AckInv'
      BY <1>1, <2>2, <2>5 DEF IInv, DataInv, AckInv, receiverVars, Acknowledged
    <3> QED
      BY <2>4, <3>1, <3>2, <3>3 DEF IInv
  <2>6. CASE AcceptAck(e)
    <3>1. /\ spc' = "timer" /\ lastAckSeqNo' = e - 1
          /\ dataBuffer' \in Buffer /\ RingOK(dataBuffer')
          /\ dataBuffer'.minSeqNo = e
          /\ dataBuffer'.minSeqNo + dataBuffer'.count = Len(File) + 1
          /\ timerExpiration' \in Expired .. Never
          /\ \A s \in Buffered(dataBuffer') :
                getDataPacketFromBuffer(dataBuffer', s).payload = PayloadOf(s)
      BY <1>1, <2>2, <2>6, AcceptAckFacts
    <3>2. TypeOK'
      BY <1>1, <1>2, <2>2, <3>1 DEF IInv, TypeOK, receiverVars
    <3>3. BufferInv'
      BY <1>1, <1>2, <3>1 DEF BufferInv, Loaded
    <3>4. lastAckSeqNo <= lastAckSeqNo'
      BY <1>2, <2>2, <3>1 DEF IInv, CounterInv, Acknowledged
    <3>5. nextSendSeqNo' <= lastAckSeqNo' + Window
      <4>1. /\ nextSendSeqNo \in Nat /\ lastAckSeqNo \in Nat /\ Window \in Nat
            /\ nextSendSeqNo <= lastAckSeqNo + Window
        BY Constants DEF IInv, CounterInv, TypeOK, Acknowledged
      <4>2. e - 1 \in Nat /\ lastAckSeqNo <= e - 1
        BY <1>2, <2>2, <3>1, <3>4
      <4>3. nextSendSeqNo <= (e - 1) + Window
        BY <4>1, <4>2
      <4> QED
        BY <1>1, <3>1, <4>3
    <3>6. CounterInv'
      BY <1>1, <1>2, <2>2, <3>1, <3>5 DEF IInv, CounterInv, receiverVars, Acknowledged
    <3>7. DataInv'
      <4> SUFFICES ASSUME NEW i \in 1 .. Len(dataChan), ~ dataChan[i].hasErrors
                   PROVE  /\ dataChan[i].seqNo <= Len(File)
                          /\ dataChan[i].seqNo < e + Window
                          /\ dataChan[i].payload = PayloadOf(dataChan[i].seqNo)
        BY <1>1, <3>1 DEF DataInv
      <4>1. /\ dataChan[i].seqNo <= Len(File)
            /\ dataChan[i].seqNo < dataBuffer.minSeqNo + Window
            /\ dataChan[i].payload = PayloadOf(dataChan[i].seqNo)
        BY DEF IInv, DataInv
      <4>2. dataChan[i].seqNo \in Nat
        <5>1. dataChan \in Seq(Message)
          BY DEF IInv, TypeOK
        <5>2. dataChan[i] \in Message
          BY <5>1
        <5> QED
          BY <5>2 DEF Message
      <4>3. Window \in Nat
        BY Constants
      <4> QED
        BY <1>2, <2>2, <4>1, <4>2, <4>3
    <3>8. AckInv'
      BY <1>1, <2>2, <3>1 DEF AckInv, receiverVars, Acknowledged
    <3> QED
      BY <2>4, <3>2, <3>3, <3>6, <3>7, <3>8 DEF IInv
  <2> QED
    BY <2>3, <2>5, <2>6
<1> QED
  BY <1>1, <1>3, <1>4 DEF IInv, TypeOK
\* The timeout: nextSendSeqNo goes back, the timers are switched off.
LEMMA HandleTimeoutStep == IInv /\ HandleTimeout => IInv'
<1> SUFFICES ASSUME IInv, HandleTimeout PROVE IInv'
  OBVIOUS
<1>1. /\ spc = "timer" /\ spc' \in {"send", "select"}
      /\ UNCHANGED <<lastAckSeqNo, readfds, writefds, receiverVars, dataChan, ackChan, faults>>
  BY DEF HandleTimeout
<1>2. CASE timerExpiration # Expired
  <2>1. UNCHANGED <<nextSendSeqNo, timerExpiration, dataBuffer>>
    BY <1>2 DEF HandleTimeout
  <2>2. TypeOK'
    BY <1>1, <2>1 DEF IInv, TypeOK, receiverVars
  <2>3. BufferInv' /\ CounterInv'
    BY <1>1, <2>1 DEF IInv, BufferInv, CounterInv, Loaded, receiverVars, Acknowledged
  <2> QED
    BY <1>1, <2>1, <2>2, <2>3, QuietStep DEF IInv
<1>3. CASE timerExpiration = Expired
  <2>1. /\ nextSendSeqNo' = lastAckSeqNo + 1
        /\ timerExpiration' = Never
        /\ dataBuffer' = resetTimers(dataBuffer)
    BY <1>3 DEF HandleTimeout
  <2>2. RingOK(dataBuffer') /\ SamePackets(dataBuffer, dataBuffer')
    BY <2>1, BufferFacts, ResetFacts
  <2>3. /\ dataBuffer' \in Buffer
        /\ dataBuffer'.minSeqNo = dataBuffer.minSeqNo
        /\ dataBuffer'.count = dataBuffer.count
        /\ \A s \in Buffered(dataBuffer') :
              getDataPacketFromBuffer(dataBuffer', s).payload = PayloadOf(s)
    BY <2>2, SameBuffer
  <2>4. lastAckSeqNo \in Nat /\ Window \in Nat \ {0}
    BY Constants DEF IInv, TypeOK
  <2>5. nextSendSeqNo' \in Nat /\ nextSendSeqNo' <= lastAckSeqNo' + Window
    BY <1>1, <2>1, <2>4
  <2>6. TypeOK'
    BY <1>1, <2>1, <2>3, <2>5, Constants DEF IInv, TypeOK, receiverVars
  <2>7. BufferInv'
    BY <1>1, <2>2, <2>3 DEF IInv, BufferInv, Loaded
  <2>8. CounterInv'
    BY <1>1, <2>1, <2>3, <2>5 DEF IInv, CounterInv, receiverVars, Acknowledged
  <2> QED
    BY <1>1, <2>3, <2>6, <2>7, <2>8, QuietStep DEF IInv
<1> QED
  BY <1>2, <1>3

\* One packet is sent: it is one of the file and within the window.
LEMMA SendPacketStep == IInv /\ SendPacket => IInv'
<1> SUFFICES ASSUME IInv, SendPacket PROVE IInv'
  OBVIOUS
<1> DEFINE n == nextSendSeqNo
           data == getDataPacketFromBuffer(dataBuffer, n)
           m == DataMsg(data)
<1>1. /\ spc = "send" /\ n \in Nat /\ n <= Len(File)
      /\ n - lastAckSeqNo < Window
      /\ UNCHANGED <<lastAckSeqNo, readfds, writefds, receiverVars, ackChan>>
  BY DEF SendPacket, MaySend, veryLastSeqNo, IInv, TypeOK
<1>2. /\ dataBuffer.minSeqNo \in Nat /\ dataBuffer.count \in Nat /\ RingOK(dataBuffer)
      /\ dataBuffer.minSeqNo + dataBuffer.count = Len(File) + 1
      /\ Len(File) \in Nat /\ Window \in Nat /\ lastAckSeqNo \in Nat
  BY <1>1, BufferFacts, Constants DEF IInv, BufferInv, Loaded, TypeOK
<1>3. CASE data = NoPacket
  <2>1. /\ spc' = "segfault"
        /\ UNCHANGED <<dataBuffer, nextSendSeqNo, timerExpiration, dataChan, faults>>
    BY <1>3 DEF SendPacket
  <2>2. n < dataBuffer.minSeqNo
    <3>1. n \notin Buffered(dataBuffer)
      BY <1>1, <1>2, <1>3, GetFacts
    <3> QED
      BY <1>1, <1>2, <3>1 DEF Buffered
  <2>3. TypeOK'
    BY <1>1, <2>1 DEF IInv, TypeOK, receiverVars
  <2>4. BufferInv' /\ CounterInv'
    BY <1>1, <2>1, <2>2 DEF IInv, BufferInv, CounterInv, Loaded, receiverVars, Acknowledged
  <2> QED
    BY <1>1, <2>1, <2>3, <2>4, QuietStep DEF IInv
<1>4. CASE data # NoPacket
  <2>1. /\ Transmit(dataChan, dataChan', m, DamagedData(m))
        /\ nextSendSeqNo' = n + 1
        /\ dataBuffer' = SetTimeout(dataBuffer, n, TimeoutTicks)
        /\ timerExpiration' = IF timerExpiration = Expired THEN TimeoutTicks
                              ELSE timerExpiration
        /\ spc' = spc
    BY <1>4 DEF SendPacket
  <2>2. /\ n \in Buffered(dataBuffer) /\ data \in Packet
        /\ data.seqNo = n /\ data.payload = PayloadOf(n)
    BY <1>1, <1>2, <1>4, GetFacts DEF IInv, BufferInv
  <2>3. /\ m \in Message /\ ~ m.hasErrors /\ m.seqNo = n /\ m.payload = PayloadOf(n)
        /\ DamagedData(m) \in Message /\ DamagedData(m).hasErrors
    <3>1. m \in Message /\ ~ m.hasErrors /\ m.seqNo = n /\ m.payload = PayloadOf(n)
      BY <2>2 DEF DataMsg, Message, Packet
    <3> QED
      BY <3>1, DamagedType
  <2> HIDE DEF m, data, n
  <2>4. RingOK(dataBuffer') /\ SamePackets(dataBuffer, dataBuffer')
    BY <1>2, <2>1, <2>2, StampFacts, Constants
  <2>5. /\ dataBuffer' \in Buffer
        /\ dataBuffer'.minSeqNo = dataBuffer.minSeqNo
        /\ dataBuffer'.count = dataBuffer.count
        /\ \A s \in Buffered(dataBuffer') :
              getDataPacketFromBuffer(dataBuffer', s).payload = PayloadOf(s)
    BY <2>4, SameBuffer
  <2>6. nextSendSeqNo' \in Nat /\ nextSendSeqNo' <= lastAckSeqNo' + Window
    BY <1>1, <1>2, <2>1
  <2>7. n < dataBuffer.minSeqNo + Window
    <3>1. lastAckSeqNo <= dataBuffer.minSeqNo
      BY <1>2 DEF IInv, CounterInv, Acknowledged
    <3> QED
      BY <1>1, <1>2, <3>1
  <2>8. /\ faults' \in 0 .. MaxFaults
        /\ dataChan' \in Seq(Message)
        /\ \/ dataChan' = dataChan
           \/ dataChan' = Append(dataChan, m)
           \/ dataChan' = Append(dataChan, DamagedData(m))
    <3>1. faults \in 0 .. MaxFaults /\ dataChan \in Seq(Message) /\ MaxFaults \in Nat
      BY GoBackNAssumption DEF IInv, TypeOK
    <3>2. \/ dataChan' = Append(dataChan, m) /\ faults' = faults
          \/ /\ faults < MaxFaults /\ faults' = faults + 1
             /\ \/ dataChan' = Append(dataChan, DamagedData(m))
                \/ dataChan' = dataChan
      BY <2>1 DEF Transmit
    <3> QED
      BY <2>3, <3>1, <3>2, SendFacts
  <2>9. TypeOK'
    BY <1>1, <2>1, <2>5, <2>6, <2>8, Constants DEF IInv, TypeOK, receiverVars
  <2>10. BufferInv'
    BY <1>1, <2>1, <2>4, <2>5 DEF IInv, BufferInv, Loaded
  <2>11. CounterInv'
    BY <1>1, <2>1, <2>5, <2>6, Constants DEF IInv, CounterInv, receiverVars, Acknowledged
  <2>12. DataInv'
    <3> SUFFICES ASSUME NEW i \in 1 .. Len(dataChan'), ~ dataChan'[i].hasErrors
                 PROVE  /\ dataChan'[i].seqNo <= Len(File)
                        /\ dataChan'[i].seqNo < dataBuffer.minSeqNo + Window
                        /\ dataChan'[i].payload = PayloadOf(dataChan'[i].seqNo)
      BY <2>5 DEF DataInv
    <3>1. dataChan \in Seq(Message) /\ Len(dataChan) \in Nat
      BY DEF IInv, TypeOK
    <3>2. CASE i \in 1 .. Len(dataChan) /\ dataChan'[i] = dataChan[i]
      BY <3>2 DEF IInv, DataInv
    <3>3. CASE dataChan'[i] = m
      BY <1>1, <2>3, <2>7, <3>3
    <3>4. CASE dataChan'[i] = DamagedData(m)
      BY <2>3, <3>4
    <3> QED
      BY <2>3, <2>8, <3>1, <3>2, <3>3, <3>4, SendFacts
  <2>13. AckInv' /\ ReceiverInv' /\ OutputInv'
    BY <1>1, <2>5
    DEF IInv, AckInv, ReceiverInv, OutputInv, receiverVars, Acknowledged, Written
  <2> QED
    BY <2>9, <2>10, <2>11, <2>12, <2>13 DEF IInv
<1> QED
  BY <1>3, <1>4

LEMMA EndSendStep == IInv /\ EndSend => IInv'
<1> SUFFICES ASSUME IInv, EndSend PROVE IInv'
  OBVIOUS
<1>1. /\ spc = "send" /\ spc' = "select"
      /\ UNCHANGED <<dataBuffer, lastAckSeqNo, nextSendSeqNo, timerExpiration, readfds,
                     writefds, receiverVars, dataChan, ackChan, faults>>
  BY DEF EndSend
<1>2. TypeOK'
  BY <1>1 DEF IInv, TypeOK, receiverVars
<1>3. BufferInv' /\ CounterInv'
  BY <1>1 DEF IInv, BufferInv, CounterInv, Loaded, receiverVars, Acknowledged
<1> QED
  BY <1>1, <1>2, <1>3, QuietStep DEF IInv

\* The clock moves.
LEMMA TickStep == IInv /\ Tick => IInv'
<1> SUFFICES ASSUME IInv, Tick PROVE IInv'
  OBVIOUS
<1>1. /\ spc \notin {"done", "abort", "segfault"}
      /\ dataBuffer' = AgeTimeouts(dataBuffer)
      /\ timerExpiration' = Closer(timerExpiration)
      /\ UNCHANGED <<spc, lastAckSeqNo, nextSendSeqNo, readfds, writefds, receiverVars,
                     dataChan, ackChan, faults>>
  BY DEF Tick
<1>2. RingOK(dataBuffer') /\ SamePackets(dataBuffer, dataBuffer')
  BY <1>1, BufferFacts, AgeFacts
<1>3. /\ dataBuffer' \in Buffer
      /\ dataBuffer'.minSeqNo = dataBuffer.minSeqNo
      /\ dataBuffer'.count = dataBuffer.count
      /\ \A s \in Buffered(dataBuffer') :
            getDataPacketFromBuffer(dataBuffer', s).payload = PayloadOf(s)
  BY <1>2, SameBuffer
<1>4. /\ timerExpiration' \in Expired .. Never
      /\ timerExpiration' # Never => timerExpiration # Never
  BY <1>1, DataBufferAssumption DEF IInv, TypeOK, Closer, Expired, Never
<1>5. TypeOK'
  BY <1>1, <1>3, <1>4 DEF IInv, TypeOK, receiverVars
<1>6. BufferInv'
  BY <1>1, <1>2, <1>3 DEF IInv, BufferInv, Loaded, receiverVars
<1>7. CounterInv'
  BY <1>1, <1>3, <1>4 DEF IInv, CounterInv, receiverVars, Acknowledged
<1> QED
  BY <1>1, <1>3, <1>5, <1>6, <1>7, QuietStep DEF IInv
\* A data packet leaves its channel: those behind it are still of the file and
\* within the window.
LEMMA DataReceived ==
    ASSUME IInv, dataChan # <<>>
    PROVE  /\ Head(dataChan) \in Message
           /\ ~ Head(dataChan).hasErrors =>
                 /\ Head(dataChan).seqNo <= Len(File)
                 /\ Head(dataChan).payload = PayloadOf(Head(dataChan).seqNo)
           /\ Tail(dataChan) \in Seq(Message)
           /\ \A i \in 1 .. Len(Tail(dataChan)) : ~ Tail(dataChan)[i].hasErrors =>
                 /\ Tail(dataChan)[i].seqNo <= Len(File)
                 /\ Tail(dataChan)[i].seqNo < dataBuffer.minSeqNo + Window
                 /\ Tail(dataChan)[i].payload = PayloadOf(Tail(dataChan)[i].seqNo)
<1>1. dataChan \in Seq(Message)
  BY DEF IInv, TypeOK
<1>2. /\ Head(dataChan) \in Message /\ Head(dataChan) = dataChan[1]
      /\ 1 \in 1 .. Len(dataChan)
      /\ Tail(dataChan) \in Seq(Message)
      /\ \A i \in 1 .. Len(Tail(dataChan)) :
            i + 1 \in 1 .. Len(dataChan) /\ Tail(dataChan)[i] = dataChan[i + 1]
  BY <1>1, ReceiveFacts
<1> QED
  BY <1>2 DEF IInv, DataInv

\* The receiver has work only after the file was read.
LEMMA ReceiverLoaded ==
    ASSUME IInv, dataChan # <<>>
    PROVE  Loaded
  BY DEF IInv, BufferInv

LEMMA DiscardStep == IInv /\ Discard => IInv'
<1> SUFFICES ASSUME IInv, Discard PROVE IInv'
  OBVIOUS
<1>1. /\ dataChan # <<>> /\ dataChan' = Tail(dataChan)
      /\ UNCHANGED <<spc, dataBuffer, lastAckSeqNo, nextSendSeqNo, timerExpiration,
                     readfds, writefds, rpc, rdata, lastReceivedSeqNo, output, outputOpen,
                     ackChan, faults>>
  BY DEF Discard, Expected, senderVars, receiverVars
<1>2. dataChan' \in Seq(Message) /\ DataInv'
  BY <1>1, DataReceived DEF DataInv
<1>3. TypeOK'
  BY <1>1, <1>2 DEF IInv, TypeOK
<1>4. BufferInv'
  BY <1>1, ReceiverLoaded DEF IInv, BufferInv, Loaded
<1>5. CounterInv' /\ AckInv' /\ ReceiverInv' /\ OutputInv'
  BY <1>1 DEF IInv, CounterInv, AckInv, ReceiverInv, OutputInv, Acknowledged, Written
<1> QED
  BY <1>2, <1>3, <1>4, <1>5 DEF IInv

\* The packet that is counted is the next of the file.  Until it is acknowledged and
\* written, as much is acknowledged and written as before.
LEMMA AcceptFacts ==
    ASSUME IInv, Accept
    PROVE  /\ rpc = "recv" /\ rpc' = "ack"
           /\ lastReceivedSeqNo' = lastReceivedSeqNo + 1
           /\ lastReceivedSeqNo' \in Nat /\ lastReceivedSeqNo' <= Len(File)
           /\ rdata' = PayloadOf(lastReceivedSeqNo') /\ rdata' \in Payload
           /\ Acknowledged' = Acknowledged /\ Written' = Written
<1> DEFINE r == lastReceivedSeqNo + 1
           m == Head(dataChan)
<1>1. /\ rpc = "recv" /\ rpc' = "ack"
      /\ dataChan # <<>> /\ ~ m.hasErrors /\ m.seqNo = r
      /\ lastReceivedSeqNo' = m.seqNo
      /\ rdata' = m.payload
  BY DEF Accept, Expected
<1>2. r \in Nat /\ r <= Len(File) /\ m.payload = PayloadOf(r)
  BY <1>1, DataReceived DEF IInv, TypeOK
<1>3. PayloadOf(r) \in Payload
  BY <1>2, PayloadType
<1>4. Acknowledged' = Acknowledged /\ Written' = Written
  BY <1>1 DEF Acknowledged, Written
<1> QED
  BY <1>1, <1>2, <1>3, <1>4

LEMMA AcceptStep == IInv /\ Accept => IInv'
<1> SUFFICES ASSUME IInv, Accept PROVE IInv'
  OBVIOUS
<1>1. /\ dataChan # <<>> /\ dataChan' = Tail(dataChan)
      /\ UNCHANGED <<spc, dataBuffer, lastAckSeqNo, nextSendSeqNo, timerExpiration,
                     readfds, writefds, output, outputOpen, ackChan, faults>>
  BY DEF Accept, senderVars
<1>2. /\ rpc = "recv" /\ rpc' = "ack"
      /\ lastReceivedSeqNo' = lastReceivedSeqNo + 1
      /\ lastReceivedSeqNo' \in Nat /\ lastReceivedSeqNo' <= Len(File)
      /\ rdata' = PayloadOf(lastReceivedSeqNo') /\ rdata' \in Payload
      /\ Acknowledged' = Acknowledged /\ Written' = Written
  BY AcceptFacts
<1>3. dataChan' \in Seq(Message) /\ DataInv'
  BY <1>1, DataReceived DEF DataInv
<1>4. TypeOK'
  BY <1>1, <1>2, <1>3 DEF IInv, TypeOK
<1>5. BufferInv'
  BY <1>1, ReceiverLoaded DEF IInv, BufferInv, Loaded
<1>6. CounterInv' /\ AckInv' /\ OutputInv'
  BY <1>1, <1>2 DEF IInv, CounterInv, AckInv, OutputInv
<1>7. ReceiverInv'
  BY <1>2 DEF ReceiverInv
<1> QED
  BY <1>3, <1>4, <1>5, <1>6, <1>7 DEF IInv

\* The receiver is past its recv() only after the file was read.
LEMMA BusyLoaded ==
    ASSUME IInv, rpc # "recv"
    PROVE  Loaded
  BY DEF IInv, BufferInv

\* The acknowledgement is one more than all before it.
LEMMA SendAckStep == IInv /\ SendAck => IInv'
<1> SUFFICES ASSUME IInv, SendAck PROVE IInv'
  OBVIOUS
<1> DEFINE r == lastReceivedSeqNo
           ack == AckMsg(r + 1)
<1>1. /\ rpc = "ack" /\ rpc' = "write"
      /\ UNCHANGED <<spc, dataBuffer, lastAckSeqNo, nextSendSeqNo, timerExpiration,
                     readfds, writefds, rdata, lastReceivedSeqNo, output, outputOpen,
                     dataChan>>
  BY DEF SendAck, senderVars
<1>2. /\ r \in Nat /\ r <= Len(File)
      /\ Acknowledged = r /\ Acknowledged' = r + 1 /\ Written' = Written
  BY <1>1 DEF IInv, ReceiverInv, CounterInv, TypeOK, Acknowledged, Written
<1>3. Transmit(ackChan, ackChan', ack, DamagedAck(ack))
  BY DEF SendAck
<1>4. /\ ack \in Ack /\ ack.seqNoExpected = r + 1
      /\ DamagedAck(ack) \in Ack /\ DamagedAck(ack).seqNoExpected = r + 1
  <2>1. ack \in Ack /\ ack.seqNoExpected = r + 1
    BY <1>2 DEF AckMsg, Ack
  <2> QED
    BY <2>1, DamagedType
<1> HIDE DEF ack
<1>5. /\ faults' \in 0 .. MaxFaults
      /\ ackChan' \in Seq(Ack)
      /\ \/ ackChan' = ackChan
         \/ \E k \in Ack : ackChan' = Append(ackChan, k) /\ k.seqNoExpected = r + 1
  <2>1. faults \in 0 .. MaxFaults /\ ackChan \in Seq(Ack) /\ MaxFaults \in Nat
    BY GoBackNAssumption DEF IInv, TypeOK
  <2>2. \/ ackChan' = Append(ackChan, ack) /\ faults' = faults
        \/ /\ faults < MaxFaults /\ faults' = faults + 1
           /\ \/ ackChan' = Append(ackChan, DamagedAck(ack))
              \/ ackChan' = ackChan
    BY <1>3 DEF Transmit
  <2> QED
    BY <1>4, <2>1, <2>2, SendFacts
<1>6. TypeOK'
  BY <1>1, <1>5 DEF IInv, TypeOK
<1>7. BufferInv'
  BY <1>1, BusyLoaded DEF IInv, BufferInv, Loaded
<1>8. CounterInv'
  <2>1. ackChan # <<>> => ackChan' # <<>>
    <3>1. ackChan \in Seq(Ack)
      BY DEF IInv, TypeOK
    <3> QED
      BY <1>5, <3>1, SendFacts
  <2>2. dataBuffer.minSeqNo \in Nat /\ dataBuffer.minSeqNo <= r + 1
    BY <1>2, BufferFacts DEF IInv, CounterInv
  <2> QED
    BY <1>1, <1>2, <2>1, <2>2 DEF IInv, CounterInv
<1>9. AckInv'
  <2>1. /\ ackChan \in Seq(Ack) /\ Len(ackChan) \in Nat
        /\ dataBuffer.minSeqNo \in Nat /\ dataBuffer.minSeqNo <= r
    BY <1>2, BufferFacts DEF IInv, TypeOK, CounterInv
  <2>2. /\ \A i \in 1 .. Len(ackChan) :
              /\ ackChan[i].seqNoExpected \in Nat
              /\ ackChan[i].seqNoExpected > dataBuffer.minSeqNo
              /\ ackChan[i].seqNoExpected <= r
        /\ \A i, j \in 1 .. Len(ackChan) :
              i < j => ackChan[i].seqNoExpected < ackChan[j].seqNoExpected
    <3>1. \A i \in 1 .. Len(ackChan) : ackChan[i] \in Ack
      BY <2>1
    <3> QED
      BY <1>2, <3>1 DEF IInv, AckInv, Ack
  <2>3. CASE ackChan' = ackChan
    BY <1>1, <1>2, <2>2, <2>3 DEF AckInv
  <2>4. ASSUME NEW k \in Ack, ackChan' = Append(ackChan, k), k.seqNoExpected = r + 1
        PROVE  AckInv'
    <3>1. /\ Len(ackChan') = Len(ackChan) + 1
          /\ \A i \in 1 .. Len(ackChan) : ackChan'[i] = ackChan[i]
          /\ ackChan'[Len(ackChan) + 1] = k
      BY <2>1, <2>4, SendFacts
    <3>2. ASSUME NEW i \in 1 .. Len(ackChan')
          PROVE  /\ ackChan'[i].seqNoExpected > dataBuffer.minSeqNo
                 /\ ackChan'[i].seqNoExpected <= r + 1
      <4>1. CASE i \in 1 .. Len(ackChan)
        BY <1>2, <2>2, <3>1, <4>1
      <4>2. CASE i = Len(ackChan) + 1
        BY <1>2, <2>1, <2>4, <3>1, <4>2
      <4> QED
        BY <2>1, <3>1, <4>1, <4>2
    <3>3. ASSUME NEW i \in 1 .. Len(ackChan'), NEW j \in 1 .. Len(ackChan'), i < j
          PROVE  ackChan'[i].seqNoExpected < ackChan'[j].seqNoExpected
      <4>1. i \in 1 .. Len(ackChan)
        BY <2>1, <3>1, <3>3
      <4>2. CASE j \in 1 .. Len(ackChan)
        BY <2>2, <3>1, <3>3, <4>1, <4>2
      <4>3. CASE j = Len(ackChan) + 1
        BY <1>2, <2>2, <2>4, <3>1, <4>1, <4>3
      <4> QED
        BY <2>1, <3>1, <4>2, <4>3
    <3> QED
      BY <1>1, <1>2, <3>2, <3>3 DEF AckInv
  <2> QED
    BY <1>5, <2>3, <2>4
<1>10. DataInv' /\ ReceiverInv' /\ OutputInv'
  BY <1>1, <1>2 DEF IInv, DataInv, ReceiverInv, OutputInv
<1> QED
  BY <1>6, <1>7, <1>8, <1>9, <1>10 DEF IInv

\* What the packet in hand does to the output: it grows by the next chunk of the
\* file, or it is complete and is closed.
LEMMA WriteFacts ==
    ASSUME IInv, WriteOrClose
    PROVE  /\ rpc = "write" /\ rpc' = "recv"
           /\ lastReceivedSeqNo \in Nat /\ lastReceivedSeqNo <= Len(File)
           /\ Acknowledged' = Acknowledged
           /\ Written = lastReceivedSeqNo /\ Written' = lastReceivedSeqNo + 1
           /\ outputOpen = TRUE
           /\ Len(output) = lastReceivedSeqNo
           /\ \/ /\ lastReceivedSeqNo < Len(File)
                 /\ output' = Append(output, File[Len(output) + 1])
                 /\ File[Len(output) + 1] \in Chunk
                 /\ outputOpen' = TRUE
              \/ /\ lastReceivedSeqNo = Len(File)
                 /\ output' = output
                 /\ outputOpen' = FALSE
<1> DEFINE r == lastReceivedSeqNo
<1>1. /\ rpc = "write" /\ rpc' = "recv"
      /\ lastReceivedSeqNo' = lastReceivedSeqNo
      /\ output' = output \o rdata
      /\ outputOpen' = (outputOpen /\ rdata # <<>>)
  BY DEF WriteOrClose
<1>2. r \in Nat /\ r <= Len(File) /\ rdata = PayloadOf(r)
  BY <1>1 DEF IInv, TypeOK, ReceiverInv, CounterInv
<1>3. Acknowledged' = Acknowledged /\ Written = r /\ Written' = r + 1
  BY <1>1 DEF Acknowledged, Written
<1>4. output \in Seq(Chunk \cup {Garbled}) /\ Len(output) = r /\ outputOpen = TRUE
  BY <1>2, <1>3, Constants DEF IInv, OutputInv, TypeOK
<1> DEFINE Grows  == /\ r < Len(File)
                     /\ output' = Append(output, File[Len(output) + 1])
                     /\ File[Len(output) + 1] \in Chunk
                     /\ outputOpen' = TRUE
           Closes == /\ r = Len(File)
                     /\ output' = output
                     /\ outputOpen' = FALSE
<1>5. ASSUME r < Len(File) PROVE Grows
  <2>1. rdata = <<File[r + 1]>> /\ File[r + 1] \in Chunk
    BY <1>2, <1>5, PayloadType
  <2>2. output \o <<File[r + 1]>> = Append(output, File[r + 1])
    BY <1>4, <2>1
  <2>3. rdata # <<>>
    BY <2>1
  <2>4. outputOpen' = TRUE
    BY <1>1, <1>4, <2>3
  <2>5. output' = Append(output, File[r + 1])
    BY <1>1, <2>1, <2>2
  <2>6. output' = Append(output, File[Len(output) + 1]) /\ File[Len(output) + 1] \in Chunk
    BY <1>4, <2>1, <2>5
  <2> QED
    BY <1>5, <2>4, <2>6
<1>6. ASSUME r = Len(File) PROVE Closes
  <2>1. rdata = <<>>
    BY <1>2, <1>6, PayloadType
  <2>2. output \o <<>> = output
    BY <1>4
  <2>3. output' = output
    BY <1>1, <2>1, <2>2
  <2>4. outputOpen' = FALSE
    BY <1>1, <2>1
  <2> QED
    BY <1>6, <2>3, <2>4
<1>7. r < Len(File) \/ r = Len(File)
  BY <1>2, Constants
<1>8. Grows \/ Closes
  BY <1>5, <1>6, <1>7
<1> QED
  BY <1>1, <1>2, <1>3, <1>4, <1>8

LEMMA WriteOrCloseStep == IInv /\ WriteOrClose => IInv'
<1> SUFFICES ASSUME IInv, WriteOrClose PROVE IInv'
  OBVIOUS
<1> DEFINE r == lastReceivedSeqNo
<1>1. UNCHANGED <<spc, dataBuffer, lastAckSeqNo, nextSendSeqNo, timerExpiration,
                  readfds, writefds, rdata, lastReceivedSeqNo, dataChan, ackChan, faults>>
  BY DEF WriteOrClose, senderVars
<1>2. /\ rpc = "write" /\ rpc' = "recv"
      /\ r \in Nat /\ r <= Len(File)
      /\ Acknowledged' = Acknowledged /\ Written' = r + 1
      /\ Len(output) = r
      /\ \/ /\ r < Len(File)
            /\ output' = Append(output, File[Len(output) + 1])
            /\ File[Len(output) + 1] \in Chunk
            /\ outputOpen' = TRUE
         \/ /\ r = Len(File)
            /\ output' = output
            /\ outputOpen' = FALSE
  BY WriteFacts
<1>3. output \in Seq(Chunk \cup {Garbled}) /\ output' \in Seq(Chunk \cup {Garbled})
  <2>1. output \in Seq(Chunk \cup {Garbled})
    BY DEF IInv, TypeOK
  <2> QED
    BY <1>2, <2>1, SendFacts
<1>4. TypeOK'
  BY <1>1, <1>2, <1>3 DEF IInv, TypeOK
<1>5. BufferInv'
  BY <1>1, <1>2, BusyLoaded DEF IInv, BufferInv, Loaded
<1>6. CounterInv' /\ DataInv' /\ AckInv'
  BY <1>1, <1>2 DEF IInv, CounterInv, DataInv, AckInv
<1>7. ReceiverInv'
  BY <1>2 DEF ReceiverInv
<1>8. OutputInv'
  <2>1. \A i \in 1 .. Len(output) : output[i] = File[i]
    BY DEF IInv, OutputInv
  <2>2. CASE /\ r < Len(File)
             /\ output' = Append(output, File[Len(output) + 1])
             /\ File[Len(output) + 1] \in Chunk
             /\ outputOpen' = TRUE
    <3>1. /\ Len(output') = Len(output) + 1
          /\ \A i \in 1 .. Len(output) : output'[i] = output[i]
          /\ output'[Len(output) + 1] = File[Len(output) + 1]
      BY <1>3, <2>2, SendFacts
    <3>2. \A i \in 1 .. Len(output') : output'[i] = File[i]
      BY <1>2, <2>1, <3>1
    <3> QED
      BY <1>2, <2>2, <3>1, <3>2, Constants DEF OutputInv
  <2>3. CASE r = Len(File) /\ output' = output /\ outputOpen' = FALSE
    BY <1>2, <2>1, <2>3, Constants DEF OutputInv
  <2> QED
    BY <1>2, <2>2, <2>3
<1> QED
  BY <1>4, <1>5, <1>6, <1>7, <1>8 DEF IInv

-------------------------------------------------------------------------------
LEMMA NextIInv == IInv /\ [Next]_vars => IInv'
<1> SUFFICES ASSUME IInv, [Next]_vars PROVE IInv'
  OBVIOUS
<1>1. CASE Sender
  BY <1>1, ReadIntoBufferStep, SelectStep, FinishStep, HandleAckStep, HandleTimeoutStep,
     SendPacketStep, EndSendStep DEF Sender
<1>2. CASE Receiver
  BY <1>2, DiscardStep, AcceptStep, SendAckStep, WriteOrCloseStep DEF Receiver
<1>3. CASE Tick
  BY <1>3, TickStep
<1>4. CASE UNCHANGED vars
  BY <1>4 DEF vars, senderVars, receiverVars, IInv, TypeOK, BufferInv, CounterInv, DataInv,
              AckInv, ReceiverInv, OutputInv, Loaded, Acknowledged, Written
<1> QED
  BY <1>1, <1>2, <1>3, <1>4 DEF Next

\* The inductive invariant of the file transfer holds for every file, window,
\* buffer size and number of faults.
THEOREM Invariance == Spec => []IInv
  BY InitIInv, NextIInv, PTL DEF Spec

\* Type correctness: what the variables of both programs and the sockets can hold.
THEOREM TypeCorrect == Spec => []TypeOK
<1>1. IInv => TypeOK
  BY DEF IInv
<1> QED
  BY <1>1, Invariance, PTL

\* Whatever the network and the clock do, the output file is the beginning of the
\* input file, and is closed exactly when it is complete.
THEOREM InOrderDelivery == Spec => []DeliveredInOrder
<1>1. IInv => DeliveredInOrder
  <2> SUFFICES ASSUME IInv PROVE DeliveredInOrder
    OBVIOUS
  <2>1. /\ Len(output) = IF Written < Len(File) THEN Written ELSE Len(File)
        /\ \A i \in 1 .. Len(output) : output[i] = File[i]
        /\ outputOpen <=> Written <= Len(File)
    BY DEF IInv, OutputInv
  <2>2. output \in Seq(Chunk \cup {Garbled}) /\ Len(output) \in Nat
    BY DEF IInv, TypeOK
  <2>3. Len(output) <= Len(File)
    BY <2>1, Constants DEF IInv, TypeOK, Written
  <2>4. output = SubSeq(File, 1, Len(output))
    BY <2>1, <2>2, <2>3, GoBackNAssumption
  <2> QED
    BY <2>1, <2>4 DEF DeliveredInOrder
<1> QED
  BY <1>1, Invariance, PTL

\* The sender ends only when the receiver has written the whole file; at most the
\* fclose of it is still to come.
THEOREM EndsDelivered == Spec => []DoneMeansDelivered
<1>1. IInv => DoneMeansDelivered
  <2> SUFFICES ASSUME IInv, spc = "done"
               PROVE  output = File /\ (outputOpen => rpc = "write" /\ rdata = <<>>)
    BY DEF DoneMeansDelivered
  <2>1. Acknowledged = Len(File) + 1
    <3>1. /\ dataBuffer.minSeqNo + dataBuffer.count = Len(File) + 1
          /\ dataBuffer.count = 0
          /\ dataBuffer.minSeqNo <= Acknowledged
          /\ lastReceivedSeqNo <= Len(File)
      BY DEF IInv, BufferInv, CounterInv, Loaded
    <3> QED
      BY <3>1, BufferFacts, Constants DEF IInv, TypeOK, Acknowledged
  <2>2. lastReceivedSeqNo = Len(File) /\ rpc # "ack"
    BY <2>1, Constants DEF Acknowledged, IInv, TypeOK, CounterInv
  <2>3. rpc \in {"recv", "write"} /\ Written \in {Len(File), Len(File) + 1}
    BY <2>2 DEF IInv, TypeOK, Written
  <2>4. /\ Len(output) = Len(File)
        /\ \A i \in 1 .. Len(output) : output[i] = File[i]
        /\ outputOpen <=> Written <= Len(File)
    BY <2>3, Constants DEF IInv, OutputInv
  <2>5. output \in Seq(Chunk \cup {Garbled}) /\ File \in Seq(Chunk)
    BY GoBackNAssumption DEF IInv, TypeOK
  <2>6. output = File
    BY <2>4, <2>5
  <2>7. ASSUME outputOpen PROVE rpc = "write" /\ rdata = <<>>
    <3>1. rpc = "write"
      BY <2>2, <2>3, <2>4, <2>7, Constants DEF Written
    <3>2. rdata = PayloadOf(Len(File))
      BY <2>2, <3>1 DEF IInv, ReceiverInv
    <3> QED
      BY <3>1, <3>2, PayloadType, Constants
  <2> QED
    BY <2>6, <2>7
<1> QED
  BY <1>1, Invariance, PTL

\* No packet is released from the sender's buffer before the receiver has
\* acknowledged it.
THEOREM SafeRelease == Spec => []ReleasedWasDelivered
<1>1. IInv => ReleasedWasDelivered
  BY DEF IInv, CounterInv, ReleasedWasDelivered
<1> QED
  BY <1>1, Invariance, PTL

\* After fclose(output) no packet arrives that the receiver would still write.
THEOREM ClosedForGood == Spec => []NoWriteAfterClose
<1>1. IInv => NoWriteAfterClose
  <2> SUFFICES ASSUME IInv, ~ outputOpen
               PROVE  /\ rpc = "recv"
                      /\ \A i \in 1 .. Len(dataChan) :
                            \/ dataChan[i].hasErrors
                            \/ dataChan[i].seqNo # lastReceivedSeqNo + 1
    BY DEF NoWriteAfterClose
  <2>1. ~ (Written <= Len(File)) /\ lastReceivedSeqNo <= Len(File)
    BY DEF IInv, OutputInv, CounterInv
  <2>2. rpc = "recv" /\ lastReceivedSeqNo = Len(File)
    BY <2>1, Constants DEF IInv, TypeOK, Written
  <2>3. ASSUME NEW i \in 1 .. Len(dataChan), ~ dataChan[i].hasErrors
        PROVE  dataChan[i].seqNo # lastReceivedSeqNo + 1
    <3>1. dataChan[i].seqNo <= Len(File)
      BY <2>3 DEF IInv, DataInv
    <3> QED
      BY <2>2, <3>1, Constants
  <2> QED
    BY <2>2, <2>3
<1> QED
  BY <1>1, Invariance, PTL

\* No assert() of DataBuffer.c fires, unless the file has more packets than the
\* buffer has slots.
THEOREM NoAssertFails == Spec => []AssertsHold
<1>1. IInv => AssertsHold
  BY DEF IInv, CounterInv, AssertsHold
<1> QED
  BY <1>1, Invariance, PTL

\* No good packet is a window or more ahead of what the sender still holds.
THEOREM WindowKept == Spec => []WindowRespected
<1>1. IInv => WindowRespected
  BY DEF IInv, CounterInv, DataInv, WindowRespected
<1> QED
  BY <1>1, Invariance, PTL

\* The only packet the sender can fail to find in its buffer is an acknowledged one.
THEOREM NullCause == Spec => []NullOnlyForAcknowledged
<1>1. IInv => NullOnlyForAcknowledged
  BY DEF IInv, CounterInv, NullOnlyForAcknowledged
<1> QED
  BY <1>1, Invariance, PTL

-------------------------------------------------------------------------------
\* The results about steps: a timeout leaves no packet with a timer, and the transfer
\* implements FileCopy.

\* A timeout finds the buffer with a free slot: the timer runs only after an
\* acknowledgement, which has released a packet (GoBackNSender.c:300-311).
LEMMA ExpiredNotFull ==
    ASSUME IInv, spc = "timer", timerExpiration = Expired
    PROVE  dataBuffer.count < MaxCount
<1>1. /\ dataBuffer.minSeqNo \in Nat /\ dataBuffer.count \in Nat
      /\ Len(File) \in Nat /\ MaxCount \in Nat
  BY BufferFacts, Constants
<1>2. /\ dataBuffer.minSeqNo + dataBuffer.count = Len(File) + 1
      /\ Len(File) < MaxCount
  BY DEF IInv, BufferInv, Loaded
<1>3. dataBuffer.minSeqNo > 0
  BY Constants DEF IInv, CounterInv, Acknowledged
<1> QED
  BY <1>1, <1>2, <1>3

LEMMA TimeoutStep ==
    ASSUME IInv, Next, spc = "timer", timerExpiration = Expired, spc' # "timer"
    PROVE  \A s \in dataBuffer'.minSeqNo .. getLastSeqNoOfBuffer(dataBuffer)' :
              getDataPacketFromBuffer(dataBuffer, s)'.timeout = Never
<1>1. HandleTimeout
  BY DEF Next, Sender, Receiver, Tick, ReadIntoBuffer, Select, Finish, HandleAck,
         SendPacket, EndSend, Discard, Accept, SendAck, WriteOrClose, senderVars
<1>2. dataBuffer' = resetTimers(dataBuffer)
  BY <1>1 DEF HandleTimeout
<1>3. RingOK(dataBuffer) /\ dataBuffer.count < MaxCount
  BY BufferFacts, ExpiredNotFull
<1>4. /\ SamePackets(dataBuffer, dataBuffer')
      /\ \A s \in Buffered(dataBuffer) :
            getDataPacketFromBuffer(dataBuffer', s).timeout = Never
  BY <1>2, <1>3, ResetFacts
<1>5. dataBuffer'.minSeqNo .. getLastSeqNoOfBuffer(dataBuffer)' = Buffered(dataBuffer)
  BY <1>4 DEF SamePackets, Buffered, getLastSeqNoOfBuffer
<1> QED
  BY <1>4, <1>5

\* A timeout leaves every packet that is still buffered without a timer.
THEOREM TimeoutResets == Spec => TimeoutResetsAll
<1>1. IInv /\ [Next]_vars =>
         [spc = "timer" /\ timerExpiration = Expired /\ spc' # "timer" =>
             \A s \in dataBuffer'.minSeqNo .. getLastSeqNoOfBuffer(dataBuffer)' :
                getDataPacketFromBuffer(dataBuffer, s)'.timeout = Never]_vars
  BY TimeoutStep
<1> QED
  BY <1>1, Invariance, PTL DEF Spec, TimeoutResetsAll

-------------------------------------------------------------------------------
\* Nothing is copied, released or ended at the start.
LEMMA InitCopies == Init => Copy!CopyInit
  BY AllocateOK DEF Init, Copy!CopyInit

\* A step that the abstract copy does not see.
LEMMA Unseen ==
    ASSUME UNCHANGED <<lastReceivedSeqNo, output, outputOpen>>,
           dataBuffer'.minSeqNo = dataBuffer.minSeqNo,
           (spc # "done" /\ spc' # "done") \/ UNCHANGED spc
    PROVE  UNCHANGED Copy!copyVars
<1>1. (spc = "done")' = (spc = "done")
  OBVIOUS
<1> QED
  BY <1>1 DEF Copy!copyVars

\* A new acknowledgement releases packets that the receiver has; every other one
\* changes nothing of the copy.
LEMMA AckCopies ==
    ASSUME IInv, HandleAck
    PROVE  [Copy!CopyNext]_(Copy!copyVars)
<1>1. spc = "ack" /\ UNCHANGED receiverVars
  BY DEF HandleAck
<1>2. CASE spc' = "timer" /\ UNCHANGED dataBuffer
  BY <1>1, <1>2, Unseen DEF receiverVars
<1>3. CASE readfds /\ AcceptAck(Head(ackChan).seqNoExpected)
  <2> DEFINE e == Head(ackChan).seqNoExpected
  <2>1. ackChan # <<>>
    BY <1>1, <1>3 DEF IInv, CounterInv, Acknowledged
  <2>2. e \in Nat /\ e > dataBuffer.minSeqNo /\ e <= Acknowledged
    BY <2>1, AckReceived
  <2> HIDE DEF e
  <2>3. spc' = "timer" /\ dataBuffer'.minSeqNo = e
    BY <1>1, <1>3, <2>2, AcceptAckFacts DEF e
  <2>4. Acknowledged <= lastReceivedSeqNo + 1 /\ Acknowledged \in Int
    BY DEF IInv, TypeOK, Acknowledged
  <2>5. dataBuffer'.minSeqNo \in dataBuffer.minSeqNo + 1 .. lastReceivedSeqNo + 1
    BY <2>2, <2>3, <2>4, BufferFacts DEF IInv, TypeOK
  <2>6. (spc = "done")' = (spc = "done")
    BY <1>1, <2>3
  <2> QED
    BY <1>1, <2>5, <2>6 DEF receiverVars, Copy!CopyNext, Copy!Release
<1> QED
  BY <1>2, <1>3 DEF HandleAck

\* The sender ends when everything is released.
LEMMA FinishCopies ==
    ASSUME IInv, Finish
    PROVE  Copy!End
<1>1. /\ spc = "select" /\ spc' = "done" /\ dataBuffer.count = 0
      /\ UNCHANGED <<dataBuffer, receiverVars>>
  BY DEF Finish, getBufferSize
<1>2. dataBuffer.minSeqNo = Len(File) + 1
  BY <1>1, BufferFacts DEF IInv, BufferInv, Loaded
<1> QED
  BY <1>1, <1>2 DEF Copy!End, receiverVars

\* The steps that keep the packets of the buffer, and with them what is released.
LEMMA SenderUnseen ==
    ASSUME IInv, ReadIntoBuffer \/ Select \/ HandleTimeout \/ SendPacket \/ EndSend \/ Tick
    PROVE  UNCHANGED Copy!copyVars
<1>1. CASE ReadIntoBuffer
  <2> DEFINE p == [seqNo   |-> dataBuffer.count,
                   payload |-> PayloadOf(dataBuffer.count),
                   timeout |-> Unset]
  <2>1. spc = "read" /\ spc' \in {"read", "select", "abort"} /\ UNCHANGED receiverVars
    BY <1>1 DEF ReadIntoBuffer
  <2>2. dataBuffer' = dataBuffer \/ dataBuffer' = putDataPacketIntoBuffer(dataBuffer, p)
    BY <1>1 DEF ReadIntoBuffer
  <2> HIDE DEF p
  <2>3. putDataPacketIntoBuffer(dataBuffer, p).minSeqNo = dataBuffer.minSeqNo
    BY DEF putDataPacketIntoBuffer, IInv, TypeOK, Buffer
  <2> QED
    BY <2>1, <2>2, <2>3, Unseen DEF receiverVars
<1>2. CASE Select \/ EndSend
  <2>1. /\ spc # "done" /\ spc' # "done"
        /\ UNCHANGED <<dataBuffer, receiverVars>>
    BY <1>2 DEF Select, EndSend
  <2> QED
    BY <2>1, Unseen DEF receiverVars
<1>3. CASE HandleTimeout
  <2>1. /\ spc # "done" /\ spc' # "done" /\ UNCHANGED receiverVars
        /\ dataBuffer' = resetTimers(dataBuffer) \/ UNCHANGED dataBuffer
    BY <1>3 DEF HandleTimeout
  <2>2. resetTimers(dataBuffer).minSeqNo = dataBuffer.minSeqNo
    BY BufferFacts, ResetFacts DEF SamePackets
  <2> QED
    BY <2>1, <2>2, Unseen DEF receiverVars
<1>4. CASE SendPacket
  <2>1. /\ spc # "done" /\ spc' # "done" /\ UNCHANGED receiverVars
        /\ dataBuffer' = SetTimeout(dataBuffer, nextSendSeqNo, TimeoutTicks)
           \/ UNCHANGED dataBuffer
    BY <1>4 DEF SendPacket
  <2>2. SetTimeout(dataBuffer, nextSendSeqNo, TimeoutTicks).minSeqNo = dataBuffer.minSeqNo
    BY DEF SetTimeout, IInv, TypeOK, Buffer
  <2> QED
    BY <2>1, <2>2, Unseen DEF receiverVars
<1>5. CASE Tick
  <2>1. UNCHANGED <<spc, receiverVars>> /\ dataBuffer' = AgeTimeouts(dataBuffer)
    BY <1>5 DEF Tick
  <2>2. dataBuffer'.minSeqNo = dataBuffer.minSeqNo
    BY <2>1, BufferFacts, AgeFacts DEF SamePackets
  <2> QED
    BY <2>1, <2>2, Unseen DEF receiverVars
<1> QED
  BY <1>1, <1>2, <1>3, <1>4, <1>5

\* What is stored in the abstract copy is what the receiver has written.
LEMMA StoredIsWritten == IInv => Copy!Stored = Written
<1> SUFFICES ASSUME IInv PROVE Copy!Stored = Written
  OBVIOUS
<1>1. /\ Len(output) = IF Written < Len(File) THEN Written ELSE Len(File)
      /\ outputOpen <=> Written <= Len(File)
      /\ lastReceivedSeqNo <= Len(File)
      /\ lastReceivedSeqNo \in Nat \cup {-1} /\ outputOpen \in BOOLEAN
  BY DEF IInv, OutputInv, CounterInv, TypeOK
<1>2. Written \in Int /\ Written <= Len(File) + 1 /\ Len(File) \in Nat
  BY <1>1, Constants DEF Written
<1>3. CASE outputOpen
  BY <1>1, <1>2, <1>3 DEF Copy!Stored
<1>4. CASE ~ outputOpen
  BY <1>1, <1>2, <1>4 DEF Copy!Stored
<1> QED
  BY <1>3, <1>4

\* Counting a packet receives it.
LEMMA AcceptCopies ==
    ASSUME IInv, Accept
    PROVE  Copy!Receive
<1>1. UNCHANGED <<spc, dataBuffer, output, outputOpen>> /\ (spc = "done")' = (spc = "done")
  BY DEF Accept, senderVars
<1>2. /\ rpc = "recv"
      /\ lastReceivedSeqNo' = lastReceivedSeqNo + 1
      /\ lastReceivedSeqNo' <= Len(File)
  BY AcceptFacts
<1>3. Copy!Stored = lastReceivedSeqNo + 1
  BY <1>2, StoredIsWritten DEF Written
<1> QED
  BY <1>1, <1>2, <1>3 DEF Copy!Receive

\* The receiver writes the next chunk, or closes the complete output.
LEMMA WriteCopies ==
    ASSUME IInv, WriteOrClose
    PROVE  Copy!Write \/ Copy!Close
<1>1. /\ UNCHANGED <<spc, dataBuffer, lastReceivedSeqNo>>
      /\ (spc = "done")' = (spc = "done")
  BY DEF WriteOrClose, senderVars
<1>2. /\ Written = lastReceivedSeqNo
      /\ lastReceivedSeqNo \in Nat /\ lastReceivedSeqNo <= Len(File)
      /\ outputOpen = TRUE
      /\ Len(output) = lastReceivedSeqNo
      /\ \/ /\ lastReceivedSeqNo < Len(File)
            /\ output' = Append(output, File[Len(output) + 1])
            /\ File[Len(output) + 1] \in Chunk
            /\ outputOpen' = TRUE
         \/ /\ lastReceivedSeqNo = Len(File)
            /\ output' = output
            /\ outputOpen' = FALSE
  BY WriteFacts
<1>3. Copy!Stored < lastReceivedSeqNo + 1
  BY <1>2, StoredIsWritten
<1>4. CASE lastReceivedSeqNo < Len(File)
  <2>1. /\ Len(output) < Len(File) /\ outputOpen' = TRUE
        /\ output' = Append(output, File[Len(output) + 1])
    BY <1>2, <1>4, Constants
  <2>2. UNCHANGED <<lastReceivedSeqNo + 1, outputOpen, dataBuffer.minSeqNo, spc = "done">>
    BY <1>1, <1>2, <2>1
  <2> QED
    BY <1>3, <2>1, <2>2 DEF Copy!Write
<1>5. CASE lastReceivedSeqNo = Len(File)
  <2>1. output = File
    <3>1. output \in Seq(Chunk \cup {Garbled}) /\ File \in Seq(Chunk)
      BY GoBackNAssumption DEF IInv, TypeOK
    <3>2. Len(output) = Len(File) /\ \A i \in 1 .. Len(output) : output[i] = File[i]
      BY <1>2, <1>5 DEF IInv, OutputInv
    <3> QED
      BY <3>1, <3>2
  <2>2. output' = output /\ outputOpen' = FALSE
    BY <1>2, <1>5, Constants
  <2>3. UNCHANGED <<lastReceivedSeqNo + 1, output, dataBuffer.minSeqNo, spc = "done">>
    BY <1>1, <2>2
  <2> QED
    BY <1>2, <1>3, <2>1, <2>2, <2>3 DEF Copy!Close
<1> QED
  BY <1>2, <1>4, <1>5, Constants

LEMMA NextCopies == IInv /\ [Next]_vars => [Copy!CopyNext]_(Copy!copyVars)
<1> SUFFICES ASSUME IInv, [Next]_vars PROVE [Copy!CopyNext]_(Copy!copyVars)
  OBVIOUS
<1>1. CASE ReadIntoBuffer \/ Select \/ HandleTimeout \/ SendPacket \/ EndSend \/ Tick
  BY <1>1, SenderUnseen
<1>2. CASE Finish
  BY <1>2, FinishCopies DEF Copy!CopyNext
<1>3. CASE HandleAck
  BY <1>3, AckCopies
<1>4. CASE Accept
  BY <1>4, AcceptCopies DEF Copy!CopyNext
<1>5. CASE Discard \/ SendAck
  <2>1. UNCHANGED <<senderVars, lastReceivedSeqNo, output, outputOpen>>
    BY <1>5 DEF Discard, SendAck, receiverVars
  <2> QED
    BY <2>1, Unseen DEF senderVars
<1>6. CASE UNCHANGED vars
  BY <1>6, Unseen DEF vars, senderVars, receiverVars
<1>7. CASE WriteOrClose
  BY <1>7, WriteCopies DEF Copy!CopyNext
<1> QED
  BY <1>1, <1>2, <1>3, <1>4, <1>5, <1>6, <1>7 DEF Next, Sender, Receiver


\* The two programs implement FileCopy, whatever the network and the clock do.
THEOREM Implements == Spec => CopiesFile
  BY InitCopies, NextCopies, Invariance, PTL DEF Spec, CopiesFile, Copy!CopySpec
===============================================================================
