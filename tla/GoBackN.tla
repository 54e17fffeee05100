-------------------------------- MODULE GoBackN --------------------------------
(***************************************************************************)
(* The go-back-N file transfer of GoBackN/src.task: GoBackNSender.c reads  *)
(* a file into its DataBuffer and sends it, GoBackNReceiver.c writes what  *)
(* arrives in order and acknowledges it.  The two processes talk through   *)
(* the protsim simulator, which keeps the order of messages but may drop   *)
(* one in a full InterfaceQueue or damage it on the link (then             *)
(* ErrorControlProxy sets hasErrors).                                      *)
(*                                                                         *)
(* One pass through the sender's main loop is four steps: Select,          *)
(* HandleAck, HandleTimeout, and the send loop, one SendPacket a packet.   *)
(* The receiver takes three for a packet that it accepts: it counts it,    *)
(* acknowledges it, and only then writes it (or closes the file), so the   *)
(* sender can act on an acknowledgement, and even end, before the receiver *)
(* has written what was acknowledged.  The clock and the network           *)
(* interleave with every step.                                             *)
(***************************************************************************)
EXTENDS DataBuffer

CONSTANTS Chunk,       \* the blocks that fread can return
          File,        \* the file to send, as its sequence of chunks (fread blocks)
          Garbled,     \* a chunk with a damaged byte
          Window,      \* --window
          DataCap,     \* messages that fit between sender and receiver
          AckCap,      \* messages that fit between receiver and sender
          MaxFaults    \* how many messages the network loses or damages

ASSUME GoBackNAssumption ==
    /\ File \in Seq(Chunk) /\ Garbled \notin Chunk
    /\ Payload = {<<>>} \cup {<<c>> : c \in Chunk}
    /\ Window \in Nat \ {0}
    /\ DataCap \in Nat \ {0} /\ AckCap \in Nat \ {0}
    /\ MaxFaults \in Nat

VARIABLES
  \* sender
  spc,                \* where the sender is in main()
  dataBuffer,
  lastAckSeqNo,
  nextSendSeqNo,
  timerExpiration,
  readfds, writefds,  \* is the socket in the set that select() returned?
  \* receiver
  rpc,                \* where the receiver is in main()
  rdata,              \* the payload of the packet it accepted last
  lastReceivedSeqNo,
  output,             \* chunks written to the output file (stdio may still buffer them)
  outputOpen,         \* fclose(output) not called yet
  \* network
  dataChan, ackChan,  \* messages in flight and in the sockets, oldest first
  faults

senderVars   == <<spc, dataBuffer, lastAckSeqNo, nextSendSeqNo, timerExpiration,
                  readfds, writefds>>
receiverVars == <<rpc, rdata, lastReceivedSeqNo, output, outputOpen>>
vars         == <<senderVars, receiverVars, dataChan, ackChan, faults>>

-------------------------------------------------------------------------------
(* The file in packets: one for each chunk, then an empty one that ends it. *)

veryLastSeqNo == Len(File)

PayloadOf(seqNo) == IF seqNo < Len(File) THEN <<File[seqNo + 1]>> ELSE <<>>

(* Messages: the fields of GoBackNMessageStruct that either side reads. *)

DataMsg(p) == [seqNo |-> p.seqNo, payload |-> p.payload, hasErrors |-> FALSE]

\* Mutant: the acknowledgement is one ahead.
AckMsgAhead(expected)  == [seqNoExpected |-> expected + 1, hasErrors |-> FALSE]

AckMsg(expected) == [seqNoExpected |-> expected, hasErrors |-> FALSE]

\* x ^ 0xff for x >= 0.
FlipLowByte(x) == x - (x % 256) + (255 - (x % 256))

\* A link error damages the payload, or the sequence number of a packet
\* without payload; of an acknowledgement it only sets the flag.
DamagedData(m) ==
    IF m.payload # <<>>
    THEN [m EXCEPT !.payload = <<Garbled>>, !.hasErrors = TRUE]
    ELSE [m EXCEPT !.seqNo = FlipLowByte(@), !.hasErrors = TRUE]

DamagedAck(m) == [m EXCEPT !.hasErrors = TRUE]

\* The network takes m: it will arrive, or it is damaged (to damaged), or it
\* is dropped.  What happens to m is settled here, when it enters the network.
Transmit(chan, newChan, m, damaged) ==
    \/ /\ newChan = Append(chan, m)
       /\ UNCHANGED faults
    \/ /\ faults < MaxFaults
       /\ newChan = Append(chan, damaged)
       /\ faults' = faults + 1
    \/ /\ faults < MaxFaults
       /\ newChan = chan
       /\ faults' = faults + 1

-------------------------------------------------------------------------------
(* Sender *)

\* readFileIntoBuffer: one more packet; the empty one is the last.
ReadIntoBuffer ==
    LET p == [seqNo   |-> dataBuffer.count,
              payload |-> PayloadOf(dataBuffer.count),
              timeout |-> Unset]
    IN /\ spc = "read"
       /\ IF putAsserts(dataBuffer, p)
          THEN /\ dataBuffer' = putDataPacketIntoBuffer(dataBuffer, p)
               /\ spc' = IF p.payload = <<>> THEN "select" ELSE "read"
          ELSE /\ spc' = "abort"
               /\ UNCHANGED dataBuffer
       /\ UNCHANGED <<lastAckSeqNo, nextSendSeqNo, timerExpiration, readfds, writefds,
                      receiverVars, dataChan, ackChan, faults>>

\* The sender asks select() for writability only while it has something to send.
WantsToSend ==
    /\ nextSendSeqNo <= veryLastSeqNo
    /\ nextSendSeqNo <= getLastSeqNoOfBuffer(dataBuffer)
    /\ nextSendSeqNo < lastAckSeqNo + Window

\* The loop condition, and select(): it returns when the socket can be read,
\* can be written and that was asked for, or when timerExpiration is reached.
Select ==
    /\ spc = "select"
    /\ getBufferSize(dataBuffer) > 0
    /\ readfds' = (ackChan # <<>>)
    /\ writefds' = (WantsToSend /\ Len(dataChan) < DataCap)
    /\ readfds' \/ writefds' \/ timerExpiration = Expired
    /\ spc' = "ack"
    /\ UNCHANGED <<dataBuffer, lastAckSeqNo, nextSendSeqNo, timerExpiration,
                   receiverVars, dataChan, ackChan, faults>>

\* Mutant: the main loop ends when everything was sent once.
FinishWhenSent ==
    /\ spc = "select"
    /\ nextSendSeqNo > veryLastSeqNo
    /\ spc' = "done"
    /\ UNCHANGED <<dataBuffer, lastAckSeqNo, nextSendSeqNo, timerExpiration, readfds,
                   writefds, receiverVars, dataChan, ackChan, faults>>

\* The main loop ends: close(s), deallocateDataBuffer (of an empty buffer).
Finish ==
    /\ spc = "select"
    /\ getBufferSize(dataBuffer) = 0
    /\ spc' = "done"
    /\ UNCHANGED <<dataBuffer, lastAckSeqNo, nextSendSeqNo, timerExpiration, readfds,
                   writefds, receiverVars, dataChan, ackChan, faults>>

\* What timerExpiration can become when it is copied from a timeout field; one
\* that was never written holds whatever malloc() returned.
CopiedTimeout(t) == IF t = Unset THEN Expired .. Never ELSE {t}

\* A good acknowledgement that is new: release what it covers, then let the
\* timer follow the oldest packet that is left.
AcceptAck(expected) ==
    LET first == getFirstSeqNoOfBuffer(dataBuffer)
        freed == freeBuffer(dataBuffer, first, expected - 1)
    IN  IF ~ freeAsserts(dataBuffer, first, expected - 1)
        THEN /\ spc' = "abort"
             /\ UNCHANGED <<dataBuffer, lastAckSeqNo, timerExpiration>>
        ELSE /\ dataBuffer' = freed
             /\ lastAckSeqNo' = expected - 1
             /\ IF getBufferSize(freed) > 0
                THEN IF getDataPacketFromBuffer(freed, expected) = NoPacket
                     THEN spc' = "segfault" /\ UNCHANGED timerExpiration
                     ELSE /\ spc' = "timer"
                          /\ timerExpiration' \in
                                CopiedTimeout(getDataPacketFromBuffer(freed, expected).timeout)
                ELSE spc' = "timer" /\ timerExpiration' = Never

HandleAck ==
    /\ spc = "ack"
    /\ IF readfds
       THEN LET ack == Head(ackChan)
            IN  /\ ackChan' = Tail(ackChan)
                /\ IF ~ ack.hasErrors /\ ack.seqNoExpected > lastAckSeqNo
                   THEN AcceptAck(ack.seqNoExpected)
                   ELSE /\ spc' = "timer"
                        /\ UNCHANGED <<dataBuffer, lastAckSeqNo, timerExpiration>>
       ELSE /\ spc' = "timer"
            /\ UNCHANGED <<dataBuffer, lastAckSeqNo, timerExpiration, ackChan>>
    /\ UNCHANGED <<nextSendSeqNo, readfds, writefds, receiverVars, dataChan, faults>>

HandleTimeout ==
    /\ spc = "timer"
    /\ spc' = IF writefds THEN "send" ELSE "select"
    /\ IF timerExpiration = Expired
       THEN /\ nextSendSeqNo' = lastAckSeqNo + 1
            /\ timerExpiration' = Never
            /\ dataBuffer' = resetTimers(dataBuffer)
       ELSE UNCHANGED <<nextSendSeqNo, timerExpiration, dataBuffer>>
    /\ UNCHANGED <<lastAckSeqNo, readfds, writefds, receiverVars, dataChan, ackChan, faults>>

\* Mutants: one packet more than the window; no end of the file.
MaySendOneMore == nextSendSeqNo - lastAckSeqNo <= Window /\ nextSendSeqNo <= veryLastSeqNo
MaySendPastEnd == nextSendSeqNo - lastAckSeqNo < Window

MaySend == nextSendSeqNo - lastAckSeqNo < Window /\ nextSendSeqNo <= veryLastSeqNo

\* One round of the send loop.  A packet that is not in the buffer is a NULL
\* pointer that the argument of send() dereferences.
SendPacket ==
    LET data == getDataPacketFromBuffer(dataBuffer, nextSendSeqNo)
    IN  /\ spc = "send"
        /\ MaySend
        /\ \/ /\ data = NoPacket
              /\ spc' = "segfault"
              /\ UNCHANGED <<dataBuffer, nextSendSeqNo, timerExpiration, dataChan, faults>>
           \/ /\ data # NoPacket
              /\ Len(dataChan) < DataCap
              /\ Transmit(dataChan, dataChan', DataMsg(data), DamagedData(DataMsg(data)))
              /\ nextSendSeqNo' = nextSendSeqNo + 1
              /\ dataBuffer' = SetTimeout(dataBuffer, nextSendSeqNo, TimeoutTicks)
              /\ timerExpiration' = IF timerExpiration = Expired THEN TimeoutTicks
                                    ELSE timerExpiration
              /\ UNCHANGED spc
        /\ UNCHANGED <<lastAckSeqNo, readfds, writefds, receiverVars, ackChan>>

\* The send loop ends, or breaks because send() says EAGAIN.
EndSend ==
    /\ spc = "send"
    /\ \/ ~ MaySend
       \/ /\ getDataPacketFromBuffer(dataBuffer, nextSendSeqNo) # NoPacket
          /\ Len(dataChan) >= DataCap
    /\ spc' = "select"
    /\ UNCHANGED <<dataBuffer, lastAckSeqNo, nextSendSeqNo, timerExpiration, readfds,
                   writefds, receiverVars, dataChan, ackChan, faults>>

\* gettimeofday() moves on.
Tick ==
    /\ spc \notin {"done", "abort", "segfault"}
    /\ AgeTimeouts(dataBuffer) # dataBuffer \/ Closer(timerExpiration) # timerExpiration
    /\ dataBuffer' = AgeTimeouts(dataBuffer)
    /\ timerExpiration' = Closer(timerExpiration)
    /\ UNCHANGED <<spc, lastAckSeqNo, nextSendSeqNo, readfds, writefds, receiverVars,
                   dataChan, ackChan, faults>>

-------------------------------------------------------------------------------
(* Receiver *)

\* Mutants: hasErrors is not looked at; a gap is accepted.
ExpectedUnchecked(m) == m.seqNo = lastReceivedSeqNo + 1
ExpectedNewer(m)     == ~ m.hasErrors /\ m.seqNo > lastReceivedSeqNo

Expected(m) == ~ m.hasErrors /\ m.seqNo = lastReceivedSeqNo + 1

\* Mutant: a packet that is too old is acknowledged again.
DiscardAndAck ==
    /\ rpc = "recv"
    /\ dataChan # <<>>
    /\ ~ Expected(Head(dataChan))
    /\ Len(ackChan) < AckCap
    /\ dataChan' = Tail(dataChan)
    /\ ackChan' = IF Head(dataChan).hasErrors THEN ackChan
                  ELSE Append(ackChan, AckMsg(lastReceivedSeqNo + 1))
    /\ UNCHANGED <<senderVars, receiverVars, faults>>

\* A damaged packet, and one that is too old or too new.
Discard ==
    /\ rpc = "recv"
    /\ dataChan # <<>>
    /\ ~ Expected(Head(dataChan))
    /\ dataChan' = Tail(dataChan)
    /\ UNCHANGED <<senderVars, receiverVars, ackChan, faults>>

\* Mutant: only a packet with data is counted.
AcceptUncounted ==
    /\ rpc = "recv"
    /\ dataChan # <<>>
    /\ Expected(Head(dataChan))
    /\ dataChan' = Tail(dataChan)
    /\ lastReceivedSeqNo' = IF Head(dataChan).payload # <<>> THEN Head(dataChan).seqNo
                            ELSE lastReceivedSeqNo
    /\ rdata' = Head(dataChan).payload
    /\ rpc' = "ack"
    /\ UNCHANGED <<senderVars, output, outputOpen, ackChan, faults>>

\* The expected packet is counted.
Accept ==
    /\ rpc = "recv"
    /\ dataChan # <<>>
    /\ Expected(Head(dataChan))
    /\ dataChan' = Tail(dataChan)
    /\ lastReceivedSeqNo' = Head(dataChan).seqNo
    /\ rdata' = Head(dataChan).payload
    /\ rpc' = "ack"
    /\ UNCHANGED <<senderVars, output, outputOpen, ackChan, faults>>

\* sendAck, which blocks until the socket has room.
SendAck ==
    /\ rpc = "ack"
    /\ Len(ackChan) < AckCap
    /\ LET ack == AckMsg(lastReceivedSeqNo + 1)
       IN  Transmit(ackChan, ackChan', ack, DamagedAck(ack))
    /\ rpc' = "write"
    /\ UNCHANGED <<senderVars, rdata, lastReceivedSeqNo, output, outputOpen, dataChan>>

\* writeBuffer, and fclose after the empty packet.  One step stands for both: of an
\* empty packet writeBuffer writes nothing.
WriteOrClose ==
    /\ rpc = "write"
    /\ output' = output \o rdata
    /\ outputOpen' = (outputOpen /\ rdata # <<>>)
    /\ rpc' = "recv"
    /\ UNCHANGED <<senderVars, rdata, lastReceivedSeqNo, dataChan, ackChan, faults>>

-------------------------------------------------------------------------------
Init ==
    /\ spc = "read"
    /\ dataBuffer = allocateDataBuffer
    /\ lastAckSeqNo = 0
    /\ nextSendSeqNo = 0
    /\ timerExpiration = Never
    /\ readfds = FALSE /\ writefds = FALSE
    /\ rpc = "recv" /\ rdata = <<>>
    /\ lastReceivedSeqNo = -1
    /\ output = <<>>
    /\ outputOpen = TRUE
    /\ dataChan = <<>> /\ ackChan = <<>>
    /\ faults = 0

Sender   == ReadIntoBuffer \/ Select \/ Finish \/ HandleAck \/ HandleTimeout
            \/ SendPacket \/ EndSend
Receiver == Discard \/ Accept \/ SendAck \/ WriteOrClose

Next == Sender \/ Receiver \/ Tick

Spec == Init /\ [][Next]_vars

\* Each process keeps running while it can: the sender's select() returns when
\* one of its conditions holds, the receiver's recv() when there is a message and
\* its send() when there is room, and the clock moves.
FairSpec == Spec /\ WF_vars(Sender) /\ WF_vars(Receiver) /\ WF_vars(Tick)

-------------------------------------------------------------------------------
(* Properties *)

Message == [seqNo : Nat, payload : Payload \cup {<<Garbled>>}, hasErrors : BOOLEAN]
Ack     == [seqNoExpected : Nat, hasErrors : BOOLEAN]

\* The type invariant: what the globals of the two processes and the sockets hold.
TypeOK ==
    /\ spc \in {"read", "select", "ack", "timer", "send", "done", "abort", "segfault"}
    /\ dataBuffer \in Buffer
    /\ lastAckSeqNo \in Nat /\ nextSendSeqNo \in Nat
    /\ timerExpiration \in Expired .. Never
    /\ readfds \in BOOLEAN /\ writefds \in BOOLEAN
    /\ rpc \in {"recv", "ack", "write"}
    /\ rdata \in Payload \cup {<<Garbled>>}
    /\ lastReceivedSeqNo \in Nat \cup {-1}
    /\ output \in Seq(Chunk \cup {Garbled})
    /\ outputOpen \in BOOLEAN
    /\ dataChan \in Seq(Message) /\ ackChan \in Seq(Ack)
    /\ faults \in 0 .. MaxFaults

\* How many packets the receiver has acknowledged, and how many it has written (the
\* ending one by closing the file).
Acknowledged == IF rpc = "ack" THEN lastReceivedSeqNo ELSE lastReceivedSeqNo + 1
Written      == IF rpc = "recv" THEN lastReceivedSeqNo + 1 ELSE lastReceivedSeqNo

\* Whatever is lost, damaged or resent, the output file is always the beginning
\* of the input file, one chunk for each packet that was counted and written, and it
\* is closed exactly when the ending packet was dealt with
\* (GoBackNReceiver.c:205-228).
DeliveredInOrder ==
    /\ output = SubSeq(File, 1, Len(output))
    /\ Len(output) = IF Written < Len(File) THEN Written ELSE Len(File)
    /\ outputOpen <=> Written <= Len(File)

\* The receiver goes on reading after fclose(output) (GoBackNReceiver.c:225-228),
\* but it handles no packet any more that it would write to the closed file, and none
\* can arrive.
NoWriteAfterClose ==
    ~ outputOpen => /\ rpc = "recv"
                    /\ \A i \in 1 .. Len(dataChan) :
                          \/ dataChan[i].hasErrors
                          \/ dataChan[i].seqNo # lastReceivedSeqNo + 1

\* A packet leaves the sender's buffer only after the receiver has acknowledged it
\* (freeBuffer at GoBackNSender.c:300), although acknowledgements get lost.
ReleasedWasDelivered == dataBuffer.minSeqNo <= Acknowledged

\* The sender's main loop ends (GoBackNSender.c:205) only when the receiver has
\* written the whole file.  It need not have closed it yet: the acknowledgement of the
\* ending packet is sent first (GoBackNReceiver.c:218, 227).
DoneMeansDelivered ==
    spc = "done" => /\ output = File
                    /\ outputOpen => rpc = "write" /\ rdata = <<>>

\* The assert()s of DataBuffer.c never fire, except for a file with more packets
\* than the buffer has slots: acknowledgements reach freeBuffer in strictly
\* increasing order and never beyond the last packet.
AssertsHold == spc = "abort" => Len(File) >= MaxCount

\* No good packet in flight is a window or more ahead of the first one the sender
\* still holds, and so ahead of what the receiver waits for
\* (GoBackNSender.c:215 and 373, before and after acknowledgements and timeouts).
WindowRespected ==
    /\ nextSendSeqNo <= lastAckSeqNo + Window
    /\ \A i \in 1 .. Len(dataChan) :
          ~ dataChan[i].hasErrors =>
             dataChan[i].seqNo < dataBuffer.minSeqNo + Window

\* The packet that send() would be called with is in the buffer, or it was
\* acknowledged before: the sender never runs past the end of the buffer, and
\* never takes its timer from a packet that is not there.
NullOnlyForAcknowledged == spc = "segfault" => nextSendSeqNo < dataBuffer.minSeqNo

\* A timeout leaves every packet that is still buffered without a timeout of its
\* own, also when the buffer is full and firstIndex meets freeIndex
\* (DataBuffer.c:93-98): a full buffer cannot time out, for the timer runs only
\* after an acknowledgement.
TimeoutResetsAll ==
    [][spc = "timer" /\ timerExpiration = Expired /\ spc' # "timer" =>
          \A s \in dataBuffer'.minSeqNo .. getLastSeqNoOfBuffer(dataBuffer)' :
             getDataPacketFromBuffer(dataBuffer, s)'.timeout = Never]_vars

Copy == INSTANCE FileCopy WITH received <- lastReceivedSeqNo + 1,
                               open     <- outputOpen,
                               released <- dataBuffer.minSeqNo,
                               finished <- (spc = "done")

\* The two programs implement FileCopy: under every loss, damage, delay and timeout
\* the pair only ever copies the file in order, and the sender ends after the last
\* chunk is written.
CopiesFile == Copy!CopySpec

\* When nothing is lost or damaged, no interleaving of late acknowledgements,
\* timeouts and resends makes the sender wait forever (GoBackNSender.c:205-423), and
\* the receiver closes the file.
NeverStuckFaultless ==
    <>((spc = "done" /\ ~ outputOpen) \/ spc = "segfault" \/ faults > 0)

-------------------------------------------------------------------------------
(* The inductive invariant behind the properties above. *)

Loaded == spc \notin {"read", "abort"}

\* The buffer holds the packets of the file that are not acknowledged; before the
\* file is read nothing else has happened.
BufferInv ==
    /\ RingOK(dataBuffer)
    /\ \A s \in Buffered(dataBuffer) :
          getDataPacketFromBuffer(dataBuffer, s).payload = PayloadOf(s)
    /\ Loaded => /\ dataBuffer.minSeqNo + dataBuffer.count = Len(File) + 1
                 /\ Len(File) < MaxCount
    /\ ~ Loaded => /\ dataBuffer.minSeqNo = 0 /\ dataBuffer.count <= Len(File)
                   /\ nextSendSeqNo = 0
                   /\ rpc = "recv" /\ lastReceivedSeqNo = -1
                   /\ dataChan = <<>> /\ ackChan = <<>>

\* How the counters of the two sides hang together, and with the sender's place.
CounterInv ==
    /\ lastAckSeqNo = IF dataBuffer.minSeqNo = 0 THEN 0 ELSE dataBuffer.minSeqNo - 1
    /\ dataBuffer.minSeqNo <= Acknowledged
    /\ lastReceivedSeqNo <= Len(File)
    /\ nextSendSeqNo <= lastAckSeqNo + Window
    /\ timerExpiration # Never => dataBuffer.minSeqNo > 0
    /\ spc = "abort" => Len(File) >= MaxCount
    /\ spc = "ack" /\ readfds => ackChan # <<>>
    /\ spc = "done" => dataBuffer.count = 0
    /\ spc = "segfault" => nextSendSeqNo < dataBuffer.minSeqNo

\* A good packet in flight is one of the file, within the window.
DataInv ==
    \A i \in 1 .. Len(dataChan) : ~ dataChan[i].hasErrors =>
        /\ dataChan[i].seqNo <= Len(File)
        /\ dataChan[i].seqNo < dataBuffer.minSeqNo + Window
        /\ dataChan[i].payload = PayloadOf(dataChan[i].seqNo)

\* Acknowledgements in flight are all new to the sender, and in increasing order.
AckInv ==
    /\ \A i \in 1 .. Len(ackChan) :
          /\ ackChan[i].seqNoExpected > dataBuffer.minSeqNo
          /\ ackChan[i].seqNoExpected <= Acknowledged
    /\ \A i, j \in 1 .. Len(ackChan) :
          i < j => ackChan[i].seqNoExpected < ackChan[j].seqNoExpected

\* What the receiver has in hand is the packet it counted last.
ReceiverInv ==
    rpc # "recv" => /\ lastReceivedSeqNo >= 0
                    /\ rdata = PayloadOf(lastReceivedSeqNo)

OutputInv ==
    /\ Len(output) = IF Written < Len(File) THEN Written ELSE Len(File)
    /\ \A i \in 1 .. Len(output) : output[i] = File[i]
    /\ outputOpen <=> Written <= Len(File)

\* The inductive invariant of the transfer: buffer, counters, packets and
\* acknowledgements in flight, what the receiver has in hand, and output fit together.
IInv == TypeOK /\ BufferInv /\ CounterInv /\ DataInv /\ AckInv /\ ReceiverInv /\ OutputInv

-------------------------------------------------------------------------------
(* What the comments say and the code does not do. *)

\* GoBackNSender.c:367-368: "we also need to take care not to try and send more
\* packets than are actually in the buffer!! (otherwise = SEGFAULT)".
NoSegfault == spc # "segfault"

\* GoBackNSender.c:341-343: "Make sure that all unacknowledged packets will be resent":
\* whatever is lost, the transfer comes to an end.
NeverStuck == <>(spc \in {"done", "segfault"})
===============================================================================
