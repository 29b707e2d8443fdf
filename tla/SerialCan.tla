----------------------------- MODULE SerialCan -----------------------------
(* The serial link of QtCanAnalyzer: a device writes framed packets to the   *)
(* port, SerialCan::readData collects bytes in mRecvData and calPacket cuts  *)
(* frames off its front.  Bytes are numbers 0..255; arithmetic on them is    *)
(* the code's, signed chars and the int16_t length included.                 *)
EXTENDS Naturals, Integers, Sequences, SequencesExt

CONSTANTS XorOf(_, _),     \* the operator ^ of two bytes
          DeviceFrames,  \* frames the far end sends: [cmd, id, payload]
          MaxSent,       \* bound on the frames sent
          MaxLosses,     \* bound on the stretches of bytes lost
          MaxClears,     \* bound on the presses of Clear
          MaxOpens       \* bound on the successful openings of the port

VARIABLES portOpen,     \* QSerialPort::isOpen()
          connections,  \* readyRead -> readData connections made so far
          mRecvData,    \* bytes received and not yet cut into frames
          toSend,       \* frames whose packets are not on the wire in full
          offset,       \* bytes of the first of them that left already
          nSent,        \* frames sent so far
          delivered,    \* history: frames emitted by recvCanFrame
          losses,       \* history: stretches of bytes lost
          clears,       \* history: presses of Clear
          hung          \* readData never returns

vars == <<portOpen, connections, mRecvData, toSend, offset, nSent, delivered,
          losses, clears, hung>>

P_SOF == 240
P_EOF == 254
P_MIN_SIZE == 5
CAN == 0
CMD == [SEND_CAN1 |-> 0, SEND_CAN2 |-> 1, RECV_CAN1 |-> 2, RECV_CAN2 |-> 3]

Byte == 0 .. 255

(* A CAN frame carries up to 64 bytes, the command is one that calPacket     *)
(* knows (it knows all but RECV_CAN1) and an id has 29 bits.                 *)
ASSUME FramesAssumption ==
  \A f \in DeviceFrames :
    /\ f = [cmd |-> f.cmd, id |-> f.id, payload |-> f.payload]
    /\ f.cmd \in {CMD.SEND_CAN1, CMD.RECV_CAN2, CMD.SEND_CAN2}
    /\ f.id \in [1 .. 4 -> Byte] /\ f.id[1] < 32
    /\ f.payload \in Seq(Byte) /\ Len(f.payload) <= 64
ASSUME BoundsAssumption ==
  MaxSent \in Nat /\ MaxLosses \in Nat /\ MaxClears \in Nat /\ MaxOpens \in Nat
ASSUME XorAssumption == \A x, y \in Byte : XorOf(x, y) \in Byte

MakeCRC(bytes) ==
  LET crc[i \in 0 .. Len(bytes)] ==
        IF i = 0 THEN 0 ELSE XorOf(crc[i - 1], bytes[i])
  IN crc[Len(bytes)]

(* The bytes of a frame on the wire.                                         *)
GenerateWriteData(f) ==
  LET length == Len(f.payload) + 4
      body == <<P_SOF, CAN, f.cmd, length % 256, length \div 256>>
                \o f.id \o f.payload
  IN body \o <<MakeCRC(body), P_EOF>>

-----------------------------------------------------------------------------
(* calPacket                                                                 *)

(* Qt's QByteRef: the byte at a 0-based index, 0 past the end.               *)
ByteAt(data, i) == IF i < Len(data) THEN data[i + 1] ELSE 0

SignedChar(b) == IF b < 128 THEN b ELSE b - 256

(* (MSB << 8) | LSB over signed chars: a negative LSB sets every high bit.   *)
DataLength(data) ==
  LET lsb == SignedChar(ByteAt(data, 3))
      msb == SignedChar(ByteAt(data, 4))
  IN IF lsb < 0 THEN lsb ELSE 256 * msb + lsb

EndPacket(data) == P_MIN_SIZE + DataLength(data) + 1

Accepted(data) ==
  /\ ByteAt(data, 0) = P_SOF
  /\ ByteAt(data, 1) = CAN
  /\ ByteAt(data, 2) \in {CMD.SEND_CAN1, CMD.RECV_CAN2, CMD.SEND_CAN2}
  /\ Len(data) >= EndPacket(data)

(* calPacket finds a packet it can cut off.                                  *)
Complete(data) == /\ Accepted(data)
                  /\ EndPacket(data) >= 0
                  /\ ByteAt(data, EndPacket(data)) = P_EOF

(* A negative index: the byte read lies in front of the array.  Should it    *)
(* be P_EOF, the frame is emitted, remove() removes nothing and calPacket    *)
(* returns true, for ever.                                                   *)
ReadsInFront(data) == Accepted(data) /\ EndPacket(data) < 0

(* QByteArray::mid: a negative length stands for all the rest.               *)
Mid(data, pos, len) ==
  SubSeq(data, pos + 1,
         IF len < 0 \/ pos + len > Len(data) THEN Len(data) ELSE pos + len)

(* A mutant: dataLength without the id's four bytes taken off.               *)
FrameWithTrailer(data) ==
  [cmd |-> ByteAt(data, 2),
   id |-> Mid(data, P_MIN_SIZE, 4),
   payload |-> Mid(data, P_MIN_SIZE + 4, DataLength(data))]

(* The QCanBusFrame built from a packet: an id of more than 29 bits is       *)
(* invalid and becomes 0.                                                    *)
FrameOf(data) ==
  LET bytes == Mid(data, P_MIN_SIZE, 4)
      id == [i \in 1 .. 4 - Len(bytes) |-> 0] \o bytes
  IN
  [cmd |-> ByteAt(data, 2),
   id |-> IF id[1] < 32 THEN id ELSE <<0, 0, 0, 0>>,
   payload |-> Mid(data, P_MIN_SIZE + 4, DataLength(data) - 4)]

(* while (calPacket(mRecvData)): data is cut until calPacket says false.     *)
CutPackets[data \in Seq(Byte)] ==
  IF ~Complete(data)
  THEN [data |-> data, out |-> <<>>]
  ELSE LET rest == CutPackets[SubSeq(data, EndPacket(data) + 2, Len(data))]
       IN [data |-> rest.data, out |-> <<FrameOf(data)>> \o rest.out]

(* Mutants: if (calPacket(mRecvData)) for the loop; what is no packet header *)
(* is skipped.                                                               *)
RunSlotOnce(data) ==
  IF Len(data) > P_MIN_SIZE /\ Complete(data)
  THEN [data |-> SubSeq(data, EndPacket(data) + 2, Len(data)),
        out |-> <<FrameOf(data)>>]
  ELSE [data |-> data, out |-> <<>>]

RunSlotSkipping(data) ==
  LET heads == {i \in DOMAIN data : data[i] = P_SOF}
      first == IF heads = {} THEN 1
               ELSE CHOOSE i \in heads : \A j \in heads : i <= j
  IN CutPackets[SubSeq(data, first, Len(data))]

(* One run of readData on what the port holds.                               *)
RunSlot(data) == IF Len(data) > P_MIN_SIZE
                 THEN CutPackets[data]
                 ELSE [data |-> data, out |-> <<>>]

(* readyRead calls the slot once for every connection; the later runs find   *)
(* the port empty.                                                           *)
RunSlots(n, data) ==
  LET after[i \in 0 .. n] ==
        IF i = 0 THEN [data |-> data, out |-> <<>>]
        ELSE LET last == after[i - 1]
                 run == RunSlot(last.data)
             IN [data |-> run.data, out |-> last.out \o run.out]
  IN after[n]

-----------------------------------------------------------------------------
Init == /\ portOpen = FALSE
        /\ connections = 0
        /\ mRecvData = <<>>
        /\ toSend = <<>>
        /\ offset = 0
        /\ nSent = 0
        /\ delivered = <<>>
        /\ losses = 0
        /\ clears = 0
        /\ hung = FALSE

Packet == [f \in DeviceFrames |-> GenerateWriteData(f)]

(* The bytes of the first k frames' packets, one after another.              *)
PacketsOf(frames, k) ==
  LET bytes[i \in 0 .. Len(frames)] ==
        IF i = 0 THEN <<>> ELSE bytes[i - 1] \o Packet[frames[i]]
  IN bytes[k]
InFlight == LET wire == PacketsOf(toSend, Len(toSend))
            IN SubSeq(wire, offset + 1, Len(wire))

(* n more bytes have left the device.                                        *)
Transmit(n) ==
  LET end(i) == Len(PacketsOf(toSend, i))
      whole == CHOOSE i \in 0 .. Len(toSend) :
                 /\ end(i) <= offset + n
                 /\ i < Len(toSend) => end(i + 1) > offset + n
  IN /\ toSend' = SubSeq(toSend, whole + 1, Len(toSend))
     /\ offset' = offset + n - end(whole)

(* A mutant: nothing is connected.                                           *)
SerialOpenUnconnected ==
  /\ ~hung
  /\ ~portOpen
  /\ connections < MaxOpens
  /\ portOpen' = TRUE
  /\ UNCHANGED <<connections, mRecvData, toSend, offset, nSent, delivered,
                 losses, clears, hung>>

(* The application cannot act while readData spins.                          *)
SerialOpen == /\ ~hung
              /\ ~portOpen
              /\ connections < MaxOpens
              /\ portOpen' = TRUE
              /\ connections' = connections + 1
              /\ UNCHANGED <<mRecvData, toSend, offset, nSent, delivered,
                             losses, clears, hung>>

(* A mutant: the buffer is emptied with the port.                            *)
SerialCloseEmpties ==
  /\ ~hung
  /\ portOpen
  /\ portOpen' = FALSE
  /\ mRecvData' = <<>>
  /\ UNCHANGED <<connections, toSend, offset, nSent, delivered, losses,
                 clears, hung>>

(* What mRecvData holds is kept for the next time the port is opened.        *)
SerialClose == /\ ~hung
               /\ portOpen
               /\ portOpen' = FALSE
               /\ UNCHANGED <<connections, mRecvData, toSend, offset, nSent,
                              delivered, losses, clears, hung>>

(* The far end, or the PC's own output looped back, starts another packet.   *)
DeviceSend == /\ nSent < MaxSent
              /\ \E f \in DeviceFrames : toSend' = Append(toSend, f)
              /\ nSent' = nSent + 1
              /\ UNCHANGED <<portOpen, connections, mRecvData, offset,
                             delivered, losses, clears, hung>>

(* n bytes arrive at once and readyRead fires.  The size is tested before    *)
(* the loop only: after a packet was cut, what is left may be shorter and    *)
(* read in front of the array all the same.                                  *)
ReadData(n) ==
  LET run == RunSlots(connections, mRecvData \o SubSeq(InFlight, 1, n)) IN
  /\ ~hung
  /\ portOpen
  /\ Transmit(n)
  /\ mRecvData' = run.data
  /\ \/ /\ delivered' = delivered \o run.out
        /\ UNCHANGED hung
     \/ /\ Len(run.data) > P_MIN_SIZE \/ run.out # <<>>
        /\ ReadsInFront(run.data)
        /\ delivered' = delivered \o Append(run.out, FrameOf(run.data))
        /\ hung' = TRUE
  /\ UNCHANGED <<portOpen, connections, nSent, losses, clears>>

(* n bytes pass while the port is closed.                                    *)
Lose(n) == /\ ~portOpen
           /\ losses < MaxLosses
           /\ Transmit(n)
           /\ losses' = losses + 1
           /\ UNCHANGED <<portOpen, connections, mRecvData, nSent, delivered,
                          clears, hung>>

(* MainWindow::clear throws the buffer away.                                 *)
Clear == /\ ~hung
         /\ clears < MaxClears
         /\ mRecvData' = <<>>
         /\ clears' = clears + 1
         /\ UNCHANGED <<portOpen, connections, toSend, offset, nSent,
                        delivered, losses, hung>>

ReadSome == \E n \in 1 .. Len(InFlight) : ReadData(n)
LoseSome == \E n \in 1 .. Len(InFlight) : Lose(n)

Next == \/ SerialOpen \/ SerialClose \/ DeviceSend \/ ReadSome \/ LoseSome
        \/ Clear

(* The device goes on transmitting and Qt's event loop goes on calling the   *)
(* slot; nobody has to press a button or send a frame.                       *)
Spec == Init /\ [][Next]_vars /\ WF_vars(ReadSome)
-----------------------------------------------------------------------------
(* What can put the two ends out of step.                                    *)
faults == losses + clears

(* Both ends agree: the buffer is what has left of the packet under way.     *)
Synced ==
  mRecvData = IF toSend = <<>> THEN <<>>
              ELSE SubSeq(Packet[Head(toSend)], 1, offset)

Channel == INSTANCE FrameChannel
  WITH Frames <- DeviceFrames, owed <- toSend, got <- delivered,
       synced <- Synced, faults <- faults

(* The bytes are bytes, the packet under way has not left in full, and no    *)
(* port is open, nor a frame cut, before the slot was connected.             *)
TypeOK ==
  /\ portOpen \in BOOLEAN /\ hung \in BOOLEAN
  /\ connections \in 0 .. MaxOpens
  /\ losses \in 0 .. MaxLosses /\ clears \in 0 .. MaxClears
  /\ nSent \in 0 .. MaxSent
  /\ toSend \in Seq(DeviceFrames)
  /\ \A i \in DOMAIN mRecvData : mRecvData[i] \in 0 .. 255
  /\ IF toSend = <<>> THEN offset = 0
     ELSE offset \in 0 .. Len(Packet[Head(toSend)]) - 1
  /\ portOpen \/ delivered # <<>> => connections > 0

(* readData hands over the frames of the link once, whole and in order,      *)
(* however the bytes are chunked and however often the port was closed and   *)
(* opened again, until bytes are lost or the buffer is cleared.              *)
FramedLink == Channel!Spec

(* With the port left open and nothing lost, calPacket's loop leaves no      *)
(* packet behind in the buffer.                                              *)
EverythingArrives ==
  ([](faults = 0) /\ <>[]portOpen) => []<>(Len(delivered) = nSent)

(* The head of the buffer is no packet and cannot become one.                *)
Wedged ==
  /\ Len(mRecvData) > P_MIN_SIZE
  /\ Accepted(mRecvData) =>
       /\ EndPacket(mRecvData) \in 0 .. Len(mRecvData) - 1
       /\ ~Complete(mRecvData)
  /\ ~Accepted(mRecvData) =>
       \/ ByteAt(mRecvData, 0) # P_SOF
       \/ ByteAt(mRecvData, 1) # CAN
       \/ ByteAt(mRecvData, 2)
            \notin {CMD.SEND_CAN1, CMD.RECV_CAN2, CMD.SEND_CAN2}

(* calPacket never skips a byte it cannot use: once the buffer starts with   *)
(* something that is no packet, no later byte makes it deliver a frame, not  *)
(* even after closing and opening the port; only Clear helps.                *)
WedgedUntilCleared ==
  [][Wedged => /\ delivered' = delivered
               /\ Wedged' \/ clears' > clears]_vars

(* The read in front of the array, and the endless loop it can start, needs  *)
(* a packet boundary that was missed: no sequence of opening, closing and    *)
(* chunking alone gets there.                                                *)
HangNeedsFault == hung => faults > 0 /\ ~Synced
=============================================================================
