---------------------------- MODULE FramerProofs -----------------------------
(***************************************************************************)
(* Proofs about the framer and its connection to the collector, for every  *)
(* size of the framer's buffers.                                           *)
(***************************************************************************)
EXTENDS FrameLink, FrameFormatProofs

IInv ==
    /\ TypeOK
    /\ RingHoldsQueue
    /\ pc = "write" => queue # << >>

-----------------------------------------------------------------------------
(* The ring's arithmetic *)

LEMMA PlusType == \A p \in Pos, n \in 0 .. TransmitBufSize : Plus(p, n) \in Pos
BY FramerAssumption DEF Pos, Plus

LEMMA OffsetType == \A p, k \in Pos : Offset(p, k) \in Pos
BY FramerAssumption DEF Pos, Offset

LEMMA OffsetOfPlus == \A p \in Pos, n \in Pos : Offset(p, Plus(p, n)) = n
BY FramerAssumption DEF Pos, Plus, Offset

\* Writing n bytes at w, with room left, extends what is between r and w.
LEMMA OffsetGrows ==
    ASSUME NEW r \in Pos, NEW w \in Pos, NEW n \in Nat,
           Offset(r, w) + n < TransmitBufSize
    PROVE  Offset(r, Plus(w, n)) = Offset(r, w) + n
BY FramerAssumption DEF Pos, Plus, Offset

LEMMA OffsetShrinks ==
    ASSUME NEW r \in Pos, NEW w \in Pos, Offset(r, w) > 0
    PROVE  Offset(Plus(r, 1), w) = Offset(r, w) - 1
BY FramerAssumption DEF Pos, Plus, Offset

\* A position between r and w is not among the next n after w.
LEMMA OldIsKept ==
    ASSUME NEW r \in Pos, NEW w \in Pos, NEW n \in Nat, NEW j \in Nat,
           Offset(r, w) + n < TransmitBufSize, j < Offset(r, w)
    PROVE  Offset(w, Plus(r, j)) >= n
BY FramerAssumption DEF Pos, Plus, Offset

\* The j-th position after w, seen from r.
LEMMA NewFollows ==
    ASSUME NEW r \in Pos, NEW w \in Pos, NEW j \in Nat,
           Offset(r, w) + j < TransmitBufSize
    PROVE  Offset(w, Plus(r, Offset(r, w) + j)) = j
BY FramerAssumption DEF Pos, Plus, Offset

-----------------------------------------------------------------------------
(* Frames *)

LEMMA FrameType ==
    ASSUME NEW d \in Seq(Byte), Len(d) \in Byte
    PROVE  frame(d) \in Seq(Byte) /\ Len(frame(d)) = Len(d) + 4
<1>1. Len(d) < ByteSize
  BY ByteAssumption DEF Byte
<1> QED
  BY <1>1, FrameBytes

LEMMA PayloadType ==
    ASSUME TypeOK, Len(recv_buffer) > 1
    PROVE  /\ Payload \in Seq(Byte)
           /\ Len(Payload) = Len(recv_buffer) - 1
           /\ Len(Payload) \in Byte
           /\ Len(Payload) \in 1 .. RecvBufSize - 1
<1> DEFINE n == Len(recv_buffer) - 1
<1>1. recv_buffer \in Seq(Byte) /\ n \in 1 .. Len(recv_buffer)
  BY DEF TypeOK
<1>2. SubSeq(recv_buffer, 1, n) \in Seq(Byte) /\ Len(SubSeq(recv_buffer, 1, n)) = n
  BY <1>1
<1>3. ByteSize \in Nat /\ RecvBufSize \in Nat /\ RecvBufSize <= ByteSize
  BY FramerAssumption, ByteAssumption
<1>4. Len(recv_buffer) \in Nat /\ Len(recv_buffer) <= RecvBufSize
  BY DEF TypeOK
<1>5. n \in Byte /\ n \in 1 .. RecvBufSize - 1
  BY <1>3, <1>4 DEF Byte
<1>6. QED
  BY <1>2, <1>5 DEF Payload

\* enough_tx_space leaves at least one byte of the ring free.
LEMMA RoomLeft ==
    ASSUME TypeOK, NEW n \in Nat, enough_tx_space(n)
    PROVE  Offset(tx_read_pos, tx_write_pos) + n + 4 < TransmitBufSize
BY FramerAssumption DEF TypeOK, enough_tx_space, Offset, Pos

-----------------------------------------------------------------------------
(* The invariant *)

LEMMA InitIInv == Init => IInv
<1> SUFFICES ASSUME Init PROVE IInv
  OBVIOUS
<1>1. 0 \in Pos /\ 0 \in Byte
  BY FramerAssumption, ByteAssumption DEF Pos, Byte, Byte
<1>2. TypeOK
  BY <1>1, FramerAssumption DEF Init, TypeOK
<1>3. RingHoldsQueue
  BY DEF Init, RingHoldsQueue, Offset, Sent
<1>4. QED
  BY <1>2, <1>3 DEF Init, IInv

\* The ring after a frame was put into it.
LEMMA AcceptKeepsIInv ==
    ASSUME IInv, Accepted, RecvEnd
    PROVE  IInv'
<1> DEFINE f == frame(Payload)
           held == Offset(tx_read_pos, tx_write_pos)
<1>1. /\ f \in Seq(Byte) /\ Len(f) = Len(Payload) + 4
      /\ Len(Payload) \in Nat
  BY FrameType, PayloadType DEF IInv, Accepted
<1>2. held + Len(f) < TransmitBufSize /\ Len(f) \in 0 .. TransmitBufSize /\ held \in Nat
  <2>1. held \in Nat
    BY OffsetType DEF IInv, TypeOK, Pos
  <2>2. held + Len(Payload) + 4 < TransmitBufSize
    BY <1>1, RoomLeft DEF IInv, Accepted
  <2> HIDE DEF held, f
  <2>3. QED
    BY <1>1, <2>1, <2>2, FramerAssumption
<1>3. /\ tx_buffer' = [k \in Pos |-> IF Offset(tx_write_pos, k) < Len(f)
                                    THEN f[Offset(tx_write_pos, k) + 1] ELSE tx_buffer[k]]
      /\ tx_write_pos' = Plus(tx_write_pos, Len(f))
      /\ queue' = queue \o f
      /\ recv_buffer' = << >>
      /\ recv_valid' = TRUE
      /\ UNCHANGED <<tx_read_pos, pc, wire>>
  BY DEF RecvEnd, copy_to_tx_buffer
<1> HIDE DEF f, held
<1>4. TypeOK'
  <2>1. tx_buffer' \in [Pos -> Byte]
    <3>1. \A k \in Pos : Offset(tx_write_pos, k) \in Nat
      BY OffsetType DEF IInv, TypeOK, Pos
    <3>2. \A k \in Pos : Offset(tx_write_pos, k) < Len(f) => f[Offset(tx_write_pos, k) + 1] \in Byte
      BY <3>1, <1>1
    <3>3. QED
      BY <3>2, <1>3 DEF IInv, TypeOK
  <2>2. tx_write_pos' \in Pos /\ queue' \in Seq(Byte)
    BY <1>1, <1>2, <1>3, PlusType DEF IInv, TypeOK
  <2>3. QED
    BY <1>3, <2>1, <2>2, FramerAssumption DEF IInv, TypeOK
<1>5. Sent' = Sent /\ Sent \in {0, 1} /\ held = Len(queue) + Sent /\ Len(queue) \in Nat
  BY <1>3 DEF IInv, TypeOK, RingHoldsQueue, Sent, held
<1>6. tx_read_pos \in Pos /\ tx_write_pos \in Pos
  BY DEF IInv, TypeOK
<1>7. Len(queue') = Len(queue) + Len(f)
  <2>1. queue \in Seq(Byte) /\ f \in Seq(Byte)
    BY <1>1 DEF IInv, TypeOK
  <2>2. Len(queue \o f) = Len(queue) + Len(f)
    BY <2>1
  <2>3. QED
    BY <2>2, <1>3
<1>8. Offset(tx_read_pos, tx_write_pos)' = Len(queue)' + Sent'
  <2>1. Offset(tx_read_pos, Plus(tx_write_pos, Len(f))) = held + Len(f)
    BY <1>6, <1>1, <1>2, OffsetGrows DEF held
  <2>2. Offset(tx_read_pos', tx_write_pos') = held + Len(f)
    BY <2>1, <1>3
  <2>3. held + Len(f) = Len(queue') + Sent'
    BY <1>1, <1>5, <1>7
  <2>4. QED
    BY <2>2, <2>3
<1>9. ASSUME NEW i \in 1 .. Len(queue')
      PROVE  tx_buffer'[Plus(tx_read_pos', Sent' + i - 1)] = queue'[i]
  <2> DEFINE k == Plus(tx_read_pos, Sent + i - 1)
  <2>1. k \in Pos
    <3>1. Sent + i - 1 \in 0 .. TransmitBufSize
      BY <1>1, <1>2, <1>5, <1>7, FramerAssumption
    <3>2. QED
      BY <3>1, <1>6, PlusType
  <2>2. CASE i <= Len(queue)
    <3>1. Offset(tx_write_pos, k) >= Len(f)
      <4>1. Sent + i - 1 \in Nat /\ Sent + i - 1 < held
        BY <2>2, <1>5
      <4>2. Sent + i - 1 < Offset(tx_read_pos, tx_write_pos)
        BY <4>1 DEF held
      <4>3. Len(f) \in Nat /\ Offset(tx_read_pos, tx_write_pos) + Len(f) < TransmitBufSize
        BY <1>1, <1>2 DEF held
      <4>4. QED
        BY <1>6, <4>1, <4>2, <4>3, OldIsKept
    <3>2. tx_buffer'[k] = tx_buffer[k]
      BY SMTT(20), <2>1, <3>1, <1>1, <1>3, OffsetType DEF IInv, TypeOK, Pos
    <3>3. tx_buffer[k] = queue[i]
      BY <2>2 DEF IInv, RingHoldsQueue
    <3>4. queue'[i] = queue[i]
      BY <2>2, <1>1, <1>3 DEF IInv, TypeOK
    <3>5. QED
      BY <3>2, <3>3, <3>4, <1>3, <1>5
  <2>3. CASE i > Len(queue)
    <3> DEFINE j == i - Len(queue) - 1
    <3>1. j \in Nat /\ j < Len(f) /\ Sent + i - 1 = held + j
      BY <2>3, <1>1, <1>5, <1>7
    <3>2. Offset(tx_write_pos, k) = j
      <4>1. held + j < TransmitBufSize
        BY <3>1, <1>1, <1>2, FramerAssumption
      <4> HIDE DEF j
      <4>2. Offset(tx_write_pos, Plus(tx_read_pos, held + j)) = j
        BY <3>1, <4>1, <1>6, NewFollows DEF held
      <4>3. QED
        BY <3>1, <4>2
    <3>3. tx_buffer'[k] = f[j + 1]
      BY <2>1, <3>1, <3>2, <1>3
    <3>4. queue'[i] = f[j + 1]
      BY <2>3, <3>1, <1>1, <1>3 DEF IInv, TypeOK
    <3>5. QED
      BY <3>3, <3>4, <1>3, <1>5
  <2>4. QED
    BY <2>2, <2>3, <1>5
<1>10. RingHoldsQueue'
  BY <1>8, <1>9 DEF RingHoldsQueue
<1>11. (pc = "write" => queue # << >>)'
  BY <1>1, <1>3 DEF IInv, TypeOK
<1>12. QED
  BY <1>4, <1>10, <1>11 DEF IInv

LEMMA NextKeepsIInv == IInv /\ [Next]_vars => IInv'
<1> SUFFICES ASSUME IInv, [Next]_vars PROVE IInv'
  OBVIOUS
<1>1. ASSUME NEW b \in BusByte, RecvByte(b) PROVE IInv'
  <2>1. recv_buffer' \in Seq(Byte) /\ Len(recv_buffer') <= RecvBufSize
    BY <1>1, FramerAssumption DEF IInv, TypeOK, RecvByte
  <2>2. UNCHANGED <<recv_valid, txVars, tx_read_pos, pc, wire, queue>>
    BY <1>1 DEF RecvByte
  <2>3. QED
    BY <2>1, <2>2 DEF txVars, IInv, TypeOK, RingHoldsQueue, Sent
<1>2. CASE RecvEnd /\ Accepted
  BY <1>2, AcceptKeepsIInv
<1>3. CASE RecvEnd /\ ~Accepted
  BY <1>3, FramerAssumption DEF RecvEnd, txVars, IInv, TypeOK, RingHoldsQueue, Sent
<1>4. CASE CheckData
  <2>1. queue # << >>
    BY <1>4, FramerAssumption DEF CheckData, IInv, TypeOK, RingHoldsQueue, Sent, Offset, Pos
  <2>2. QED
    BY <1>4, <2>1 DEF CheckData, recvVars, txVars, IInv, TypeOK, RingHoldsQueue, Sent
<1>5. CASE Write
  <2>1. /\ queue # << >> /\ queue \in Seq(Byte)
        /\ Sent = 0 /\ Sent' = 1
        /\ queue' = Tail(queue)
    BY <1>5 DEF Write, IInv, TypeOK, Sent
  <2>2. /\ queue' \in Seq(Byte) /\ Len(queue') = Len(queue) - 1
        /\ \A i \in 1 .. Len(queue') : queue'[i] = queue[i + 1]
    BY <2>1
  <2>3. TypeOK'
    BY <1>5, <2>2 DEF Write, recvVars, txVars, IInv, TypeOK
  <2>4. RingHoldsQueue'
    BY <1>5, <2>1, <2>2 DEF Write, recvVars, txVars, IInv, TypeOK, RingHoldsQueue
  <2>5. QED
    BY <1>5, <2>3, <2>4 DEF IInv, Write
<1>6. CASE AdvanceRead
  <2>1. Sent = 1 /\ Sent' = 0
    BY <1>6 DEF AdvanceRead, Sent
  <2>2. TypeOK'
    BY <1>6, PlusType, FramerAssumption DEF AdvanceRead, recvVars, txVars, IInv, TypeOK
  <2>3. Offset(tx_read_pos, tx_write_pos) = Len(queue) + 1 /\ Len(queue) \in Nat
    BY <2>1 DEF IInv, TypeOK, RingHoldsQueue
  <2>4. Offset(tx_read_pos, tx_write_pos)' = Len(queue)' + Sent'
    BY <1>6, <2>1, <2>3, OffsetShrinks DEF AdvanceRead, txVars, IInv, TypeOK
  <2>5. ASSUME NEW i \in 1 .. Len(queue)
        PROVE  Plus(Plus(tx_read_pos, 1), i - 1) = Plus(tx_read_pos, i)
    <3>1. tx_read_pos \in Pos /\ i \in 1 .. TransmitBufSize - 2
      BY <2>3, OffsetType, FramerAssumption DEF IInv, TypeOK, Pos
    <3>2. QED
      BY <3>1, FramerAssumption DEF Plus, Pos
  <2>6. RingHoldsQueue'
    BY <1>6, <2>1, <2>4, <2>5 DEF AdvanceRead, txVars, IInv, TypeOK, RingHoldsQueue
  <2>7. QED
    BY <1>6, <2>2, <2>6 DEF AdvanceRead, IInv
<1>7. CASE UNCHANGED vars
  BY <1>7 DEF vars, recvVars, txVars, IInv, TypeOK, RingHoldsQueue, Sent
<1>8. QED
  BY <1>1, <1>2, <1>3, <1>4, <1>5, <1>6, <1>7 DEF Next, MainLoop

\* Every variable of the firmware keeps its type, the ring's positions stay
\* within the ring, and what it holds are bytes, checksums included.
THEOREM TypeCorrect == Spec => []TypeOK
<1>1. IInv => TypeOK
  BY DEF IInv
<1>2. QED
  BY <1>1, InitIInv, NextKeepsIInv, PTL DEF Spec

\* Whatever telegrams the interrupt accepts between whichever steps of the main
\* loop, the ring holds exactly the accepted bytes still to be sent, and a full
\* ring never looks empty.
THEOREM RingIsQueue == Spec => []RingHoldsQueue
<1>1. IInv => RingHoldsQueue
  BY DEF IInv
<1>2. QED
  BY <1>1, InitIInv, NextKeepsIInv, PTL DEF Spec

-----------------------------------------------------------------------------
(* The refinement *)

LEMMA InitRefines == Init => Queue!QInit
BY DEF Init, Queue!QInit

LEMMA AcceptRefines ==
    ASSUME IInv, RecvEnd, Accepted
    PROVE  \E d \in Queue!Payloads : Queue!Accept(d)
<1>1. /\ Payload \in Seq(Byte) /\ Len(Payload) \in Byte
      /\ Len(Payload) \in 1 .. RecvBufSize - 1
  BY PayloadType DEF IInv, Accepted
<1>2. Payload \in Queue!Payloads
  <2>1. Payload \in [1 .. Len(Payload) -> Byte]
    BY <1>1
  <2>2. QED
    BY <1>1, <2>1 DEF Queue!Payloads, Queue!Byte, Byte
<1>3. queue' = queue \o frame(Payload) /\ wire' = wire
  BY DEF RecvEnd
<1>4. Len(queue \o frame(Payload)) <= TransmitBufSize - 1
  <2>1. IInv'
    BY NextKeepsIInv DEF Next
  <2>2. Len(queue') + Sent' \in Pos /\ Len(queue') \in Nat
    BY <2>1, OffsetType DEF IInv, TypeOK, RingHoldsQueue
  <2>3. QED
    BY <2>2, <1>3, FramerAssumption DEF Pos, Sent
<1>5. Queue!Accept(Payload)
  BY <1>3, <1>4 DEF Queue!Accept, Queue!frame, Queue!XorAll, frame, XorAll
<1>6. QED
  BY <1>2, <1>5

LEMMA WriteRefines ==
    ASSUME IInv, Write
    PROVE  Queue!Emit
<1>1. queue # << >> /\ queue \in Seq(Byte) /\ Sent = 0 /\ tx_read_pos \in Pos
  BY DEF IInv, TypeOK, Write, Sent
<1>2. 1 \in 1 .. Len(queue) /\ Head(queue) = queue[1]
  BY <1>1
<1>3. Plus(tx_read_pos, Sent + 1 - 1) = tx_read_pos
  BY <1>1, FramerAssumption DEF Plus, Pos
<1>4. tx_buffer[tx_read_pos] = Head(queue)
  BY <1>2, <1>3 DEF IInv, RingHoldsQueue
<1>5. QED
  BY <1>1, <1>4 DEF Write, Queue!Emit

LEMMA NextRefines == IInv /\ [Next]_vars => [Queue!QNext]_(Queue!qvars)
<1> SUFFICES ASSUME IInv, [Next]_vars PROVE [Queue!QNext]_(Queue!qvars)
  OBVIOUS
<1>1. CASE RecvEnd /\ Accepted
  BY <1>1, AcceptRefines DEF Queue!QNext
<1>2. CASE RecvEnd /\ ~Accepted
  BY <1>2 DEF RecvEnd, Queue!qvars
<1>3. CASE Write
  BY <1>3, WriteRefines DEF Queue!QNext
<1>4. CASE (\E b \in BusByte : RecvByte(b)) \/ CheckData \/ AdvanceRead
  BY <1>4 DEF RecvByte, CheckData, AdvanceRead, Queue!qvars
<1>5. CASE UNCHANGED vars
  BY <1>5 DEF vars, Queue!qvars
<1>6. QED
  BY <1>1, <1>2, <1>3, <1>4, <1>5 DEF Next, MainLoop

\* The safety part of ImplementsQueue: the bytes on the wire are those of the
\* accepted frames, complete and in order.
THEOREM SafelyImplementsQueue == Spec => Queue!QInit /\ [][Queue!QNext]_(Queue!qvars)
<1>1. QED
  BY InitIInv, NextKeepsIInv, InitRefines, NextRefines, PTL DEF Spec

-----------------------------------------------------------------------------
(* The parser at the other end.  `Place' says where the first byte of each   *)
(* telegram's frame is in the queue, counted from 0, and where a frame to    *)
(* come would begin; the frame being read began before the queue.            *)

\* How many bytes of the frame being read the parser has had.
ReadOf(p) ==
    IF p.state = "Syncing" THEN p.pos ELSE IF p.state = "Length" THEN 2 ELSE 3 + Len(p.data)

\* The frames of inFlight lie in the queue, each at its place.
Lies(place) ==
    \A i \in 1 .. Len(inFlight) :
        /\ place[i + 1] = place[i] + Len(inFlight[i]) + 4
        /\ \A j \in 1 .. Len(inFlight[i]) + 4 :
              place[i] + j >= 1 =>
                 /\ place[i] + j <= Len(queue)
                 /\ queue[place[i] + j] = frame(inFlight[i])[j]

Places(place) ==
    /\ place \in [1 .. Len(inFlight) + 1 -> Int]
    /\ place[1] + ReadOf(parser) = 0
    /\ place[Len(inFlight) + 1] = Len(queue)
    /\ Lies(place)

\* Parser p has read the beginning of a frame of d, or nothing yet.
Reading(p, d) ==
    /\ p \in Parser!ParserType
    /\ p.state = "Syncing" => p.pos \in {0, 1} /\ p.data = << >>
    /\ p.state = "Length" => p.data = << >>
    /\ p.state \in {"Data", "Checksum"} =>
          /\ p.length = Len(d) /\ p.checkSum = XorAll(p.data)
          /\ Len(p.data) <= Len(d) /\ \A i \in 1 .. Len(p.data) : p.data[i] = d[i]
    /\ p.state = "Data" => Len(p.data) = p.pos /\ p.pos < Len(d)
    /\ p.state = "Checksum" => Len(p.data) = Len(d)

Idle(p) == p \in Parser!ParserType /\ p.state = "Syncing" /\ p.pos = 0 /\ p.data = << >>

Telegrams == {d \in Seq(Byte) : Len(d) \in 1 .. ByteSize - 1}

LInv ==
    /\ IInv
    /\ inFlight \in Seq(Telegrams)
    /\ IF inFlight = << >> THEN Idle(parser) ELSE Reading(parser, Head(inFlight))
    /\ \E place : Places(place)

LEMMA ReadOfType ==
    ASSUME NEW p, NEW d \in Telegrams, Reading(p, d)
    PROVE  ReadOf(p) \in 0 .. Len(d) + 3
<1>1. p.data \in Seq(Byte) /\ d \in Seq(Byte) /\ Len(d) \in Nat /\ Len(d) >= 1
  BY DEF Reading, Parser!ParserType, Parser!Byte, Byte, Telegrams
<1>2. Len(p.data) \in Nat
  BY <1>1
<1>3. p.state \in {"Syncing", "Length", "Data", "Checksum"}
  BY DEF Reading, Parser!ParserType
<1> QED
  BY <1>1, <1>2, <1>3 DEF Reading, ReadOf

LEMMA OutTypes == << >> \in Parser!Messages /\ \A d \in Seq(Byte) : <<d>> \in Parser!Messages
BY DEF Parser!Messages, Parser!Byte, Byte

\* The next byte of the frame takes the parser one place further; the last one
\* makes it a message.
LEMMA ReadsOn ==
    ASSUME NEW p, NEW d \in Telegrams, NEW b, Reading(p, d), b = frame(d)[ReadOf(p) + 1]
    PROVE  LET q == Parser!readByte(p, b)
           IN  IF ReadOf(p) = Len(d) + 3
               THEN q.out = <<d>> /\ Idle(q)
               ELSE q.out = << >> /\ Reading(q, d) /\ ReadOf(q) = ReadOf(p) + 1
<1> DEFINE q == Parser!readByte(p, b)
<1> SUFFICES IF ReadOf(p) = Len(d) + 3
             THEN q.out = <<d>> /\ Idle(q)
             ELSE q.out = << >> /\ Reading(q, d) /\ ReadOf(q) = ReadOf(p) + 1
  OBVIOUS
<1>1. /\ d \in Seq(Byte) /\ Len(d) \in Nat /\ Len(d) >= 1 /\ Len(d) < ByteSize
      /\ Len(d) \in Byte /\ ByteSize \in Nat
  <2>1. d \in Seq(Byte) /\ Len(d) \in 1 .. ByteSize - 1 /\ ByteSize \in Nat
    BY ByteAssumption DEF Telegrams
  <2> QED
    BY <2>1 DEF Byte
<1>2. /\ frame(d) \in Seq(Byte) /\ Len(frame(d)) = Len(d) + 4
      /\ frame(d)[1] = Sync1 /\ frame(d)[2] = Sync2 /\ frame(d)[3] = Len(d)
      /\ \A i \in 1 .. Len(d) : frame(d)[i + 3] = d[i]
      /\ frame(d)[Len(d) + 4] = XorAll(d)
  BY <1>1, FrameBytes
<1>3. /\ p \in [state : {"Syncing", "Length", "Data", "Checksum"}, pos : Nat, length : Byte,
                 checkSum : Byte, data : Seq(Byte), out : Parser!Messages]
  BY DEF Reading, Parser!ParserType, Parser!Byte, Byte
<1>4. p.data \in Seq(Byte) /\ Len(p.data) \in Nat /\ p.pos \in Nat
  BY <1>3
<1>5. << >> \in Parser!Messages /\ << >> \in Seq(Byte)
  BY OutTypes
<1>6. ASSUME NEW x, x \in [state : {"Syncing", "Length", "Data", "Checksum"}, pos : Nat, length : Byte,
                           checkSum : Byte, data : Seq(Byte), out : Parser!Messages]
      PROVE  x \in Parser!ParserType
  BY <1>6 DEF Parser!ParserType, Parser!Byte, Byte
<1>7. CASE p.state = "Syncing" /\ p.pos = 0
  <2>1. ReadOf(p) = 0 /\ b = Sync1
    BY <1>2, <1>7 DEF ReadOf
  <2>2. q = [p EXCEPT !.pos = 1, !.out = << >>]
    BY <1>7, <2>1 DEF Parser!readByte, Parser!Syncing
  <2>3. q \in Parser!ParserType
    BY <1>3, <1>5, <1>6, <2>2
  <2>4. q.state = "Syncing" /\ q.pos = 1 /\ q.data = << >> /\ q.out = << >>
    BY <1>3, <1>7, <2>2 DEF Reading
  <2> HIDE DEF q
  <2> QED
    BY <1>1, <2>1, <2>3, <2>4 DEF Reading, ReadOf
<1>8. CASE p.state = "Syncing" /\ p.pos = 1
  <2>1. ReadOf(p) = 1 /\ b = Sync2
    BY <1>2, <1>8 DEF ReadOf
  <2>2. q = [p EXCEPT !.state = "Length", !.pos = 0, !.out = << >>]
    BY <1>8, <2>1 DEF Parser!readByte, Parser!Syncing
  <2>3. q \in Parser!ParserType
    BY <1>3, <1>5, <1>6, <2>2
  <2>4. q.state = "Length" /\ q.data = << >> /\ q.out = << >>
    BY <1>3, <1>8, <2>2 DEF Reading
  <2> HIDE DEF q
  <2> QED
    BY <1>1, <2>1, <2>3, <2>4 DEF Reading, ReadOf
<1>9. CASE p.state = "Length"
  <2>1. ReadOf(p) = 2 /\ b = Len(d)
    BY <1>2, <1>9 DEF ReadOf
  <2>2. q = [p EXCEPT !.state = "Data", !.pos = 0, !.length = b, !.checkSum = 0, !.out = << >>]
    BY <1>9, <2>1 DEF Parser!readByte, Parser!Length
  <2>3. q \in Parser!ParserType
    <3>1. 0 \in Byte
      BY ByteAssumption DEF Byte
    <3> QED
      BY <1>1, <1>3, <1>5, <1>6, <2>1, <2>2, <3>1
  <2>4. /\ q.state = "Data" /\ q.data = << >> /\ q.out = << >> /\ q.length = Len(d)
        /\ q.checkSum = 0 /\ q.pos = 0
    BY <1>3, <1>9, <2>1, <2>2 DEF Reading
  <2> HIDE DEF q
  <2> QED
    BY <1>1, <2>1, <2>3, <2>4, XorAllOfNothing DEF Reading, ReadOf
<1>10. CASE p.state = "Data"
  <2> DEFINE n == Len(p.data)
             e == Append(p.data, b)
  <2>1. /\ n = p.pos /\ n < Len(d) /\ p.length = Len(d) /\ p.checkSum = XorAll(p.data)
        /\ \A i \in 1 .. n : p.data[i] = d[i]
    BY <1>10 DEF Reading
  <2>2. ReadOf(p) = n + 3
    BY <1>10, <1>4 DEF ReadOf
  <2>3. n + 1 \in 1 .. Len(d) /\ (n + 1) + 3 = ReadOf(p) + 1
    BY <1>1, <1>4, <2>1, <2>2
  <2>4. b = d[n + 1] /\ b \in Byte
    <3> HIDE DEF n
    <3>1. b = d[n + 1]
      BY <1>2, <2>3
    <3> QED
      BY <1>1, <2>3, <3>1
  <2>5. /\ e \in Seq(Byte) /\ Len(e) = n + 1 /\ XorAll(e) = Xor(p.checkSum, b)
        /\ Xor(p.checkSum, b) \in Byte
    BY <1>3, <1>4, <2>1, <2>4, XorAllOfAppend, ByteAssumption
  <2>6. \A i \in 1 .. n + 1 : e[i] = d[i]
    BY <1>4, <2>1, <2>4
  <2>7. q = [p EXCEPT !.data = e, !.checkSum = Xor(p.checkSum, b), !.pos = p.pos + 1,
                      !.state = IF p.pos + 1 = p.length THEN "Checksum" ELSE "Data", !.out = << >>]
    BY <1>10 DEF Parser!readByte, Parser!Data
  <2> HIDE DEF e, q, n
  <2>8. q \in Parser!ParserType
    <3>1. p.pos + 1 \in Nat
      BY <1>4
    <3>2. (IF p.pos + 1 = p.length THEN "Checksum" ELSE "Data") \in {"Syncing", "Length", "Data", "Checksum"}
      OBVIOUS
    <3> QED
      BY <1>3, <1>5, <1>6, <2>5, <2>7, <3>1, <3>2
  <2>9. /\ q.data = e /\ q.out = << >> /\ q.length = Len(d) /\ q.checkSum = XorAll(e)
        /\ q.pos = n + 1
        /\ q.state = IF n + 1 = Len(d) THEN "Checksum" ELSE "Data"
    BY <1>3, <2>1, <2>5, <2>7
  <2> QED
    BY SMTT(20), <1>1, <1>4, <2>1, <2>2, <2>3, <2>5, <2>6, <2>8, <2>9 DEF Reading, ReadOf, n
<1>11. CASE p.state = "Checksum"
  <2>1. /\ Len(p.data) = Len(d) /\ p.checkSum = XorAll(p.data)
        /\ \A i \in 1 .. Len(d) : p.data[i] = d[i]
    BY <1>11 DEF Reading
  <2>2. p.data = d
    BY <1>1, <1>4, <2>1
  <2>3. ReadOf(p) = Len(d) + 3
    BY <1>1, <1>11, <2>2 DEF ReadOf
  <2>4. (Len(d) + 3) + 1 = Len(d) + 4
    BY <1>1
  <2>5. b = p.checkSum
    BY <1>2, <2>1, <2>2, <2>3, <2>4
  <2>6. q = [p EXCEPT !.out = <<p.data>>, !.data = << >>, !.state = "Syncing", !.pos = 0]
    BY <1>11, <2>5 DEF Parser!readByte, Parser!Checksum
  <2>7. q \in Parser!ParserType
    BY <1>3, <1>4, <1>5, <1>6, <2>6, OutTypes
  <2>8. q.out = <<d>> /\ q.state = "Syncing" /\ q.pos = 0 /\ q.data = << >>
    BY <1>3, <2>2, <2>6
  <2> HIDE DEF q
  <2> QED
    BY <2>3, <2>7, <2>8 DEF Idle
<1> QED
  BY <1>3, <1>7, <1>8, <1>9, <1>10, <1>11 DEF Reading

LEMMA IdleIsReading ==
    ASSUME NEW p, NEW d, Idle(p)
    PROVE  Reading(p, d) /\ ReadOf(p) = 0
BY DEF Idle, Reading, ReadOf

-----------------------------------------------------------------------------
(* The steps of the link *)

LEMMA InitLInv == LinkInit => LInv
<1> SUFFICES ASSUME LinkInit PROVE LInv
  OBVIOUS
<1>1. IInv
  BY InitIInv DEF LinkInit
<1>2. Idle(parser)
  <2>1. 0 \in Byte
    BY ByteAssumption DEF Byte
  <2> QED
    BY <2>1, OutTypes DEF LinkInit, Parser!NewParser, Parser!ParserType, Parser!Byte, Byte, Idle
<1> DEFINE place == [i \in 1 .. 1 |-> 0]
<1>3. Places(place)
  <2>1. Len(inFlight) = 0 /\ Len(queue) = 0
    BY DEF LinkInit, Init
  <2>2. place \in [1 .. 1 -> Int] /\ place[1] = 0
    OBVIOUS
  <2>3. ReadOf(parser) = 0
    BY <1>2 DEF ReadOf, Idle
  <2> HIDE DEF place
  <2>4. place \in [1 .. Len(inFlight) + 1 -> Int] /\ place[Len(inFlight) + 1] = Len(queue)
    BY <2>1, <2>2
  <2>5. place[1] + ReadOf(parser) = 0
    BY <2>2, <2>3
  <2> QED
    BY <2>1, <2>4, <2>5 DEF Places, Lies
<1>4. inFlight = << >> /\ inFlight \in Seq(Telegrams)
  BY DEF LinkInit
<1> QED
  BY <1>1, <1>2, <1>3, <1>4 DEF LInv

\* What the framer accepts is queued behind all that is on its way.
LEMMA AcceptKeepsPlaces ==
    ASSUME LInv, NEW d \in Telegrams, queue' = queue \o frame(d),
           inFlight' = Append(inFlight, d), parser' = parser, NEW place, Places(place)
    PROVE  \E next : Places(next)'
<1> DEFINE n == Len(inFlight)
<1>0. PICK next : next = [i \in 1 .. n + 2 |-> IF i = n + 2 THEN Len(queue') ELSE place[i]]
  OBVIOUS
<1>1. /\ inFlight \in Seq(Telegrams) /\ n \in Nat /\ queue \in Seq(Byte) /\ Len(queue) \in Nat
      /\ d \in Seq(Byte) /\ Len(d) \in Nat /\ Len(d) < ByteSize
  BY ByteAssumption DEF LInv, IInv, TypeOK, Telegrams
<1>2. frame(d) \in Seq(Byte) /\ Len(frame(d)) = Len(d) + 4
  BY <1>1, FrameBytes
<1>3. /\ queue' \in Seq(Byte)
      /\ Len(queue') = Len(queue) + Len(frame(d))
      /\ \A k \in 1 .. Len(queue) : queue'[k] = queue[k]
      /\ \A k \in 1 .. Len(frame(d)) : queue'[Len(queue) + k] = frame(d)[k]
  <2> DEFINE f == frame(d)
  <2>1. queue \in Seq(Byte) /\ f \in Seq(Byte) /\ queue' = queue \o f
    BY <1>1, <1>2
  <2> HIDE DEF f
  <2>2. /\ queue' \in Seq(Byte)
        /\ Len(queue') = Len(queue) + Len(f)
        /\ \A k \in 1 .. Len(queue) : queue'[k] = queue[k]
        /\ \A k \in 1 .. Len(f) : queue'[Len(queue) + k] = f[k]
    BY <2>1
  <2> QED
    BY <2>2 DEF f
<1>4. /\ Len(inFlight') = n + 1 /\ inFlight'[n + 1] = d
      /\ \A i \in 1 .. n : inFlight'[i] = inFlight[i]
  BY <1>1
<1>5. \A i \in 1 .. n : inFlight[i] \in Telegrams /\ Len(inFlight[i]) \in Nat
  BY <1>1 DEF Telegrams
<1>6. place \in [1 .. n + 1 -> Int] /\ place[n + 1] = Len(queue)
  BY DEF Places
<1> HIDE DEF n
<1>7. next \in [1 .. n + 2 -> Int]
  BY <1>0, <1>1, <1>2, <1>3, <1>6
<1>8. /\ \A i \in 1 .. n + 1 : next[i] = place[i]
      /\ next[n + 2] = Len(queue')
      /\ (n + 1) + 1 = n + 2
  BY <1>0, <1>1
<1>9. \A i \in 1 .. n :
        /\ next[i + 1] = next[i] + Len(inFlight'[i]) + 4
        /\ \A j \in 1 .. Len(inFlight'[i]) + 4 :
              next[i] + j >= 1 =>
                 /\ next[i] + j <= Len(queue')
                 /\ queue'[next[i] + j] = frame(inFlight'[i])[j]
  <2> SUFFICES ASSUME NEW i \in 1 .. n
               PROVE  /\ next[i + 1] = next[i] + Len(inFlight'[i]) + 4
                      /\ \A j \in 1 .. Len(inFlight'[i]) + 4 :
                           next[i] + j >= 1 =>
                              /\ next[i] + j <= Len(queue')
                              /\ queue'[next[i] + j] = frame(inFlight'[i])[j]
    OBVIOUS
  <2>1. i \in 1 .. n + 1 /\ i + 1 \in 1 .. n + 1
    BY <1>1
  <2>2. next[i] = place[i] /\ next[i + 1] = place[i + 1] /\ inFlight'[i] = inFlight[i]
    BY <1>4, <1>8, <2>1
  <2>3. place[i + 1] = place[i] + Len(inFlight[i]) + 4
    BY DEF Places, Lies, n
  <2>4. ASSUME NEW j \in 1 .. Len(inFlight[i]) + 4, place[i] + j >= 1
        PROVE  place[i] + j <= Len(queue') /\ queue'[place[i] + j] = frame(inFlight[i])[j]
    <3>1. place[i] + j <= Len(queue) /\ queue[place[i] + j] = frame(inFlight[i])[j]
      BY <2>4 DEF Places, Lies, n
    <3>2. place[i] \in Int /\ j \in Int
      BY SMTT(20), <1>5, <1>6, <2>1
    <3>3. place[i] + j \in 1 .. Len(queue)
      BY <1>1, <2>4, <3>1, <3>2
    <3> QED
      BY <1>1, <1>2, <1>3, <3>1, <3>3
  <2> QED
    BY <2>2, <2>3, <2>4
<1>10. /\ next[n + 2] = next[n + 1] + Len(d) + 4
       /\ \A j \in 1 .. Len(d) + 4 :
             next[n + 1] + j <= Len(queue') /\ queue'[next[n + 1] + j] = frame(d)[j]
  <2>1. next[n + 1] = Len(queue)
    BY <1>1, <1>6, <1>8
  <2> QED
    BY <1>1, <1>2, <1>3, <1>8, <2>1
<1>11. next[1] + ReadOf(parser) = 0
  <2>1. 1 \in 1 .. n + 1
    BY <1>1
  <2> QED
    BY <1>8, <2>1 DEF Places
<1>12. Places(next)'
  <2>1. \A i \in 1 .. n + 1 :
          /\ next[i + 1] = next[i] + Len(inFlight'[i]) + 4
          /\ \A j \in 1 .. Len(inFlight'[i]) + 4 :
                next[i] + j >= 1 =>
                   /\ next[i] + j <= Len(queue')
                   /\ queue'[next[i] + j] = frame(inFlight'[i])[j]
    <3> SUFFICES ASSUME NEW i \in 1 .. n + 1
                 PROVE  /\ next[i + 1] = next[i] + Len(inFlight'[i]) + 4
                        /\ \A j \in 1 .. Len(inFlight'[i]) + 4 :
                             next[i] + j >= 1 =>
                                /\ next[i] + j <= Len(queue')
                                /\ queue'[next[i] + j] = frame(inFlight'[i])[j]
      OBVIOUS
    <3>1. CASE i \in 1 .. n
      BY <1>9, <3>1
    <3>2. CASE i = n + 1
      BY <1>4, <1>8, <1>10, <3>2
    <3>3. i \in 1 .. n \/ i = n + 1
      BY <1>1
    <3> QED
      BY <3>1, <3>2, <3>3
  <2>2. Len(inFlight') + 1 = n + 2
    BY <1>1, <1>4
  <2>3. ReadOf(parser)' = ReadOf(parser)
    BY DEF ReadOf
  <2> QED
    BY <1>4, <1>7, <1>8, <1>11, <2>1, <2>2, <2>3 DEF Places, Lies
<1> QED
  BY <1>12

\* What is read is the next byte of the oldest telegram's frame.
LEMMA TransferReads ==
    ASSUME LInv, Transfer
    PROVE  /\ inFlight # << >>
           /\ Reading(parser, Head(inFlight)) /\ Head(inFlight) \in Telegrams
           /\ parser' = Parser!readByte(parser, frame(Head(inFlight))[ReadOf(parser) + 1])
<1> DEFINE d == Head(inFlight)
           n == Len(inFlight)
<1>1. /\ queue # << >> /\ queue \in Seq(Byte) /\ Sent = 0 /\ tx_read_pos \in Pos
      /\ inFlight \in Seq(Telegrams)
  BY DEF LInv, IInv, TypeOK, Transfer, Write, Sent
<1>2. 1 \in 1 .. Len(queue) /\ Len(queue) \in Nat /\ Len(queue) # 0
  BY <1>1
<1>3. Plus(tx_read_pos, Sent + 1 - 1) = tx_read_pos
  BY <1>1, FramerAssumption DEF Plus, Pos
<1>4. wire' = queue[1]
  BY <1>2, <1>3 DEF LInv, IInv, RingHoldsQueue, Transfer, Write
<1>5. PICK place : Places(place)
  BY DEF LInv
<1>6. inFlight # << >>
  <2> SUFFICES ASSUME inFlight = << >> PROVE FALSE
    OBVIOUS
  <2>1. Idle(parser) /\ Len(inFlight) = 0
    BY DEF LInv
  <2>2. ReadOf(parser) = 0
    BY <2>1, IdleIsReading
  <2>3. place[1] + 0 = 0 /\ place[0 + 1] = Len(queue)
    BY <1>5, <2>1, <2>2 DEF Places, Lies
  <2> QED
    BY <1>2, <2>3
<1>7. /\ n \in Nat /\ n >= 1 /\ d = inFlight[1] /\ d \in Telegrams
      /\ d \in Seq(Byte) /\ Len(d) \in Nat
  BY <1>1, <1>6 DEF Telegrams
<1>8. Reading(parser, d)
  BY <1>6 DEF LInv
<1>9. ReadOf(parser) \in 0 .. Len(d) + 3
  BY <1>7, <1>8, ReadOfType
<1>10. queue[1] = frame(d)[ReadOf(parser) + 1]
  <2> DEFINE j == ReadOf(parser) + 1
  <2>1. j \in 1 .. Len(d) + 4
    BY <1>7, <1>9
  <2>2. place[1] \in Int /\ place[1] + j = 1
    <3>1. place[1] \in Int
      BY <1>5, <1>7 DEF Places, n
    <3>2. place[1] + ReadOf(parser) = 0
      BY <1>5 DEF Places
    <3> QED
      BY <1>7, <1>9, <3>1, <3>2
  <2> HIDE DEF j
  <2>3. queue[place[1] + j] = frame(inFlight[1])[j]
    <3>1. 1 \in 1 .. Len(inFlight) /\ j \in 1 .. Len(inFlight[1]) + 4
      BY <1>7, <2>1 DEF n
    <3> HIDE DEF d
    <3> QED
      BY <1>5, <2>2, <3>1 DEF Places, Lies
  <2> QED
    BY <1>7, <2>2, <2>3 DEF j
<1> QED
  BY <1>4, <1>6, <1>7, <1>8, <1>10 DEF Transfer

\* A byte that completes no message moves everything one place forward.
LEMMA ByteKeepsPlaces ==
    ASSUME LInv, queue # << >>, queue' = Tail(queue), inFlight # << >>, inFlight' = inFlight,
           ReadOf(parser) \in Nat, ReadOf(parser)' = ReadOf(parser) + 1, NEW place, Places(place)
    PROVE  \E next : Places(next)'
<1> DEFINE n == Len(inFlight)
<1>1. /\ queue \in Seq(Byte) /\ Len(queue) \in Nat /\ Len(queue) >= 1
      /\ inFlight \in Seq(Telegrams) /\ n \in Nat
  BY DEF LInv, IInv, TypeOK
<1>2. Len(queue') = Len(queue) - 1 /\ \A k \in 1 .. Len(queue) - 1 : queue'[k] = queue[k + 1]
  BY <1>1
<1>3. \A i \in 1 .. n : Len(inFlight[i]) \in Nat
  BY <1>1 DEF Telegrams
<1>4. PICK next : next = [i \in 1 .. n + 1 |-> place[i] - 1]
  OBVIOUS
<1>5. place \in [1 .. n + 1 -> Int]
  BY DEF Places
<1> HIDE DEF n
<1>6. next \in [1 .. n + 1 -> Int] /\ \A i \in 1 .. n + 1 : next[i] = place[i] - 1
  BY <1>4, <1>5
<1>7. next[n + 1] = Len(queue')
  <2>1. place[n + 1] = Len(queue)
    BY DEF Places, n
  <2> QED
    BY <1>1, <1>2, <1>6, <2>1
<1>8. next[1] + ReadOf(parser)' = 0
  <2>1. place[1] + ReadOf(parser) = 0 /\ place[1] \in Int /\ next[1] = place[1] - 1
    BY <1>1, <1>5, <1>6 DEF Places
  <2> QED
    BY <2>1
<1>9. \A i \in 1 .. n :
        /\ next[i + 1] = next[i] + Len(inFlight[i]) + 4
        /\ \A j \in 1 .. Len(inFlight[i]) + 4 :
              next[i] + j >= 1 =>
                 /\ next[i] + j <= Len(queue')
                 /\ queue'[next[i] + j] = frame(inFlight[i])[j]
  <2> SUFFICES ASSUME NEW i \in 1 .. n
               PROVE  /\ next[i + 1] = next[i] + Len(inFlight[i]) + 4
                      /\ \A j \in 1 .. Len(inFlight[i]) + 4 :
                           next[i] + j >= 1 =>
                              /\ next[i] + j <= Len(queue')
                              /\ queue'[next[i] + j] = frame(inFlight[i])[j]
    OBVIOUS
  <2>1. i \in 1 .. n + 1 /\ i + 1 \in 1 .. n + 1
    BY <1>1
  <2>2. /\ next[i] = place[i] - 1 /\ next[i + 1] = place[i + 1] - 1
        /\ place[i] \in Int /\ place[i + 1] \in Int /\ Len(inFlight[i]) \in Nat
        /\ next[i] \in Int /\ next[i + 1] \in Int
    BY <1>3, <1>5, <1>6, <2>1
  <2>3. place[i + 1] = place[i] + Len(inFlight[i]) + 4
    BY DEF Places, Lies, n
  <2>4. ASSUME NEW j \in 1 .. Len(inFlight[i]) + 4, next[i] + j >= 1
        PROVE  next[i] + j <= Len(queue') /\ queue'[next[i] + j] = frame(inFlight[i])[j]
    <3>1. place[i] + j >= 1 /\ j \in Int
      BY <2>2, <2>4
    <3>2. place[i] + j <= Len(queue) /\ queue[place[i] + j] = frame(inFlight[i])[j]
      BY <3>1 DEF Places, Lies, n
    <3>3. PICK p \in Int : p = place[i]
      BY <2>2
    <3>4. PICK k \in Int : k = next[i] + j
      <4>1. PICK s \in Int : s = next[i]
        BY <2>2
      <4>2. s + j \in Int
        BY <3>1
      <4> QED
        BY <4>1, <4>2
    <3>5. k = (p - 1) + j
      BY <2>2, <3>3, <3>4
    <3>6. k + 1 = p + j
      BY <3>1, <3>5
    <3>7. k \in 1 .. Len(queue) - 1
      <4>1. p + j <= Len(queue) /\ k >= 1
        BY <2>4, <3>2, <3>3, <3>4
      <4> QED
        BY <1>1, <3>6, <4>1
    <3>8. queue[k + 1] = frame(inFlight[i])[j]
      BY <3>2, <3>3, <3>6
    <3>9. k <= Len(queue') /\ queue'[k] = frame(inFlight[i])[j]
      BY <1>1, <1>2, <3>7, <3>8
    <3> QED
      BY <3>4, <3>9
  <2>5. next[i + 1] = next[i] + Len(inFlight[i]) + 4
    <3>1. PICK p \in Int, q \in Int, l \in Nat :
            p = place[i] /\ q = place[i + 1] /\ l = Len(inFlight[i])
      BY <2>2
    <3>2. next[i] = p - 1 /\ next[i + 1] = q - 1 /\ q = p + l + 4
      BY <2>2, <2>3, <3>1
    <3>3. q - 1 = (p - 1) + l + 4
      BY <3>2
    <3> QED
      BY <3>1, <3>2, <3>3
  <2> QED
    BY <2>4, <2>5
<1>10. Places(next)'
  BY <1>6, <1>7, <1>8, <1>9 DEF Places, Lies, n
<1> QED
  BY <1>10

\* The last byte of a frame moves everything one place forward, and what was
\* the second telegram is now the oldest.
LEMMA MessageKeepsPlaces ==
    ASSUME LInv, queue # << >>, queue' = Tail(queue), inFlight # << >>, inFlight' = Tail(inFlight),
           ReadOf(parser) = Len(Head(inFlight)) + 3, ReadOf(parser)' = 0, NEW place, Places(place)
    PROVE  \E next : Places(next)'
<1> DEFINE n == Len(inFlight)
<1>1. /\ queue \in Seq(Byte) /\ Len(queue) \in Nat /\ Len(queue) >= 1
      /\ inFlight \in Seq(Telegrams) /\ n \in Nat /\ n >= 1
  BY DEF LInv, IInv, TypeOK
<1>2. Len(queue') = Len(queue) - 1 /\ \A k \in 1 .. Len(queue) - 1 : queue'[k] = queue[k + 1]
  BY <1>1
<1>3. \A i \in 1 .. n : Len(inFlight[i]) \in Nat
  BY <1>1 DEF Telegrams
<1>4. Len(inFlight') = n - 1 /\ \A i \in 1 .. n - 1 : inFlight'[i] = inFlight[i + 1]
  BY <1>1
<1>5. Head(inFlight) = inFlight[1]
  BY <1>1
<1>6. PICK next : next = [i \in 1 .. n |-> place[i + 1] - 1]
  OBVIOUS
<1>7. place \in [1 .. n + 1 -> Int]
  BY DEF Places
<1> HIDE DEF n
<1>8. next \in [1 .. n -> Int] /\ \A i \in 1 .. n : next[i] = place[i + 1] - 1
  BY <1>1, <1>6, <1>7
<1>9. next[n] = Len(queue')
  <2>1. place[n + 1] = Len(queue)
    BY DEF Places, n
  <2> QED
    BY <1>1, <1>2, <1>8, <2>1
<1>10. next[1] + ReadOf(parser)' = 0
  <2>1. place[1] + ReadOf(parser) = 0 /\ place[1] \in Int
    BY <1>1, <1>7 DEF Places
  <2>2. place[1 + 1] = place[1] + Len(inFlight[1]) + 4
    BY <1>1 DEF Places, Lies, n
  <2>3. Len(inFlight[1]) \in Nat /\ next[1] = place[1 + 1] - 1
    BY <1>1, <1>3, <1>8
  <2> QED
    BY <1>5, <2>1, <2>2, <2>3
<1>11. Lies(next)'
  <2> SUFFICES ASSUME NEW i \in 1 .. Len(inFlight')
               PROVE  /\ next[i + 1] = next[i] + Len(inFlight'[i]) + 4
                      /\ \A j \in 1 .. Len(inFlight'[i]) + 4 :
                           next[i] + j >= 1 =>
                              /\ next[i] + j <= Len(queue')
                              /\ queue'[next[i] + j] = frame(inFlight'[i])[j]
    BY DEF Lies
  <2> DEFINE m == i + 1
  <2>1. /\ i \in 1 .. n /\ m \in 1 .. n /\ m \in 1 .. n + 1 /\ m + 1 \in 1 .. n + 1
    BY <1>1, <1>4
  <2>2. inFlight'[i] = inFlight[m]
    <3>1. i \in 1 .. n - 1
      BY <1>4
    <3> QED
      BY <1>4, <3>1
  <2>3. /\ next[i] = place[m] - 1 /\ next[m] = place[m + 1] - 1
        /\ place[m] \in Int /\ place[m + 1] \in Int /\ Len(inFlight[m]) \in Nat
        /\ next[i] \in Int /\ next[m] \in Int
    BY <1>3, <1>7, <1>8, <2>1
  <2> HIDE DEF m
  <2>4. place[m + 1] = place[m] + Len(inFlight[m]) + 4
    BY <2>1 DEF Places, Lies, n
  <2>5. ASSUME NEW j \in 1 .. Len(inFlight[m]) + 4, next[i] + j >= 1
        PROVE  next[i] + j <= Len(queue') /\ queue'[next[i] + j] = frame(inFlight[m])[j]
    <3>1. place[m] + j >= 1 /\ j \in Int
      BY <2>3, <2>5
    <3>2. place[m] + j <= Len(queue) /\ queue[place[m] + j] = frame(inFlight[m])[j]
      BY <2>1, <3>1 DEF Places, Lies, n
    <3> DEFINE k == next[i] + j
    <3>3. k \in Int /\ k + 1 = place[m] + j
      <4>1. PICK p \in Int : p = place[m]
        BY <2>3
      <4>2. k = (p - 1) + j
        <5>1. next[i] = p - 1
          BY <2>3, <4>1
        <5> QED
          BY <5>1
      <4>3. k \in Int /\ k + 1 = p + j
        BY <3>1, <4>2
      <4> QED
        BY <4>1, <4>3
    <3>4. k >= 1
      BY <2>5
    <3> HIDE DEF k
    <3>5. k \in 1 .. Len(queue) - 1
      BY <1>1, <3>2, <3>3, <3>4
    <3>6. k <= Len(queue') /\ queue'[k] = frame(inFlight[m])[j]
      BY <1>1, <1>2, <3>2, <3>3, <3>5
    <3> QED
      BY <3>6 DEF k
  <2>6. next[i + 1] = next[i] + Len(inFlight[m]) + 4
    <3>1. PICK p \in Int, q \in Int, l \in Nat :
            p = place[m] /\ q = place[m + 1] /\ l = Len(inFlight[m])
      BY <2>3
    <3>2. next[i] = p - 1 /\ next[m] = q - 1 /\ q = p + l + 4
      BY <2>3, <2>4, <3>1
    <3>3. q - 1 = (p - 1) + l + 4
      BY <3>2
    <3>4. next[m] = next[i] + Len(inFlight[m]) + 4
      BY <3>1, <3>2, <3>3
    <3> QED
      BY <3>4 DEF m
  <2> QED
    BY <2>2, <2>5, <2>6
<1>12. Places(next)'
  <2>1. Len(inFlight') + 1 = n /\ Len(inFlight') = n - 1
    BY <1>1, <1>4
  <2>2. next \in [1 .. Len(inFlight') + 1 -> Int] /\ next[Len(inFlight') + 1] = Len(queue')
    BY <1>8, <1>9, <2>1
  <2> QED
    BY <1>10, <1>11, <2>2 DEF Places
<1> QED
  BY <1>12

LEMMA LinkIsFramer == LinkNext => Next
BY DEF LinkNext, Telegram, Transfer, Internal, Next, MainLoop

LEMMA TelegramKeepsLInv ==
    ASSUME LInv, Telegram
    PROVE  LInv'
<1>1. IInv'
  BY NextKeepsIInv DEF LInv, Telegram, Next
<1>2. PICK place : Places(place)
  BY DEF LInv
<1>3. CASE Accepted
  <2> DEFINE d == Payload
  <2>1. d \in Seq(Byte) /\ Len(d) \in 1 .. RecvBufSize - 1
    BY <1>3, PayloadType DEF LInv, IInv, Accepted
  <2>2. d \in Telegrams
    <3>1. RecvBufSize \in Nat /\ ByteSize \in Nat /\ RecvBufSize <= ByteSize
      BY FramerAssumption, ByteAssumption
    <3> HIDE DEF d
    <3>2. Len(d) \in 1 .. ByteSize - 1
      BY <2>1, <3>1
    <3> QED
      BY <2>1, <3>2 DEF Telegrams
  <2>3. queue' = queue \o frame(d) /\ inFlight' = Append(inFlight, d) /\ parser' = parser
    BY <1>3 DEF Telegram, RecvEnd
  <2> HIDE DEF d
  <2>4. \E next : Places(next)'
    BY <1>2, <2>2, <2>3, AcceptKeepsPlaces
  <2>5. inFlight \in Seq(Telegrams)
    BY DEF LInv
  <2>6. inFlight' \in Seq(Telegrams) /\ inFlight' # << >>
        /\ Head(inFlight') = IF inFlight = << >> THEN d ELSE Head(inFlight)
    BY <2>2, <2>3, <2>5
  <2>7. Reading(parser, Head(inFlight'))
    BY <2>6, IdleIsReading DEF LInv
  <2>8. (IF inFlight = << >> THEN Idle(parser) ELSE Reading(parser, Head(inFlight)))'
    BY <2>3, <2>6, <2>7
  <2> QED
    BY <1>1, <2>4, <2>6, <2>8 DEF LInv
<1>4. CASE ~Accepted
  <2>1. UNCHANGED <<queue, inFlight, parser>>
    BY <1>4 DEF Telegram, RecvEnd
  <2>2. Places(place)'
    BY <1>2, <2>1 DEF Places, Lies, ReadOf
  <2> QED
    BY <1>1, <2>1, <2>2 DEF LInv
<1> QED
  BY <1>3, <1>4

\* A byte read keeps the link's invariant, and makes a message only of the
\* oldest telegram.
LEMMA TransferKeepsLInv ==
    ASSUME LInv, Transfer
    PROVE  LInv' /\ (parser'.out # << >> => inFlight # << >> /\ parser'.out = <<Head(inFlight)>>)
<1> DEFINE d == Head(inFlight)
<1>1. IInv'
  BY NextKeepsIInv DEF LInv, Transfer, Next, MainLoop
<1>2. PICK place : Places(place)
  BY DEF LInv
<1>3. /\ inFlight # << >> /\ Reading(parser, d) /\ d \in Telegrams
      /\ parser' = Parser!readByte(parser, frame(d)[ReadOf(parser) + 1])
  BY TransferReads
<1>4. inFlight \in Seq(Telegrams) /\ queue # << >> /\ queue' = Tail(queue)
  BY DEF LInv, IInv, Transfer, Write
<1>5. inFlight' = IF parser'.out = << >> THEN inFlight ELSE Tail(inFlight)
  BY <1>3 DEF Transfer
<1>6. IF ReadOf(parser) = Len(d) + 3
      THEN parser'.out = <<d>> /\ Idle(parser')
      ELSE parser'.out = << >> /\ Reading(parser', d) /\ ReadOf(parser') = ReadOf(parser) + 1
  <2> HIDE DEF d
  <2> QED
    BY <1>3, ReadsOn
<1>7. ReadOf(parser)' = ReadOf(parser')
  BY DEF ReadOf
<1>8. CASE ReadOf(parser) = Len(d) + 3
  <2>1. parser'.out = <<d>> /\ Idle(parser') /\ inFlight' = Tail(inFlight)
    <3>1. <<d>> # << >>
      OBVIOUS
    <3> HIDE DEF d
    <3> QED
      BY <1>5, <1>6, <1>8, <3>1, Zenon
  <2>2. ReadOf(parser)' = 0
    BY <1>7, <2>1, IdleIsReading
  <2>3. \E next : Places(next)'
    BY <1>2, <1>3, <1>4, <1>8, <2>1, <2>2, MessageKeepsPlaces
  <2>4. inFlight' \in Seq(Telegrams)
    BY <1>3, <1>4, <2>1
  <2>5. (IF inFlight = << >> THEN Idle(parser) ELSE Reading(parser, Head(inFlight)))'
    BY <2>1, IdleIsReading
  <2> QED
    BY <1>1, <1>3, <2>1, <2>3, <2>4, <2>5 DEF LInv
<1>9. CASE ReadOf(parser) # Len(d) + 3
  <2>1. /\ parser'.out = << >> /\ Reading(parser', d) /\ inFlight' = inFlight
        /\ ReadOf(parser') = ReadOf(parser) + 1
    BY <1>5, <1>6, <1>9
  <2>2. ReadOf(parser) \in Nat
    <3> HIDE DEF d
    <3>1. ReadOf(parser) \in 0 .. Len(d) + 3
      BY <1>3, ReadOfType
    <3> QED
      BY <3>1
  <2>3. \E next : Places(next)'
    BY <1>2, <1>3, <1>4, <1>7, <2>1, <2>2, ByteKeepsPlaces
  <2>4. (IF inFlight = << >> THEN Idle(parser) ELSE Reading(parser, Head(inFlight)))'
    BY <1>3, <2>1
  <2> QED
    BY <1>1, <1>4, <2>1, <2>3, <2>4 DEF LInv
<1> QED
  BY <1>8, <1>9

LEMMA LinkKeepsLInv == LInv /\ [LinkNext]_linkVars => LInv'
<1> SUFFICES ASSUME LInv, [LinkNext]_linkVars PROVE LInv'
  OBVIOUS
<1>1. CASE Telegram
  BY <1>1, TelegramKeepsLInv
<1>2. CASE Transfer
  BY <1>2, TransferKeepsLInv
<1>3. CASE Internal \/ UNCHANGED linkVars
  <2>1. UNCHANGED <<queue, inFlight, parser>>
    BY <1>3 DEF Internal, RecvByte, CheckData, AdvanceRead, linkVars, vars
  <2>2. IInv'
    <3>1. [Next]_vars
      BY <1>3, LinkIsFramer DEF LinkNext, linkVars
    <3> QED
      BY <3>1, NextKeepsIInv DEF LInv
  <2>3. PICK place : Places(place)
    BY DEF LInv
  <2>4. Places(place)'
    BY <2>1, <2>3 DEF Places, Lies, ReadOf
  <2> QED
    BY <2>1, <2>2, <2>4 DEF LInv
<1> QED
  BY <1>1, <1>2, <1>3 DEF LinkNext

\* When the framer has sent all it had, nothing is left half-way: the last byte
\* of the oldest telegram's frame is not read, so it must still be queued.
LEMMA NothingLeft == LInv => NothingLeftBehind
<1> SUFFICES ASSUME LInv, queue = << >>
             PROVE  inFlight = << >> /\ parser.state = "Syncing" /\ parser.pos = 0
  BY DEF NothingLeftBehind
<1>1. inFlight = << >>
  <2> SUFFICES ASSUME inFlight # << >> PROVE FALSE
    OBVIOUS
  <2> DEFINE d == Head(inFlight)
  <2>1. inFlight \in Seq(Telegrams) /\ Reading(parser, d)
    BY DEF LInv
  <2>2. /\ Len(inFlight) \in Nat /\ Len(inFlight) >= 1 /\ d = inFlight[1] /\ d \in Telegrams
        /\ d \in Seq(Byte) /\ Len(d) \in Nat
    BY <2>1 DEF Telegrams
  <2>3. ReadOf(parser) \in 0 .. Len(d) + 3
    <3> HIDE DEF d
    <3> QED
      BY <2>1, <2>2, ReadOfType
  <2>4. PICK place : Places(place)
    BY DEF LInv
  <2>5. place[1] \in Int /\ place[1] + ReadOf(parser) = 0
    BY <2>2, <2>4 DEF Places, Lies
  <2>6. 1 \in 1 .. Len(inFlight) /\ Len(d) + 4 \in 1 .. Len(d) + 4
    BY <2>2
  <2>7. place[1] + (Len(d) + 4) >= 1
    BY <2>2, <2>3, <2>5
  <2>8. place[1] + (Len(d) + 4) <= Len(queue)
    <3> HIDE DEF d
    <3>1. Len(d) + 4 \in 1 .. Len(inFlight[1]) + 4
      BY <2>2, <2>6
    <3> QED
      BY <2>4, <2>6, <2>7, <3>1 DEF Places, Lies
  <2>9. Len(queue) = 0
    OBVIOUS
  <2> QED
    BY <2>2, <2>5, <2>7, <2>8, <2>9
<1> QED
  BY <1>1 DEF LInv, Idle

\* Whatever telegrams arrive at whichever moments, when the framer has sent all
\* it had the parser has completed its last frame: a frame never ends up short
\* in the ring, nor does the parser miss the beginning of one.
THEOREM LinkLeavesNothing == LinkSpec => []NothingLeftBehind
<1>1. QED
  BY InitLInv, LinkKeepsLInv, NothingLeft, PTL DEF LinkSpec

\* The messages the collector makes are the telegrams the framer accepted, one
\* for one and in order, for every content of them, sync bytes included.
THEOREM LinkDeliversInOrder == LinkSpec => DeliveredInOrder
<1>1. LInv /\ [LinkNext]_linkVars =>
        [parser'.out # << >> => inFlight # << >> /\ parser'.out = <<Head(inFlight)>>]_parser
  <2> SUFFICES ASSUME LInv, [LinkNext]_linkVars
               PROVE  [parser'.out # << >> =>
                         inFlight # << >> /\ parser'.out = <<Head(inFlight)>>]_parser
    OBVIOUS
  <2>1. CASE Transfer
    BY <2>1, TransferKeepsLInv
  <2>2. CASE ~Transfer
    BY <2>2 DEF LinkNext, Telegram, Internal, linkVars
  <2> QED
    BY <2>1, <2>2
<1>2. QED
  BY <1>1, InitLInv, LinkKeepsLInv, PTL DEF LinkSpec, DeliveredInOrder

\* The framer's own invariants hold on the link, which only adds a reader.
THEOREM LinkKeepsFramer == LinkSpec => [](TypeOK /\ RingHoldsQueue)
<1>1. LInv => TypeOK /\ RingHoldsQueue
  BY DEF LInv, IInv
<1>2. QED
  BY <1>1, InitLInv, LinkKeepsLInv, PTL DEF LinkSpec
=============================================================================
