------------------------------- MODULE Framer --------------------------------
(***************************************************************************)
(* The firmware of the bus adapter (framer/main.c).  The receive interrupt *)
(* collects the bytes of a bus telegram and, at its end, puts a frame into *)
(* a ring buffer; the main loop sends the ring buffer's bytes one by one.  *)
(* An interrupt handler runs with interrupts disabled, so it is one step;  *)
(* it may come between any two steps of the main loop, which are atomic    *)
(* between cli() and sei() only.                                           *)
(***************************************************************************)
EXTENDS FrameFormat

CONSTANTS
    RecvBufSize,      \* RECV_BUF_SIZE
    TransmitBufSize,  \* TRANSMIT_BUF_SIZE
    Poly,             \* the constant 0xc of calc_checksum
    BusByte           \* the bytes that appear on the bus

\* No sum of the uint8_t variables below exceeds 255.
ASSUME FramerAssumption ==
    /\ RecvBufSize \in 2 .. 250
    /\ RecvBufSize <= ByteSize
    /\ TransmitBufSize \in 2 .. 255
    /\ Poly \in Byte
    /\ BusByte \subseteq Byte

VARIABLES
    recv_buffer,   \* the first recv_pos bytes of recv_buffer
    recv_valid,
    tx_buffer, tx_write_pos, tx_read_pos,
    pc,            \* where the main loop is: "check", "write" or "advance"
    wire,          \* the byte last written to UDR, -1 at first
    queue          \* the bytes of accepted frames not yet written to UDR

recvVars == <<recv_buffer, recv_valid>>
txVars == <<tx_buffer, tx_write_pos>>
vars == <<recvVars, txVars, tx_read_pos, pc, wire, queue>>

Pos == 0 .. TransmitBufSize - 1

\* Mutant: the position wraps one byte too late.
PlusLate(p, n) == IF p + n > TransmitBufSize THEN p + n - TransmitBufSize ELSE p + n

\* A position n further on in the ring, for n up to the size of the ring.
Plus(p, n) == IF p + n >= TransmitBufSize THEN p + n - TransmitBufSize ELSE p + n

\* How far position k is behind position p in the ring.
Offset(p, k) == IF k >= p THEN k - p ELSE k + TransmitBufSize - p

Init ==
    /\ recv_buffer = << >> /\ recv_valid = FALSE
    /\ tx_buffer = [k \in Pos |-> 0] /\ tx_write_pos = 0 /\ tx_read_pos = 0
    /\ pc = "check" /\ wire = -1 /\ queue = << >>

\* Rotation to the left, with Poly mixed in when the top bit is set.
crcStep(crc, b) ==
    Xor(IF 2 * crc >= ByteSize THEN ((2 * Xor(crc, Poly)) % ByteSize) + 1 ELSE 2 * crc, b)

calc_checksum(d) ==
    LET crc[i \in 0 .. Len(d)] == IF i = 0 THEN 0 ELSE crcStep(crc[i - 1], d[i])
    IN  crc[Len(d)]

\* Mutant: a frame may fill the ring.
enough_tx_space_full(needed) ==
    LET space == IF tx_write_pos >= tx_read_pos
                 THEN TransmitBufSize - (tx_write_pos - tx_read_pos)
                 ELSE tx_read_pos - tx_write_pos
    IN  space >= needed + 4

enough_tx_space(needed) ==
    LET space == IF tx_write_pos >= tx_read_pos
                 THEN TransmitBufSize - (tx_write_pos - tx_read_pos)
                 ELSE tx_read_pos - tx_write_pos
    IN  space >= needed + 5

\* Mutant: the checksum is left out.
copy_to_tx_buffer_short(f) ==
    /\ tx_buffer' = [k \in Pos |->
           IF Offset(tx_write_pos, k) < Len(f) - 1
           THEN f[Offset(tx_write_pos, k) + 1] ELSE tx_buffer[k]]
    /\ tx_write_pos' = Plus(tx_write_pos, Len(f))

\* copy_to_tx_buffer() for each byte of f.
copy_to_tx_buffer(f) ==
    /\ tx_buffer' = [k \in Pos |->
           IF Offset(tx_write_pos, k) < Len(f)
           THEN f[Offset(tx_write_pos, k) + 1] ELSE tx_buffer[k]]
    /\ tx_write_pos' = Plus(tx_write_pos, Len(f))

-----------------------------------------------------------------------------
(* The receive interrupt *)

\* A byte within a telegram.
RecvByte(b) ==
    /\ recv_buffer' = IF recv_valid /\ Len(recv_buffer) < RecvBufSize
                      THEN Append(recv_buffer, b) ELSE recv_buffer
    /\ UNCHANGED <<recv_valid, txVars, tx_read_pos, pc, wire, queue>>

Payload == SubSeq(recv_buffer, 1, Len(recv_buffer) - 1)

\* Mutant: a telegram of one byte is not ignored.
AcceptedEmpty ==
    /\ recv_valid
    /\ Len(recv_buffer) > 0
    /\ calc_checksum(Payload) = recv_buffer[Len(recv_buffer)]
    /\ enough_tx_space(Len(Payload))

Accepted ==
    /\ recv_valid
    /\ Len(recv_buffer) > 1
    /\ calc_checksum(Payload) = recv_buffer[Len(recv_buffer)]
    /\ enough_tx_space(Len(Payload))

\* A byte with a frame error: the end of a telegram.
RecvEnd ==
    /\ IF Accepted
       THEN copy_to_tx_buffer(frame(Payload)) /\ queue' = queue \o frame(Payload)
       ELSE UNCHANGED <<txVars, queue>>
    /\ recv_buffer' = << >>
    /\ recv_valid' = TRUE
    /\ UNCHANGED <<tx_read_pos, pc, wire>>

-----------------------------------------------------------------------------
(* The main loop *)

\* has_data
CheckData ==
    /\ pc = "check"
    /\ tx_write_pos # tx_read_pos
    /\ pc' = "write"
    /\ UNCHANGED <<recvVars, txVars, tx_read_pos, wire, queue>>

\* uart_write(): the ring is read outside the protected section.
Write ==
    /\ pc = "write"
    /\ wire' = tx_buffer[tx_read_pos]
    /\ queue' = Tail(queue)
    /\ pc' = "advance"
    /\ UNCHANGED <<recvVars, txVars, tx_read_pos>>

AdvanceRead ==
    /\ pc = "advance"
    /\ tx_read_pos' = Plus(tx_read_pos, 1)
    /\ pc' = "check"
    /\ UNCHANGED <<recvVars, txVars, wire, queue>>

MainLoop == CheckData \/ Write \/ AdvanceRead

Next == (\E b \in BusByte : RecvByte(b)) \/ RecvEnd \/ MainLoop

\* The main loop goes on between the interrupts.
Spec == Init /\ [][Next]_vars /\ WF_vars(MainLoop)

-----------------------------------------------------------------------------
(* Properties *)

\* Every variable of the firmware keeps its type, the positions their range.
TypeOK ==
    /\ recv_buffer \in Seq(Byte) /\ Len(recv_buffer) <= RecvBufSize
    /\ recv_valid \in BOOLEAN
    /\ tx_buffer \in [Pos -> Byte]
    /\ tx_write_pos \in Pos /\ tx_read_pos \in Pos
    /\ pc \in {"check", "write", "advance"}
    /\ wire \in Byte \cup {-1}
    /\ queue \in Seq(Byte)

\* The byte at tx_read_pos is out already while the main loop has still to
\* advance the position.
Sent == IF pc = "advance" THEN 1 ELSE 0

\* The ring holds exactly the bytes accepted and not yet sent, in order, and
\* is never full: the positions are equal only when nothing is left, so a full
\* ring is never taken for an empty one.  It hangs on enough_tx_space asking
\* for one byte more than a frame has.
RingHoldsQueue ==
    /\ Offset(tx_read_pos, tx_write_pos) = Len(queue) + Sent
    /\ \A i \in 1 .. Len(queue) : tx_buffer[Plus(tx_read_pos, Sent + i - 1)] = queue[i]

\* The ring and the main loop implement a queue that loses nothing and never
\* stops while there is something to send.
Queue == INSTANCE FrameQueue WITH
    MaxPayload <- RecvBufSize - 1, Capacity <- TransmitBufSize - 1
ImplementsQueue == Queue!QSpec
=============================================================================
