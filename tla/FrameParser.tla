----------------------------- MODULE FrameParser -----------------------------
(***************************************************************************)
(* The byte-wise frame parser of IoHandler::readComplete                   *)
(* (collector/IoHandler.cpp).  The bytes of one readComplete call are      *)
(* handled one by one and the state survives from call to call, so a step  *)
(* is one byte.                                                            *)
(***************************************************************************)
EXTENDS FrameFormat

Messages == Seq(Seq(Byte))

ParserType ==
    [state : {"Syncing", "Length", "Data", "Checksum"},   \* m_state
     pos : Nat, length : Byte, checkSum : Byte,           \* m_pos, m_length, m_checkSum
     data : Seq(Byte),                                    \* m_data
     out : Messages]         \* the messages the last byte made an EmsMessage of

NewParser ==
    [state |-> "Syncing", pos |-> 0, length |-> 0, checkSum |-> 0,
     data |-> << >>, out |-> << >>]

\* Mutant: a byte other than 0xaa and 0x55 does not abort the synchronisation.
SyncingLoose(p, b) ==
    IF p.pos = 0 /\ b = Sync1 THEN [p EXCEPT !.pos = 1, !.out = << >>]
    ELSE IF p.pos = 1 /\ b = Sync2 THEN [p EXCEPT !.state = "Length", !.pos = 0, !.out = << >>]
    ELSE [p EXCEPT !.out = << >>]

Syncing(p, b) ==
    IF p.pos = 0 /\ b = Sync1 THEN [p EXCEPT !.pos = 1, !.out = << >>]
    ELSE IF p.pos = 1 /\ b = Sync2 THEN [p EXCEPT !.state = "Length", !.pos = 0, !.out = << >>]
    ELSE [p EXCEPT !.pos = 0, !.out = << >>]

Length(p, b) ==
    [p EXCEPT !.state = "Data", !.pos = 0, !.length = b, !.checkSum = 0, !.out = << >>]

\* Mutant: the bytes are added up.
DataSum(p, b) ==
    [p EXCEPT !.data = Append(p.data, b), !.checkSum = p.checkSum + b, !.pos = p.pos + 1,
              !.state = IF p.pos + 1 = p.length THEN "Checksum" ELSE "Data", !.out = << >>]

\* Mutant: the bytes are inserted at the front.
DataInFront(p, b) ==
    [p EXCEPT !.data = <<b>> \o p.data, !.checkSum = Xor(p.checkSum, b), !.pos = p.pos + 1,
              !.state = IF p.pos + 1 = p.length THEN "Checksum" ELSE "Data", !.out = << >>]

Data(p, b) ==
    [p EXCEPT !.data = Append(p.data, b), !.checkSum = Xor(p.checkSum, b),
              !.pos = p.pos + 1,
              !.state = IF p.pos + 1 = p.length THEN "Checksum" ELSE "Data",
              !.out = << >>]

\* Mutant: the data is kept when the checksum is wrong.
ChecksumKeeps(p, b) ==
    [p EXCEPT !.out = IF p.checkSum = b THEN <<p.data>> ELSE << >>,
              !.data = IF p.checkSum = b THEN << >> ELSE p.data,
              !.state = "Syncing", !.pos = 0]

Checksum(p, b) ==
    [p EXCEPT !.out = IF p.checkSum = b THEN <<p.data>> ELSE << >>,
              !.data = << >>, !.state = "Syncing", !.pos = 0]

readByte(p, b) ==
    IF p.state = "Syncing" THEN Syncing(p, b)
    ELSE IF p.state = "Length" THEN Length(p, b)
    ELSE IF p.state = "Data" THEN Data(p, b)
    ELSE Checksum(p, b)

-----------------------------------------------------------------------------
(* The parser fed with any bytes whatever: noise, and frames cut short or   *)
(* run together.                                                            *)

CONSTANT MaxData   \* bound on the bytes collected in m_data

ASSUME MaxDataAssumption == MaxData \in Nat

VARIABLES
    parser,
    recent     \* the last ByteSize + 3 bytes read, as many as a frame can have

vars == <<parser, recent>>

Last(q, n) == SubSeq(q, IF Len(q) > n THEN Len(q) - n + 1 ELSE 1, Len(q))

Init == parser = NewParser /\ recent = << >>

ReadByte ==
    \E b \in Byte :
        /\ Len(parser.data) < MaxData
        /\ parser' = readByte(parser, b)
        /\ recent' = Last(Append(recent, b), ByteSize + 3)

\* The connection is lost: doClose() ends the io_service, and main() makes a
\* new IoHandler.  The bytes of a new connection follow no earlier ones.
Reopen == parser' = NewParser /\ recent' = << >>

Next == ReadByte \/ Reopen

Spec == Init /\ [][Next]_vars

-----------------------------------------------------------------------------
(* Properties *)

\* Every member keeps the type its declaration gives it.
TypeOK == parser \in ParserType

\* m_data holds exactly the data bytes of the frame being read: none before
\* the length, m_pos of them while they arrive, as many as announced when the
\* checksum is due.  A frame that is aborted must leave nothing behind.
DataMatchesFrame ==
    /\ parser.state \in {"Syncing", "Length"} => parser.data = << >>
    /\ parser.state = "Syncing" => parser.pos \in {0, 1}
    /\ parser.state = "Data" => /\ Len(parser.data) = parser.pos
                                /\ parser.length # 0 => parser.pos < parser.length
    /\ parser.state = "Checksum" => Len(parser.data) = parser.length

\* A message is made of exactly the bytes of a well-formed frame: the last
\* bytes read are the two sync bytes, its length, its data and its checksum.
MessageWasFramed ==
    \A i \in DOMAIN parser.out :
        LET d == parser.out[i] IN Last(recent, Len(d) + 4) = frame(d)
=============================================================================
