-------------------------- MODULE FrameParserProofs --------------------------
(***************************************************************************)
(* Proofs about the frame parser, for any byte size and any amount of      *)
(* data: its members are consistent with one another, and with the bytes   *)
(* it has read.                                                            *)
(***************************************************************************)
EXTENDS FrameParser, FrameFormatProofs

IInv == TypeOK /\ DataMatchesFrame

LEMMA OutTypes == << >> \in Messages /\ \A d \in Seq(Byte) : <<d>> \in Messages
BY DEF Messages

LEMMA InitIInv == Init => IInv
BY OutTypes, ByteAssumption DEF Init, IInv, TypeOK, DataMatchesFrame, ParserType, NewParser, Byte

\* Each state's handling of a byte keeps the members' types.
LEMMA ByteKeepsType ==
    ASSUME NEW p \in ParserType, NEW b \in Byte
    PROVE  readByte(p, b) \in ParserType
<1>1. Syncing(p, b) \in ParserType
  BY OutTypes DEF Syncing, ParserType
<1>2. Length(p, b) \in ParserType
  <2>1. 0 \in Byte /\ << >> \in Messages
    BY OutTypes, ByteAssumption DEF Byte
  <2>2. QED
    BY <2>1 DEF Length, ParserType
<1>3. Data(p, b) \in ParserType
  <2>1. Xor(p.checkSum, b) \in Byte
    BY ByteAssumption DEF ParserType
  <2>2. Append(p.data, b) \in Seq(Byte) /\ p.pos + 1 \in Nat /\ << >> \in Messages
    BY OutTypes DEF ParserType
  <2>3. (IF p.pos + 1 = p.length THEN "Checksum" ELSE "Data") \in {"Checksum", "Data"}
    OBVIOUS
  <2>4. QED
    BY <2>1, <2>2, <2>3 DEF Data, ParserType
<1>4. Checksum(p, b) \in ParserType
  <2>1. (IF p.checkSum = b THEN <<p.data>> ELSE << >>) \in Messages
    BY OutTypes DEF ParserType
  <2>2. << >> \in Seq(Byte)
    OBVIOUS
  <2>3. \A o \in Messages : [p EXCEPT !.out = o, !.data = << >>, !.state = "Syncing", !.pos = 0] \in ParserType
    BY <2>2 DEF ParserType
  <2>4. QED
    BY <2>1, <2>3 DEF Checksum
<1>5. QED
  BY <1>1, <1>2, <1>3, <1>4 DEF readByte

\* One byte, whatever it is, keeps the parser's members consistent.
LEMMA ByteKeepsIInv ==
    ASSUME IInv, NEW b \in Byte, parser' = readByte(parser, b)
    PROVE  IInv'
<1>1. TypeOK'
  BY ByteKeepsType DEF IInv, TypeOK
<1>2. DataMatchesFrame'
  <2> USE DEF IInv, TypeOK, ParserType
  <2>1. CASE parser.state = "Syncing"
    BY <2>1 DEF readByte, Syncing, DataMatchesFrame
  <2>2. CASE parser.state = "Length"
    BY <2>2 DEF readByte, Length, DataMatchesFrame, Byte
  <2>3. CASE parser.state = "Data"
    <3>1. parser' = Data(parser, b)
      BY <2>3 DEF readByte
    <3>2. Len(parser'.data) = parser.pos + 1 /\ parser'.pos = parser.pos + 1
      BY <2>3, <3>1 DEF Data, DataMatchesFrame
    <3>3. QED
      BY <2>3, <3>1, <3>2 DEF Data, DataMatchesFrame, Byte
  <2>4. CASE parser.state = "Checksum"
    BY <2>4 DEF readByte, Checksum, DataMatchesFrame
  <2>5. QED
    BY <2>1, <2>2, <2>3, <2>4
<1>3. QED
  BY <1>1, <1>2 DEF IInv

LEMMA NextKeepsIInv == IInv /\ [Next]_vars => IInv'
<1> SUFFICES ASSUME IInv, [Next]_vars PROVE IInv'
  OBVIOUS
<1>1. CASE ReadByte
  BY <1>1, ByteKeepsIInv DEF ReadByte
<1>2. CASE Reopen
  BY <1>2, OutTypes, ByteAssumption
     DEF Reopen, IInv, TypeOK, DataMatchesFrame, ParserType, NewParser, Byte
<1>3. CASE UNCHANGED vars
  BY <1>3 DEF vars, IInv, TypeOK, DataMatchesFrame
<1>4. QED
  BY <1>1, <1>2, <1>3 DEF Next

-----------------------------------------------------------------------------
(* The bytes that were read *)

N == ByteSize + 3

\* Adding a byte to the recent ones forgets only what is too long ago.
LEMMA LastOfAppend ==
    ASSUME NEW q \in Seq(Byte), NEW b \in Byte
    PROVE  LET r == Last(Append(q, b), N)
           IN  /\ r \in Seq(Byte)
               /\ Len(r) = IF Len(q) + 1 > N THEN N ELSE Len(q) + 1
               /\ r[Len(r)] = b
               /\ \A j \in 1 .. Len(r) - 1 : r[Len(r) - j] = q[Len(q) + 1 - j]
<1> DEFINE e == Append(q, b)
           m == IF Len(e) > N THEN Len(e) - N + 1 ELSE 1
           r == Last(e, N)
<1>1. N \in Nat \ {0}
  BY ByteAssumption DEF N
<1>2. /\ e \in Seq(Byte) /\ Len(e) = Len(q) + 1 /\ Len(q) \in Nat /\ e[Len(e)] = b
      /\ \A i \in 1 .. Len(q) : e[i] = q[i]
  OBVIOUS
<1> HIDE DEF e
<1>3. m \in 1 .. Len(e) /\ Len(e) - m + 1 = IF Len(q) + 1 > N THEN N ELSE Len(q) + 1
  BY <1>1, <1>2
<1>4. r = SubSeq(e, m, Len(e))
  BY DEF Last
<1> HIDE DEF m, r
<1>5. /\ r \in Seq(Byte) /\ Len(r) = Len(e) - m + 1
      /\ \A i \in 1 .. Len(r) : r[i] = e[m + i - 1]
  BY <1>2, <1>3, <1>4
<1>6. r[Len(r)] = b
  BY <1>2, <1>3, <1>5
<1>7. ASSUME NEW j \in 1 .. Len(r) - 1 PROVE r[Len(r) - j] = q[Len(q) + 1 - j]
  <2>1. Len(r) - j \in 1 .. Len(r) /\ m + (Len(r) - j) - 1 = Len(e) - j
    BY <1>2, <1>3, <1>5
  <2>2. r[Len(r) - j] = e[Len(e) - j]
    BY <1>5, <2>1
  <2>3. Len(e) - j \in 1 .. Len(q)
    BY <1>2, <1>3, <1>5
  <2> QED
    BY <1>2, <2>2, <2>3
<1> QED
  BY <1>3, <1>5, <1>6, <1>7 DEF e, r

\* q ends with the sync bytes, n and d.
Framed(q, n, d) ==
    /\ Len(q) >= Len(d) + 3
    /\ q[Len(q) - Len(d) - 2] = Sync1
    /\ q[Len(q) - Len(d) - 1] = Sync2
    /\ q[Len(q) - Len(d)] = n
    /\ \A i \in 1 .. Len(d) : q[Len(q) - Len(d) + i] = d[i]

LEMMA FramedGrows ==
    ASSUME NEW q \in Seq(Byte), NEW b \in Byte, NEW n \in Byte, NEW d \in Seq(Byte),
           Len(d) + 4 <= N, Framed(q, n, d)
    PROVE  Framed(Last(Append(q, b), N), n, Append(d, b))
<1> DEFINE r == Last(Append(q, b), N)
           e == Append(d, b)
<1>1. /\ r \in Seq(Byte)
      /\ Len(r) = IF Len(q) + 1 > N THEN N ELSE Len(q) + 1
      /\ r[Len(r)] = b
      /\ \A j \in 1 .. Len(r) - 1 : r[Len(r) - j] = q[Len(q) + 1 - j]
  BY LastOfAppend
<1>2. Len(e) = Len(d) + 1 /\ e[Len(d) + 1] = b /\ Len(d) \in Nat /\ Len(q) \in Nat
      /\ \A i \in 1 .. Len(d) : e[i] = d[i]
  OBVIOUS
<1>3. N \in Nat
  BY ByteAssumption DEF N
<1> HIDE DEF r, e
<1>4. Len(r) >= Len(d) + 4 /\ Len(r) \in Nat
  BY <1>1, <1>2, <1>3 DEF Framed
<1>5. \A j \in 1 .. Len(d) + 3 : r[Len(r) - j] = q[Len(q) + 1 - j]
  BY <1>1, <1>2, <1>4
<1>6. /\ r[Len(r) - Len(e) - 2] = Sync1
      /\ r[Len(r) - Len(e) - 1] = Sync2
      /\ r[Len(r) - Len(e)] = n
  <2>1. /\ r[Len(r) - (Len(d) + 3)] = q[Len(q) + 1 - (Len(d) + 3)]
        /\ r[Len(r) - (Len(d) + 2)] = q[Len(q) + 1 - (Len(d) + 2)]
        /\ r[Len(r) - (Len(d) + 1)] = q[Len(q) + 1 - (Len(d) + 1)]
    <3>1. Len(d) + 3 \in 1 .. Len(d) + 3 /\ Len(d) + 2 \in 1 .. Len(d) + 3
          /\ Len(d) + 1 \in 1 .. Len(d) + 3
      BY <1>2
    <3> QED
      BY <1>5, <3>1
  <2> QED
    BY SMTT(20), <1>2, <1>4, <2>1 DEF Framed
<1>7. ASSUME NEW i \in 1 .. Len(e) PROVE r[Len(r) - Len(e) + i] = e[i]
  <2>1. CASE i = Len(e)
    BY <1>1, <1>2, <1>4, <2>1
  <2>2. CASE i # Len(e)
    <3>1. i \in 1 .. Len(d) /\ Len(d) + 1 - i \in 1 .. Len(d) + 3
      BY <1>2, <2>2
    <3>2. r[Len(r) - (Len(d) + 1 - i)] = q[Len(q) + 1 - (Len(d) + 1 - i)]
      BY <1>5, <3>1
    <3>3. /\ Len(r) - (Len(d) + 1 - i) = Len(r) - Len(e) + i
          /\ Len(q) + 1 - (Len(d) + 1 - i) = Len(q) - Len(d) + i
      BY <1>2, <1>4, <3>1
    <3>4. q[Len(q) - Len(d) + i] = d[i]
      BY <3>1 DEF Framed
    <3>5. e[i] = d[i]
      BY <1>2, <3>1
    <3> QED
      BY <3>2, <3>3, <3>4, <3>5
  <2> QED
    BY <2>1, <2>2
<1>8. Len(r) >= Len(e) + 3
  BY <1>2, <1>4
<1>9. Framed(r, n, e)
  BY <1>6, <1>7, <1>8 DEF Framed
<1> QED
  BY <1>9 DEF r, e

\* Bytes framed with their length and followed by their checksum are a frame.
LEMMA FramedIsFrame ==
    ASSUME NEW q \in Seq(Byte), NEW d \in Seq(Byte), Len(d) < ByteSize,
           Framed(q, Len(d), Append(d, XorAll(d)))
    PROVE  Last(q, Len(d) + 4) = frame(d)
<1> DEFINE f == frame(d)
           e == Append(d, XorAll(d))
           l == Last(q, Len(d) + 4)
<1>1. /\ f \in Seq(Byte) /\ Len(f) = Len(d) + 4
      /\ f[1] = Sync1 /\ f[2] = Sync2 /\ f[3] = Len(d)
      /\ \A i \in 1 .. Len(d) : f[i + 3] = d[i]
      /\ f[Len(d) + 4] = XorAll(d)
  BY FrameBytes
<1>2. XorAll(d) \in Byte
  BY XorAllType
<1>3. Len(e) = Len(d) + 1 /\ e[Len(d) + 1] = XorAll(d) /\ Len(d) \in Nat /\ Len(q) \in Nat
      /\ \A i \in 1 .. Len(d) : e[i] = d[i]
  BY <1>2
<1> HIDE DEF e, f
<1>4. Len(q) >= Len(d) + 4
  BY <1>3 DEF Framed, e
<1>5. l = SubSeq(q, Len(q) - Len(d) - 3, Len(q))
  <2>1. (IF Len(q) > Len(d) + 4 THEN Len(q) - (Len(d) + 4) + 1 ELSE 1) = Len(q) - Len(d) - 3
    BY <1>3, <1>4
  <2> QED
    BY <2>1 DEF Last
<1> HIDE DEF l
<1>6. /\ l \in Seq(Byte) /\ Len(l) = Len(d) + 4
      /\ \A i \in 1 .. Len(d) + 4 : l[i] = q[Len(q) - Len(d) - 4 + i]
  BY <1>3, <1>4, <1>5
<1>7. l[1] = Sync1 /\ l[2] = Sync2 /\ l[3] = Len(d)
  BY <1>3, <1>6 DEF Framed, e
<1>8. ASSUME NEW i \in 1 .. Len(d) + 1 PROVE l[i + 3] = e[i]
  <2>1. i + 3 \in 1 .. Len(d) + 4
    BY <1>3
  <2>2. l[i + 3] = q[Len(q) - Len(d) - 4 + (i + 3)]
    BY <1>6, <2>1
  <2>3. q[Len(q) - Len(e) + i] = e[i]
    BY <1>3 DEF Framed, e
  <2> QED
    BY <1>3, <2>2, <2>3
<1>9. ASSUME NEW i \in 1 .. Len(d) + 4 PROVE l[i] = f[i]
  <2>1. CASE i \in 1 .. 3
    BY <1>1, <1>7, <2>1
  <2>2. CASE i \in 4 .. Len(d) + 3
    <3>1. i - 3 \in 1 .. Len(d) /\ (i - 3) + 3 = i
      BY <1>3, <2>2
    <3>2. f[(i - 3) + 3] = d[i - 3] /\ l[(i - 3) + 3] = e[i - 3] /\ e[i - 3] = d[i - 3]
      BY <1>1, <1>3, <1>8, <3>1
    <3> QED
      BY <3>1, <3>2
  <2>3. CASE i = Len(d) + 4
    BY <1>1, <1>3, <1>8, <2>3
  <2> QED
    BY <1>3, <2>1, <2>2, <2>3
<1> QED
  BY <1>1, <1>6, <1>9 DEF l, f

\* What the bytes read last say about the state of the parser: it is where
\* they put it, and the checksum so far is that of the data so far.
ReadMatches ==
    /\ recent \in Seq(Byte)
    /\ parser.state = "Syncing" /\ parser.pos = 1 =>
          Len(recent) >= 1 /\ recent[Len(recent)] = Sync1
    /\ parser.state = "Length" =>
          Len(recent) >= 2 /\ recent[Len(recent) - 1] = Sync1 /\ recent[Len(recent)] = Sync2
    /\ parser.state = "Data" =>
          /\ parser.checkSum = XorAll(parser.data)
          /\ parser.length # 0 => Framed(recent, parser.length, parser.data)
    /\ parser.state = "Checksum" =>
          /\ parser.checkSum = XorAll(parser.data)
          /\ Framed(recent, parser.length, parser.data)

RInv == IInv /\ ReadMatches /\ MessageWasFramed

LEMMA InitRInv == Init => RInv
<1> SUFFICES ASSUME Init PROVE RInv
  OBVIOUS
<1>1. IInv
  BY InitIInv
<1>2. << >> \in Seq(Byte)
  OBVIOUS
<1> QED
  BY <1>1, <1>2 DEF Init, NewParser, RInv, ReadMatches, MessageWasFramed

\* A byte takes the parser to where the bytes read then say.
LEMMA ByteKeepsRInv ==
    ASSUME RInv, NEW b \in Byte, parser' = readByte(parser, b),
           recent' = Last(Append(recent, b), ByteSize + 3)
    PROVE  RInv'
<1> DEFINE p == parser
           q == recent
           r == recent'
<1>1. p \in ParserType /\ q \in Seq(Byte) /\ DataMatchesFrame
  BY DEF RInv, IInv, TypeOK, ReadMatches
<1>2. p.data \in Seq(Byte) /\ p.length \in Byte /\ p.pos \in Nat /\ p.checkSum \in Byte
  BY <1>1 DEF ParserType
<1>3. /\ r \in Seq(Byte)
      /\ Len(r) = IF Len(q) + 1 > N THEN N ELSE Len(q) + 1
      /\ r[Len(r)] = b
      /\ \A j \in 1 .. Len(r) - 1 : r[Len(r) - j] = q[Len(q) + 1 - j]
  BY <1>1, LastOfAppend DEF N
<1>4. N \in Nat /\ N >= 4 /\ Len(q) \in Nat
  BY <1>1, ByteAssumption DEF N
<1>5. IInv'
  BY ByteKeepsIInv DEF RInv
<1>6. parser.state \in {"Syncing", "Length", "Data", "Checksum"}
  BY <1>1 DEF ParserType
<1>7. Len(p.data) \in Nat /\ p.length < ByteSize /\ p.length \in Nat
  <2>1. Len(p.data) \in Nat
    BY <1>2
  <2>2. p.length \in Byte
    BY <1>2
  <2>3. ByteSize \in Nat
    BY ByteAssumption
  <2>4. p.length < ByteSize /\ p.length \in Nat
    BY <2>2, <2>3 DEF Byte
  <2> QED
    BY <2>1, <2>4
<1>8. CASE p.state = "Syncing"
  <2>1. p' = Syncing(p, b)
    BY <1>8 DEF readByte
  <2>2. p'.out = << >>
    BY <1>1, <2>1 DEF Syncing, ParserType
  <2>3. CASE p.pos = 0 /\ b = Sync1
    <3>1. p'.state = "Syncing" /\ p'.pos = 1
      BY <1>1, <1>8, <2>1, <2>3 DEF Syncing, ParserType
    <3>2. Len(r) >= 1
      BY <1>3, <1>4
    <3> QED
      BY <1>3, <1>5, <2>2, <2>3, <3>1, <3>2 DEF RInv, ReadMatches, MessageWasFramed
  <2>4. CASE p.pos = 1 /\ b = Sync2
    <3>1. p'.state = "Length"
      BY <1>1, <1>8, <2>1, <2>4 DEF Syncing, ParserType
    <3>2. Len(q) >= 1 /\ q[Len(q)] = Sync1
      BY <1>8, <2>4 DEF RInv, ReadMatches
    <3>3. Len(r) >= 2
      BY <1>3, <1>4, <3>2
    <3>4. r[Len(r) - 1] = q[Len(q) + 1 - 1]
      BY <1>3, <1>4, <3>3
    <3>5. q[Len(q) + 1 - 1] = Sync1
      BY <1>4, <3>2
    <3>6. r[Len(r)] = Sync2
      BY <1>3, <2>4
    <3> HIDE DEF p, q
    <3>7. ReadMatches'
      BY <1>3, <3>1, <3>3, <3>4, <3>5, <3>6 DEF ReadMatches, p
    <3>8. MessageWasFramed'
      BY <2>2 DEF MessageWasFramed, p
    <3> QED
      BY <1>5, <3>7, <3>8 DEF RInv
  <2>5. CASE ~(p.pos = 0 /\ b = Sync1) /\ ~(p.pos = 1 /\ b = Sync2)
    <3>1. p'.state = "Syncing" /\ p'.pos = 0
      BY <1>1, <1>8, <2>1, <2>5 DEF Syncing, ParserType
    <3> QED
      BY <1>3, <1>5, <2>2, <3>1 DEF RInv, ReadMatches, MessageWasFramed
  <2> QED
    BY <2>3, <2>4, <2>5
<1>9. CASE p.state = "Length"
  <2>1. p'.state = "Data" /\ p'.length = b /\ p'.checkSum = 0 /\ p'.data = p.data /\ p'.out = << >>
    BY <1>1, <1>9 DEF readByte, Length, ParserType
  <2>2. p.data = << >>
    BY <1>1, <1>9 DEF DataMatchesFrame
  <2>3. Len(q) >= 2 /\ q[Len(q) - 1] = Sync1 /\ q[Len(q)] = Sync2
    BY <1>9 DEF RInv, ReadMatches
  <2>4. Len(r) >= 3 /\ Len(r) \in Nat
    BY <1>3, <1>4, <2>3
  <2>5. r[Len(r) - 1] = q[Len(q) + 1 - 1] /\ r[Len(r) - 2] = q[Len(q) + 1 - 2]
    BY SMTT(20), <1>3, <1>4, <2>4
  <2>6. r[Len(r) - 1] = Sync2 /\ r[Len(r) - 2] = Sync1
    BY <1>4, <2>3, <2>5
  <2>7. Framed(r, b, << >>)
    BY <1>3, <2>4, <2>6 DEF Framed
  <2> QED
    BY <1>3, <1>5, <2>1, <2>2, <2>7, XorAllOfNothing DEF RInv, ReadMatches, MessageWasFramed
<1>10. CASE p.state = "Data"
  <2>1. /\ p'.data = Append(p.data, b) /\ p'.checkSum = Xor(p.checkSum, b)
        /\ p'.length = p.length /\ p'.out = << >>
        /\ p'.state = IF p.pos + 1 = p.length THEN "Checksum" ELSE "Data"
    BY <1>1, <1>10 DEF readByte, Data, ParserType
  <2>2. p.checkSum = XorAll(p.data) /\ (p.length # 0 => Framed(q, p.length, p.data))
    BY <1>10 DEF RInv, ReadMatches
  <2>3. p'.checkSum = XorAll(p'.data)
    BY <1>2, <2>1, <2>2, XorAllOfAppend
  <2>4. ASSUME p.length # 0 PROVE Framed(r, p.length, p'.data)
    <3>1. Len(p.data) = p.pos /\ p.pos < p.length
      BY <1>1, <1>10, <2>4 DEF DataMatchesFrame
    <3>2. Len(p.data) + 4 <= N
      BY <1>7, <3>1, ByteAssumption DEF N
    <3> QED
      BY <1>1, <1>2, <2>1, <2>2, <2>4, <3>2, FramedGrows DEF N
  <2>5. p'.state = "Checksum" => p.length # 0
    BY <1>2, <2>1
  <2> QED
    BY <1>3, <1>5, <2>1, <2>3, <2>4, <2>5 DEF RInv, ReadMatches, MessageWasFramed
<1>11. CASE p.state = "Checksum"
  <2>1. /\ p'.out = IF p.checkSum = b THEN <<p.data>> ELSE << >>
        /\ p'.state = "Syncing" /\ p'.pos = 0
    BY <1>1, <1>11 DEF readByte, Checksum, ParserType
  <2>2. p.checkSum = XorAll(p.data) /\ Framed(q, p.length, p.data)
    BY <1>11 DEF RInv, ReadMatches
  <2>3. Len(p.data) = p.length
    BY <1>1, <1>11 DEF DataMatchesFrame
  <2>4. Len(p.data) < ByteSize /\ Len(p.data) + 4 <= N
    BY <1>7, <2>3, ByteAssumption DEF N
  <2>5. p.checkSum = b => Last(r, Len(p.data) + 4) = frame(p.data)
    <3> SUFFICES ASSUME p.checkSum = b PROVE Last(r, Len(p.data) + 4) = frame(p.data)
      OBVIOUS
    <3>1. Framed(r, Len(p.data), Append(p.data, XorAll(p.data)))
      BY <1>1, <1>2, <2>2, <2>3, <2>4, FramedGrows DEF N
    <3> QED
      BY <1>2, <1>3, <2>4, <3>1, FramedIsFrame
  <2>6. MessageWasFramed'
    BY <2>1, <2>5 DEF MessageWasFramed
  <2> QED
    BY <1>3, <1>5, <2>1, <2>6 DEF RInv, ReadMatches
<1> QED
  BY <1>6, <1>8, <1>9, <1>10, <1>11

LEMMA NextKeepsRInv == RInv /\ [Next]_vars => RInv'
<1> SUFFICES ASSUME RInv, [Next]_vars PROVE RInv'
  OBVIOUS
<1>1. CASE ReadByte
  BY <1>1, ByteKeepsRInv DEF ReadByte
<1>2. CASE Reopen
  <2>1. IInv'
    BY <1>2, NextKeepsIInv DEF RInv, Next
  <2>2. << >> \in Seq(Byte)
    OBVIOUS
  <2> QED
    BY <1>2, <2>1, <2>2 DEF Reopen, NewParser, RInv, ReadMatches, MessageWasFramed
<1>3. CASE UNCHANGED vars
  BY <1>3 DEF vars, RInv, IInv, TypeOK, DataMatchesFrame, ReadMatches, MessageWasFramed
<1> QED
  BY <1>1, <1>2, <1>3 DEF Next

-----------------------------------------------------------------------------
(* The specification *)

\* Every member of the parser keeps its type, whatever bytes arrive.
THEOREM TypeCorrect == Spec => []TypeOK
<1>1. IInv => TypeOK
  BY DEF IInv
<1>2. QED
  BY <1>1, InitIInv, NextKeepsIInv, PTL DEF Spec

\* m_data holds exactly the data bytes of the frame being read: noise and
\* aborted frames leave nothing behind for the next message.
THEOREM DataIsOfOneFrame == Spec => []DataMatchesFrame
<1>1. IInv => DataMatchesFrame
  BY DEF IInv
<1>2. QED
  BY <1>1, InitIInv, NextKeepsIInv, PTL DEF Spec

\* Whatever arrives, noise and frames cut short included, an EmsMessage is made
\* of exactly the data of a complete frame that was just read.
THEOREM MessagesAreFrames == Spec => []MessageWasFramed
<1>1. RInv => MessageWasFramed
  BY DEF RInv
<1>2. QED
  BY <1>1, InitRInv, NextKeepsRInv, PTL DEF Spec
=============================================================================
