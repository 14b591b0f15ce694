--------------------------- MODULE ValueCacheProofs ---------------------------
(***************************************************************************)
(* Theorems about ValueCache for any pages of the two devices, any         *)
(* contents of theirs, and any parts of them that are sent or asked for.   *)
(***************************************************************************)
EXTENDS ValueCache, SequenceTheorems, TLAPS

Device == {UBA2, UI800}
TypeCode == {t \in Nat : t < 65536}

-----------------------------------------------------------------------------
(* Sequences *)

\* Sequences of one length with the same elements are the same.
LEMMA SameElements ==
    ASSUME NEW S, NEW a \in Seq(S), NEW b \in Seq(S), Len(a) = Len(b),
           \A i \in 1 .. Len(a) : a[i] = b[i]
    PROVE  a = b
<1>1. DOMAIN a = 1 .. Len(a) /\ DOMAIN b = 1 .. Len(b)
  OBVIOUS
<1>2. a = [i \in DOMAIN a |-> a[i]] /\ b = [i \in DOMAIN b |-> b[i]]
  OBVIOUS
<1> QED
  BY <1>1, <1>2

LEMMA ElementsIn ==
    ASSUME NEW S, NEW c \in Seq(S)
    PROVE  \A i \in 1 .. Len(c) : c[i] \in S
OBVIOUS

LEMMA SeqOfInts ==
    ASSUME NEW S, S \subseteq Int, NEW c \in Seq(S)
    PROVE  c \in Seq(Int)
<1>1. Len(c) \in Nat /\ c \in [1 .. Len(c) -> S]
  OBVIOUS
<1>2. c \in [1 .. Len(c) -> Int]
  BY <1>1
<1> QED
  BY <1>1, <1>2

\* What is put in front of a sequence can be cut off again.
LEMMA CutFront ==
    ASSUME NEW h \in Seq(Int), NEW d \in Seq(Int), NEW g, g = h \o d
    PROVE  /\ g \in Seq(Int) /\ Len(g) = Len(h) + Len(d)
           /\ \A i \in 1 .. Len(h) : g[i] = h[i]
           /\ SubSeq(g, Len(h) + 1, Len(g)) = d
<1>1. Len(h) \in Nat /\ Len(d) \in Nat
  OBVIOUS
<1>2. g \in Seq(Int) /\ Len(g) = Len(h) + Len(d)
  OBVIOUS
<1>3. \A i \in 1 .. Len(h) : g[i] = h[i]
  OBVIOUS
<1>4. \A i \in 1 .. Len(d) : g[Len(h) + i] = d[i]
  OBVIOUS
<1> DEFINE r == SubSeq(g, Len(h) + 1, Len(g))
<1>5. r \in Seq(Int) /\ Len(r) = Len(d)
  BY <1>1, <1>2
<1>6. \A i \in 1 .. Len(r) : r[i] = d[i]
  BY <1>1, <1>2, <1>4
<1>7. r = d
  BY <1>5, <1>6, SameElements
<1> QED
  BY <1>2, <1>3, <1>7

LEMMA Associative ==
    ASSUME NEW h \in Seq(Int), NEW k \in Seq(Int), NEW d \in Seq(Int)
    PROVE  (h \o k) \o d = h \o (k \o d)
OBVIOUS

LEMMA FirstOnly ==
    ASSUME NEW r \in Seq(Int), r # << >>
    PROVE  SubSeq(r, 1, 1) = <<r[1]>>
<1> DEFINE x == SubSeq(r, 1, 1)
           y == <<r[1]>>
<1>1. Len(r) \in Nat \ {0} /\ r[1] \in Int
  OBVIOUS
<1>2. x \in Seq(Int) /\ Len(x) = 1 /\ x[1] = r[1]
  BY <1>1
<1>3. y \in Seq(Int) /\ Len(y) = 1 /\ y[1] = r[1]
  BY <1>1
<1> HIDE DEF x, y
<1>4. x = y
  BY <1>2, <1>3, SameElements
<1> QED
  BY <1>4 DEF x, y

\* A part of a part.
LEMMA PartOfPart ==
    ASSUME NEW c \in Seq(Int), NEW off \in Nat, NEW n \in Nat, off + n <= Len(c),
           NEW i \in Nat, NEW j \in Nat, i + j <= n
    PROVE  SubSeq(SubSeq(c, off + 1, off + n), i + 1, i + j) = SubSeq(c, off + i + 1, off + i + j)
<1> DEFINE d == SubSeq(c, off + 1, off + n)
           x == SubSeq(d, i + 1, i + j)
           y == SubSeq(c, off + i + 1, off + i + j)
<1>1. Len(c) \in Nat
  OBVIOUS
<1>2. d \in Seq(Int) /\ Len(d) = n /\ \A k \in 1 .. n : d[k] = c[off + k]
  BY <1>1
<1>3. y \in Seq(Int) /\ Len(y) = j /\ \A k \in 1 .. j : y[k] = c[off + i + k]
  BY <1>1
<1> HIDE DEF d
<1>4. x \in Seq(Int) /\ Len(x) = j /\ \A k \in 1 .. j : x[k] = d[i + k]
  BY <1>2
<1> HIDE DEF x, y
<1>5. \A k \in 1 .. j : x[k] = y[k]
  <2> TAKE k \in 1 .. j
  <2>1. i + k \in 1 .. n /\ off + (i + k) = off + i + k
    OBVIOUS
  <2>2. x[k] = d[i + k] /\ y[k] = c[off + i + k] /\ d[i + k] = c[off + (i + k)]
    BY <1>2, <1>3, <1>4, <2>1
  <2> QED
    BY <2>1, <2>2
<1>6. x = y
  BY <1>3, <1>4, <1>5, SameElements
<1> QED
  BY <1>6 DEF x, y, d

-----------------------------------------------------------------------------
(* Telegrams *)

\* The two bytes of a type.
LEMMA TypeBytes ==
    ASSUME NEW t \in TypeCode
    PROVE  /\ HighByte(t) \in AnyByte /\ LowByte(t) \in AnyByte
           /\ HighByte(t) \in Int /\ LowByte(t) \in Int
           /\ 256 * HighByte(t) + LowByte(t) = t
<1>1. t \in Int /\ 0 <= t /\ t < 65536
  BY DEF TypeCode
<1>2. 256 * (t \div 256) + (t % 256) = t
  BY <1>1
<1>3. t % 256 \in 0 .. 255
  BY <1>1
<1>4. t \div 256 \in 0 .. 255
  BY <1>1
<1> QED
  BY <1>2, <1>3, <1>4 DEF HighByte, LowByte, AnyByte

\* The first four bytes of a telegram, and the others.
LEMMA Header ==
    ASSUME NEW a \in Int, NEW b \in Int, NEW c \in Int, NEW e \in Int, NEW d \in Seq(Int)
    PROVE  LET g == <<a, b, c, e>> \o d
           IN  /\ g \in Seq(Int) /\ Len(g) = 4 + Len(d)
               /\ g[1] = a /\ g[2] = b /\ g[3] = c /\ g[4] = e
               /\ Rest(g) = d
<1> DEFINE h == <<a, b, c, e>>
           g == h \o d
<1>1. h \in Seq(Int)
  OBVIOUS
<1>2. Len(h) = 4 /\ h[1] = a /\ h[2] = b /\ h[3] = c /\ h[4] = e
  OBVIOUS
<1> SUFFICES /\ g \in Seq(Int) /\ Len(g) = 4 + Len(d)
             /\ g[1] = a /\ g[2] = b /\ g[3] = c /\ g[4] = e
             /\ Rest(g) = d
  OBVIOUS
<1> HIDE DEF h
<1>3. /\ g \in Seq(Int) /\ Len(g) = Len(h) + Len(d)
      /\ \A i \in 1 .. Len(h) : g[i] = h[i]
      /\ SubSeq(g, Len(h) + 1, Len(g)) = d
  BY <1>1, CutFront
<1> HIDE DEF g
<1>4. SubSeq(g, 5, Len(g)) = d
  BY <1>2, <1>3
<1>5. Rest(g) = d
  BY <1>4, Zenon DEF Rest
<1> QED
  BY <1>2, <1>3, <1>5

\* The type of EMS+ in front of the data.
LEMMA PlusData ==
    ASSUME NEW t \in TypeCode, NEW d \in Seq(Int)
    PROVE  LET r == <<HighByte(t), LowByte(t)>> \o d
           IN  /\ r \in Seq(Int) /\ Len(r) = 2 + Len(d)
               /\ 256 * r[1] + r[2] = t
               /\ WithoutType(r, 1) = d
<1> DEFINE h == <<HighByte(t), LowByte(t)>>
           r == h \o d
<1>1. HighByte(t) \in Int /\ LowByte(t) \in Int /\ 256 * HighByte(t) + LowByte(t) = t
  BY TypeBytes
<1>2. h \in Seq(Int)
  BY <1>1
<1>3. Len(h) = 2 /\ 256 * h[1] + h[2] = t
  BY <1>1
<1> SUFFICES /\ r \in Seq(Int) /\ Len(r) = 2 + Len(d)
             /\ 256 * r[1] + r[2] = t
             /\ WithoutType(r, 1) = d
  OBVIOUS
<1> HIDE DEF h
<1>4. /\ r \in Seq(Int) /\ Len(r) = Len(h) + Len(d)
      /\ \A i \in 1 .. Len(h) : r[i] = h[i]
      /\ SubSeq(r, Len(h) + 1, Len(r)) = d
  BY <1>2, CutFront
<1> HIDE DEF r
<1>5. SubSeq(r, 1, 0) = << >>
  BY <1>4
<1>6. << >> \o d = d
  OBVIOUS
<1>7. r[1] = h[1] /\ r[2] = h[2] /\ Len(r) = 2 + Len(d)
  BY <1>3, <1>4
<1>8. SubSeq(r, 3, Len(r)) = d
  BY <1>3, <1>4
<1>9. WithoutType(r, 1) = d
  <2>1. 1 - 1 = 0 /\ 1 + 2 = 3
    OBVIOUS
  <2> QED
    BY <1>5, <1>6, <1>8, <2>1, Zenon DEF WithoutType
<1> QED
  BY <1>3, <1>4, <1>7, <1>9

\* The constructor, where the type is a byte and where it is two.
LEMMA NotPlus ==
    ASSUME NEW g, Len(g) \in Nat, Len(g) >= 4, g[2] \in Int, g[3] \in Int,
           g[3] < \hf0 \/ Len(g) < 6 \/ (g[2] < 128 /\ Len(g) < 7)
    PROVE  EmsMessage(g) =
               [source |-> g[1], dest |-> g[2], type |-> g[3], off |-> g[4], data |-> Rest(g)]
BY DEF EmsMessage

LEMMA PlusToDevice ==
    ASSUME NEW g, Len(g) \in Nat, Len(g) >= 7, g[2] \in Int, g[2] < 128, g[3] \in Int, g[3] >= \hf0,
           NEW t \in Int, 256 * Rest(g)[1] + Rest(g)[2] = t, t # 0
    PROVE  EmsMessage(g) =
               [source |-> g[1], dest |-> g[2], type |-> t, off |-> g[4], data |-> WithoutType(Rest(g), 1)]
BY DEF EmsMessage

LEMMA PlusFromDevice ==
    ASSUME NEW g, Len(g) \in Nat, Len(g) >= 6, g[2] \in Int, g[2] >= 128, g[3] \in Int, g[3] >= \hf0,
           NEW t \in Int, 256 * Rest(g)[2] + Rest(g)[3] = t, t # 0
    PROVE  EmsMessage(g) =
               [source |-> g[1], dest |-> g[2], type |-> t, off |-> g[4], data |-> WithoutType(Rest(g), 2)]
BY DEF EmsMessage

\* A telegram of a type of one byte.
LEMMA ReadClassic ==
    ASSUME NEW s \in Int, NEW b \in Int, NEW t \in TypeCode, t < \hf0, NEW off \in Int, NEW d \in Seq(Int)
    PROVE  EmsMessage(<<s, b, t, off>> \o d) =
               [source |-> s, dest |-> b, type |-> t, off |-> off, data |-> d]
<1> DEFINE g == <<s, b, t, off>> \o d
<1>1. t \in Int
  BY DEF TypeCode
<1>2. /\ Len(g) = 4 + Len(d)
      /\ g[1] = s /\ g[2] = b /\ g[3] = t /\ g[4] = off
      /\ Rest(g) = d
  BY <1>1, Header
<1>3. Len(d) \in Nat
  OBVIOUS
<1> HIDE DEF g
<1>4. Len(g) \in Nat /\ Len(g) >= 4
  BY <1>2, <1>3
<1>5. EmsMessage(g) = [source |-> s, dest |-> b, type |-> t, off |-> off, data |-> d]
  BY <1>1, <1>2, <1>4, NotPlus
<1> QED
  BY <1>5, Zenon DEF g

\* A telegram of EMS+ with data to a device, or to all.
LEMMA ReadPlus ==
    ASSUME NEW s \in Int, NEW b \in Int, b < 128, NEW t \in TypeCode, t >= \hf0, NEW off \in Int,
           NEW d \in Seq(Int), d # << >>
    PROVE  EmsMessage(<<s, b, \hff, off, HighByte(t), LowByte(t)>> \o d) =
               [source |-> s, dest |-> b, type |-> t, off |-> off, data |-> d]
<1> DEFINE hi == HighByte(t)
           lo == LowByte(t)
           r == <<hi, lo>> \o d
           g == <<s, b, \hff, off>> \o r
<1>1. hi \in Int /\ lo \in Int /\ t \in Int /\ t # 0
  <2>1. t \in Int
    BY DEF TypeCode
  <2> QED
    BY <2>1, TypeBytes
<1>2. /\ r \in Seq(Int) /\ Len(r) = 2 + Len(d)
      /\ 256 * r[1] + r[2] = t
      /\ WithoutType(r, 1) = d
  BY PlusData
<1> HIDE DEF hi, lo
<1>3. <<s, b, \hff, off, hi, lo>> \o d = g
  <2> DEFINE h == <<s, b, \hff, off>>
             k == <<hi, lo>>
  <2>1. h \in Seq(Int) /\ k \in Seq(Int)
    BY <1>1
  <2>2. <<s, b, \hff, off, hi, lo>> = h \o k
    BY <1>1
  <2> HIDE DEF h, k
  <2>3. (h \o k) \o d = h \o (k \o d)
    BY <2>1, Associative
  <2> QED
    BY <2>2, <2>3, Zenon DEF h, k
<1> HIDE DEF r
<1>4. /\ Len(g) = 4 + Len(r)
      /\ g[1] = s /\ g[2] = b /\ g[3] = \hff /\ g[4] = off
      /\ Rest(g) = r
  BY SMTT(20), <1>2, Header
<1>5. Len(d) \in Nat \ {0}
  OBVIOUS
<1> HIDE DEF g
<1>6. Len(g) \in Nat /\ Len(g) >= 7
  BY <1>2, <1>4, <1>5
<1>7. 256 * Rest(g)[1] + Rest(g)[2] = t /\ WithoutType(Rest(g), 1) = d
  BY <1>2, <1>4
<1>8. g[2] \in Int /\ g[2] < 128 /\ g[3] \in Int /\ g[3] >= \hf0
  BY <1>4
<1>9. EmsMessage(g) =
          [source |-> g[1], dest |-> g[2], type |-> t, off |-> g[4], data |-> WithoutType(Rest(g), 1)]
  BY <1>1, <1>6, <1>7, <1>8, PlusToDevice
<1>10. EmsMessage(g) = [source |-> s, dest |-> b, type |-> t, off |-> off, data |-> d]
  BY <1>4, <1>7, <1>9
<1> QED
  BY <1>3, <1>10, Zenon DEF hi, lo

\* Without data it is too short for its type to be found.
LEMMA ReadEmpty ==
    ASSUME NEW s \in Int, NEW t \in TypeCode, NEW off \in Int
    PROVE  EmsMessage(<<s, 0, \hff, off, HighByte(t), LowByte(t)>>) =
               [source |-> s, dest |-> 0, type |-> \hff, off |-> off, data |-> <<HighByte(t), LowByte(t)>>]
<1> DEFINE hi == HighByte(t)
           lo == LowByte(t)
           r == <<hi, lo>>
           g == <<s, 0, \hff, off>> \o r
<1>1. hi \in Int /\ lo \in Int
  BY TypeBytes
<1> HIDE DEF hi, lo
<1>2. r \in Seq(Int)
  BY <1>1
<1>3. <<s, 0, \hff, off, hi, lo>> = g
  BY <1>1
<1>4. Len(r) = 2
  OBVIOUS
<1> HIDE DEF r
<1>5. /\ Len(g) = 4 + Len(r)
      /\ g[1] = s /\ g[2] = 0 /\ g[3] = \hff /\ g[4] = off
      /\ Rest(g) = r
  BY <1>2, Header
<1> HIDE DEF g
<1>6. /\ Len(g) \in Nat /\ Len(g) >= 4 /\ g[2] \in Int /\ g[3] \in Int
      /\ g[2] < 128 /\ Len(g) < 7
  BY <1>4, <1>5
<1>7. EmsMessage(g) = [source |-> g[1], dest |-> g[2], type |-> g[3], off |-> g[4], data |-> Rest(g)]
  BY <1>6, NotPlus
<1>8. EmsMessage(g) = [source |-> s, dest |-> 0, type |-> \hff, off |-> off, data |-> r]
  BY <1>5, <1>7
<1> QED
  BY <1>3, <1>8, Zenon DEF r, hi, lo

\* A read of EMS+, whose length comes before the type.
LEMMA ReadRequest ==
    ASSUME NEW s \in Int, NEW b \in Int, b >= 128, NEW t \in TypeCode, t >= \hf0, NEW off \in Int,
           NEW n \in Int
    PROVE  EmsMessage(<<s, b, \hff, off, n, HighByte(t), LowByte(t)>>) =
               [source |-> s, dest |-> b, type |-> t, off |-> off, data |-> <<n>>]
<1> DEFINE hi == HighByte(t)
           lo == LowByte(t)
           r == <<n, hi, lo>>
           g == <<s, b, \hff, off>> \o r
<1>1. hi \in Int /\ lo \in Int /\ 256 * hi + lo = t /\ t \in Int /\ t # 0
  <2>1. t \in Int
    BY DEF TypeCode
  <2> QED
    BY <2>1, TypeBytes
<1> HIDE DEF hi, lo
<1>2. r \in Seq(Int)
  BY <1>1
<1>3. <<s, b, \hff, off, n, hi, lo>> = g
  BY <1>1
<1>4. Len(r) = 3 /\ r[1] = n /\ r[2] = hi /\ r[3] = lo
  OBVIOUS
<1> HIDE DEF r
<1>5. WithoutType(r, 2) = <<n>>
  <2>1. SubSeq(r, 1, 1) = <<n>>
    BY <1>2, <1>4, FirstOnly
  <2>2. SubSeq(r, 4, 3) = << >>
    BY <1>2
  <2>3. <<n>> \o << >> = <<n>>
    OBVIOUS
  <2>4. 2 - 1 = 1 /\ 2 + 2 = 4
    OBVIOUS
  <2> QED
    BY <1>4, <2>1, <2>2, <2>3, <2>4, Zenon DEF WithoutType
<1>6. /\ Len(g) = 4 + Len(r)
      /\ g[1] = s /\ g[2] = b /\ g[3] = \hff /\ g[4] = off
      /\ Rest(g) = r
  BY <1>2, Header
<1> HIDE DEF g
<1>7. /\ Len(g) \in Nat /\ Len(g) >= 6
      /\ g[2] \in Int /\ g[2] >= 128 /\ g[3] \in Int /\ g[3] >= \hf0
  BY <1>4, <1>6
<1>8. 256 * Rest(g)[2] + Rest(g)[3] = t
  BY <1>1, <1>4, <1>6
<1>9. EmsMessage(g) =
          [source |-> g[1], dest |-> g[2], type |-> t, off |-> g[4], data |-> WithoutType(Rest(g), 2)]
  BY <1>1, <1>7, <1>8, PlusFromDevice
<1>10. EmsMessage(g) = [source |-> s, dest |-> b, type |-> t, off |-> off, data |-> <<n>>]
  BY <1>5, <1>6, <1>9
<1> QED
  BY <1>3, <1>10, Zenon DEF hi, lo

-----------------------------------------------------------------------------
(* Requests and parts *)

LEMMA PageTypes ==
    ASSUME NEW g \in Groups, NEW p \in g
    PROVE  /\ p[1] \in Device /\ p[2] \in TypeCode
           /\ \A s \in Device \ {p[1]} : Fields(s, p[2]) = {}
<1>1. p[1] \in {UBA2, UI800} /\ p[2] \in Nat /\ p[2] < 65536
  BY PageAssumption
<1>2. \A s \in {UBA2, UI800} \ {p[1]} : Fields(s, p[2]) = {}
  BY PageAssumption
<1> QED
  BY <1>1, <1>2 DEF Device, TypeCode

\* A request for part of a page, or one byte written to it.
LEMMA OwnRequest ==
    ASSUME NEW dest \in Int, NEW t \in TypeCode, NEW off \in Int, NEW n \in Int
    PROVE  EmsMessage(getSendData(dest, t, off, <<n>>)) =
               [source |-> PC, dest |-> dest, type |-> t, off |-> off, data |-> <<n>>]
<1>1. PC \in Int /\ t \in Int
  BY DEF TypeCode, PC
<1> DEFINE d == <<n>>
<1>2. d \in Seq(Int)
  OBVIOUS
<1>6. d # << >> /\ d[1] = n
  OBVIOUS
<1> HIDE DEF d
<1> SUFFICES EmsMessage(getSendData(dest, t, off, d)) =
                 [source |-> PC, dest |-> dest, type |-> t, off |-> off, data |-> d]
  BY Zenon DEF d
<1>3. CASE t < \hf0
  <2>1. getSendData(dest, t, off, d) = <<PC, dest, t, off>> \o d
    BY <1>3, Zenon DEF getSendData
  <2>2. EmsMessage(<<PC, dest, t, off>> \o d) =
            [source |-> PC, dest |-> dest, type |-> t, off |-> off, data |-> d]
    <3>1. ASSUME NEW s \in Int
          PROVE  EmsMessage(<<s, dest, t, off>> \o d) =
                     [source |-> s, dest |-> dest, type |-> t, off |-> off, data |-> d]
      BY <1>1, <1>2, <1>3, ReadClassic
    <3> QED
      BY <1>1, <3>1, Zenon
  <2> QED
    BY <2>1, <2>2, Zenon
<1>4. CASE t >= \hf0 /\ dest >= 128
  <2>1. ~(t < \hf0)
    BY <1>1, <1>4
  <2>2. getSendData(dest, t, off, d) = <<PC, dest, \hff, off, n, HighByte(t), LowByte(t)>>
    BY <1>4, <1>6, <2>1, Zenon DEF getSendData
  <2>3. EmsMessage(<<PC, dest, \hff, off, n, HighByte(t), LowByte(t)>>) =
            [source |-> PC, dest |-> dest, type |-> t, off |-> off, data |-> <<n>>]
    BY <1>1, <1>4, ReadRequest
  <2> QED
    BY <2>2, <2>3, Zenon DEF d
<1>5. CASE t >= \hf0 /\ dest < 128
  <2>1. ~(t < \hf0) /\ ~(dest >= 128)
    BY <1>1, <1>5
  <2>2. getSendData(dest, t, off, d) = <<PC, dest, \hff, off, HighByte(t), LowByte(t)>> \o d
    BY <2>1, Zenon DEF getSendData
  <2>3. EmsMessage(<<PC, dest, \hff, off, HighByte(t), LowByte(t)>> \o d) =
            [source |-> PC, dest |-> dest, type |-> t, off |-> off, data |-> d]
    BY <1>1, <1>2, <1>5, <1>6, ReadPlus
  <2> QED
    BY <2>2, <2>3, Zenon
<1> QED
  BY <1>1, <1>3, <1>4, <1>5

\* What a device asks for carries no data but the length.
LEMMA DeviceRequest ==
    ASSUME NEW s \in Device, NEW b \in Device, NEW t \in TypeCode, NEW off \in Int, NEW n \in Int
    PROVE  EmsMessage(SentRequest(s, b, t, off, n)) =
               [source |-> s, dest |-> b, type |-> t, off |-> off, data |-> <<n>>]
<1>1. s \in Int /\ b \in Int /\ b >= 128 /\ t \in Int
  BY DEF Device, TypeCode, UBA2, UI800
<1>2. CASE t < \hf0
  <2>1. SentRequest(s, b, t, off, n) = <<s, b, t, off, n>>
    BY <1>2, Zenon DEF SentRequest
  <2> DEFINE d == <<n>>
  <2>2. <<s, b, t, off, n>> = <<s, b, t, off>> \o d /\ d \in Seq(Int)
    BY <1>1
  <2> HIDE DEF d
  <2>3. EmsMessage(<<s, b, t, off>> \o d) =
            [source |-> s, dest |-> b, type |-> t, off |-> off, data |-> d]
    BY <1>1, <1>2, <2>2, ReadClassic
  <2> QED
    BY <2>1, <2>2, <2>3, Zenon DEF d
<1>3. CASE t >= \hf0
  <2>1. ~(t < \hf0)
    BY <1>1, <1>3
  <2>2. SentRequest(s, b, t, off, n) = <<s, b, \hff, off, n, HighByte(t), LowByte(t)>>
    BY <2>1, Zenon DEF SentRequest
  <2>3. EmsMessage(<<s, b, \hff, off, n, HighByte(t), LowByte(t)>>) =
            [source |-> s, dest |-> b, type |-> t, off |-> off, data |-> <<n>>]
    BY <1>1, <1>3, ReadRequest
  <2> QED
    BY <2>2, <2>3, Zenon
<1> QED
  BY <1>1, <1>2, <1>3

\* Part of a page, whose type is lost only when nothing of the page is sent.
LEMMA PartRead ==
    ASSUME NEW s \in Device, NEW t \in TypeCode, NEW off \in Int, NEW d \in Seq(Int)
    PROVE  \/ EmsMessage(SentPart(s, 0, t, off, d)) =
                  [source |-> s, dest |-> 0, type |-> t, off |-> off, data |-> d]
           \/ /\ d = << >>
              /\ EmsMessage(SentPart(s, 0, t, off, d)) =
                     [source |-> s, dest |-> 0, type |-> \hff, off |-> off,
                      data |-> <<HighByte(t), LowByte(t)>>]
<1>1. s \in Int /\ t \in Int /\ 0 \in Int /\ 0 < 128
  BY DEF Device, TypeCode, UBA2, UI800
<1>2. CASE t < \hf0
  <2>1. SentPart(s, 0, t, off, d) = <<s, 0, t, off>> \o d
    BY <1>2, Zenon DEF SentPart
  <2>2. EmsMessage(<<s, 0, t, off>> \o d) =
            [source |-> s, dest |-> 0, type |-> t, off |-> off, data |-> d]
    BY ZenonT(60), <1>1, <1>2, ReadClassic
  <2> QED
    BY <2>1, <2>2, Zenon
<1>3. CASE t >= \hf0
  <2>1. ~(t < \hf0)
    BY <1>1, <1>3
  <2>2. SentPart(s, 0, t, off, d) = <<s, 0, \hff, off, HighByte(t), LowByte(t)>> \o d
    BY <2>1, Zenon DEF SentPart
  <2>3. CASE d # << >>
    <3>1. EmsMessage(<<s, 0, \hff, off, HighByte(t), LowByte(t)>> \o d) =
              [source |-> s, dest |-> 0, type |-> t, off |-> off, data |-> d]
      BY <1>1, <1>3, <2>3, ReadPlus
    <3> QED
      BY <2>2, <3>1, Zenon
  <2>4. CASE d = << >>
    <3> DEFINE h == <<s, 0, \hff, off, HighByte(t), LowByte(t)>>
    <3>1. h \in Seq(Int)
      <4>1. HighByte(t) \in Int /\ LowByte(t) \in Int
        BY TypeBytes
      <4> QED
        BY <1>1, <4>1
    <3>2. EmsMessage(h) = [source |-> s, dest |-> 0, type |-> \hff, off |-> off,
                           data |-> <<HighByte(t), LowByte(t)>>]
      BY <1>1, ReadEmpty, Zenon
    <3> HIDE DEF h
    <3>3. h \o << >> = h
      BY <3>1
    <3> QED
      BY <2>2, <2>4, <3>2, <3>3, Zenon DEF h
  <2> QED
    BY <2>3, <2>4
<1> QED
  BY <1>1, <1>2, <1>3

-----------------------------------------------------------------------------
(* Fields *)

\* Every field has a place, takes some bytes, and has a key of its own kind.
LEMMA FieldShape ==
    ASSUME NEW s, NEW t, NEW f \in Fields(s, t)
    PROVE  f.off \in Nat /\ f.size \in Nat \ {0} /\ f.key \notin SpecialKeys
<1>1. ASSUME f \in UBA2Fields(t)
      PROVE  f.off \in Nat /\ f.size \in Nat \ {0} /\ f.key \notin SpecialKeys
  BY <1>1 DEF UBA2Fields, Field, parseEnum, parseNumeric, parseInteger, parseTemperature, parseBool,
              parseUnsigned, parseRecord, SpecialKeys, ErrorCode, ErrorNumber
<1>2. ASSUME f \in UI800Fields(t)
      PROVE  f.off \in Nat /\ f.size \in Nat \ {0} /\ f.key \notin SpecialKeys
  BY <1>2 DEF UI800Fields, Field, parseEnum, parseNumeric, parseInteger, parseTemperature, parseBool,
              parseUnsigned, parseRecord, SpecialKeys, ErrorCode, ErrorNumber
<1> QED
  BY <1>1, <1>2 DEF Fields, UBA2, UI800

\* The collector has no pages, and neither the error pages nor the type that
\* stands for the types of EMS+ have fields.
LEMMA NoFields ==
    ASSUME NEW s, NEW t, s = PC \/ t = \hff \/ t = \hbf
    PROVE  Fields(s, t) = {}
BY DEF Fields, UBA2Fields, UI800Fields, UBA2, UI800, PC

-----------------------------------------------------------------------------
(* The values of a telegram *)

\* Two maps, of which the first prevails.
LEMMA Merged ==
    ASSUME NEW f, NEW g
    PROVE  /\ DOMAIN Merge(f, g) = DOMAIN f \cup DOMAIN g
           /\ \A k \in DOMAIN f : Merge(f, g)[k] = f[k]
           /\ \A k \in DOMAIN g \ DOMAIN f : Merge(f, g)[k] = g[k]
BY DEF Merge

LEMMA MergedAt ==
    ASSUME NEW f, NEW g, NEW k, k \in DOMAIN f
    PROVE  k \in DOMAIN Merge(f, g) /\ Merge(f, g)[k] = f[k]
<1> DEFINE m == Merge(f, g)
<1>1. DOMAIN m = DOMAIN f \cup DOMAIN g /\ \A x \in DOMAIN f : m[x] = f[x]
  BY Merged
<1> HIDE DEF m
<1>2. k \in DOMAIN m /\ m[k] = f[k]
  BY <1>1
<1> QED
  BY <1>2 DEF m

LEMMA MergedBelow ==
    ASSUME NEW f, NEW g, NEW k, k \in DOMAIN g, k \notin DOMAIN f
    PROVE  k \in DOMAIN Merge(f, g) /\ Merge(f, g)[k] = g[k]
<1> DEFINE m == Merge(f, g)
<1>1. DOMAIN m = DOMAIN f \cup DOMAIN g /\ \A x \in DOMAIN g \ DOMAIN f : m[x] = g[x]
  BY Merged
<1> HIDE DEF m
<1>2. k \in DOMAIN m /\ m[k] = g[k]
  BY <1>1
<1> QED
  BY <1>2 DEF m

LEMMA NoKeys == DOMAIN NoValues = {}
BY DEF NoValues

LEMMA MergedWithin ==
    ASSUME NEW f, NEW g, NEW S, DOMAIN f \subseteq S, DOMAIN g \subseteq S
    PROVE  DOMAIN Merge(f, g) \subseteq S
BY Merged, Zenon

\* What is read without regard to the offset has keys of its own.
LEMMA MonitorKeys ==
    ASSUME NEW m, NEW junk
    PROVE  DOMAIN monitorValues(m, junk) \subseteq SpecialKeys
<1> DEFINE code == [k \in {<<"FehlerCode", "None">>} |-> Value("Formatted", TRUE, <<unsigned(At(m, 4, 2, junk))>>)]
           service == [k \in {<<"ServiceCode", "None">>} |-> Value("Formatted", TRUE, << >>)]
           flame == [k \in {<<"FlammeAktiv", "None">>} |->
                        Value("Boolean", TRUE, <<IF unsigned(At(m, 19, 2, junk)) > 5 THEN 1 ELSE 0>>)]
           a == IF canAccess(m, 4, 2) THEN Merge(code, service) ELSE NoValues
           b == IF canAccess(m, 19, 2) THEN flame ELSE NoValues
<1>1. /\ DOMAIN code \subseteq SpecialKeys /\ DOMAIN service \subseteq SpecialKeys
      /\ DOMAIN flame \subseteq SpecialKeys
  BY DEF SpecialKeys
<1>2. monitorValues(m, junk) = Merge(a, b)
  BY Zenon DEF monitorValues
<1> HIDE DEF code, service, flame
<1>3. DOMAIN a \subseteq SpecialKeys
  BY <1>1, MergedWithin, NoKeys, Zenon
<1>4. DOMAIN b \subseteq SpecialKeys
  BY <1>1, NoKeys, Zenon
<1> HIDE DEF a, b
<1> QED
  BY <1>2, <1>3, <1>4, MergedWithin, Zenon

LEMMA ErrorKeys ==
    ASSUME NEW m, NEW junk
    PROVE  DOMAIN errorValues(m, junk) \subseteq SpecialKeys
<1> DEFINE codes == {CodeAt(i) : i \in {j \in 0 .. 2 :
                        canAccess(m, CodeAt(j), 3) /\ ~AllZero(At(m, CodeAt(j), 3, junk))}}
           numbers == {NumberAt(i) : i \in {j \in 0 .. 2 :
                        canAccess(m, NumberAt(j), 2) /\ ~AllZero(At(m, NumberAt(j), 2, junk))}}
           none == codes \cup numbers = {}
           device == byte(m, 0, junk)
           fault == <<"Stoerung", IF device = \h08 THEN "Kessel" ELSE "RC">>
           code == [k \in {ErrorCode} |->
                       Value("Formatted", TRUE, IF none THEN << >> ELSE LastOf(m, codes, 3, junk))]
           number == [k \in {ErrorNumber} |->
                         Value("Formatted", TRUE, IF none THEN << >> ELSE <<unsigned(LastOf(m, numbers, 2, junk))>>)]
           state == [k \in {fault} |-> Value("Boolean", TRUE, <<(bytesAt(m, 7, 1)[1] \div 16) % 2>>)]
           a == IF codes # {} \/ none THEN code ELSE NoValues
           b == IF numbers # {} \/ none THEN number ELSE NoValues
           c == IF device \in {\h08, \h10} /\ canAccess(m, 7, 1) THEN state ELSE NoValues
<1>1. /\ DOMAIN code = {ErrorCode} /\ DOMAIN number = {ErrorNumber} /\ DOMAIN state = {fault}
  BY Zenon
<1>2. errorValues(m, junk) = Merge(a, Merge(b, c))
  BY Zenon DEF errorValues
<1> HIDE DEF code, number, state, codes, numbers, none, device
<1>3. /\ ErrorCode \in SpecialKeys /\ ErrorNumber \in SpecialKeys /\ fault \in SpecialKeys
  BY DEF SpecialKeys
<1> HIDE DEF fault
<1>4. DOMAIN a \subseteq SpecialKeys
  BY <1>1, <1>3, NoKeys, Zenon
<1>5. DOMAIN b \subseteq SpecialKeys
  BY <1>1, <1>3, NoKeys, Zenon
<1>6. DOMAIN c \subseteq SpecialKeys
  BY <1>1, <1>3, NoKeys, Zenon
<1> HIDE DEF a, b, c
<1>7. DOMAIN Merge(b, c) \subseteq SpecialKeys
  BY <1>5, <1>6, MergedWithin, Zenon
<1> QED
  BY <1>2, <1>4, <1>7, MergedWithin, Zenon

\* For all other keys the fields decide.
LEMMA Handled ==
    ASSUME NEW m, NEW junk, NEW k, k \notin SpecialKeys
    PROVE  /\ k \in DOMAIN handle(m, junk) <=> k \in DOMAIN fieldValues(m)
           /\ k \in DOMAIN fieldValues(m) => handle(m, junk)[k] = fieldValues(m)[k]
<1> DEFINE f == fieldValues(m)
           x == IF m.source = UBA2 /\ m.type = \he4 THEN monitorValues(m, junk) ELSE NoValues
           y == IF m.source \in {UBA2, UI800} /\ m.type = \hbf THEN errorValues(m, junk) ELSE NoValues
           z == Merge(x, y)
<1>1. handle(m, junk) = Merge(f, z)
  BY Zenon DEF handle
<1>2. k \notin DOMAIN x
  BY MonitorKeys, NoKeys, Zenon
<1>3. k \notin DOMAIN y
  BY ErrorKeys, NoKeys, Zenon
<1> HIDE DEF x, y
<1>4. k \notin DOMAIN z
  BY <1>2, <1>3, Merged, Zenon
<1> HIDE DEF f, z
<1>5. /\ DOMAIN Merge(f, z) = DOMAIN f \cup DOMAIN z
      /\ \A j \in DOMAIN f : Merge(f, z)[j] = f[j]
  BY Merged, Zenon
<1> QED
  BY <1>1, <1>4, <1>5, Zenon DEF f

-----------------------------------------------------------------------------
(* The requests of the collector *)

\* The pages stay, and hold what they can hold.
PagesOK ==
    /\ pages \in Groups
    /\ memory \in [pages -> UNION {Contents(p) : p \in pages}]
    /\ \A p \in pages : memory[p] \in Contents(p)

LEMMA PagesInit == Init => PagesOK
BY DEF Init, PagesOK

LEMMA PagesStep == PagesOK /\ [Next]_vars => PagesOK'
<1> SUFFICES ASSUME PagesOK, [Next]_vars PROVE PagesOK'
  OBVIOUS
<1>1. ASSUME NEW p \in pages, Change(p) PROVE PagesOK'
  <2>1. PICK c \in Contents(p) : memory' = [memory EXCEPT ![p] = c]
    BY <1>1 DEF Change
  <2>2. pages' = pages
    BY <1>1 DEF Change
  <2> QED
    BY <1>1, <2>1, <2>2 DEF PagesOK
<1>2. CASE UNCHANGED <<pages, memory>>
  BY <1>2 DEF PagesOK
<1>3. ASSUME Next, \A p \in pages : ~Change(p) PROVE UNCHANGED <<pages, memory>>
  BY <1>3, Zenon DEF Next, Part, Request, Echo
<1>4. CASE UNCHANGED vars
  BY <1>2, <1>4 DEF vars
<1> QED
  BY <1>1, <1>2, <1>3, <1>4

THEOREM PagesAlways == Spec => []PagesOK
BY PagesInit, PagesStep, PTL DEF Spec

\* Whatever the collector asks a device for, or writes to it, in the format of
\* the type's width, is read back from the bus as what it was made of.
THEOREM OwnRequestsReadBack == Spec => []RequestsReadBack
<1>1. PagesOK => RequestsReadBack
  <2> SUFFICES ASSUME PagesOK, NEW p \in pages, NEW x \in Parts, NEW dest \in {p[1], p[1] - 128}
               PROVE  EmsMessage(getSendData(dest, p[2], x[1], <<x[2]>>)) =
                          [source |-> PC, dest |-> dest, type |-> p[2], off |-> x[1], data |-> <<x[2]>>]
    BY Zenon DEF RequestsReadBack
  <2>1. p[1] \in Device /\ p[2] \in TypeCode
    BY PageTypes, Zenon DEF PagesOK
  <2>2. dest \in Int
    BY <2>1 DEF Device, UBA2, UI800
  <2>3. x[1] \in Int /\ x[2] \in Int
    BY CacheAssumption
  <2> DEFINE t == p[2]
  <2> QED
    BY <2>1, <2>2, <2>3, OwnRequest
<1> QED
  BY <1>1, PagesAlways, PTL

-----------------------------------------------------------------------------
(* The cache and what was sent *)

\* What the device holds in the fields inside a part.
HeldInside(p, off, n) ==
    [k \in {f.key : f \in Inside(p, off, n)} |-> Held(p, CHOOSE f \in Inside(p, off, n) : f.key = k)]

\* What a part of a page reports for its fields.
LEMMA WholeFields ==
    ASSUME NEW p, NEW off \in Nat, NEW n \in Nat, memory[p] \in Seq(Int), off + n <= Len(memory[p]),
           NEW m, m.source = p[1], m.type = p[2], m.off = off,
           m.data = SubSeq(memory[p], off + 1, off + n)
    PROVE  fieldValues(m) = HeldInside(p, off, n)
<1> DEFINE d == SubSeq(memory[p], off + 1, off + n)
           I == Inside(p, off, n)
           present == {f \in Fields(m.source, m.type) : canAccess(m, f.off, f.size)}
<1>1. Len(d) = n
  BY SMT
<1>2. m.source = p[1] /\ m.type = p[2] /\ m.off = off /\ m.data = d
  OBVIOUS
<1> SUFFICES fieldValues(m) = [k \in {f.key : f \in I} |-> Held(p, CHOOSE f \in I : f.key = k)]
  BY Zenon DEF HeldInside
<1>3. \A f \in Fields(p[1], p[2]) : f.off \in Nat /\ f.size \in Nat
  BY FieldShape
<1>4. ASSUME NEW f \in Fields(p[1], p[2])
      PROVE  canAccess(m, f.off, f.size) <=> off <= f.off /\ f.off + f.size <= off + n
  <2> HIDE DEF d
  <2> QED
    BY <1>1, <1>2, <1>3 DEF canAccess
<1>5. ASSUME NEW f \in I
      PROVE  bytesAt(m, f.off, f.size) = SubSeq(memory[p], f.off + 1, f.off + f.size)
  <2>1. f \in Fields(p[1], p[2]) /\ off <= f.off /\ f.off + f.size <= off + n
    BY <1>5, Zenon DEF Inside
  <2> DEFINE i == f.off - off
             j == f.size
             c == memory[p]
  <2>2. i \in Nat /\ j \in Nat /\ i + j <= n /\ off + i = f.off
    BY <1>3, <2>1
  <2>3. c \in Seq(Int) /\ off + n <= Len(c)
    OBVIOUS
  <2> HIDE DEF i, j, c
  <2>4. SubSeq(SubSeq(c, off + 1, off + n), i + 1, i + j) = SubSeq(c, off + i + 1, off + i + j)
    BY <2>2, <2>3, PartOfPart
  <2>5. bytesAt(m, f.off, f.size) = SubSeq(d, i + 1, i + j)
    BY <1>2, Zenon DEF bytesAt, i, j
  <2> QED
    BY <2>2, <2>4, <2>5, Zenon DEF c, j
<1> HIDE DEF d
<1>6. I = present
  BY <1>2, <1>4, Zenon DEF Inside
<1>7. \A f \in I : EmsValue(f, bytesAt(m, f.off, f.size)) = Held(p, f)
  BY <1>5, Zenon DEF Held
<1> DEFINE values(S) == [k \in {f.key : f \in S} |->
                            LET f == CHOOSE g \in S : g.key = k
                            IN  EmsValue(f, bytesAt(m, f.off, f.size))]
<1>8. fieldValues(m) = values(present)
  BY Zenon DEF fieldValues
<1> HIDE DEF I, present
<1>9. ASSUME NEW k \in {f.key : f \in I}
      PROVE  EmsValue(CHOOSE g \in I : g.key = k,
                      bytesAt(m, (CHOOSE g \in I : g.key = k).off, (CHOOSE g \in I : g.key = k).size))
                 = Held(p, CHOOSE f \in I : f.key = k)
  <2> DEFINE g == CHOOSE h \in I : h.key = k
  <2>1. g \in I
    BY <1>9, Zenon
  <2> QED
    BY <1>7, <2>1, Zenon
<1> DEFINE K == {f.key : f \in I}
           read(k) == EmsValue(CHOOSE g \in I : g.key = k,
                               bytesAt(m, (CHOOSE g \in I : g.key = k).off, (CHOOSE g \in I : g.key = k).size))
           held(k) == Held(p, CHOOSE f \in I : f.key = k)
<1>10. fieldValues(m) = [k \in K |-> read(k)]
  <2> HIDE DEF values
  <2>1. fieldValues(m) = values(I)
    BY <1>6, <1>8, Zenon
  <2>2. values(I) = [k \in K |-> read(k)]
    BY Zenon DEF values
  <2> QED
    BY <2>1, <2>2, Zenon
<1>11. \A k \in K : read(k) = held(k)
  BY <1>9, Zenon
<1> HIDE DEF K, read, held
<1>12. [k \in K |-> read(k)] = [k \in K |-> held(k)]
  BY <1>11
<1> QED
  BY <1>10, <1>12, Zenon DEF K, held

\* What a part reports for its fields, also when its type is not found.
LEMMA PartReports ==
    ASSUME PagesOK, NEW p \in pages, NEW off \in Nat, NEW n \in Nat, off + n <= Len(memory[p])
    PROVE  fieldValues(EmsMessage(SentPart(p[1], 0, p[2], off, SubSeq(memory[p], off + 1, off + n))))
               = HeldInside(p, off, n)
<1> DEFINE d == SubSeq(memory[p], off + 1, off + n)
           m == EmsMessage(SentPart(p[1], 0, p[2], off, d))
<1>1. p[1] \in Device /\ p[2] \in TypeCode
  BY PageTypes, Zenon DEF PagesOK
<1>2. memory[p] \in Seq(Int)
  <2>1. memory[p] \in Seq(AnyByte)
    BY CacheAssumption, Zenon DEF PagesOK
  <2>2. AnyByte \subseteq Int
    BY DEF AnyByte
  <2> QED
    BY <2>1, <2>2, SeqOfInts, Zenon
<1>3. d \in Seq(Int) /\ Len(d) = n
  BY <1>2
<1> SUFFICES fieldValues(m) = HeldInside(p, off, n)
  BY Zenon
<1>4. CASE m = [source |-> p[1], dest |-> 0, type |-> p[2], off |-> off, data |-> d]
  <2> HIDE DEF m
  <2>1. m.source = p[1] /\ m.type = p[2] /\ m.off = off /\ m.data = d
    BY <1>4
  <2> QED
    BY <1>2, <2>1, WholeFields
<1>5. CASE d = << >> /\ m = [source |-> p[1], dest |-> 0, type |-> \hff, off |-> off,
                             data |-> <<HighByte(p[2]), LowByte(p[2])>>]
  <2>1. n = 0
    BY <1>3, <1>5
  <2>2. Inside(p, off, n) = {}
    <3> SUFFICES ASSUME NEW f \in Fields(p[1], p[2]), off <= f.off, f.off + f.size <= off + n
                 PROVE  FALSE
      BY Zenon DEF Inside
    <3>1. f.off \in Nat /\ f.size \in Nat \ {0}
      BY FieldShape
    <3> QED
      BY <2>1, <3>1
  <2>3. m.source = p[1] /\ m.type = \hff
    BY <1>5
  <2> HIDE DEF m
  <2>4. Fields(m.source, m.type) = {}
    BY <2>3, NoFields
  <2>5. fieldValues(m) = [k \in {} |-> Held(p, CHOOSE f \in {} : f.key = k)]
    BY <2>4 DEF fieldValues
  <2> QED
    BY <2>2, <2>5, Zenon DEF HeldInside
<1>6. off \in Int
  OBVIOUS
<1> QED
  BY <1>1, <1>3, <1>4, <1>5, <1>6, PartRead, ZenonT(90)

\* For the keys of fields, c has what s has.
Agree(c, s) ==
    \A k \in (DOMAIN c \cup DOMAIN s) \ SpecialKeys : k \in DOMAIN c /\ k \in DOMAIN s /\ c[k] = s[k]

\* What a telegram reports is recorded, and nothing else.
LEMMA Recorded ==
    ASSUME NEW c, NEW s, Agree(c, s), NEW m, NEW junk
    PROVE  Agree(Merge(handle(m, junk), c), Merge(fieldValues(m), s))
<1> DEFINE r == handle(m, junk)
           v == fieldValues(m)
<1>1. \A k : k \notin SpecialKeys => (k \in DOMAIN r <=> k \in DOMAIN v) /\ (k \in DOMAIN v => r[k] = v[k])
  BY Handled, Zenon
<1> HIDE DEF r, v
<1>2. /\ DOMAIN Merge(r, c) = DOMAIN r \cup DOMAIN c
      /\ \A k \in DOMAIN r : Merge(r, c)[k] = r[k]
      /\ \A k \in DOMAIN c \ DOMAIN r : Merge(r, c)[k] = c[k]
  BY Merged, Zenon
<1>3. /\ DOMAIN Merge(v, s) = DOMAIN v \cup DOMAIN s
      /\ \A k \in DOMAIN v : Merge(v, s)[k] = v[k]
      /\ \A k \in DOMAIN s \ DOMAIN v : Merge(v, s)[k] = s[k]
  BY Merged, Zenon
<1> DEFINE C == Merge(r, c)
           S == Merge(v, s)
<1> HIDE DEF C, S
<1>4. ASSUME NEW k \in (DOMAIN C \cup DOMAIN S) \ SpecialKeys
      PROVE  k \in DOMAIN C /\ k \in DOMAIN S /\ C[k] = S[k]
  <2>1. CASE k \in DOMAIN v
    BY <1>1, <1>2, <1>3, <1>4, <2>1 DEF C, S
  <2>2. CASE k \notin DOMAIN v
    <3>1. k \notin DOMAIN r /\ (k \in DOMAIN c \/ k \in DOMAIN s)
      BY <1>1, <1>2, <1>3, <1>4, <2>2 DEF C, S
    <3>2. k \in DOMAIN c /\ k \in DOMAIN s /\ c[k] = s[k]
      BY <1>4, <3>1, Zenon DEF Agree
    <3> QED
      BY <1>2, <1>3, <2>2, <3>1, <3>2 DEF C, S
  <2> QED
    BY <2>1, <2>2
<1>5. Agree(C, S)
  BY <1>4, Zenon DEF Agree
<1> QED
  BY <1>5, Zenon DEF C, S, r, v

\* A telegram without fields leaves those in the cache.
LEMMA NothingRecorded ==
    ASSUME NEW c, NEW s, Agree(c, s), NEW m, NEW junk, Fields(m.source, m.type) = {}
    PROVE  Agree(Merge(handle(m, junk), c), s)
<1> DEFINE r == handle(m, junk)
<1>1. DOMAIN fieldValues(m) = {}
  BY DEF fieldValues
<1>2. \A k \in DOMAIN r : k \in SpecialKeys
  BY <1>1, Handled, Zenon
<1> HIDE DEF r
<1>3. /\ DOMAIN Merge(r, c) = DOMAIN r \cup DOMAIN c
      /\ \A k \in DOMAIN c \ DOMAIN r : Merge(r, c)[k] = c[k]
  BY Merged, Zenon
<1> DEFINE C == Merge(r, c)
<1> HIDE DEF C
<1>4. ASSUME NEW k \in (DOMAIN C \cup DOMAIN s) \ SpecialKeys
      PROVE  k \in DOMAIN C /\ k \in DOMAIN s /\ C[k] = s[k]
  <2>1. k \notin DOMAIN r /\ (k \in DOMAIN c \/ k \in DOMAIN s)
    BY <1>2, <1>3, <1>4 DEF C
  <2>2. k \in DOMAIN c /\ k \in DOMAIN s /\ c[k] = s[k]
    BY <1>4, <2>1, Zenon DEF Agree
  <2> QED
    BY <1>3, <2>1, <2>2 DEF C
<1>5. Agree(C, s)
  BY <1>4, Zenon DEF Agree
<1> QED
  BY <1>5, Zenon DEF C, r

\* The cache agrees with what was sent.
Faithful == PagesOK /\ Agree(cache, sent)

LEMMA FaithfulInit == Init => Faithful
<1> SUFFICES ASSUME Init PROVE Agree(cache, sent)
  BY PagesInit DEF Faithful
<1> QED
  BY NoKeys DEF Init, Agree

LEMMA PartStep ==
    ASSUME Faithful, NEW p \in pages, NEW x \in Parts, Part(p, x[1], x[2])
    PROVE  Agree(cache, sent)'
<1> DEFINE m == EmsMessage(SentPart(p[1], 0, p[2], x[1], SubSeq(memory[p], x[1] + 1, x[1] + x[2])))
<1>1. PICK junk \in Junk(m.type) : cache' = Merge(handle(m, junk), cache)
  BY Zenon DEF Part, Receive, handleValues
<1>2. x[1] \in Nat /\ x[2] \in Nat
  BY CacheAssumption, Zenon
<1>3. x[1] + x[2] <= Len(memory[p])
  BY Zenon DEF Part
<1>4. fieldValues(m) = HeldInside(p, x[1], x[2])
  <2> DEFINE off == x[1]
             n == x[2]
  <2>1. off \in Nat /\ n \in Nat /\ off + n <= Len(memory[p]) /\ PagesOK
    BY <1>2, <1>3, Zenon DEF Faithful
  <2> HIDE DEF off, n
  <2>2. fieldValues(EmsMessage(SentPart(p[1], 0, p[2], off, SubSeq(memory[p], off + 1, off + n))))
            = HeldInside(p, off, n)
    BY <2>1, PartReports
  <2> QED
    BY <2>2, Zenon DEF off, n
<1>5. sent' = Merge(HeldInside(p, x[1], x[2]), sent)
  BY Zenon DEF Part, HeldInside
<1> HIDE DEF m
<1>6. Agree(Merge(handle(m, junk), cache), Merge(fieldValues(m), sent))
  BY Recorded, Zenon DEF Faithful
<1>7. Agree(cache', sent')
  BY <1>1, <1>4, <1>5, <1>6, Zenon
<1> QED
  BY <1>7, Zenon DEF Agree

LEMMA RequestStep ==
    ASSUME Faithful, NEW p \in pages, NEW x \in Parts, NEW asker \in {UBA2, UI800},
           Request(asker, p, x[1], x[2])
    PROVE  Agree(cache, sent)'
<1> DEFINE m == EmsMessage(SentRequest(asker, p[1], p[2], x[1], x[2]))
<1>1. PICK junk \in Junk(m.type) : cache' = Merge(handle(m, junk), cache)
  BY Zenon DEF Request, Receive, handleValues
<1>2. p[1] \in Device /\ p[2] \in TypeCode /\ \A s \in Device \ {p[1]} : Fields(s, p[2]) = {}
  BY PageTypes, Zenon DEF Faithful, PagesOK
<1>3. asker \in Device \ {p[1]}
  BY Zenon DEF Request, Device
<1>4. m.source = asker /\ m.type = p[2]
  <2>1. x[1] \in Int /\ x[2] \in Int
    BY CacheAssumption
  <2>2. m = [source |-> asker, dest |-> p[1], type |-> p[2], off |-> x[1], data |-> <<x[2]>>]
    BY <1>2, <1>3, <2>1, DeviceRequest
  <2> HIDE DEF m
  <2> QED
    BY <2>2
<1> HIDE DEF m
<1>5. Fields(m.source, m.type) = {}
  BY <1>2, <1>3, <1>4, Zenon
<1>6. Agree(Merge(handle(m, junk), cache), sent)
  BY <1>5, NothingRecorded, Zenon DEF Faithful
<1>7. Agree(cache', sent')
  BY <1>1, <1>6, Zenon DEF Request
<1> QED
  BY <1>7, Zenon DEF Agree

LEMMA EchoStep ==
    ASSUME Faithful, NEW p \in pages, NEW x \in Parts, Echo(p, x[1], x[2])
    PROVE  Agree(cache, sent)'
<1> DEFINE m == EmsMessage(getSendData(p[1], p[2], x[1], <<x[2]>>))
<1>1. PICK junk \in Junk(m.type) : cache' = Merge(handle(m, junk), cache)
  BY Zenon DEF Echo, Receive, handleValues
<1>2. p[1] \in Device /\ p[2] \in TypeCode
  BY PageTypes, Zenon DEF Faithful, PagesOK
<1>3. m.source = PC
  <2>1. x[1] \in Int /\ x[2] \in Int /\ p[1] \in Int
    BY <1>2, CacheAssumption DEF Device, UBA2, UI800
  <2>2. m = [source |-> PC, dest |-> p[1], type |-> p[2], off |-> x[1], data |-> <<x[2]>>]
    BY <1>2, <2>1, OwnRequest
  <2> HIDE DEF m
  <2> QED
    BY <2>2
<1> HIDE DEF m
<1>4. Fields(m.source, m.type) = {}
  BY <1>3, NoFields
<1>5. Agree(Merge(handle(m, junk), cache), sent)
  BY <1>4, NothingRecorded, Zenon DEF Faithful
<1>6. Agree(cache', sent')
  BY <1>1, <1>5, Zenon DEF Echo
<1> QED
  BY <1>6, Zenon DEF Agree

LEMMA FaithfulStep == Faithful /\ [Next]_vars => Faithful'
<1> SUFFICES ASSUME Faithful, [Next]_vars PROVE Agree(cache, sent)'
  BY PagesStep DEF Faithful
<1>1. CASE UNCHANGED <<cache, sent>>
  BY <1>1, Zenon DEF Faithful, Agree
<1>2. ASSUME NEW p \in pages, Change(p) PROVE UNCHANGED <<cache, sent>>
  BY <1>2, Zenon DEF Change
<1>3. CASE UNCHANGED vars
  BY <1>1, <1>3, Zenon DEF vars
<1>4. CASE Next
  BY <1>1, <1>2, <1>4, PartStep, RequestStep, EchoStep, Zenon DEF Next
<1> QED
  BY <1>3, <1>4

THEOREM FaithfulAlways == Spec => []Faithful
BY FaithfulInit, FaithfulStep, PTL DEF Spec

\* However the pages of the devices are cut into telegrams, and whatever is
\* asked for in between, the cache has just the fields that were sent, with
\* the values the devices held when they sent them.
THEOREM CacheIsFaithful == Spec => []CacheHoldsWhatWasSent
<1>1. Faithful => CacheHoldsWhatWasSent
  <2> SUFFICES ASSUME Faithful, NEW p \in pages, NEW f \in Fields(p[1], p[2])
               PROVE  /\ f.key \in DOMAIN cache <=> f.key \in DOMAIN sent
                      /\ f.key \in DOMAIN sent => cache[f.key] = sent[f.key]
    BY Zenon DEF CacheHoldsWhatWasSent
  <2>1. f.key \notin SpecialKeys
    BY FieldShape
  <2> QED
    BY <2>1, Zenon DEF Faithful, Agree
<1> QED
  BY <1>1, FaithfulAlways, PTL

-----------------------------------------------------------------------------
(* The values of the fields *)

\* The size and the kind of a field, by the type of its value.
ShapeOf(type) ==
    CASE type = "IstTemp" -> <<2, "temperature">>
      [] type \in {"Flammenstrom", "ExtraRemainingMins", "BoostRemainingMins"} -> <<2, "signed">>
      [] type = "Systemdruck" -> <<1, "unsigned">>
      [] type \in {"HektoStundenVorWartung", "MonateVorWartung", "IstModulation", "SollModulation"} ->
             <<1, "integer">>
      [] type = "TemporaryTemp" -> <<1, "halfDegrees">>
      [] type \in {"DreiWegeVentilAufWW", "ZirkulationAktiv", "ExtraActive", "ATDaempfung",
                   "BoostActive", "Sommerbetrieb"} -> <<1, "bool">>
      [] type \in {"Wartungsmeldungen", "Betriebsart", "Betriebszustand", "GebaeudeArt",
                   "Sommerbetriebsart"} -> <<1, "Enumeration">>
      [] type = "Wartungstermin" -> <<3, "Date">>
      [] type = "SystemZeit" -> <<8, "SystemTime">>
      [] OTHER -> <<1, "signed">>

\* Fields whose values have a type in common are alike, on whatever pages.
LEMMA FieldsAlike ==
    ASSUME NEW s, NEW t, NEW f \in Fields(s, t)
    PROVE  f.size = ShapeOf(f.key[1])[1] /\ f.kind = ShapeOf(f.key[1])[2]
<1>1. ASSUME f \in UBA2Fields(t)
      PROVE  f.size = ShapeOf(f.key[1])[1] /\ f.kind = ShapeOf(f.key[1])[2]
  BY <1>1 DEF UBA2Fields, Field, parseEnum, parseNumeric, parseInteger, parseTemperature, parseBool,
              parseUnsigned, parseRecord, ShapeOf
<1>2. ASSUME f \in UI800Fields(t)
      PROVE  f.size = ShapeOf(f.key[1])[1] /\ f.kind = ShapeOf(f.key[1])[2]
  BY <1>2 DEF UI800Fields, Field, parseEnum, parseNumeric, parseInteger, parseTemperature, parseBool,
              parseUnsigned, parseRecord, ShapeOf
<1> QED
  BY <1>1, <1>2 DEF Fields, UBA2, UI800

\* No field has a type of the values that are read without regard to the offset.
LEMMA FieldTypes ==
    ASSUME NEW s, NEW t, NEW f \in Fields(s, t)
    PROVE  f.key[1] \notin {"FehlerCode", "ServiceCode", "StoerungsCode", "StoerungsNummer",
                            "FlammeAktiv", "Stoerung"}
<1> DEFINE G == f.key[1] \notin {"FehlerCode", "ServiceCode", "StoerungsCode", "StoerungsNummer",
                                "FlammeAktiv", "Stoerung"}
<1>1. ASSUME f \in UBA2Fields(t) PROVE G
  BY <1>1 DEF UBA2Fields, Field, parseEnum, parseNumeric, parseInteger, parseTemperature, parseBool,
              parseUnsigned, parseRecord
<1>2. ASSUME f \in UI800Fields(t) PROVE G
  BY <1>2 DEF UI800Fields, Field, parseEnum, parseNumeric, parseInteger, parseTemperature, parseBool,
              parseUnsigned, parseRecord
<1> QED
  BY <1>1, <1>2 DEF Fields, UBA2, UI800

\* The sizes and kinds there are, and the bits.
LEMMA FieldKinds ==
    ASSUME NEW s, NEW t, NEW f \in Fields(s, t)
    PROVE  /\ \/ f.kind \in {"signed", "temperature"} /\ f.size \in {1, 2}
              \/ f.kind \in {"unsigned", "integer", "halfDegrees", "bool", "Enumeration"} /\ f.size = 1
              \/ f.kind \in {"Date", "SystemTime"}
           /\ f.bit \in {0, 1, 4, 5, 7}
<1> DEFINE G == /\ \/ f.kind \in {"signed", "temperature"} /\ f.size \in {1, 2}
                   \/ f.kind \in {"unsigned", "integer", "halfDegrees", "bool", "Enumeration"} /\ f.size = 1
                   \/ f.kind \in {"Date", "SystemTime"}
                /\ f.bit \in {0, 1, 4, 5, 7}
<1>1. ASSUME f \in UBA2Fields(t) PROVE G
  BY <1>1 DEF UBA2Fields, Field, parseEnum, parseNumeric, parseInteger, parseTemperature, parseBool,
              parseUnsigned, parseRecord
<1>2. ASSUME f \in UI800Fields(t) PROVE G
  BY <1>2 DEF UI800Fields, Field, parseEnum, parseNumeric, parseInteger, parseTemperature, parseBool,
              parseUnsigned, parseRecord
<1> QED
  BY <1>1, <1>2 DEF Fields, UBA2, UI800

\* How many numbers one and two bytes hold.
Ranges == {256, 65536}

LEMMA Unsigned ==
    ASSUME NEW b \in Seq(AnyByte), Len(b) \in {1, 2}
    PROVE  /\ unsigned(b) \in Nat /\ unsigned(b) < Limit(b)
           /\ Limit(b) = 256 ^ Len(b) /\ Limit(b) \in Ranges
<1>1. \A i \in 1 .. Len(b) : b[i] \in Nat /\ b[i] < 256
  <2>1. \A i \in 1 .. Len(b) : b[i] \in AnyByte
    OBVIOUS
  <2>2. \A x \in AnyByte : x \in Nat /\ x < 256
    BY DEF AnyByte
  <2> QED
    BY <2>1, <2>2, Zenon
<1>2. 256 ^ 1 = 256 /\ 256 ^ 2 = 65536
  OBVIOUS
<1>3. CASE Len(b) = 1
  <2>1. unsigned(b) = b[1] /\ Limit(b) = 256
    BY <1>3 DEF unsigned, Limit
  <2> QED
    BY <1>1, <1>2, <1>3, <2>1 DEF Ranges
<1>4. CASE Len(b) = 2
  <2>1. unsigned(b) = 256 * b[1] + b[2] /\ Limit(b) = 65536
    BY <1>4 DEF unsigned, Limit
  <2> QED
    BY <1>1, <1>2, <1>4, <2>1 DEF Ranges
<1> QED
  BY <1>3, <1>4

\* Of these values a number of L states has the readings of its kind.
LEMMA Halves ==
    ASSUME NEW L \in Ranges, NEW v \in Nat, v < L
    PROVE  /\ 2 * v >= L => v - L \in (-L \div 2) .. (L \div 2 - 1)
           /\ ~(2 * v >= L) => v \in (-L \div 2) .. (L \div 2 - 1)
           /\ v \in 0 .. (L - 1)
<1> DEFINE lo == -L \div 2
           hi == L \div 2 - 1
<1>1. L \in Int /\ lo \in Int /\ hi \in Int /\ L = 2 * hi + 2 /\ lo = 0 - (hi + 1)
  BY DEF Ranges
<1> HIDE DEF lo, hi
<1>2. /\ 2 * v >= L => v - L \in lo .. hi
      /\ ~(2 * v >= L) => v \in lo .. hi
      /\ v \in 0 .. (L - 1)
  BY <1>1
<1> QED
  BY <1>2, Zenon DEF lo, hi

\* The C++ type of a value.
KindOf(kind) ==
    CASE kind \in {"signed", "unsigned", "temperature", "halfDegrees"} -> "Numeric"
      [] kind = "integer" -> "Integer"
      [] kind = "bool" -> "Boolean"
      [] OTHER -> kind

\* A value made of the bytes of a field is of its kind, and in its range.
LEMMA FieldReading ==
    ASSUME NEW s, NEW t, NEW f \in Fields(s, t), NEW b \in Seq(AnyByte), Len(b) = f.size
    PROVE  LET v == EmsValue(f, b)
           IN  /\ v.kind = KindOf(f.kind)
               /\ v.valid \in BOOLEAN /\ v.reading \in Seq(Int)
               /\ IsReading(f, v.reading)
<1> DEFINE v == EmsValue(f, b)
           Good == /\ v.kind = KindOf(f.kind)
                   /\ v.valid \in BOOLEAN /\ v.reading \in Seq(Int)
                   /\ IsReading(f, v.reading)
<1> SUFFICES Good
  OBVIOUS
<1>1. CASE f.kind \in {"signed", "temperature"} /\ f.size \in {1, 2}
  <2> DEFINE L == Limit(b)
             u == unsigned(b)
             x == IF 2 * u >= L THEN u - L ELSE u
  <2>1. u \in Nat /\ u < L /\ L = 256 ^ f.size /\ L \in Ranges
    <3>1. Len(b) \in {1, 2}
      BY <1>1, Zenon
    <3> QED
      BY <3>1, Unsigned, Zenon
  <2>2. /\ v.reading = <<x>>
        /\ v.kind = "Numeric" /\ v.valid \in BOOLEAN
    BY <1>1 DEF EmsValue, numeric, Value
  <2> HIDE DEF u, L
  <2>3. x \in (-L \div 2) .. (L \div 2 - 1)
    BY <2>1, Halves, ZenonT(90)
  <2>4. x \in Int
    BY <2>1 DEF Ranges
  <2> HIDE DEF x
  <2>5. v.reading \in Seq(Int) /\ Len(v.reading) = 1 /\ v.reading[1] = x
    BY <2>2, <2>4
  <2> HIDE DEF v
  <2>6. IsReading(f, v.reading)
    BY <1>1, <2>1, <2>3, <2>5 DEF IsReading
  <2> QED
    BY <1>1, <2>2, <2>5, <2>6 DEF KindOf
<1>2. CASE f.kind \in {"unsigned", "integer", "halfDegrees"} /\ f.size = 1
  <2> DEFINE L == Limit(b)
             u == unsigned(b)
  <2>1. u \in Nat /\ u < L /\ L = 256 ^ f.size /\ L \in Ranges
    <3>1. Len(b) \in {1, 2}
      BY <1>2, Zenon
    <3> QED
      BY <3>1, Unsigned, Zenon
  <2>2. /\ v.reading = <<u>>
        /\ v.kind = KindOf(f.kind) /\ v.valid \in BOOLEAN
    BY <1>2 DEF EmsValue, numeric, Value, KindOf
  <2> HIDE DEF u, L
  <2>3. u \in 0 .. (L - 1)
    BY <2>1, Halves, Zenon
  <2> u \in Int
    BY <2>1
  <2>4. v.reading \in Seq(Int) /\ Len(v.reading) = 1 /\ v.reading[1] = u
    BY <2>2, <2>3
  <2> HIDE DEF v
  <2>5. IsReading(f, v.reading)
    <3>1. IsReading(f, v.reading) <=> Len(v.reading) = 1 /\ v.reading[1] \in 0 .. (256 ^ f.size - 1)
      BY <1>2 DEF IsReading
    <3> QED
      BY <2>1, <2>3, <2>4, <3>1, Zenon
  <2> QED
    BY <2>2, <2>4, <2>5
<1>3. CASE f.kind = "bool" /\ f.size = 1
  <2> DEFINE u == (b[1] \div (2 ^ f.bit)) % 2
  <2>1. b[1] \in Int
    <3>1. b[1] \in AnyByte
      <4>1. Len(b) = 1
        BY <1>3, Zenon
      <4> QED
        BY <4>1
    <3>2. AnyByte \subseteq Int
      BY DEF AnyByte
    <3> QED
      BY <3>1, <3>2
  <2>2. u \in {0, 1}
    <3>1. 2 ^ f.bit \in Nat \ {0}
      <4>1. \A i \in {0, 1, 4, 5, 7} : 2 ^ i \in Nat \ {0}
        <5>1. 2 ^ 0 \in Nat \ {0} /\ 2 ^ 1 \in Nat \ {0}
          OBVIOUS
        <5>2. 2 ^ 4 \in Nat \ {0} /\ 2 ^ 5 \in Nat \ {0} /\ 2 ^ 7 \in Nat \ {0}
          OBVIOUS
        <5> QED
          BY <5>1, <5>2, Zenon
      <4>2. f.bit \in {0, 1, 4, 5, 7}
        BY FieldKinds, Zenon
      <4> QED
        BY <4>1, <4>2, Zenon
    <3> DEFINE q == 2 ^ f.bit
               w == b[1] \div q
    <3> HIDE DEF q
    <3>2. w \in Int
      BY <2>1, <3>1 DEF q
    <3> HIDE DEF w
    <3>3. w % 2 \in {0, 1}
      BY <3>2
    <3> QED
      BY <3>3, Zenon DEF w, q
  <2> HIDE DEF u
  <2>3. /\ v.reading = <<u>>
        /\ v.kind = KindOf(f.kind) /\ v.valid \in BOOLEAN
    BY <1>3 DEF EmsValue, Value, KindOf, u
  <2>4. v.reading \in Seq(Int) /\ Len(v.reading) = 1 /\ v.reading[1] = u
    BY <2>2, <2>3
  <2> HIDE DEF v
  <2>5. IsReading(f, v.reading)
    BY <1>3, <2>2, <2>4 DEF IsReading
  <2> QED
    BY <2>3, <2>4, <2>5
<1>4. CASE f.kind \in {"Enumeration", "Date", "SystemTime"}
  <2>1. v.reading = b /\ v.kind = f.kind /\ v.valid = TRUE
    BY <1>4 DEF EmsValue, Value
  <2>2. b \in Seq(Int)
    <3>1. AnyByte \subseteq Int
      BY DEF AnyByte
    <3> QED
      BY <3>1, SeqOfInts, Zenon
  <2> HIDE DEF v
  <2>3. IsReading(f, v.reading)
    BY <1>4, <2>1 DEF IsReading
  <2> QED
    BY <1>4, <2>1, <2>2, <2>3 DEF KindOf
<1> QED
  BY <1>1, <1>2, <1>3, <1>4, FieldKinds

-----------------------------------------------------------------------------
(* Everything that is reported *)

FormattedTypes == {"FehlerCode", "ServiceCode", "StoerungsCode", "StoerungsNummer"}

\* The C++ type of the value with key k.
KindOfKey(k) ==
    CASE k[1] \in FormattedTypes              -> "Formatted"
      [] k[1] \in {"FlammeAktiv", "Stoerung"} -> "Boolean"
      [] OTHER                                -> KindOf(ShapeOf(k[1])[2])

\* Some telegram can report k.
Known(k) == k \in SpecialKeys \/ \E s, t : \E f \in Fields(s, t) : f.key = k

IsValue(v) == v = Value(v.kind, v.valid, v.reading)

LEMMA Valued == \A kind, valid, reading : IsValue(Value(kind, valid, reading))
BY DEF IsValue, Value

LEMMA ReadValue ==
    ASSUME NEW f, NEW b
    PROVE  IsValue(EmsValue(f, b))
<1>1. \A kind, isSigned, isTemperature : IsValue(numeric(b, kind, isSigned, isTemperature))
  BY Valued, Zenon DEF numeric
<1> QED
  BY <1>1, Valued, Zenon DEF EmsValue

\* v is a value that key k can have.
Sound(k, v) ==
    /\ Known(k)
    /\ IsValue(v)
    /\ v.kind = KindOfKey(k)
    /\ v.valid \in BOOLEAN /\ v.reading \in Seq(Int)
    /\ \A s, t : \A f \in Fields(s, t) : f.key = k => IsReading(f, v.reading)

AllSound(values) == \A k \in DOMAIN values : Sound(k, values[k])

LEMMA MergedSound ==
    ASSUME NEW f, NEW g, AllSound(f), AllSound(g)
    PROVE  AllSound(Merge(f, g))
<1> SUFFICES ASSUME NEW k \in DOMAIN Merge(f, g)
             PROVE  Sound(k, Merge(f, g)[k])
  BY Zenon DEF AllSound
<1>1. k \in DOMAIN f \/ k \in DOMAIN g \ DOMAIN f
  BY Merged, Zenon
<1>2. CASE k \in DOMAIN f
  BY <1>2, Merged, Zenon DEF AllSound
<1>3. CASE k \in DOMAIN g \ DOMAIN f
  <2>1. \A j \in DOMAIN g \ DOMAIN f : Merge(f, g)[j] = g[j]
    BY Merged, Zenon
  <2>2. Merge(f, g)[k] = g[k] /\ k \in DOMAIN g
    BY <1>3, <2>1
  <2> QED
    BY <2>2, Zenon DEF AllSound
<1> QED
  BY <1>1, <1>2, <1>3

LEMMA NoneSound == AllSound(NoValues)
BY NoKeys, Zenon DEF AllSound

\* A single report that is not of a field.
LEMMA SpecialSound ==
    ASSUME NEW k \in SpecialKeys, NEW kind, kind = KindOfKey(k), NEW r \in Seq(Int)
    PROVE  AllSound([j \in {k} |-> Value(kind, TRUE, r)])
<1> DEFINE v == Value(kind, TRUE, r)
<1>1. v.kind = kind /\ v.valid \in BOOLEAN /\ v.reading \in Seq(Int)
  BY DEF Value
<1>4. IsValue(v)
  BY Valued, Zenon
<1>2. \A s, t : \A f \in Fields(s, t) : f.key # k
  <2> SUFFICES ASSUME NEW s, NEW t, NEW f \in Fields(s, t) PROVE f.key # k
    BY Zenon
  <2> QED
    BY FieldShape
<1> HIDE DEF v
<1>3. Sound(k, v)
  BY <1>1, <1>2, <1>4, Zenon DEF Sound, Known
<1> QED
  BY <1>3, Zenon DEF AllSound, v

LEMMA SpecialKinds ==
    \A k \in SpecialKeys :
        KindOfKey(k) = IF k \in {<<"FlammeAktiv", "None">>, <<"Stoerung", "Kessel">>, <<"Stoerung", "RC">>}
                       THEN "Boolean" ELSE "Formatted"
BY DEF SpecialKeys, KindOfKey, ErrorCode, ErrorNumber, FormattedTypes

\* The fields, read from bytes.
LEMMA FieldsSound ==
    ASSUME NEW m, m.off \in Int, m.data \in Seq(AnyByte)
    PROVE  AllSound(fieldValues(m))
<1> DEFINE present == {f \in Fields(m.source, m.type) : canAccess(m, f.off, f.size)}
           F(k) == CHOOSE g \in present : g.key = k
           V(f) == EmsValue(f, bytesAt(m, f.off, f.size))
<1>1. ASSUME NEW k \in DOMAIN fieldValues(m)
      PROVE  F(k) \in present /\ F(k).key = k /\ fieldValues(m)[k] = V(F(k))
  <2>1. fieldValues(m) = [j \in {f.key : f \in present} |-> V(F(j))]
    BY Zenon DEF fieldValues
  <2> HIDE DEF present, V
  <2>2. k \in {f.key : f \in present}
    BY <1>1, <2>1, Zenon
  <2>3. PICK g \in present : g.key = k
    BY <2>2, Zenon
  <2>4. F(k) \in present /\ F(k).key = k
    BY <2>3, Zenon
  <2> HIDE DEF F
  <2>5. fieldValues(m)[k] = V(F(k))
    BY <2>1, <2>2, Zenon
  <2> QED
    BY <2>4, <2>5, Zenon DEF F
<1>2. ASSUME NEW f \in present
      PROVE  Sound(f.key, V(f))
  <2> DEFINE b == bytesAt(m, f.off, f.size)
             i == f.off - m.off
  <2>1. f \in Fields(m.source, m.type) /\ canAccess(m, f.off, f.size)
    BY <1>2, Zenon
  <2>2. f.off \in Nat /\ f.size \in Nat /\ f.key \notin SpecialKeys
    BY <2>1, FieldShape
  <2>3. i \in Nat /\ i + f.size <= Len(m.data) /\ Len(m.data) \in Nat
    <3>1. Len(m.data) \in Nat
      OBVIOUS
    <3>2. f.off >= m.off /\ f.off + f.size <= m.off + Len(m.data)
      BY <2>1, Zenon DEF canAccess
    <3> QED
      BY <2>2, <3>1, <3>2
  <2> HIDE DEF i
  <2>4. b = SubSeq(m.data, i + 1, i + f.size)
    BY Zenon DEF bytesAt, i
  <2> DEFINE n == f.size
             d == m.data
             c == SubSeq(d, i + 1, i + n)
  <2>5. c \in Seq(AnyByte) /\ Len(c) = n
    <3>1. d \in Seq(AnyByte) /\ n \in Nat /\ i \in Nat /\ i + n <= Len(d) /\ Len(d) \in Nat
      BY <2>2, <2>3
    <3> HIDE DEF d, n
    <3> QED
      BY <3>1
  <2>6. b \in Seq(AnyByte) /\ Len(b) = f.size
    BY <2>4, <2>5, Zenon
  <2> HIDE DEF b
  <2>7. LET v == EmsValue(f, b)
        IN  IsValue(v) /\ v.kind = KindOf(f.kind) /\ v.valid \in BOOLEAN /\ v.reading \in Seq(Int)
    BY <2>1, <2>6, FieldReading, ReadValue, Zenon
  <2>8. KindOf(f.kind) = KindOfKey(f.key)
    <3>1. f.kind = ShapeOf(f.key[1])[2]
      BY <2>1, FieldsAlike, Zenon
    <3>2. f.key[1] \notin FormattedTypes \cup {"FlammeAktiv", "Stoerung"}
      BY <2>1, FieldTypes DEF FormattedTypes
    <3> HIDE DEF present
    <3> QED
      BY <3>1, <3>2, Zenon DEF KindOfKey
  <2>9. ASSUME NEW s, NEW t, NEW g \in Fields(s, t), g.key = f.key
        PROVE  IsReading(g, EmsValue(f, b).reading)
    <3>1. IsReading(f, EmsValue(f, b).reading)
      BY <2>1, <2>6, FieldReading, Zenon
    <3>2. g.kind = f.kind /\ g.size = f.size
      <4>1. g.size = ShapeOf(g.key[1])[1] /\ g.kind = ShapeOf(g.key[1])[2]
        BY FieldsAlike, Zenon
      <4>2. f.size = ShapeOf(f.key[1])[1] /\ f.kind = ShapeOf(f.key[1])[2]
        BY <2>1, FieldsAlike, Zenon
      <4> QED
        BY <2>9, <4>1, <4>2, Zenon
    <3> QED
      BY <3>1, <3>2, Zenon DEF IsReading
  <2>10. Known(f.key)
    BY <2>1, Zenon DEF Known
  <2> QED
    BY <2>7, <2>8, <2>9, <2>10, Zenon DEF Sound, b
<1> HIDE DEF present, F, V
<1>3. ASSUME NEW k \in DOMAIN fieldValues(m)
      PROVE  Sound(k, fieldValues(m)[k])
  <2>1. F(k) \in present /\ F(k).key = k /\ fieldValues(m)[k] = V(F(k))
    BY <1>1
  <2>2. Sound(F(k).key, V(F(k)))
    BY <1>2, <2>1
  <2> QED
    BY <2>1, <2>2, Zenon
<1> QED
  BY <1>3, Zenon DEF AllSound

\* A byte of a telegram, or one behind its end, is a number.
LEMMA ByteFound ==
    ASSUME NEW m, m.data \in Seq(Int), NEW junk \in [0 .. 2 -> Int], NEW i \in Nat
    PROVE  byte(m, i, junk) \in Int
<1>1. CASE i < Len(m.data)
  <2>1. Len(m.data) \in Nat /\ i + 1 \in 1 .. Len(m.data)
    BY <1>1
  <2>2. m.data[i + 1] \in Int
    BY <2>1
  <2> QED
    BY <1>1, <2>2, Zenon DEF byte
<1>2. CASE ~(i < Len(m.data))
  <2> DEFINE j == i % 3
  <2>1. j \in 0 .. 2
    OBVIOUS
  <2> HIDE DEF j
  <2>2. junk[j] \in Int
    BY <2>1
  <2> QED
    BY <1>2, <2>2, Zenon DEF byte, j
<1> QED
  BY <1>1, <1>2

LEMMA BytesFound ==
    ASSUME NEW m, m.data \in Seq(Int), NEW junk \in [0 .. 2 -> Int], NEW i \in Nat, NEW n \in Nat
    PROVE  At(m, i, n, junk) \in Seq(Int) /\ Len(At(m, i, n, junk)) = n
<1> DEFINE b(j) == byte(m, i + j - 1, junk)
<1>1. \A j \in 1 .. n : b(j) \in Int
  <2> TAKE j \in 1 .. n
  <2> DEFINE x == i + j - 1
  <2>1. x \in Nat
    OBVIOUS
  <2> HIDE DEF x
  <2>2. byte(m, x, junk) \in Int
    BY <2>1, ByteFound
  <2> QED
    BY <2>2, Zenon DEF x
<1>2. At(m, i, n, junk) = [j \in 1 .. n |-> b(j)]
  BY Zenon DEF At
<1> HIDE DEF b
<1>3. [j \in 1 .. n |-> b(j)] \in Seq(Int) /\ Len([j \in 1 .. n |-> b(j)]) = n
  BY <1>1
<1> QED
  BY <1>2, <1>3, Zenon

LEMMA UnsignedPair ==
    ASSUME NEW c \in Seq(Int), Len(c) = 2
    PROVE  unsigned(c) \in Int
<1>1. \A i \in 1 .. Len(c) : c[i] \in Int
  BY ElementsIn, Zenon
<1>2. c[1] \in Int /\ c[2] \in Int
  <2>1. 1 \in 1 .. Len(c) /\ 2 \in 1 .. Len(c)
    OBVIOUS
  <2> QED
    BY <1>1, <2>1, Zenon
<1> QED
  BY <1>2 DEF unsigned

LEMMA UnsignedFound ==
    ASSUME NEW m, m.data \in Seq(Int), NEW junk \in [0 .. 2 -> Int], NEW i \in Nat
    PROVE  unsigned(At(m, i, 2, junk)) \in Int
<1> DEFINE b == At(m, i, 2, junk)
<1>1. b \in Seq(Int) /\ Len(b) = 2
  BY BytesFound
<1> HIDE DEF b
<1>2. unsigned(b) \in Int
  BY <1>1, UnsignedPair, Zenon
<1> QED
  BY <1>2, Zenon DEF b

LEMMA MonitorSound ==
    ASSUME NEW m, m.data \in Seq(Int), NEW junk \in [0 .. 2 -> Int]
    PROVE  AllSound(monitorValues(m, junk))
<1> DEFINE u == unsigned(At(m, 4, 2, junk))
           w == IF unsigned(At(m, 19, 2, junk)) > 5 THEN 1 ELSE 0
           code == [k \in {<<"FehlerCode", "None">>} |-> Value("Formatted", TRUE, <<u>>)]
           service == [k \in {<<"ServiceCode", "None">>} |-> Value("Formatted", TRUE, << >>)]
           flame == [k \in {<<"FlammeAktiv", "None">>} |-> Value("Boolean", TRUE, <<w>>)]
           a == IF canAccess(m, 4, 2) THEN Merge(code, service) ELSE NoValues
           b == IF canAccess(m, 19, 2) THEN flame ELSE NoValues
<1>1. monitorValues(m, junk) = Merge(a, b)
  BY Zenon DEF monitorValues
<1>2. u \in Int /\ w \in Int
  BY UnsignedFound
<1> HIDE DEF u, w
<1>3. <<u>> \in Seq(Int) /\ <<w>> \in Seq(Int) /\ << >> \in Seq(Int)
  BY <1>2
<1>4. /\ <<"FehlerCode", "None">> \in SpecialKeys /\ KindOfKey(<<"FehlerCode", "None">>) = "Formatted"
      /\ <<"ServiceCode", "None">> \in SpecialKeys /\ KindOfKey(<<"ServiceCode", "None">>) = "Formatted"
      /\ <<"FlammeAktiv", "None">> \in SpecialKeys /\ KindOfKey(<<"FlammeAktiv", "None">>) = "Boolean"
  BY DEF SpecialKeys, KindOfKey, FormattedTypes
<1>5. AllSound(code) /\ AllSound(service) /\ AllSound(flame)
  BY <1>3, <1>4, SpecialSound, Zenon
<1> HIDE DEF code, service, flame
<1>6. AllSound(Merge(code, service))
  BY <1>5, MergedSound
<1>7. AllSound(a) /\ AllSound(b)
  BY <1>5, <1>6, NoneSound, Zenon
<1> HIDE DEF a, b
<1> QED
  BY <1>1, <1>7, MergedSound, Zenon

\* The offsets in the three records.
Offsets == {5, 8, 12, 15, 19, 22}

\* i is the last of the offsets in S.
LastIn(S, i) ==
    /\ i \in S /\ i \in Nat
    /\ \A j \in S : j <= i
    /\ \A m, n, junk : LastOf(m, S, n, junk) = At(m, i, n, junk)

LEMMA LastRecord ==
    ASSUME NEW S, S # {}, S \subseteq Offsets
    PROVE  \E i : LastIn(S, i)
<1> DEFINE i == CHOOSE i \in S : \A j \in S : j <= i
<1>1. \E x \in S : \A j \in S : j <= x
  <2> USE DEF Offsets
  <2>1. \A x \in S : x \in Int /\ x <= 22
    OBVIOUS
  <2>2. CASE 22 \in S
    BY <2>1, <2>2
  <2>3. CASE 19 \in S /\ 22 \notin S
    BY <2>3
  <2>4. CASE 15 \in S /\ 19 \notin S /\ 22 \notin S
    BY <2>4
  <2>5. CASE 12 \in S /\ 15 \notin S /\ 19 \notin S /\ 22 \notin S
    BY <2>5
  <2>6. CASE 8 \in S /\ 12 \notin S /\ 15 \notin S /\ 19 \notin S /\ 22 \notin S
    BY <2>6
  <2>7. CASE 5 \in S /\ 8 \notin S /\ 12 \notin S /\ 15 \notin S /\ 19 \notin S /\ 22 \notin S
    BY <2>7
  <2> QED
    BY <2>2, <2>3, <2>4, <2>5, <2>6, <2>7
<1>2. i \in S /\ \A j \in S : j <= i
  BY <1>1, Zenon
<1>3. \A m, n, junk : LastOf(m, S, n, junk) = At(m, i, n, junk)
  BY Zenon DEF LastOf
<1> HIDE DEF i
<1>4. i \in Nat
  BY <1>2 DEF Offsets
<1> QED
  BY <1>2, <1>3, <1>4, Zenon DEF LastIn

LEMMA FaultByte ==
    ASSUME NEW m, m.off \in Int, m.data \in Seq(Int), canAccess(m, 7, 1)
    PROVE  bytesAt(m, 7, 1)[1] \in Int
<1> DEFINE o == m.off
           d == m.data
           i == 7 - o
<1>1. d \in Seq(Int) /\ Len(d) \in Nat /\ o \in Int
  OBVIOUS
<1>2. 7 >= o /\ 7 + 1 <= o + Len(d)
  BY Zenon DEF canAccess
<1> HIDE DEF d, o
<1>3. i \in Nat /\ i + 1 <= Len(d)
  BY <1>1, <1>2
<1>4. bytesAt(m, 7, 1) = SubSeq(d, i + 1, i + 1)
  BY Zenon DEF bytesAt, d, o
<1> HIDE DEF i
<1>5. SubSeq(d, i + 1, i + 1)[1] \in Int
  BY <1>1, <1>3
<1> QED
  BY <1>4, <1>5, Zenon

LEMMA ErrorSound ==
    ASSUME NEW m, m.off \in Int, m.data \in Seq(Int), NEW junk \in [0 .. 2 -> Int]
    PROVE  AllSound(errorValues(m, junk))
<1> DEFINE codes == {CodeAt(i) : i \in {j \in 0 .. 2 :
                        canAccess(m, CodeAt(j), 3) /\ ~AllZero(At(m, CodeAt(j), 3, junk))}}
           numbers == {NumberAt(i) : i \in {j \in 0 .. 2 :
                          canAccess(m, NumberAt(j), 2) /\ ~AllZero(At(m, NumberAt(j), 2, junk))}}
           none == codes \cup numbers = {}
           device == byte(m, 0, junk)
           fault == <<"Stoerung", IF device = \h08 THEN "Kessel" ELSE "RC">>
           r == IF none THEN << >> ELSE LastOf(m, codes, 3, junk)
           q == IF none THEN << >> ELSE <<unsigned(LastOf(m, numbers, 2, junk))>>
           w == (bytesAt(m, 7, 1)[1] \div 16) % 2
           code == [k \in {ErrorCode} |-> Value("Formatted", TRUE, r)]
           number == [k \in {ErrorNumber} |-> Value("Formatted", TRUE, q)]
           state == [k \in {fault} |-> Value("Boolean", TRUE, <<w>>)]
           a == IF codes # {} \/ none THEN code ELSE NoValues
           b == IF numbers # {} \/ none THEN number ELSE NoValues
           c == IF device \in {\h08, \h10} /\ canAccess(m, 7, 1) THEN state ELSE NoValues
<1>1. errorValues(m, junk) = Merge(a, Merge(b, c))
  BY Zenon DEF errorValues
<1>2. codes \subseteq Offsets /\ numbers \subseteq Offsets
  <2>1. \A i \in 0 .. 2 : CodeAt(i) \in Offsets /\ NumberAt(i) \in Offsets
    BY DEF CodeAt, NumberAt, Offsets
  <2> QED
    BY <2>1, Zenon
<1>3. /\ ErrorCode \in SpecialKeys /\ KindOfKey(ErrorCode) = "Formatted"
      /\ ErrorNumber \in SpecialKeys /\ KindOfKey(ErrorNumber) = "Formatted"
      /\ fault \in SpecialKeys /\ KindOfKey(fault) = "Boolean"
  BY DEF SpecialKeys, KindOfKey, FormattedTypes, ErrorCode, ErrorNumber
<1> HIDE DEF codes, numbers, device, fault
<1>4. << >> \in Seq(Int)
  OBVIOUS
<1>5. ASSUME codes # {} \/ none PROVE AllSound(code)
  <2>1. r \in Seq(Int)
    <3>1. CASE none
      BY <1>4, <3>1, Zenon
    <3>2. CASE ~none
      <4>1. codes # {}
        BY <1>5, <3>2, Zenon
      <4>2. LastOf(m, codes, 3, junk) \in Seq(Int)
        <5>1. PICK i : LastIn(codes, i)
          BY <1>2, <4>1, LastRecord
        <5>2. i \in Nat /\ LastOf(m, codes, 3, junk) = At(m, i, 3, junk)
          BY <5>1, Zenon DEF LastIn
        <5>3. At(m, i, 3, junk) \in Seq(Int)
          BY <5>2, BytesFound
        <5> QED
          BY <5>2, <5>3, Zenon
      <4> QED
        BY <3>2, <4>2, Zenon
    <3> QED
      BY <3>1, <3>2
  <2> HIDE DEF r
  <2>2. AllSound(code)
    BY <1>3, <2>1, SpecialSound, Zenon
  <2> QED
    BY <2>2, Zenon
<1>6. AllSound(a)
  BY <1>5, NoneSound, Zenon
<1>7. ASSUME numbers # {} \/ none PROVE AllSound(number)
  <2>1. q \in Seq(Int)
    <3>1. CASE none
      BY <1>4, <3>1, Zenon
    <3>2. CASE ~none
      <4>1. numbers # {}
        BY <1>7, <3>2, Zenon
      <4> DEFINE l == LastOf(m, numbers, 2, junk)
      <4>2. PICK i : LastIn(numbers, i)
        BY <1>2, <4>1, LastRecord
      <4>6. i \in Nat /\ l = At(m, i, 2, junk)
        BY <4>2, Zenon DEF LastIn
      <4> HIDE DEF l
      <4>5. l \in Seq(Int) /\ Len(l) = 2
        BY <4>6, BytesFound
      <4>3. unsigned(l) \in Int
        BY <4>5, UnsignedPair, Zenon
      <4>4. <<unsigned(l)>> \in Seq(Int)
        BY <4>3
      <4> QED
        BY <3>2, <4>4, Zenon DEF l
    <3> QED
      BY <3>1, <3>2
  <2> HIDE DEF q
  <2>2. AllSound(number)
    BY <1>3, <2>1, SpecialSound, Zenon
  <2> QED
    BY <2>2, Zenon
<1>8. AllSound(b)
  BY <1>7, NoneSound, Zenon
<1>9. ASSUME canAccess(m, 7, 1) PROVE AllSound(state)
  <2>1. w \in Int
    <3> DEFINE x == bytesAt(m, 7, 1)[1]
    <3>6. x \in Int
      BY <1>9, FaultByte, Zenon
    <3> HIDE DEF x
    <3>7. (x \div 16) % 2 \in Int
      BY <3>6
    <3> QED
      BY <3>7, Zenon DEF x
  <2> HIDE DEF w
  <2>2. <<w>> \in Seq(Int)
    BY <2>1
  <2>3. AllSound(state)
    BY <1>3, <2>2, SpecialSound, Zenon
  <2> QED
    BY <2>3, Zenon
<1>10. AllSound(c)
  BY <1>9, NoneSound, Zenon
<1> HIDE DEF a, b, c
<1>11. AllSound(Merge(b, c))
  BY <1>8, <1>10, MergedSound, Zenon
<1> QED
  BY <1>1, <1>6, <1>11, MergedSound, Zenon

\* What is read from a telegram that carries bytes, or that has no fields.
LEMMA HandledSound ==
    ASSUME NEW m, m.off \in Int, m.data \in Seq(Int), NEW junk \in [0 .. 2 -> Int],
           m.data \in Seq(AnyByte) \/ Fields(m.source, m.type) = {}
    PROVE  AllSound(handle(m, junk))
<1> DEFINE f == fieldValues(m)
           x == IF m.source = UBA2 /\ m.type = \he4 THEN monitorValues(m, junk) ELSE NoValues
           y == IF m.source \in {UBA2, UI800} /\ m.type = \hbf THEN errorValues(m, junk) ELSE NoValues
           z == Merge(x, y)
<1>1. handle(m, junk) = Merge(f, z)
  BY Zenon DEF handle
<1>2. AllSound(f)
  <2>1. CASE Fields(m.source, m.type) = {}
    <3>1. DOMAIN f = {}
      BY <2>1 DEF fieldValues
    <3> QED
      BY <3>1, Zenon DEF AllSound
  <2> QED
    BY <2>1, FieldsSound
<1>3. AllSound(x)
  <2>1. AllSound(monitorValues(m, junk))
    BY MonitorSound
  <2> QED
    BY <2>1, NoneSound, Zenon
<1>4. AllSound(y)
  <2>1. AllSound(errorValues(m, junk))
    BY ErrorSound
  <2> QED
    BY <2>1, NoneSound, Zenon
<1> HIDE DEF f, x, y
<1>5. AllSound(z)
  BY <1>3, <1>4, MergedSound, Zenon
<1> HIDE DEF z
<1> QED
  BY <1>1, <1>2, <1>5, MergedSound, Zenon

\* What lies behind the end of a telegram are bytes.
LEMMA JunkFound ==
    ASSUME NEW t, NEW junk \in Junk(t)
    PROVE  junk \in [0 .. 2 -> Int]
<1> DEFINE J == IF t \in {\he4, \hbf} THEN JunkByte ELSE {0}
<1>1. junk \in [0 .. 2 -> J]
  BY Zenon DEF Junk
<1>2. AnyByte \subseteq Int
  BY DEF AnyByte
<1>3. JunkByte \subseteq Int
  BY <1>2, CacheAssumption, Zenon
<1>4. J \subseteq Int
  BY <1>3
<1> HIDE DEF J
<1> QED
  BY <1>1, <1>4

\* Everything in the cache is sound.
SoundCache == PagesOK /\ AllSound(cache)

LEMMA SoundInit == Init => SoundCache
BY PagesInit, NoneSound, Zenon DEF Init, SoundCache

\* A telegram that has been read.
LEMMA ReceiveSound ==
    ASSUME SoundCache, NEW m, m.off \in Int, m.data \in Seq(Int),
           m.data \in Seq(AnyByte) \/ Fields(m.source, m.type) = {},
           NEW junk \in Junk(m.type), cache' = Merge(handle(m, junk), cache)
    PROVE  AllSound(cache)'
<1>1. junk \in [0 .. 2 -> Int]
  BY JunkFound
<1>2. AllSound(handle(m, junk))
  BY <1>1, HandledSound
<1>3. AllSound(cache')
  BY <1>2, MergedSound DEF SoundCache
<1> QED
  BY <1>3, Zenon DEF AllSound

LEMMA PartSound ==
    ASSUME SoundCache, NEW p \in pages, NEW x \in Parts, Part(p, x[1], x[2])
    PROVE  AllSound(cache)'
<1> DEFINE d == SubSeq(memory[p], x[1] + 1, x[1] + x[2])
           t == p[2]
           m == EmsMessage(SentPart(p[1], 0, t, x[1], d))
<1>1. PICK junk \in Junk(m.type) : cache' = Merge(handle(m, junk), cache)
  BY Zenon DEF Part, Receive, handleValues
<1>2. p[1] \in Device /\ t \in TypeCode
  BY PageTypes, Zenon DEF SoundCache, PagesOK
<1>3. x[1] \in Nat /\ x[2] \in Nat /\ x[1] + x[2] <= Len(memory[p])
  BY CacheAssumption, Zenon DEF Part
<1>4. d \in Seq(AnyByte) /\ d \in Seq(Int)
  <2> DEFINE c == memory[p]
             i == x[1]
             n == x[2]
  <2>1. c \in Seq(AnyByte)
    BY CacheAssumption, Zenon DEF SoundCache, PagesOK
  <2> HIDE DEF c, i, n
  <2>2. SubSeq(c, i + 1, i + n) \in Seq(AnyByte)
    <3>1. i \in Nat /\ n \in Nat /\ i + n <= Len(c)
      BY <1>3, Zenon DEF c, i, n
    <3> QED
      BY <2>1, <3>1
  <2>3. AnyByte \subseteq Int
    BY DEF AnyByte
  <2>4. d \in Seq(AnyByte)
    BY <2>2, Zenon DEF c, i, n
  <2> QED
    BY <2>3, <2>4, SeqOfInts, Zenon
<1>5. HighByte(t) \in Int /\ LowByte(t) \in Int
  BY <1>2, TypeBytes, Zenon
<1>6. \/ m = [source |-> p[1], dest |-> 0, type |-> t, off |-> x[1], data |-> d]
      \/ m = [source |-> p[1], dest |-> 0, type |-> \hff, off |-> x[1], data |-> <<HighByte(t), LowByte(t)>>]
  <2>1. x[1] \in Int
    BY <1>3
  <2> QED
    BY <1>2, <1>4, <2>1, PartRead, ZenonT(60)
<1> HIDE DEF d, t, m
<1>7. \/ m.off = x[1] /\ m.data = d
      \/ m.off = x[1] /\ m.data = <<HighByte(t), LowByte(t)>> /\ m.type = \hff
  BY <1>6
<1>8. m.type = \hff => Fields(m.source, m.type) = {}
  BY NoFields
<1>9. m.off \in Int
  BY <1>3, <1>7
<1>10. m.data \in Seq(Int)
  <2> DEFINE h == <<HighByte(t), LowByte(t)>>
  <2>1. h \in Seq(Int)
    BY <1>5
  <2> QED
    BY <1>4, <1>7, <2>1, Zenon
<1>11. m.data \in Seq(AnyByte) \/ Fields(m.source, m.type) = {}
  BY <1>4, <1>7, <1>8, Zenon
<1> QED
  BY <1>1, <1>9, <1>10, <1>11, ReceiveSound

LEMMA RequestSound ==
    ASSUME SoundCache, NEW p \in pages, NEW x \in Parts, NEW asker \in {UBA2, UI800},
           Request(asker, p, x[1], x[2])
    PROVE  AllSound(cache)'
<1> DEFINE m == EmsMessage(SentRequest(asker, p[1], p[2], x[1], x[2]))
<1>1. PICK junk \in Junk(m.type) : cache' = Merge(handle(m, junk), cache)
  BY Zenon DEF Request, Receive, handleValues
<1>2. p[1] \in Device /\ p[2] \in TypeCode /\ \A s \in Device \ {p[1]} : Fields(s, p[2]) = {}
  BY PageTypes, Zenon DEF SoundCache, PagesOK
<1>3. asker \in Device \ {p[1]}
  BY Zenon DEF Request, Device
<1>4. x[1] \in Int /\ x[2] \in Int
  BY CacheAssumption
<1>5. m.source = asker /\ m.type = p[2] /\ m.off = x[1] /\ m.data = <<x[2]>>
  <2>1. m = [source |-> asker, dest |-> p[1], type |-> p[2], off |-> x[1], data |-> <<x[2]>>]
    BY <1>2, <1>3, <1>4, DeviceRequest
  <2> HIDE DEF m
  <2> QED
    BY <2>1
<1> HIDE DEF m
<1>6. Fields(m.source, m.type) = {}
  BY <1>2, <1>3, <1>5, Zenon
<1>7. m.off \in Int /\ m.data \in Seq(Int)
  BY <1>4, <1>5
<1> QED
  BY <1>1, <1>6, <1>7, ReceiveSound

LEMMA EchoSound ==
    ASSUME SoundCache, NEW p \in pages, NEW x \in Parts, Echo(p, x[1], x[2])
    PROVE  AllSound(cache)'
<1> DEFINE m == EmsMessage(getSendData(p[1], p[2], x[1], <<x[2]>>))
<1>1. PICK junk \in Junk(m.type) : cache' = Merge(handle(m, junk), cache)
  BY Zenon DEF Echo, Receive, handleValues
<1>2. p[1] \in Device /\ p[2] \in TypeCode
  BY PageTypes, Zenon DEF SoundCache, PagesOK
<1>3. x[1] \in Int /\ x[2] \in Int /\ p[1] \in Int
  BY <1>2, CacheAssumption DEF Device, UBA2, UI800
<1>4. m.source = PC /\ m.off = x[1] /\ m.data = <<x[2]>>
  <2>1. m = [source |-> PC, dest |-> p[1], type |-> p[2], off |-> x[1], data |-> <<x[2]>>]
    BY <1>2, <1>3, OwnRequest
  <2> HIDE DEF m
  <2> QED
    BY <2>1
<1> HIDE DEF m
<1>5. Fields(m.source, m.type) = {}
  BY <1>4, NoFields
<1>6. m.off \in Int /\ m.data \in Seq(Int)
  BY <1>3, <1>4
<1> QED
  BY <1>1, <1>5, <1>6, ReceiveSound

LEMMA SoundStep == SoundCache /\ [Next]_vars => SoundCache'
<1> SUFFICES ASSUME SoundCache, [Next]_vars PROVE AllSound(cache)'
  BY PagesStep DEF SoundCache
<1>1. CASE UNCHANGED cache
  BY <1>1, Zenon DEF SoundCache, AllSound
<1>2. ASSUME NEW p \in pages, Change(p) PROVE UNCHANGED cache
  BY <1>2, Zenon DEF Change
<1>3. CASE UNCHANGED vars
  BY <1>1, <1>3, Zenon DEF vars
<1>4. CASE Next
  BY <1>1, <1>2, <1>4, PartSound, RequestSound, EchoSound, Zenon DEF Next
<1> QED
  BY <1>3, <1>4

THEOREM SoundAlways == Spec => []SoundCache
BY SoundInit, SoundStep, PTL DEF Spec

\* The pages keep their contents, and whatever is received every value in the
\* cache is one that the field it stands for can have, also when the telegram
\* ended too early for the handler that reads it.
THEOREM TypeCorrect == Spec => []TypeOK
<1>1. SoundCache => TypeOK
  BY Zenon DEF SoundCache, PagesOK, AllSound, Sound, TypeOK
<1> QED
  BY <1>1, SoundAlways, PTL

-----------------------------------------------------------------------------
(* The sensors of the database *)

\* The rows of all the tables: type, subtype and sensor.
Rows ==
    NUMERICMAPPING \cup INTEGERMAPPING \cup BOOLMAPPING
    \cup {<<x[1], "None", x[2]>> : x \in STATEMAPPING}
    \cup {<<"Betriebsart", "HK1", "HK1Automatik">>, <<"Betriebsart", "HK2", "HK2Automatik">>}

\* No sensor is in two rows.
LEMMA OneRow ==
    ASSUME NEW e \in Rows, NEW g \in Rows, e[3] = g[3]
    PROVE  e[1] = g[1] /\ e[2] = g[2]
BY DEF Rows, NUMERICMAPPING, INTEGERMAPPING, BOOLMAPPING, STATEMAPPING

\* The types of which any subtype is stored.
AnySubtype == {x[1] : x \in {e \in BOOLMAPPING : e[2] = "None"}} \cup FormattedTypes

\* The subtype of those the collector knows.
SubtypeOf(type) == IF type = "Sommerbetrieb" THEN "HK1" ELSE "None"

\* How the fields with a sensor are read.
LEMMA SensorFields ==
    ASSUME NEW s, NEW t, NEW f \in Fields(s, t)
    PROVE  /\ f.key = <<f.key[1], f.key[2]>>
           /\ \A e \in INTEGERMAPPING : e[1] = f.key[1] => f.kind = "integer"
           /\ \A e \in BOOLMAPPING : e[1] = f.key[1] => f.kind = "bool"
           /\ \A e \in BOOLMAPPING : e[1] = f.key[1] /\ e[2] = "None" => f.key[2] = SubtypeOf(f.key[1])
<1> DEFINE G == /\ f.key = <<f.key[1], f.key[2]>>
                /\ \A e \in INTEGERMAPPING : e[1] = f.key[1] => f.kind = "integer"
                /\ \A e \in BOOLMAPPING : e[1] = f.key[1] => f.kind = "bool"
                /\ \A e \in BOOLMAPPING : e[1] = f.key[1] /\ e[2] = "None" => f.key[2] = SubtypeOf(f.key[1])
<1>1. ASSUME f \in UBA2Fields(t) PROVE G
  BY <1>1 DEF UBA2Fields, Field, parseEnum, parseNumeric, parseInteger, parseTemperature, parseBool,
              parseUnsigned, parseRecord, INTEGERMAPPING, BOOLMAPPING, SubtypeOf
<1>2. ASSUME f \in UI800Fields(t) PROVE G
  BY <1>2 DEF UI800Fields, Field, parseEnum, parseNumeric, parseInteger, parseTemperature, parseBool,
              parseUnsigned, parseRecord, INTEGERMAPPING, BOOLMAPPING, SubtypeOf
<1> QED
  BY <1>1, <1>2 DEF Fields, UBA2, UI800

\* A known value with a type of which any subtype is stored has one subtype.
LEMMA OneSubtype ==
    ASSUME NEW k, Known(k), k[1] \in AnySubtype
    PROVE  k = <<k[1], SubtypeOf(k[1])>>
<1>1. CASE k \in SpecialKeys
  <2>1. k = <<k[1], k[2]>> /\ k[1] # "Sommerbetrieb" /\ (k[1] # "Stoerung" => k[2] = "None")
    BY <1>1 DEF SpecialKeys, ErrorCode, ErrorNumber
  <2>2. k[1] # "Stoerung"
    BY DEF AnySubtype, BOOLMAPPING, FormattedTypes
  <2> QED
    BY <2>1, <2>2, Zenon DEF SubtypeOf
<1>2. ASSUME NEW s, NEW t, NEW f \in Fields(s, t), f.key = k
      PROVE  k = <<k[1], SubtypeOf(k[1])>>
  <2>1. k[1] \notin FormattedTypes
    BY <1>2, FieldTypes DEF FormattedTypes
  <2>2. PICK e \in BOOLMAPPING : e[2] = "None" /\ e[1] = k[1]
    BY <2>1, Zenon DEF AnySubtype
  <2>3. k = <<k[1], k[2]>> /\ k[2] = SubtypeOf(k[1])
    BY <1>2, <2>2, SensorFields, Zenon
  <2> QED
    BY <2>3, Zenon
<1> QED
  BY <1>1, <1>2, Zenon DEF Known

\* A value is stored for the sensor of a row with its type, and with its
\* subtype unless any is stored.
LEMMA TakenRow ==
    ASSUME NEW k, k = <<k[1], k[2]>>, NEW t \in takenFor(k)
    PROVE  \E e \in Rows : /\ e[3] = t.sensor /\ e[1] = k[1]
                           /\ e[2] = k[2] \/ k[1] \in AnySubtype
<1>1. CASE t \in {Taken(e[3], "Numeric") : e \in {x \in NUMERICMAPPING : <<x[1], x[2]>> = k}}
  <2>1. PICK e \in NUMERICMAPPING : <<e[1], e[2]>> = k /\ t = Taken(e[3], "Numeric")
    BY <1>1, Zenon
  <2>2. e[1] = k[1] /\ e[2] = k[2] /\ t.sensor = e[3]
    BY <2>1 DEF Taken
  <2> QED
    BY <2>2, Zenon DEF Rows
<1>2. CASE t \in {Taken(e[3], "Integer") : e \in {x \in INTEGERMAPPING : <<x[1], x[2]>> = k}}
  <2>1. PICK e \in INTEGERMAPPING : <<e[1], e[2]>> = k /\ t = Taken(e[3], "Integer")
    BY <1>2, Zenon
  <2>2. e[1] = k[1] /\ e[2] = k[2] /\ t.sensor = e[3]
    BY <2>1 DEF Taken
  <2> QED
    BY <2>2, Zenon DEF Rows
<1>3. CASE t \in {Taken(e[3], "Boolean") :
                     e \in {x \in BOOLMAPPING : x[1] = k[1] /\ x[2] \in {"None", k[2]}}}
  <2>1. PICK e \in BOOLMAPPING : e[1] = k[1] /\ e[2] \in {"None", k[2]} /\ t = Taken(e[3], "Boolean")
    BY <1>3, Zenon
  <2>2. t.sensor = e[3]
    BY <2>1 DEF Taken
  <2>3. e[2] = k[2] \/ k[1] \in AnySubtype
    <3>1. CASE e[2] = "None"
      <4>1. e \in {x \in BOOLMAPPING : x[2] = "None"}
        BY <3>1, Zenon
      <4> QED
        BY <2>1, <4>1, Zenon DEF AnySubtype
    <3> QED
      BY <2>1, <3>1, Zenon
  <2> QED
    BY <2>1, <2>2, <2>3, Zenon DEF Rows
<1>4. CASE t \in {Taken(e[2], "Formatted") : e \in {x \in STATEMAPPING : x[1] = k[1]}}
  <2>1. PICK e \in STATEMAPPING : e[1] = k[1] /\ t = Taken(e[2], "Formatted")
    BY <1>4, Zenon
  <2> DEFINE g == <<e[1], "None", e[2]>>
  <2>2. t.sensor = g[3] /\ g[1] = k[1]
    BY <2>1 DEF Taken
  <2>3. k[1] \in AnySubtype
    BY <2>1 DEF AnySubtype, STATEMAPPING, FormattedTypes
  <2>4. g \in Rows
    BY Zenon DEF Rows
  <2> HIDE DEF g
  <2> QED
    BY <2>2, <2>3, <2>4, Zenon
<1>5. CASE t \in {Taken(e[2], "Enumeration") :
                     e \in {x \in {<<"HK1", "HK1Automatik">>, <<"HK2", "HK2Automatik">>} :
                               k = <<"Betriebsart", x[1]>>}}
  <2>1. PICK x \in {<<"HK1", "HK1Automatik">>, <<"HK2", "HK2Automatik">>} :
            k = <<"Betriebsart", x[1]>> /\ t = Taken(x[2], "Enumeration")
    BY <1>5, Zenon
  <2> DEFINE g == <<"Betriebsart", x[1], x[2]>>
  <2>2. t.sensor = g[3] /\ g[1] = k[1] /\ g[2] = k[2]
    BY <2>1 DEF Taken
  <2>3. g \in Rows
    BY DEF Rows
  <2> HIDE DEF g
  <2> QED
    BY <2>2, <2>3, Zenon
<1> QED
  BY <1>1, <1>2, <1>3, <1>4, <1>5, Zenon DEF takenFor

LEMMA KnownPair ==
    ASSUME NEW k, Known(k)
    PROVE  k = <<k[1], k[2]>>
<1>1. CASE k \in SpecialKeys
  BY <1>1 DEF SpecialKeys, ErrorCode, ErrorNumber
<1>2. ASSUME NEW s, NEW t, NEW f \in Fields(s, t), f.key = k
      PROVE  k = <<k[1], k[2]>>
  BY <1>2, SensorFields, Zenon
<1> QED
  BY <1>1, <1>2, Zenon DEF Known

\* No two values the collector knows are stored under one sensor.
LEMMA OneSensor ==
    ASSUME NEW j, NEW k, Known(j), Known(k), NEW t \in takenFor(k), NEW u \in takenFor(j),
           u.sensor = t.sensor
    PROVE  j = k
<1>1. k = <<k[1], k[2]>> /\ j = <<j[1], j[2]>>
  BY KnownPair, Zenon
<1>2. PICK e \in Rows : e[3] = t.sensor /\ e[1] = k[1] /\ (e[2] = k[2] \/ k[1] \in AnySubtype)
  BY <1>1, TakenRow, Zenon
<1>3. PICK g \in Rows : g[3] = u.sensor /\ g[1] = j[1] /\ (g[2] = j[2] \/ j[1] \in AnySubtype)
  BY <1>1, TakenRow, Zenon
<1>4. e[1] = g[1] /\ e[2] = g[2]
  BY <1>2, <1>3, OneRow, Zenon
<1>5. CASE k[1] \in AnySubtype
  BY <1>2, <1>3, <1>4, <1>5, OneSubtype, Zenon
<1>6. CASE k[1] \notin AnySubtype
  BY <1>1, <1>2, <1>3, <1>4, <1>6, Zenon
<1> QED
  BY <1>5, <1>6

\* A value is read as what it is.
LEMMA SensorKind ==
    ASSUME NEW k, Known(k), NEW t \in takenFor(k)
    PROVE  t.kind = KindOfKey(k)
<1>1. ASSUME NEW e \in INTEGERMAPPING, e[1] = k[1] PROVE KindOfKey(k) = "Integer"
  <2>1. k \notin SpecialKeys
    BY <1>1 DEF SpecialKeys, ErrorCode, ErrorNumber, INTEGERMAPPING
  <2>2. PICK s, r : \E f \in Fields(s, r) : f.key = k
    BY <2>1, Zenon DEF Known
  <2>3. PICK f \in Fields(s, r) : f.key = k
    BY <2>2
  <2>4. f.kind = "integer" /\ f.kind = ShapeOf(k[1])[2]
    BY <1>1, <2>3, SensorFields, FieldsAlike, Zenon
  <2>5. k[1] \notin FormattedTypes /\ k[1] \notin {"FlammeAktiv", "Stoerung"}
    BY <1>1 DEF FormattedTypes, INTEGERMAPPING
  <2> QED
    BY <2>4, <2>5 DEF KindOfKey, KindOf
<1>2. ASSUME NEW e \in BOOLMAPPING, e[1] = k[1] PROVE KindOfKey(k) = "Boolean"
  <2>1. k[1] \notin FormattedTypes
    BY <1>2 DEF FormattedTypes, BOOLMAPPING
  <2>2. CASE k[1] \in {"FlammeAktiv", "Stoerung"}
    BY <2>1, <2>2, Zenon DEF KindOfKey
  <2>3. CASE k[1] \notin {"FlammeAktiv", "Stoerung"}
    <3>1. k \notin SpecialKeys
      BY <2>1, <2>3 DEF SpecialKeys, ErrorCode, ErrorNumber, FormattedTypes
    <3>2. PICK s, r : \E f \in Fields(s, r) : f.key = k
      BY <3>1, Zenon DEF Known
    <3>3. PICK f \in Fields(s, r) : f.key = k
      BY <3>2
    <3>4. f.kind = "bool" /\ f.kind = ShapeOf(k[1])[2]
      BY <1>2, <3>3, SensorFields, FieldsAlike, Zenon
    <3> QED
      BY <2>1, <2>3, <3>4 DEF KindOfKey, KindOf
  <2> QED
    BY <2>2, <2>3
<1>3. ASSUME NEW e \in NUMERICMAPPING, e[1] = k[1] PROVE KindOfKey(k) = "Numeric"
  BY <1>3 DEF NUMERICMAPPING, KindOfKey, KindOf, ShapeOf, FormattedTypes
<1>4. ASSUME NEW e \in STATEMAPPING, e[1] = k[1] PROVE KindOfKey(k) = "Formatted"
  BY <1>4 DEF STATEMAPPING, KindOfKey, FormattedTypes
<1>5. ASSUME NEW x, k = <<"Betriebsart", x>> PROVE KindOfKey(k) = "Enumeration"
  BY <1>5 DEF KindOfKey, KindOf, ShapeOf, FormattedTypes
<1>6. \/ t.kind = "Numeric" /\ \E e \in NUMERICMAPPING : <<e[1], e[2]>> = k
      \/ t.kind = "Integer" /\ \E e \in INTEGERMAPPING : <<e[1], e[2]>> = k
      \/ t.kind = "Boolean" /\ \E e \in BOOLMAPPING : e[1] = k[1]
      \/ t.kind = "Formatted" /\ \E e \in STATEMAPPING : e[1] = k[1]
      \/ t.kind = "Enumeration" /\ \E x : k = <<"Betriebsart", x>>
  <2>1. \A sensor, kind : Taken(sensor, kind).kind = kind
    BY DEF Taken
  <2>2. CASE t \in {Taken(e[3], "Numeric") : e \in {x \in NUMERICMAPPING : <<x[1], x[2]>> = k}}
    <3>1. PICK e \in NUMERICMAPPING : <<e[1], e[2]>> = k /\ t = Taken(e[3], "Numeric")
      BY <2>2, Zenon
    <3>2. t.kind = "Numeric"
      BY <2>1, <3>1, Zenon
    <3> QED
      BY <3>1, <3>2, Zenon
  <2>3. CASE t \in {Taken(e[3], "Integer") : e \in {x \in INTEGERMAPPING : <<x[1], x[2]>> = k}}
    <3>1. PICK e \in INTEGERMAPPING : <<e[1], e[2]>> = k /\ t = Taken(e[3], "Integer")
      BY <2>3, Zenon
    <3>2. t.kind = "Integer"
      BY <2>1, <3>1, Zenon
    <3> QED
      BY <3>1, <3>2, Zenon
  <2>4. CASE t \in {Taken(e[3], "Boolean") :
                       e \in {x \in BOOLMAPPING : x[1] = k[1] /\ x[2] \in {"None", k[2]}}}
    BY <2>1, <2>4, ZenonT(60)
  <2>5. CASE t \in {Taken(e[2], "Formatted") : e \in {x \in STATEMAPPING : x[1] = k[1]}}
    BY <2>1, <2>5, ZenonT(60)
  <2>6. CASE t \in {Taken(e[2], "Enumeration") :
                       e \in {x \in {<<"HK1", "HK1Automatik">>, <<"HK2", "HK2Automatik">>} :
                                 k = <<"Betriebsart", x[1]>>}}
    <3>1. PICK x \in {<<"HK1", "HK1Automatik">>, <<"HK2", "HK2Automatik">>} :
              k = <<"Betriebsart", x[1]>> /\ t = Taken(x[2], "Enumeration")
      BY <2>6, Zenon
    <3>2. t.kind = "Enumeration"
      BY <2>1, <3>1, Zenon
    <3> QED
      BY <3>1, <3>2, Zenon
  <2> QED
    BY <2>2, <2>3, <2>4, <2>5, <2>6, Zenon DEF takenFor
<1>7. \A e : <<e[1], e[2]>> = k => e[1] = k[1]
  OBVIOUS
<1> QED
  BY <1>1, <1>2, <1>3, <1>4, <1>5, <1>6, <1>7, Zenon

\* What anything reports is known.
LEMMA ReportedKnown ==
    ASSUME NEW j \in ReportedKeys
    PROVE  Known(j)
<1>1. CASE j \in SpecialKeys
  BY <1>1, Zenon DEF Known
<1>2. CASE j \in {f.key : f \in UNION {Fields(p[1], p[2]) : p \in UNION Groups}}
  <2>1. PICK f \in UNION {Fields(p[1], p[2]) : p \in UNION Groups} : j = f.key
    BY <1>2, Zenon
  <2>2. PICK p \in UNION Groups : f \in Fields(p[1], p[2])
    BY <2>1, Zenon
  <2> QED
    BY <2>1, <2>2, Zenon DEF Known
<1> QED
  BY <1>1, <1>2, Zenon DEF ReportedKeys

\* Storing a value in the database neither fails nor mixes two values.
THEOREM SensorsFit == Spec => []SensorsFitValues
<1>1. SoundCache => SensorsFitValues
  <2> SUFFICES ASSUME SoundCache, NEW k \in DOMAIN cache, NEW t \in takenFor(k)
               PROVE  /\ t.kind = cache[k].kind
                      /\ \A j \in ReportedKeys : (\E u \in takenFor(j) : u.sensor = t.sensor) => j = k
    BY Zenon DEF SensorsFitValues
  <2>1. Known(k) /\ cache[k].kind = KindOfKey(k)
    BY Zenon DEF SoundCache, AllSound, Sound
  <2>2. t.kind = cache[k].kind
    BY <2>1, SensorKind, Zenon
  <2>3. ASSUME NEW j \in ReportedKeys PROVE Known(j)
    BY ReportedKnown
  <2>4. ASSUME NEW j \in ReportedKeys, NEW u \in takenFor(j), u.sensor = t.sensor
        PROVE  j = k
    BY <2>1, <2>3, <2>4, OneSensor, Zenon
  <2> QED
    BY <2>2, <2>4, Zenon
<1> QED
  BY <1>1, SoundAlways, PTL

-----------------------------------------------------------------------------
(* The names of values *)

\* The words for the subtypes.
WordOf(subtype) == IF getSubTypeName(subtype) = "" THEN "none" ELSE getSubTypeName(subtype)

Subtypes == DOMAIN SUBTYPEMAPPING \cup {"None"}

SubtypeWords ==
    {"none", "hk1", "hk2", "hk3", "hk4", "rc", "heater", "heaterpump", "burner", "returnflow",
     "heatexchanger", "ww", "zirkpump", "outdoor", "exhaust", "intake", "solar", "solarpump",
     "solartank", "solarcollector"}

\* No two types have one name, and no type has that of a subtype.
LEMMA TypeNames ==
    /\ \A t, u \in DOMAIN TYPEMAPPING : TYPEMAPPING[t] = TYPEMAPPING[u] => t = u
    /\ \A t \in DOMAIN TYPEMAPPING : TYPEMAPPING[t] \notin SubtypeWords
<1>1. ASSUME NEW t \in DOMAIN TYPEMAPPING, NEW u \in DOMAIN TYPEMAPPING, TYPEMAPPING[t] = TYPEMAPPING[u]
      PROVE  t = u
  BY <1>1 DEF TYPEMAPPING
<1>2. ASSUME NEW t \in DOMAIN TYPEMAPPING
      PROVE  TYPEMAPPING[t] \notin SubtypeWords
  BY DEF TYPEMAPPING, SubtypeWords
<1> QED
  BY <1>1, <1>2, Zenon

\* No two subtypes have one word.
LEMMA SubtypeNames ==
    /\ \A t, u \in Subtypes : WordOf(t) = WordOf(u) => t = u
    /\ \A t \in Subtypes : WordOf(t) \in SubtypeWords
<1>1. ASSUME NEW t \in DOMAIN SUBTYPEMAPPING
      PROVE  SUBTYPEMAPPING[t] \in SubtypeWords /\ SUBTYPEMAPPING[t] \notin {"none", ""}
  <2>1. SUBTYPEMAPPING[t] # "none"
    BY DEF SUBTYPEMAPPING
  <2>2. SUBTYPEMAPPING[t] \in SubtypeWords
    BY DEF SUBTYPEMAPPING, SubtypeWords
  <2>3. "" \notin SubtypeWords
    BY Zenon DEF SubtypeWords
  <2> QED
    BY <2>1, <2>2, <2>3, Zenon
<1>2. \A t, u \in DOMAIN SUBTYPEMAPPING : SUBTYPEMAPPING[t] = SUBTYPEMAPPING[u] => t = u
  BY DEF SUBTYPEMAPPING
<1>3. "None" \notin DOMAIN SUBTYPEMAPPING
  BY DEF SUBTYPEMAPPING
<1>4. \A t \in DOMAIN SUBTYPEMAPPING : WordOf(t) = SUBTYPEMAPPING[t]
  BY <1>1, Zenon DEF WordOf, getSubTypeName
<1>5. WordOf("None") = "none"
  BY <1>3, Zenon DEF WordOf, getSubTypeName
<1>6. "none" \in SubtypeWords
  BY DEF SubtypeWords
<1>7. ASSUME NEW t \in Subtypes PROVE WordOf(t) \in SubtypeWords
  BY <1>1, <1>4, <1>5, <1>6, Zenon DEF Subtypes
<1>8. ASSUME NEW t \in Subtypes, NEW u \in Subtypes, WordOf(t) = WordOf(u)
      PROVE  t = u
  <2>1. CASE t \in DOMAIN SUBTYPEMAPPING /\ u \in DOMAIN SUBTYPEMAPPING
    BY <1>2, <1>4, <1>8, <2>1, Zenon
  <2>2. CASE t = "None" /\ u = "None"
    BY <2>2
  <2>3. CASE t \in DOMAIN SUBTYPEMAPPING /\ u = "None"
    BY <1>1, <1>4, <1>5, <1>8, <2>3, Zenon
  <2>4. CASE t = "None" /\ u \in DOMAIN SUBTYPEMAPPING
    BY <1>1, <1>4, <1>5, <1>8, <2>4, Zenon
  <2> QED
    BY <2>1, <2>2, <2>3, <2>4, Zenon DEF Subtypes
<1> QED
  BY <1>7, <1>8, Zenon

\* The subtypes of what the collector knows are in the table, or none.
LEMMA KnownSubtype ==
    ASSUME NEW k, Known(k)
    PROVE  k = <<k[1], k[2]>> /\ k[2] \in Subtypes
<1>1. \A s \in {"HK1", "RC", "WW", "Zirkulation", "Kessel", "KesselPumpe", "Brenner", "Aussen",
                "Waermetauscher", "Ruecklauf", "None"} : s \in Subtypes
  BY DEF Subtypes, SUBTYPEMAPPING
<1>2. CASE k \in SpecialKeys
  <2>1. k[2] \in {"None", "Kessel", "RC"}
    BY <1>2 DEF SpecialKeys, ErrorCode, ErrorNumber
  <2> QED
    BY <1>1, <2>1, KnownPair
<1>3. ASSUME NEW s, NEW t, NEW f \in Fields(s, t), f.key = k
      PROVE  k[2] \in Subtypes
  <2> DEFINE G == k[2] \in {"HK1", "RC", "WW", "Zirkulation", "Kessel", "KesselPumpe", "Brenner",
                            "Aussen", "Waermetauscher", "Ruecklauf", "None"}
  <2>1. ASSUME f \in UBA2Fields(t) PROVE G
    BY <1>3, <2>1 DEF UBA2Fields, Field, parseEnum, parseNumeric, parseInteger, parseTemperature,
                      parseBool, parseUnsigned, parseRecord
  <2>2. ASSUME f \in UI800Fields(t) PROVE G
    BY <1>3, <2>2 DEF UI800Fields, Field, parseEnum, parseNumeric, parseInteger, parseTemperature,
                      parseBool, parseUnsigned, parseRecord
  <2>3. f \in UBA2Fields(t) \/ f \in UI800Fields(t)
    BY DEF Fields, UBA2, UI800
  <2>4. G
    BY <2>1, <2>2, <2>3
  <2> QED
    BY <1>1, <2>4
<1> QED
  BY <1>2, <1>3, KnownPair, Zenon DEF Known

\* The words that select value k.
Selector(k) == <<WordOf(k[2]), getTypeName(k[1])>>

LEMMA TwoWords ==
    \A x, y : LET s == <<x, y>> IN s # << >> /\ s[1] = x /\ s[2] = y /\ Len(s) # 1
<1>1. \A x, y : Len(<<x, y>>) = 2
  BY Zenon
<1> QED
  BY <1>1

\* They select no other.
LEMMA SelectsOne ==
    ASSUME NEW k, Known(k), getTypeName(k[1]) # "",
           NEW K, k \in K, \A j \in K : Known(j)
    PROVE  selected(Selector(k), K) = {k}
<1> DEFINE w == WordOf(k[2])
           n == getTypeName(k[1])
           sel == <<w, n>>
<1>1. sel # << >> /\ sel[1] = w /\ sel[2] = n
  BY TwoWords, Zenon
<1>2. ASSUME NEW x PROVE getTypeName(x) # "" => x \in DOMAIN TYPEMAPPING /\ getTypeName(x) = TYPEMAPPING[x]
  BY Zenon DEF getTypeName
<1>3. w \in SubtypeWords /\ k[2] \in Subtypes /\ k = <<k[1], k[2]>>
  BY KnownSubtype, SubtypeNames, Zenon
<1>4. n \notin SubtypeWords /\ n = TYPEMAPPING[k[1]] /\ k[1] \in DOMAIN TYPEMAPPING
  BY <1>2, TypeNames, Zenon
<1>5. ASSUME NEW j \in K
      PROVE  matchesSelector(sel, j) <=>
                 \/ w = getTypeName(j[1])
                 \/ w = WordOf(j[2]) /\ (Len(sel) = 1 \/ n = getTypeName(j[1]))
  <2> HIDE DEF sel, w, n
  <2> QED
    BY <1>1, Zenon DEF matchesSelector, WordOf
<1>6. Len(sel) # 1
  BY TwoWords, Zenon DEF sel
<1>7. matchesSelector(sel, k)
  BY <1>5, Zenon
<1>8. ASSUME NEW j \in K, getTypeName(j[1]) # "", matchesSelector(sel, j)
      PROVE  j = k
  <2>1. j[1] \in DOMAIN TYPEMAPPING /\ getTypeName(j[1]) = TYPEMAPPING[j[1]]
    BY <1>2, <1>8, Zenon
  <2>2. w # getTypeName(j[1])
    BY <1>3, <2>1, TypeNames, Zenon
  <2>3. w = WordOf(j[2]) /\ n = getTypeName(j[1])
    BY <1>5, <1>6, <1>8, <2>2, Zenon
  <2>4. j[1] = k[1]
    BY <1>4, <2>1, <2>3, TypeNames, Zenon
  <2>5. j = <<j[1], j[2]>> /\ j[2] \in Subtypes
    BY KnownSubtype, Zenon
  <2>6. j[2] = k[2]
    BY <1>3, <2>3, <2>5, SubtypeNames, Zenon
  <2> QED
    BY <1>3, <2>4, <2>5, <2>6, Zenon
<1> HIDE DEF sel
<1>9. selected(sel, K) = {k}
  BY <1>7, <1>8, Zenon DEF selected
<1> QED
  BY <1>9, Zenon DEF sel, Selector

-----------------------------------------------------------------------------
(* What is printed *)

\* The enumerations there are.
EnumKeys ==
    {<<"Wartungsmeldungen", "Kessel">>, <<"GebaeudeArt", "RC">>, <<"Sommerbetriebsart", "HK1">>,
     <<"Betriebsart", "WW">>, <<"Betriebsart", "Zirkulation">>, <<"Betriebsart", "HK1">>,
     <<"Betriebszustand", "WW">>, <<"Betriebszustand", "Zirkulation">>, <<"Betriebszustand", "HK1">>}

LEMMA EnumFields ==
    ASSUME NEW s, NEW t, NEW f \in Fields(s, t), f.kind = "Enumeration"
    PROVE  f.key \in EnumKeys
<1>1. ASSUME f \in UBA2Fields(t) PROVE f.key \in EnumKeys
  BY <1>1 DEF UBA2Fields, Field, parseEnum, parseNumeric, parseInteger, parseTemperature, parseBool,
              parseUnsigned, parseRecord, EnumKeys
<1>2. ASSUME f \in UI800Fields(t) PROVE f.key \in EnumKeys
  BY <1>2 DEF UI800Fields, Field, parseEnum, parseNumeric, parseInteger, parseTemperature, parseBool,
              parseUnsigned, parseRecord, EnumKeys
<1> QED
  BY <1>1, <1>2 DEF Fields, UBA2, UI800

LEMMA KnownEnum ==
    ASSUME NEW k, Known(k), KindOfKey(k) = "Enumeration"
    PROVE  k \in EnumKeys
<1>1. k \notin SpecialKeys
  BY SpecialKinds
<1>2. PICK s, t : \E f \in Fields(s, t) : f.key = k
  BY <1>1, Zenon DEF Known
<1>3. PICK f \in Fields(s, t) : f.key = k
  BY <1>2
<1>4. f.kind = ShapeOf(k[1])[2] /\ k[1] \notin FormattedTypes /\ k[1] \notin {"FlammeAktiv", "Stoerung"}
  BY <1>3, FieldsAlike, FieldTypes DEF FormattedTypes
<1>5. KindOf(f.kind) = "Enumeration"
  BY <1>4, Zenon DEF KindOfKey
<1>6. f.kind = "Enumeration"
  BY <1>5 DEF KindOf
<1> QED
  BY <1>3, <1>6, EnumFields, Zenon

\* The names of the states of an enumeration.
StateNames ==
    {"off", "on", "auto", "manual", "reduced", "normal", "boost", "eco", "comfort", "followheater",
     "followww", "byhours", "bydate", "bymonths", "heateron", "light", "medium", "heavy"}

\* A table in which no two states have one name.
Telling(names) ==
    /\ \A a \in DOMAIN names : names[a] \in StateNames
    /\ \A a, b \in DOMAIN names : names[a] = names[b] => a = b

LEMMA NamedTells ==
    ASSUME NEW first \in Int, NEW words \in Seq(StateNames),
           \A i, j \in 1 .. Len(words) : words[i] = words[j] => i = j
    PROVE  /\ DOMAIN Named(first, words) = first .. first + Len(words) - 1
           /\ Telling(Named(first, words))
<1> DEFINE N == Named(first, words)
<1>1. Len(words) \in Nat /\ \A i \in 1 .. Len(words) : words[i] \in StateNames
  OBVIOUS
<1>2. PICK n \in Nat : n = Len(words)
  BY <1>1
<1>3. N = [b \in first .. first + n - 1 |-> words[b - first + 1]]
  BY <1>2, Zenon DEF Named
<1>4. DOMAIN N = first .. first + n - 1
  BY <1>3, Zenon
<1>5. ASSUME NEW a \in DOMAIN N PROVE N[a] = words[a - first + 1] /\ a - first + 1 \in 1 .. n /\ a \in Int
  <2>1. N[a] = words[a - first + 1]
    BY <1>3, <1>4, Zenon
  <2>2. a \in first .. first + n - 1
    BY <1>4, Zenon
  <2>3. a - first + 1 \in 1 .. n /\ a \in Int
    BY <2>2
  <2> QED
    BY <2>1, <2>3
<1> HIDE DEF N
<1>6. ASSUME NEW a \in DOMAIN N PROVE N[a] \in StateNames
  BY <1>1, <1>2, <1>5, Zenon
<1>7. ASSUME NEW a \in DOMAIN N, NEW b \in DOMAIN N, N[a] = N[b] PROVE a = b
  <2>1. PICK i \in 1 .. n : i = a - first + 1 /\ N[a] = words[i] /\ a \in Int
    BY <1>5, Zenon
  <2>2. PICK j \in 1 .. n : j = b - first + 1 /\ N[b] = words[j] /\ b \in Int
    BY <1>5, Zenon
  <2>3. i = j
    BY <1>2, <1>7, <2>1, <2>2, Zenon
  <2> QED
    BY <2>1, <2>2, <2>3
<1> QED
  BY <1>2, <1>4, <1>6, <1>7, Zenon DEF Telling, N


\* The tables of the enumerations, each as a list of words and, of the heating
\* circuit, a state more.
LEMMA EnumTables ==
    /\ EnumNames(<<"Wartungsmeldungen", "Kessel">>) = Named(0, <<"off", "byhours", "bydate", "bymonths">>)
    /\ EnumNames(<<"GebaeudeArt", "RC">>) = Named(1, <<"light", "medium", "heavy">>)
    /\ EnumNames(<<"Sommerbetriebsart", "HK1">>) = Named(1, <<"auto", "heateron">>)
    /\ EnumNames(<<"Betriebsart", "HK1">>) = Named(0, <<"off", "manual", "auto">>)
    /\ EnumNames(<<"Betriebszustand", "HK1">>) =
           Also(Named(0, <<"off", "reduced", "manual", "normal">>), 6, "boost")
    /\ \A x \in {"Betriebsart", "Betriebszustand"} :
          /\ EnumNames(<<x, "WW">>) = Named(0, <<"off", "eco", "comfort", "followheater", "auto">>)
          /\ EnumNames(<<x, "Zirkulation">>) = Named(0, <<"off", "on", "followww", "auto">>)
<1>1. EnumNames(<<"Wartungsmeldungen", "Kessel">>) = Named(0, <<"off", "byhours", "bydate", "bymonths">>)
  BY DEF EnumNames
<1>2. EnumNames(<<"GebaeudeArt", "RC">>) = Named(1, <<"light", "medium", "heavy">>)
  BY DEF EnumNames
<1>3. EnumNames(<<"Sommerbetriebsart", "HK1">>) = Named(1, <<"auto", "heateron">>)
  BY DEF EnumNames
<1>4. EnumNames(<<"Betriebsart", "HK1">>) = Named(0, <<"off", "manual", "auto">>)
  BY DEF EnumNames, HeatingCircuits
<1>5. EnumNames(<<"Betriebszustand", "HK1">>) =
          Also(Named(0, <<"off", "reduced", "manual", "normal">>), 6, "boost")
  BY DEF EnumNames, HeatingCircuits
<1>6. ASSUME NEW x \in {"Betriebsart", "Betriebszustand"}
      PROVE  /\ EnumNames(<<x, "WW">>) = Named(0, <<"off", "eco", "comfort", "followheater", "auto">>)
             /\ EnumNames(<<x, "Zirkulation">>) = Named(0, <<"off", "on", "followww", "auto">>)
  BY DEF EnumNames, HeatingCircuits
<1> QED
  BY <1>1, <1>2, <1>3, <1>4, <1>5, <1>6, Zenon

\* The same table with one state more.
LEMMA OneMore ==
    ASSUME NEW f, Telling(f), NEW a, a \notin DOMAIN f, NEW w \in StateNames,
           \A x \in DOMAIN f : f[x] # w
    PROVE  Telling(Also(f, a, w))
<1> DEFINE g == Also(f, a, w)
<1>1. DOMAIN g = DOMAIN f \cup {a}
  BY Zenon DEF Also
<1>2. \A x \in DOMAIN f : g[x] = f[x]
  BY Zenon DEF Also
<1>3. g[a] = w
  BY Zenon DEF Also
<1> HIDE DEF g
<1> QED
  BY <1>1, <1>2, <1>3, Zenon DEF Telling, g

\* Every table tells its states apart.
LEMMA EnumTells ==
    ASSUME NEW k \in EnumKeys
    PROVE  Telling(EnumNames(k))
<1>1. Telling(Named(0, <<"off", "byhours", "bydate", "bymonths">>))
  <2> DEFINE w == <<"off", "byhours", "bydate", "bymonths">>
  <2>1. w \in Seq(StateNames)
    BY DEF StateNames
  <2>2. \A i, j \in 1 .. Len(w) : w[i] = w[j] => i = j
    OBVIOUS
  <2> HIDE DEF w
  <2>3. Telling(Named(0, w))
    BY <2>1, <2>2, NamedTells
  <2> QED
    BY <2>3, Zenon DEF w
<1>2. Telling(Named(1, <<"light", "medium", "heavy">>))
  <2> DEFINE w == <<"light", "medium", "heavy">>
  <2>1. w \in Seq(StateNames)
    BY DEF StateNames
  <2>2. \A i, j \in 1 .. Len(w) : w[i] = w[j] => i = j
    OBVIOUS
  <2> HIDE DEF w
  <2>3. Telling(Named(1, w))
    BY <2>1, <2>2, NamedTells
  <2> QED
    BY <2>3, Zenon DEF w
<1>3. Telling(Named(1, <<"auto", "heateron">>))
  <2> DEFINE w == <<"auto", "heateron">>
  <2>1. w \in Seq(StateNames)
    BY DEF StateNames
  <2>2. \A i, j \in 1 .. Len(w) : w[i] = w[j] => i = j
    OBVIOUS
  <2> HIDE DEF w
  <2>3. Telling(Named(1, w))
    BY <2>1, <2>2, NamedTells
  <2> QED
    BY <2>3, Zenon DEF w
<1>4. Telling(Named(0, <<"off", "manual", "auto">>))
  <2> DEFINE w == <<"off", "manual", "auto">>
  <2>1. w \in Seq(StateNames)
    BY DEF StateNames
  <2>2. \A i, j \in 1 .. Len(w) : w[i] = w[j] => i = j
    OBVIOUS
  <2> HIDE DEF w
  <2>3. Telling(Named(0, w))
    BY <2>1, <2>2, NamedTells
  <2> QED
    BY <2>3, Zenon DEF w
<1>5. Telling(Named(0, <<"off", "eco", "comfort", "followheater", "auto">>))
  <2> DEFINE w == <<"off", "eco", "comfort", "followheater", "auto">>
  <2>1. w \in Seq(StateNames)
    BY DEF StateNames
  <2>2. \A i, j \in 1 .. Len(w) : w[i] = w[j] => i = j
    OBVIOUS
  <2> HIDE DEF w
  <2>3. Telling(Named(0, w))
    BY <2>1, <2>2, NamedTells
  <2> QED
    BY <2>3, Zenon DEF w
<1>6. Telling(Named(0, <<"off", "on", "followww", "auto">>))
  <2> DEFINE w == <<"off", "on", "followww", "auto">>
  <2>1. w \in Seq(StateNames)
    BY DEF StateNames
  <2>2. \A i, j \in 1 .. Len(w) : w[i] = w[j] => i = j
    OBVIOUS
  <2> HIDE DEF w
  <2>3. Telling(Named(0, w))
    BY <2>1, <2>2, NamedTells
  <2> QED
    BY <2>3, Zenon DEF w
<1>7. Telling(Also(Named(0, <<"off", "reduced", "manual", "normal">>), 6, "boost"))
  <2> DEFINE w == <<"off", "reduced", "manual", "normal">>
             n == Named(0, w)
  <2>1. w \in Seq(StateNames)
    BY DEF StateNames
  <2>2. \A i, j \in 1 .. Len(w) : w[i] = w[j] => i = j
    OBVIOUS
  <2>3. Len(w) = 4 /\ \A i \in 1 .. 4 : w[i] # "boost"
    OBVIOUS
  <2> HIDE DEF w
  <2>4. Telling(n) /\ DOMAIN n = 0 .. 0 + Len(w) - 1
    BY <2>1, <2>2, NamedTells
  <2>5. DOMAIN n = 0 .. 3
    BY <2>3, <2>4
  <2>6. \A b \in DOMAIN n : n[b] # "boost"
    <3> TAKE b \in DOMAIN n
    <3>1. n[b] = w[b - 0 + 1]
      BY <2>3, <2>5, Zenon DEF Named
    <3>2. b - 0 + 1 \in 1 .. 4
      BY <2>5
    <3> QED
      BY <2>3, <3>1, <3>2, Zenon
  <2>7. 6 \notin DOMAIN n
    BY <2>5
  <2>8. "boost" \in StateNames
    BY DEF StateNames
  <2> HIDE DEF n
  <2>9. Telling(Also(n, 6, "boost"))
    BY <2>4, <2>6, <2>7, <2>8, OneMore
  <2> QED
    BY <2>9, Zenon DEF n, w
<1> QED
  BY <1>1, <1>2, <1>3, <1>4, <1>5, <1>6, <1>7, EnumTables, Zenon DEF EnumKeys

\* States with a name are printed by it, the others by their number.
LEMMA StatePrinted ==
    ASSUME NEW k, NEW v, IsValue(v), v.kind = "Enumeration", NEW a
    PROVE  formatValue(k, [v EXCEPT !.reading = <<a>>]) =
               IF a \in DOMAIN EnumNames(k) THEN Word(EnumNames(k)[a]) ELSE Numbers(<<a>>)
<1> DEFINE w == [v EXCEPT !.reading = <<a>>]
<1>1. w.kind = "Enumeration" /\ w.reading = <<a>>
  <2>1. v = [kind |-> v.kind, valid |-> v.valid, reading |-> v.reading]
    BY Zenon DEF IsValue, Value
  <2> QED
    BY <2>1
<1> HIDE DEF w
<1>2. w.reading[1] = a
  BY <1>1
<1>3. formatValue(k, w) =
          IF a \in DOMAIN EnumNames(k) THEN Word(EnumNames(k)[a]) ELSE Numbers(<<a>>)
  BY <1>1, <1>2 DEF formatValue
<1> QED
  BY <1>3, Zenon DEF w

LEMMA NumbersApart ==
    \A a, b : Numbers(<<a>>) = Numbers(<<b>>) => a = b
<1>1. \A y : Numbers(y).numbers = y
  BY Zenon DEF Numbers
<1> DEFINE Single(x) == <<x>>
<1>2. \A a, b : Single(a) = Single(b) => a = b
  OBVIOUS
<1> HIDE DEF Single
<1>3. \A a, b : Numbers(Single(a)) = Numbers(Single(b)) => a = b
  <2> TAKE a, b
  <2>1. Numbers(Single(a)).numbers = Single(a) /\ Numbers(Single(b)).numbers = Single(b)
    BY <1>1, Zenon
  <2> QED
    BY <1>2, <2>1, Zenon
<1> QED
  BY <1>3, Zenon DEF Single

\* What is printed tells the states of an enumeration apart.
LEMMA StatesApart ==
    ASSUME NEW k \in EnumKeys, NEW v, IsValue(v), v.kind = "Enumeration", NEW a, NEW b, a # b
    PROVE  formatValue(k, [v EXCEPT !.reading = <<a>>]) # formatValue(k, [v EXCEPT !.reading = <<b>>])
<1> DEFINE N == EnumNames(k)
           P(x) == IF x \in DOMAIN N THEN Word(N[x]) ELSE Numbers(<<x>>)
<1>1. Telling(N)
  BY EnumTells
<1>2. "" \notin StateNames
  BY Zenon DEF StateNames
<1>3. \A x, y : Word(x).word = x /\ Numbers(y).word = "" /\ Numbers(y).numbers = y
  BY Zenon DEF Word, Numbers
<1> HIDE DEF N
<1>5. P(a) # P(b)
  <2>1. CASE a \in DOMAIN N /\ b \in DOMAIN N
    <3>1. P(a).word = N[a] /\ P(b).word = N[b]
      BY <1>3, <2>1, Zenon
    <3>2. N[a] # N[b]
      BY <1>1, <2>1, Zenon DEF Telling
    <3> QED
      BY <3>1, <3>2, Zenon
  <2>2. CASE a \in DOMAIN N /\ b \notin DOMAIN N
    <3>1. P(a).word = N[a] /\ P(b).word = ""
      BY <1>3, <2>2, Zenon
    <3>2. N[a] \in StateNames
      BY <1>1, <2>2, Zenon DEF Telling
    <3> QED
      BY <1>2, <3>1, <3>2, Zenon
  <2>3. CASE a \notin DOMAIN N /\ b \in DOMAIN N
    <3>1. P(a).word = "" /\ P(b).word = N[b]
      BY <1>3, <2>3, Zenon
    <3>2. N[b] \in StateNames
      BY <1>1, <2>3, Zenon DEF Telling
    <3> QED
      BY <1>2, <3>1, <3>2, Zenon
  <2>4. CASE a \notin DOMAIN N /\ b \notin DOMAIN N
    BY <2>4, NumbersApart, Zenon
  <2> QED
    BY <2>1, <2>2, <2>3, <2>4, Zenon
<1>6. /\ formatValue(k, [v EXCEPT !.reading = <<a>>]) = P(a)
      /\ formatValue(k, [v EXCEPT !.reading = <<b>>]) = P(b)
  BY StatePrinted, Zenon DEF N
<1> QED
  BY <1>5, <1>6, Zenon

-----------------------------------------------------------------------------
(* Fetching *)

LEMMA CutFirst ==
    ASSUME NEW S, NEW f \in Seq(S), NEW s \in Seq(S), Len(f) = 1
    PROVE  (f \o s)[1] = f[1] /\ Tail(f \o s) = s
<1> DEFINE w == f \o s
           r == Tail(w)
<1>1. PICK n \in Nat : n = Len(s)
  BY LenProperties
<1>2. w \in Seq(S) /\ Len(w) = 1 + n /\ \A i \in 1 .. 1 + n : w[i] = IF i <= 1 THEN f[i] ELSE s[i - 1]
  <2>1. w \in Seq(S) /\ Len(w) = Len(f) + Len(s)
    BY ConcatProperties, Zenon
  <2>2. \A i \in 1 .. Len(f) + Len(s) : w[i] = IF i <= Len(f) THEN f[i] ELSE s[i - Len(f)]
    BY ConcatProperties, Zenon
  <2> HIDE DEF w
  <2> QED
    BY <1>1, <2>1, <2>2
<1> HIDE DEF w
<1>3. w # << >>
  BY <1>2, EmptySeq
<1>4. r \in Seq(S) /\ Len(r) = Len(w) - 1 /\ \A i \in 1 .. Len(r) : r[i] = w[i + 1]
  BY <1>2, <1>3, HeadTailProperties, Zenon
<1> HIDE DEF r
<1>5. Len(r) = n
  BY <1>2, <1>4
<1>6. \A i \in 1 .. n : r[i] = s[i]
  <2> TAKE i \in 1 .. n
  <2>1. i + 1 \in 1 .. 1 + n /\ ~(i + 1 <= 1) /\ (i + 1) - 1 = i
    OBVIOUS
  <2>2. w[i + 1] = s[(i + 1) - 1]
    BY <1>2, <2>1, Zenon
  <2> QED
    BY <1>4, <1>5, <2>1, <2>2, Zenon
<1>7. r = s
  <2>1. Len(r) = Len(s) /\ \A i \in 1 .. Len(r) : r[i] = s[i]
    BY <1>1, <1>5, <1>6, Zenon
  <2> QED
    BY <1>4, <2>1, SameElements, Zenon
<1>8. w[1] = f[1]
  BY <1>2
<1> QED
  BY <1>7, <1>8, Zenon DEF w, r

\* The words after "fetch".
LEMMA FetchWords ==
    ASSUME NEW x, NEW y
    PROVE  LET w == <<"fetch">> \o <<x, y>> IN w[1] = "fetch" /\ Tail(w) = <<x, y>>
<1> DEFINE S == {x, y, "fetch"}
           f == <<"fetch">>
           s == <<x, y>>
<1>1. f \in Seq(S) /\ s \in Seq(S) /\ Len(f) = 1 /\ f[1] = "fetch"
  OBVIOUS
<1> HIDE DEF f, s, S
<1>2. (f \o s)[1] = "fetch" /\ Tail(f \o s) = s
  BY <1>1, CutFirst
<1> QED
  BY <1>2, Zenon DEF f, s

\* Only values of the pages are sent.
SentKnown == DOMAIN sent \subseteq ReportedKeys

LEMMA SentStep ==
    PagesOK /\ SentKnown /\ [Next]_vars => SentKnown'
<1> SUFFICES ASSUME PagesOK, SentKnown, [Next]_vars
             PROVE  SentKnown'
  OBVIOUS
<1>1. ASSUME NEW p \in pages, NEW x \in Parts, Part(p, x[1], x[2])
      PROVE  SentKnown'
  <2> DEFINE h == HeldInside(p, x[1], x[2])
  <2>1. sent' = Merge(h, sent)
    BY <1>1, Zenon DEF Part, HeldInside
  <2>2. DOMAIN h = {f.key : f \in Inside(p, x[1], x[2])}
    BY Zenon DEF HeldInside
  <2>3. Inside(p, x[1], x[2]) \subseteq Fields(p[1], p[2])
    BY Zenon DEF Inside
  <2>4. p \in UNION Groups
    BY Zenon DEF PagesOK
  <2>5. DOMAIN h \subseteq ReportedKeys
    BY <2>2, <2>3, <2>4, Zenon DEF ReportedKeys
  <2> HIDE DEF h
  <2> QED
    BY <2>1, <2>5, MergedWithin, Zenon DEF SentKnown
<1>2. ASSUME UNCHANGED sent PROVE SentKnown'
  BY <1>2, Zenon DEF SentKnown
<1> QED
  BY <1>1, <1>2, Zenon DEF Next, Change, Request, Echo, vars

THEOREM SentReported == Spec => [](SentKnown)
<1>1. Init => SentKnown
  BY NoKeys, Zenon DEF Init, SentKnown
<1> QED
  BY <1>1, SentStep, PagesAlways, PTL DEF Spec

\* Every value in the cache that has a name can be fetched by it, alone, and
\* what is printed tells the states of an enumeration apart.
THEOREM NamesFindValues == Spec => []FetchFindsIt
<1>1. SoundCache /\ Agree(cache, sent) /\ SentKnown => FetchFindsIt
  <2> SUFFICES ASSUME SoundCache, Agree(cache, sent), SentKnown, NEW k \in DOMAIN cache, getTypeName(k[1]) # ""
               PROVE  LET subtype  == getSubTypeName(k[2])
                          selector == <<IF subtype = "" THEN "none" ELSE subtype, getTypeName(k[1])>>
                      IN  /\ selected(selector, ReportedKeys) = {k}
                          /\ handleCacheCommand(<<"fetch">> \o selector) =
                                [lines |-> {[subtype |-> subtype, type |-> getTypeName(k[1]),
                                             text |-> formatValue(k, cache[k])]},
                                 final |-> "OK"]
                          /\ cache[k].kind = "Enumeration" =>
                                \A a, b \in 0 .. 8 : a # b =>
                                    formatValue(k, [cache[k] EXCEPT !.reading = <<a>>])
                                        # formatValue(k, [cache[k] EXCEPT !.reading = <<b>>])
    BY Zenon DEF FetchFindsIt
  <2> DEFINE v == cache[k]
  <2>1. Known(k) /\ IsValue(v) /\ v.kind = KindOfKey(k)
    BY Zenon DEF SoundCache, AllSound, Sound
  <2>2. \A j \in DOMAIN cache : Known(j)
    BY Zenon DEF SoundCache, AllSound, Sound
  <2>3. k \in ReportedKeys
    <3>1. CASE k \in SpecialKeys
      BY <3>1, Zenon DEF ReportedKeys
    <3>2. CASE k \notin SpecialKeys
      BY <3>2, Zenon DEF Agree, SentKnown
    <3> QED
      BY <3>1, <3>2
  <2>4. selected(Selector(k), ReportedKeys) = {k}
    BY <2>1, <2>3, ReportedKnown, SelectsOne, Zenon
  <2>5. selected(Selector(k), DOMAIN cache) = {k}
    BY <2>1, <2>2, SelectsOne, Zenon
  <2>6. outputValues(Selector(k)) =
            {[subtype |-> getSubTypeName(k[2]), type |-> getTypeName(k[1]), text |-> formatValue(k, v)]}
    BY <2>5, Zenon DEF outputValues
  <2>7. handleCacheCommand(<<"fetch">> \o Selector(k)) = [lines |-> outputValues(Selector(k)), final |-> "OK"]
    BY FetchWords, Zenon DEF handleCacheCommand, Selector
  <2>8. ASSUME v.kind = "Enumeration", NEW a \in 0 .. 8, NEW b \in 0 .. 8, a # b
        PROVE  formatValue(k, [v EXCEPT !.reading = <<a>>]) # formatValue(k, [v EXCEPT !.reading = <<b>>])
    <3>1. k \in EnumKeys
      BY <2>1, <2>8, KnownEnum, Zenon
    <3> HIDE DEF v
    <3> QED
      BY <2>1, <2>8, <3>1, StatesApart, Zenon
  <2> QED
    BY <2>4, <2>6, <2>7, <2>8, Zenon DEF Selector, WordOf
<1>2. Faithful => Agree(cache, sent)
  BY Zenon DEF Faithful
<1> QED
  BY <1>1, <1>2, SoundAlways, FaithfulAlways, SentReported, PTL

-----------------------------------------------------------------------------
(* Error pages *)

\* The records of a page, from byte o on, seven bytes each.
Starts(o, E) == {o + 7 * i : i \in E}

LEMMA LastStart ==
    ASSUME NEW o \in {5, 8}, NEW E, E \subseteq 0 .. 2, E # {}, NEW m, NEW n, NEW junk
    PROVE  LET i == CHOOSE j \in E : \A k \in E : k <= j
           IN  i \in E /\ LastOf(m, Starts(o, E), n, junk) = At(m, o + 7 * i, n, junk)
<1> DEFINE i == CHOOSE j \in E : \A k \in E : k <= j
           S == Starts(o, E)
<1>1. S # {} /\ S \subseteq Offsets
  <2>1. \A k \in 0 .. 2 : o + 7 * k \in Offsets
    BY DEF Offsets
  <2> QED
    BY <2>1, Zenon DEF Starts
<1>2. PICK x : LastIn(S, x)
  BY <1>1, LastRecord
<1>3. PICK j \in E : x = o + 7 * j
  BY <1>2, Zenon DEF LastIn, Starts
<1>4. \A k \in E : k <= j
  <2> TAKE k \in E
  <2>1. o + 7 * k <= x
    BY <1>2, Zenon DEF LastIn, Starts
  <2> QED
    BY <1>3, <2>1
<1>5. i \in E /\ \A k \in E : k <= i
  BY <1>4, Zenon
<1> HIDE DEF i
<1>6. i = j
  <2>1. i <= j /\ j <= i
    BY <1>4, <1>5, Zenon
  <2>2. i \in Int /\ j \in Int
    BY <1>5
  <2> QED
    BY <2>1, <2>2
<1>7. LastOf(m, S, n, junk) = At(m, x, n, junk)
  BY <1>2, Zenon DEF LastIn
<1>8. LastOf(m, S, n, junk) = At(m, o + 7 * i, n, junk)
  BY <1>3, <1>6, <1>7, Zenon
<1> QED
  BY <1>5, <1>8, Zenon DEF i

LEMMA Section ==
    ASSUME NEW d \in Seq(Int), NEW i \in Nat, NEW n \in Nat, i + n <= Len(d)
    PROVE  LET b == SubSeq(d, i + 1, i + n)
           IN  b \in Seq(Int) /\ Len(b) = n /\ \A j \in 1 .. n : b[j] = d[i + j]
<1> DEFINE b == SubSeq(d, i + 1, i + n)
<1>1. Len(d) \in Nat /\ i + n \in Nat /\ i + n - (i + 1) + 1 = n
  OBVIOUS
<1>2. /\ b = [j \in 1 .. i + n - (i + 1) + 1 |-> d[i + 1 + j - 1]]
      /\ b \in Seq(Int)
  BY <1>1
<1>3. b = [j \in 1 .. n |-> d[i + 1 + j - 1]]
  BY <1>1, <1>2, Zenon
<1> HIDE DEF b
<1>4. Len(b) = n
  BY <1>2, <1>3
<1>5. ASSUME NEW j \in 1 .. n PROVE b[j] = d[i + j]
  <2>1. i + 1 + j - 1 = i + j
    OBVIOUS
  <2> QED
    BY <1>3, <2>1
<1> QED
  BY <1>2, <1>4, <1>5 DEF b

\* Bytes within the telegram are those of the page.
LEMMA WithinPage ==
    ASSUME NEW m, m.data \in Seq(Int), NEW junk, NEW i \in Nat, NEW n \in Nat, i + n <= Len(m.data)
    PROVE  At(m, i, n, junk) = SubSeq(m.data, i + 1, i + n)
<1> DEFINE d == m.data
           a == [j \in 1 .. n |-> d[i + j]]
           b == SubSeq(d, i + 1, i + n)
<1>1. d \in Seq(Int) /\ Len(d) \in Nat
  OBVIOUS
<1>2. ASSUME NEW j \in 1 .. n PROVE byte(m, i + j - 1, junk) = d[i + j]
  <2> DEFINE x == i + j - 1
  <2>1. x < Len(d) /\ x + 1 = i + j
    <3> HIDE DEF d
    <3>1. i + n <= Len(d)
      BY Zenon DEF d
    <3> QED
      BY <1>1, <3>1
  <2> HIDE DEF x
  <2>2. byte(m, x, junk) = d[i + j]
    BY <2>1, Zenon DEF byte
  <2> QED
    BY <2>2, Zenon DEF x
<1>3. At(m, i, n, junk) = a
  <2> DEFINE r(j) == byte(m, i + j - 1, junk)
             q(j) == d[i + j]
  <2>1. \A j \in 1 .. n : r(j) = q(j)
    BY <1>2, Zenon
  <2>2. At(m, i, n, junk) = [j \in 1 .. n |-> r(j)]
    BY Zenon DEF At
  <2> HIDE DEF r, q
  <2>3. [j \in 1 .. n |-> r(j)] = [j \in 1 .. n |-> q(j)]
    BY <2>1
  <2> QED
    BY <2>2, <2>3, Zenon DEF q
<1>4. i + n <= Len(d)
  OBVIOUS
<1> HIDE DEF d
<1>5. a \in Seq(Int) /\ Len(a) = n /\ \A j \in 1 .. n : a[j] = d[i + j]
  BY <1>1, <1>4
<1>6. b \in Seq(Int) /\ Len(b) = n /\ \A j \in 1 .. n : b[j] = d[i + j]
  BY <1>1, <1>4, Section, Zenon
<1> HIDE DEF a, b
<1>7. a = b
  <2>1. \A j \in 1 .. n : a[j] = b[j]
    BY <1>5, <1>6, Zenon
  <2> QED
    BY <1>5, <1>6, <2>1, SameElements
<1> QED
  BY <1>3, <1>7, Zenon DEF b, d

\* The records of c have a number just when they have a code.
WholeRecords(c) ==
    \A i \in 0 .. 2 :
        /\ CodeAt(i) + 3 <= Len(c) => NumberAt(i) + 2 <= Len(c)
        /\ NumberAt(i) + 2 <= Len(c) =>
              (AllZero(SubSeq(c, CodeAt(i) + 1, CodeAt(i) + 3))
                  <=> AllZero(SubSeq(c, NumberAt(i) + 1, NumberAt(i) + 2)))

\* The records that are found in the telegram are those of the page.
LEMMA RecordsFound ==
    ASSUME NEW m, m.off = 0, m.data \in Seq(Int), WholeRecords(m.data), NEW junk, NEW j \in 0 .. 2
    PROVE  /\ canAccess(m, CodeAt(j), 3) /\ ~AllZero(At(m, CodeAt(j), 3, junk)) <=> j \in Errors(m.data)
           /\ canAccess(m, NumberAt(j), 2) /\ ~AllZero(At(m, NumberAt(j), 2, junk)) <=> j \in Errors(m.data)
           /\ j \in Errors(m.data) =>
                 /\ At(m, CodeAt(j), 3, junk) = SubSeq(m.data, CodeAt(j) + 1, CodeAt(j) + 3)
                 /\ At(m, NumberAt(j), 2, junk) = SubSeq(m.data, NumberAt(j) + 1, NumberAt(j) + 2)
<1> DEFINE c == m.data
           code == SubSeq(c, CodeAt(j) + 1, CodeAt(j) + 3)
           number == SubSeq(c, NumberAt(j) + 1, NumberAt(j) + 2)
<1>1. CodeAt(j) \in Nat /\ NumberAt(j) \in Nat /\ NumberAt(j) = CodeAt(j) + 3
  BY DEF CodeAt, NumberAt
<1>2. Len(c) \in Nat
  OBVIOUS
<1>3. \A o \in Nat, n \in Nat : canAccess(m, o, n) <=> o + n <= Len(c)
  <2> TAKE o \in Nat, n \in Nat
  <2>1. canAccess(m, o, n) <=> o >= 0 /\ o + n <= 0 + Len(c)
    BY Zenon DEF canAccess
  <2> HIDE DEF c
  <2> QED
    BY <1>2, <2>1
<1>4. CodeAt(j) + 3 <= Len(c) => At(m, CodeAt(j), 3, junk) = code
  BY SMTT(20), <1>1, WithinPage
<1>5. NumberAt(j) + 2 <= Len(c) => At(m, NumberAt(j), 2, junk) = number
  BY SMTT(20), <1>1, WithinPage
<1>6. /\ CodeAt(j) + 3 <= Len(c) => NumberAt(j) + 2 <= Len(c)
      /\ NumberAt(j) + 2 <= Len(c) => (AllZero(code) <=> AllZero(number))
  BY Zenon DEF WholeRecords
<1>7. j \in Errors(c) <=> NumberAt(j) + 2 <= Len(c) /\ ~AllZero(code)
  BY Zenon DEF Errors
<1>8. canAccess(m, CodeAt(j), 3) <=> CodeAt(j) + 3 <= Len(c)
  BY <1>1, <1>3
<1>9. canAccess(m, NumberAt(j), 2) <=> NumberAt(j) + 2 <= Len(c)
  BY <1>1, <1>3
<1> HIDE DEF c, code, number
<1>10. NumberAt(j) + 2 <= Len(c) => CodeAt(j) + 3 <= Len(c)
  BY <1>1, <1>2
<1> QED
  BY <1>4, <1>5, <1>6, <1>7, <1>8, <1>9, <1>10, Zenon DEF c, code, number

\* The last error of page c, in values C.
LastError(c, C) ==
    LET E == Errors(c)
        i == CHOOSE j \in E : \A k \in E : k <= j
    IN  /\ C[ErrorCode].reading = IF E = {} THEN << >> ELSE SubSeq(c, CodeAt(i) + 1, CodeAt(i) + 3)
        /\ C[ErrorNumber].reading =
               IF E = {} THEN << >>
               ELSE <<unsigned(SubSeq(c, NumberAt(i) + 1, NumberAt(i) + 2))>>

\* What a whole error page reports.
LEMMA ErrorsShown ==
    ASSUME NEW m, m.off = 0, m.data \in Seq(Int), WholeRecords(m.data), NEW junk
    PROVE  LET v == errorValues(m, junk)
           IN  ErrorCode \in DOMAIN v /\ ErrorNumber \in DOMAIN v /\ LastError(m.data, v)
<1> DEFINE codes == {CodeAt(i) : i \in {j \in 0 .. 2 :
                        canAccess(m, CodeAt(j), 3) /\ ~AllZero(At(m, CodeAt(j), 3, junk))}}
           numbers == {NumberAt(i) : i \in {j \in 0 .. 2 :
                          canAccess(m, NumberAt(j), 2) /\ ~AllZero(At(m, NumberAt(j), 2, junk))}}
           none == codes \cup numbers = {}
           device == byte(m, 0, junk)
           fault == <<"Stoerung", IF device = \h08 THEN "Kessel" ELSE "RC">>
           r == IF none THEN << >> ELSE LastOf(m, codes, 3, junk)
           q == IF none THEN << >> ELSE <<unsigned(LastOf(m, numbers, 2, junk))>>
           code == [k \in {ErrorCode} |-> Value("Formatted", TRUE, r)]
           number == [k \in {ErrorNumber} |-> Value("Formatted", TRUE, q)]
           state == [k \in {fault} |-> Value("Boolean", TRUE, <<(bytesAt(m, 7, 1)[1] \div 16) % 2>>)]
           a == IF codes # {} \/ none THEN code ELSE NoValues
           b == IF numbers # {} \/ none THEN number ELSE NoValues
           c == IF device \in {\h08, \h10} /\ canAccess(m, 7, 1) THEN state ELSE NoValues
           v == errorValues(m, junk)
           E == Errors(m.data)
           i == CHOOSE j \in E : \A k \in E : k <= j
<1>1. v = Merge(a, Merge(b, c))
  BY Zenon DEF errorValues
<1>2. E \subseteq 0 .. 2
  BY Zenon DEF Errors
<1>3. codes = Starts(5, E) /\ numbers = Starts(8, E)
  <2>1. codes = {CodeAt(j) : j \in E}
    BY <1>2, RecordsFound, Zenon
  <2>2. numbers = {NumberAt(j) : j \in E}
    BY <1>2, RecordsFound, Zenon
  <2> HIDE DEF codes, numbers, E
  <2> QED
    BY <2>1, <2>2, Zenon DEF Starts, CodeAt, NumberAt
<1>4. (codes = {} <=> E = {}) /\ (numbers = {} <=> E = {})
  <2> HIDE DEF codes, numbers, E
  <2> QED
    BY <1>3, Zenon DEF Starts
<1>5. a = code /\ b = number /\ (none <=> E = {})
  <2> HIDE DEF codes, numbers, E, code, number
  <2> QED
    BY <1>4, Zenon
<1>6. r = IF E = {} THEN << >> ELSE SubSeq(m.data, CodeAt(i) + 1, CodeAt(i) + 3)
  <2>1. CASE E = {}
    BY <1>5, <2>1, Zenon
  <2>2. CASE E # {}
    <3>1. i \in E /\ LastOf(m, Starts(5, E), 3, junk) = At(m, 5 + 7 * i, 3, junk)
      BY <1>2, <2>2, LastStart
    <3> HIDE DEF codes, numbers, E, i
    <3>2. At(m, CodeAt(i), 3, junk) = SubSeq(m.data, CodeAt(i) + 1, CodeAt(i) + 3)
      BY <1>2, <3>1, RecordsFound, Zenon DEF E
    <3> QED
      BY <1>3, <1>5, <2>2, <3>1, <3>2, Zenon DEF CodeAt
  <2> QED
    BY <2>1, <2>2
<1>7. q = IF E = {} THEN << >> ELSE <<unsigned(SubSeq(m.data, NumberAt(i) + 1, NumberAt(i) + 2))>>
  <2>1. CASE E = {}
    BY <1>5, <2>1, Zenon
  <2>2. CASE E # {}
    <3>1. i \in E /\ LastOf(m, Starts(8, E), 2, junk) = At(m, 8 + 7 * i, 2, junk)
      BY <1>2, <2>2, LastStart
    <3> HIDE DEF codes, numbers, E, i
    <3>2. At(m, NumberAt(i), 2, junk) = SubSeq(m.data, NumberAt(i) + 1, NumberAt(i) + 2)
      BY <1>2, <3>1, RecordsFound, Zenon DEF E
    <3> QED
      BY <1>3, <1>5, <2>2, <3>1, <3>2, Zenon DEF NumberAt
  <2> QED
    BY <2>1, <2>2
<1> HIDE DEF r, q, a, b, c, E, i, v, none, codes, numbers
<1>8. DOMAIN code = {ErrorCode} /\ code[ErrorCode].reading = r
  BY DEF Value
<1>9. DOMAIN number = {ErrorNumber} /\ number[ErrorNumber].reading = q
  BY DEF Value
<1>10. ErrorCode # ErrorNumber
  BY DEF ErrorCode, ErrorNumber
<1> HIDE DEF code, number
<1>11. ErrorCode \in DOMAIN code /\ ErrorNumber \in DOMAIN number /\ ErrorNumber \notin DOMAIN code
  BY <1>8, <1>9, <1>10, Zenon
<1>12. ErrorCode \in DOMAIN v /\ v[ErrorCode] = code[ErrorCode]
  BY <1>1, <1>5, <1>11, MergedAt
<1>13. /\ ErrorNumber \in DOMAIN Merge(number, c)
       /\ Merge(number, c)[ErrorNumber] = number[ErrorNumber]
  BY <1>11, MergedAt
<1>14. ErrorNumber \in DOMAIN v /\ v[ErrorNumber] = number[ErrorNumber]
  <2>1. /\ ErrorNumber \in DOMAIN Merge(code, Merge(number, c))
        /\ Merge(code, Merge(number, c))[ErrorNumber] = Merge(number, c)[ErrorNumber]
    BY <1>11, <1>13, MergedBelow
  <2> QED
    BY <1>1, <1>5, <1>13, <2>1, Zenon
<1> QED
  BY <1>6, <1>7, <1>8, <1>9, <1>12, <1>14, Zenon DEF v, E, i, LastError

LEMMA Whole ==
    ASSUME NEW c \in Seq(Int)
    PROVE  SubSeq(c, 0 + 1, 0 + Len(c)) = c
<1> DEFINE b == SubSeq(c, 0 + 1, 0 + Len(c))
<1>1. Len(c) \in Nat
  OBVIOUS
<1>2. b \in Seq(Int) /\ Len(b) = Len(c) /\ \A j \in 1 .. Len(c) : b[j] = c[j]
  BY <1>1
<1> HIDE DEF b
<1>3. b = c
  BY <1>2, SameElements
<1> QED
  BY <1>3 DEF b

\* What is reported of an error page replaces what was in the cache.
LEMMA ErrorsReported ==
    ASSUME NEW m, m.source \in Device, m.type = \hbf, NEW junk, NEW k, k \in DOMAIN errorValues(m, junk)
    PROVE  k \in DOMAIN handle(m, junk) /\ handle(m, junk)[k] = errorValues(m, junk)[k]
<1> DEFINE f == fieldValues(m)
           e == errorValues(m, junk)
           x == IF m.source = UBA2 /\ m.type = \he4 THEN monitorValues(m, junk) ELSE NoValues
           y == IF m.source \in {UBA2, UI800} /\ m.type = \hbf THEN e ELSE NoValues
<1>1. handle(m, junk) = Merge(f, Merge(x, y))
  BY Zenon DEF handle
<1>2. DOMAIN f = {}
  <2>1. Fields(m.source, m.type) = {}
    BY NoFields
  <2> QED
    BY <2>1 DEF fieldValues
<1>3. x = NoValues
  <2>1. m.type # \he4
    OBVIOUS
  <2> QED
    BY <2>1, Zenon
<1>4. y = e
  BY Zenon DEF Device
<1> HIDE DEF f, x, y, e
<1>5. k \in DOMAIN e
  BY Zenon DEF e
<1>6. k \in DOMAIN Merge(x, y) /\ Merge(x, y)[k] = e[k]
  <2>1. k \in DOMAIN y /\ k \notin DOMAIN x
    BY <1>3, <1>4, <1>5, NoKeys, Zenon
  <2>2. k \in DOMAIN Merge(x, y) /\ Merge(x, y)[k] = y[k]
    BY <2>1, MergedBelow
  <2> QED
    BY <1>4, <2>2, Zenon
<1>7. k \in DOMAIN Merge(f, Merge(x, y)) /\ Merge(f, Merge(x, y))[k] = Merge(x, y)[k]
  <2>1. k \notin DOMAIN f
    BY <1>2, Zenon
  <2> QED
    BY <1>6, <2>1, MergedBelow
<1> QED
  BY <1>1, <1>6, <1>7, Zenon DEF e

\* The bytes of a page.
LEMMA PageBytes ==
    ASSUME PagesOK, NEW p \in pages
    PROVE  /\ p[1] \in Device /\ p[2] \in TypeCode
           /\ memory[p] \in Contents(p) /\ memory[p] \in Seq(Int)
<1>1. p[1] \in Device /\ p[2] \in TypeCode
  BY PageTypes, Zenon DEF PagesOK
<1>2. memory[p] \in Contents(p)
  BY Zenon DEF PagesOK
<1>3. memory[p] \in Seq(AnyByte)
  BY <1>2, CacheAssumption, Zenon DEF PagesOK
<1>4. AnyByte \subseteq Int
  BY DEF AnyByte
<1>5. memory[p] \in Seq(Int)
  BY <1>3, <1>4, SeqOfInts, Zenon
<1> QED
  BY <1>1, <1>2, <1>5

\* The telegram with a whole error page.
LEMMA WholePage ==
    ASSUME PagesOK, NEW p \in pages, p[2] = \hbf
    PROVE  LET c == memory[p]
               m == EmsMessage(SentPart(p[1], 0, p[2], 0, SubSeq(c, 0 + 1, 0 + Len(c))))
           IN  /\ m.source \in Device /\ m.type = \hbf /\ m.off = 0 /\ m.data = c
               /\ c \in Seq(Int) /\ WholeRecords(c)
<1> DEFINE c == memory[p]
           s == p[1]
           t == p[2]
           d == SubSeq(c, 0 + 1, 0 + Len(c))
           m == EmsMessage(SentPart(s, 0, t, 0, d))
<1>1. s \in Device /\ t \in TypeCode
  BY PageBytes
<1>2. c \in Contents(p)
  BY PageBytes
<1>3. c \in Seq(Int)
  BY PageBytes
<1>4. WholeRecords(c)
  <2>1. pages \in Groups
    BY DEF PagesOK
  <2> HIDE DEF c
  <2> QED
    BY <1>2, <2>1, ErrorPageAssumption DEF WholeRecords
<1>5. d = c
  BY <1>3, Whole
<1>6. s \in Int
  BY <1>1 DEF Device, UBA2, UI800
<1>7. t = \hbf
  OBVIOUS
<1> HIDE DEF s, t, c, d, m
<1>8. t < \hf0
  BY <1>7
<1>9. SentPart(s, 0, t, 0, d) = <<s, 0, t, 0>> \o d
  BY <1>8, Zenon DEF SentPart
<1>10. EmsMessage(<<s, 0, t, 0>> \o c) = [source |-> s, dest |-> 0, type |-> t, off |-> 0, data |-> c]
  BY <1>1, <1>3, <1>6, <1>8, ReadClassic
<1>11. m = [source |-> s, dest |-> 0, type |-> t, off |-> 0, data |-> c]
  BY <1>5, <1>9, <1>10, Zenon DEF m
<1>12. m.source = s /\ m.type = t /\ m.off = 0 /\ m.data = c
  BY <1>11
<1>13. m.source \in Device /\ m.type = \hbf /\ m.off = 0 /\ m.data = c
  BY <1>1, <1>7, <1>12
<1> QED
  BY <1>3, <1>4, <1>13, Zenon DEF m, s, t, d, c

\* Whatever was heard before, after a whole error page the cache holds the code
\* and the number of its last record, or neither when the page has no error.
THEOREM ErrorPageShown == Spec => WholeErrorPageShown
<1>1. ASSUME PagesOK, NEW p \in pages, p[2] = \hbf, Part(p, 0, Len(memory[p]))
      PROVE  LastError(memory[p], cache')
  <2> DEFINE c == memory[p]
             m == EmsMessage(SentPart(p[1], 0, p[2], 0, SubSeq(c, 0 + 1, 0 + Len(c))))
  <2>1. PICK junk \in Junk(m.type) : cache' = Merge(handle(m, junk), cache)
    BY <1>1, Zenon DEF Part, Receive, handleValues
  <2>2. /\ m.source \in Device /\ m.type = \hbf /\ m.off = 0 /\ m.data = c
        /\ c \in Seq(Int) /\ WholeRecords(c)
    BY <1>1, WholePage
  <2> HIDE DEF m, c
  <2>3. m.data \in Seq(Int) /\ WholeRecords(m.data)
    BY <2>2, Zenon
  <2> DEFINE v == errorValues(m, junk)
  <2>4. ErrorCode \in DOMAIN v /\ ErrorNumber \in DOMAIN v
    BY <2>2, <2>3, ErrorsShown
  <2>5. ASSUME NEW k, k \in DOMAIN v
        PROVE  cache'[k] = v[k]
    <3>1. k \in DOMAIN handle(m, junk) /\ handle(m, junk)[k] = v[k]
      BY <2>2, <2>5, ErrorsReported
    <3>2. Merge(handle(m, junk), cache)[k] = handle(m, junk)[k]
      BY <3>1, MergedAt
    <3> QED
      BY <2>1, <3>1, <3>2, Zenon
  <2>6. cache'[ErrorCode] = v[ErrorCode] /\ cache'[ErrorNumber] = v[ErrorNumber]
    BY <2>4, <2>5
  <2>7. LastError(m.data, v)
    BY <2>2, <2>3, ErrorsShown
  <2> HIDE DEF v
  <2>8. LastError(c, cache')
    BY <2>2, <2>6, <2>7, Zenon DEF LastError
  <2> QED
    BY <2>8, Zenon DEF c
<1>2. PagesOK /\ [Next]_vars =>
          [\A p \in pages : p[2] = \hbf /\ Part(p, 0, Len(memory[p])) => LastError(memory[p], cache')]_vars
  BY <1>1, ZenonT(60)
<1> QED
  BY <1>2, PagesAlways, PTL DEF Spec, WholeErrorPageShown, LastError
=============================================================================
