-------------------------- MODULE FrameFormatProofs ---------------------------
(***************************************************************************)
(* Lemmas about frames and their checksum, for data of any length.  The    *)
(* checksum is defined by recursion, so they are shown by induction, of    *)
(* which the first lemma is the form that is used here.                    *)
(***************************************************************************)
EXTENDS FrameFormat, TLAPS, WellFoundedInduction

\* Induction on the natural numbers, for the members of a set.
LEMMA NatSetInduction ==
    ASSUME NEW S, 0 \in S, \A n \in Nat : n \in S => n + 1 \in S
    PROVE  Nat \subseteq S
<1> DEFINE R == OpToRel(<, Nat)
           T == Nat \ S
<1>1. \A x, y \in Nat : <<y, x>> \in R <=> y < x
  BY DEF OpToRel
<1>2. IsWellFoundedOn(R, Nat)
  BY NatLessThanWellFounded
<1> SUFFICES ASSUME T # {} PROVE FALSE
  OBVIOUS
<1>3. T \subseteq Nat
  OBVIOUS
<1> HIDE DEF R, T
<1>4. PICK x \in T : \A y \in T : <<y, x>> \notin R
  BY <1>2, <1>3, WFMin
<1> USE DEF T
<1>5. x \in Nat /\ x # 0 /\ x - 1 \in Nat
  BY <1>4
<1>6. x - 1 \notin T
  <2>1. x - 1 < x
    BY <1>5
  <2>2. <<x - 1, x>> \in R
    BY <1>1, <1>5, <2>1
  <2> QED
    BY <1>4, <2>2
<1> QED
  BY <1>4, <1>5, <1>6

-----------------------------------------------------------------------------
(* The checksum *)

\* x[i] is the exclusive or of the first i of n bytes of d.
Sums(d, n, x) == x = [i \in 0 .. n |-> IF i = 0 THEN 0 ELSE Xor(x[i - 1], d[i])]

\* The recursion determines the sums.
LEMMA SumsUnique ==
    ASSUME NEW d, NEW n \in Nat, NEW x, NEW y, Sums(d, n, x), Sums(d, n, y)
    PROVE  x = y
<1> DEFINE S == {i \in Nat : i <= n => x[i] = y[i]}
<1>1. 0 \in S
  BY DEF Sums
<1>2. ASSUME NEW i \in Nat, i \in S PROVE i + 1 \in S
  <2>1. CASE i + 1 <= n
    <3>1. x[i] = y[i]
      BY <1>2, <2>1
    <3>2. x[i + 1] = Xor(x[i], d[i + 1]) /\ y[i + 1] = Xor(y[i], d[i + 1])
      BY <2>1 DEF Sums
    <3> QED
      BY <3>1, <3>2
  <2>2. CASE ~(i + 1 <= n)
    BY <2>2
  <2> QED
    BY <2>1, <2>2
<1> HIDE DEF S
<1>3. Nat \subseteq S
  BY <1>1, <1>2, NatSetInduction
<1> USE DEF S
<1>4. \A i \in 0 .. n : x[i] = y[i]
  BY <1>3
<1> QED
  BY <1>4 DEF Sums

\* There are such sums, one for each byte more than the data has.
LEMMA SumsExist ==
    ASSUME NEW d, NEW n \in Nat
    PROVE  \E x : Sums(d, n, x)
<1> DEFINE S == {k \in Nat : \E x : Sums(d, k, x)}
<1>1. 0 \in S
  <2>1. Sums(d, 0, [i \in 0 .. 0 |-> 0])
    BY DEF Sums
  <2> QED
    BY <2>1
<1>2. ASSUME NEW k \in Nat, k \in S PROVE k + 1 \in S
  <2>1. PICK x : Sums(d, k, x)
    BY <1>2
  <2> DEFINE y == [i \in 0 .. k + 1 |-> IF i = k + 1 THEN Xor(x[k], d[k + 1]) ELSE x[i]]
  <2>2. Sums(d, k + 1, y)
    BY <2>1 DEF Sums
  <2> QED
    BY <2>2
<1> HIDE DEF S
<1>3. n \in S
  BY <1>1, <1>2, NatSetInduction
<1> QED
  BY <1>3 DEF S

\* XorAll is the last of the sums.
LEMMA XorAllIsSum ==
    ASSUME NEW d \in Seq(Byte), NEW x, Sums(d, Len(d), x)
    PROVE  XorAll(d) = x[Len(d)]
<1> DEFINE c == CHOOSE y : Sums(d, Len(d), y)
<1>1. XorAll(d) = c[Len(d)]
  BY DEF XorAll, Sums
<1>2. Sums(d, Len(d), c)
  OBVIOUS
<1> HIDE DEF c
<1> QED
  BY <1>1, <1>2, SumsUnique

LEMMA XorAllOfNothing == XorAll(<< >>) = 0
<1>1. << >> \in Seq(Byte) /\ Len(<< >>) = 0
  OBVIOUS
<1>2. PICK x : Sums(<< >>, 0, x)
  BY SumsExist
<1>3. XorAll(<< >>) = x[Len(<< >>)]
  BY <1>1, <1>2, XorAllIsSum
<1>4. x[0] = 0
  BY <1>2 DEF Sums
<1> QED
  BY <1>1, <1>3, <1>4

\* A byte more is mixed into the checksum of those before it.
LEMMA XorAllOfAppend ==
    ASSUME NEW d \in Seq(Byte), NEW b \in Byte
    PROVE  XorAll(Append(d, b)) = Xor(XorAll(d), b)
<1> DEFINE e == Append(d, b)
           n == Len(d)
<1>1. e \in Seq(Byte) /\ Len(e) = n + 1 /\ n \in Nat /\ e[n + 1] = b
      /\ \A i \in 1 .. n : e[i] = d[i]
  OBVIOUS
<1>2. PICK x : Sums(e, n + 1, x)
  <2>1. n + 1 \in Nat
    BY <1>1
  <2> HIDE DEF n
  <2> QED
    BY <2>1, SumsExist
<1> DEFINE y == [i \in 0 .. n |-> x[i]]
<1>3. Sums(d, n, y)
  BY <1>1, <1>2 DEF Sums
<1>4. XorAll(d) = x[n]
  BY <1>1, <1>3, XorAllIsSum
<1>5. XorAll(e) = x[n + 1]
  BY <1>1, <1>2, XorAllIsSum
<1>6. x[n + 1] = Xor(x[n], e[n + 1])
  BY <1>1, <1>2 DEF Sums
<1> QED
  BY <1>1, <1>4, <1>5, <1>6

\* The checksum of bytes is a byte.
LEMMA XorAllType ==
    ASSUME NEW d \in Seq(Byte)
    PROVE  XorAll(d) \in Byte
<1>1. PICK x : Sums(d, Len(d), x)
  <2>1. Len(d) \in Nat
    OBVIOUS
  <2> QED
    BY <2>1, SumsExist
<1> DEFINE S == {i \in Nat : i <= Len(d) => x[i] \in Byte}
<1>2. 0 \in S
  BY <1>1, ByteAssumption DEF Sums, Byte
<1>3. ASSUME NEW i \in Nat, i \in S PROVE i + 1 \in S
  <2>1. CASE i + 1 <= Len(d)
    <3>1. x[i] \in Byte /\ d[i + 1] \in Byte
      BY <1>3, <2>1
    <3>2. x[i + 1] = Xor(x[i], d[i + 1])
      BY <1>1, <2>1 DEF Sums
    <3> QED
      BY <3>1, <3>2, ByteAssumption
  <2>2. CASE ~(i + 1 <= Len(d))
    BY <2>2
  <2> QED
    BY <2>1, <2>2
<1> HIDE DEF S
<1>4. Nat \subseteq S
  BY <1>2, <1>3, NatSetInduction
<1>5. x[Len(d)] \in Byte
  BY <1>4 DEF S
<1> QED
  BY <1>1, <1>5, XorAllIsSum

-----------------------------------------------------------------------------
(* Frames *)

\* What is at which place of a frame.
LEMMA FrameBytes ==
    ASSUME NEW d \in Seq(Byte), Len(d) < ByteSize
    PROVE  /\ frame(d) \in Seq(Byte)
           /\ Len(frame(d)) = Len(d) + 4
           /\ frame(d)[1] = Sync1 /\ frame(d)[2] = Sync2 /\ frame(d)[3] = Len(d)
           /\ \A i \in 1 .. Len(d) : frame(d)[i + 3] = d[i]
           /\ frame(d)[Len(d) + 4] = XorAll(d)
<1> DEFINE h == <<Sync1, Sync2, Len(d)>>
           c == <<XorAll(d)>>
           g == h \o d
<1>1. Len(d) \in Nat /\ Len(d) \in Byte
  <2>1. Len(d) \in Nat
    OBVIOUS
  <2> QED
    BY <2>1, ByteAssumption DEF Byte
<1>2. h \in Seq(Byte) /\ c \in Seq(Byte)
  BY <1>1, ByteAssumption, XorAllType
<1>3. Len(h) = 3 /\ h[1] = Sync1 /\ h[2] = Sync2 /\ h[3] = Len(d)
      /\ Len(c) = 1 /\ c[1] = XorAll(d)
  OBVIOUS
<1>4. frame(d) = g \o c
  BY DEF frame
<1> HIDE DEF h, c, g
<1>5. g \in Seq(Byte)
  BY <1>2 DEF g
<1>6. /\ Len(g) = Len(h) + Len(d)
      /\ \A i \in 1 .. Len(h) : g[i] = h[i]
      /\ \A i \in 1 .. Len(d) : g[Len(h) + i] = d[i]
  BY <1>2 DEF g
<1>7. /\ frame(d) \in Seq(Byte) /\ Len(frame(d)) = Len(g) + Len(c)
      /\ \A i \in 1 .. Len(g) : frame(d)[i] = g[i]
      /\ \A i \in 1 .. Len(c) : frame(d)[Len(g) + i] = c[i]
  BY <1>2, <1>4, <1>5
<1>8. Len(g) = Len(d) + 3 /\ Len(frame(d)) = Len(d) + 4
  BY <1>1, <1>3, <1>6, <1>7
<1>9. frame(d)[Len(d) + 4] = XorAll(d)
  BY <1>1, <1>3, <1>7, <1>8
<1>10. frame(d)[1] = Sync1 /\ frame(d)[2] = Sync2 /\ frame(d)[3] = Len(d)
  BY <1>1, <1>3, <1>6, <1>7, <1>8
<1>11. ASSUME NEW i \in 1 .. Len(d) PROVE frame(d)[i + 3] = d[i]
  BY <1>1, <1>3, <1>6, <1>7, <1>8
<1> QED
  BY <1>7, <1>8, <1>9, <1>10, <1>11
=============================================================================
