------------------------------ MODULE EmsValues ------------------------------
(***************************************************************************)
(* From a telegram to the values in it: the class EmsMessage               *)
(* (collector/EmsMessage.{h,cpp}).  A device keeps its readings in pages   *)
(* of bytes, one for each message type, and sends any part of a page; the  *)
(* handler of the type looks for its fields in the part that came.         *)
(* A value is the C++ type it holds (ReadingType), whether it is valid, and *)
(* its reading as a sequence of numbers; division by ten is left out.      *)
(***************************************************************************)
EXTENDS Integers, Sequences

UBA2 == \h88
UI800 == \h90
PC == \h8b

AnyByte == 0 .. 255

-----------------------------------------------------------------------------
(* Telegrams *)

\* What follows the header, and what is left of it without the type of EMS+.
Rest(data) == SubSeq(data, 5, Len(data))
WithoutType(rest, start) == SubSeq(rest, 1, start - 1) \o SubSeq(rest, start + 2, Len(rest))

\* The constructor for received data.  The handlers see getType(), which is
\* the type byte when the message is too short to hold the EMS+ type.
EmsMessage(data) ==
    IF Len(data) < 4
    THEN [source |-> 0, dest |-> 0, type |-> 0, off |-> 0, data |-> data]
    ELSE LET isRead == data[2] < 128
             isPlus == data[3] >= \hf0 /\ Len(data) >= IF isRead THEN 7 ELSE 6
             rest   == Rest(data)
             start  == IF isRead THEN 1 ELSE 2
             ext    == 256 * rest[start] + rest[start + 1]
         IN  [source |-> data[1], dest |-> data[2], off |-> data[4],
              type |-> IF isPlus /\ ext # 0 THEN ext ELSE data[3],
              data |-> IF isPlus THEN WithoutType(rest, start) ELSE rest]

HighByte(type) == type \div 256
LowByte(type) == type % 256

\* What a device sends: part of a page, or the request for a part of another
\* device's page.  Types that do not fit a byte follow the offset, and the
\* length in a request.
SentPart(source, dest, type, off, d) ==
    IF type < \hf0 THEN <<source, dest, type, off>> \o d
    ELSE <<source, dest, \hff, off, HighByte(type), LowByte(type)>> \o d

SentRequest(source, dest, type, off, len) ==
    IF type < \hf0 THEN <<source, dest, type, off, len>>
    ELSE <<source, dest, \hff, off, len, HighByte(type), LowByte(type)>>

\* Mutant: the length of a read follows the EMS+ type.
getSendDataSwapped(dest, type, off, d) ==
    IF type < \hf0 THEN <<PC, dest, type, off>> \o d
    ELSE <<PC, dest, \hff, off, HighByte(type), LowByte(type)>> \o d

\* getSendData(FALSE) of a request the collector makes.
getSendData(dest, type, off, d) ==
    IF type < \hf0 THEN <<PC, dest, type, off>> \o d
    ELSE IF dest >= 128 THEN <<PC, dest, \hff, off, d[1], HighByte(type), LowByte(type)>>
    ELSE <<PC, dest, \hff, off, HighByte(type), LowByte(type)>> \o d

-----------------------------------------------------------------------------
(* Values *)

Value(kind, valid, reading) == [kind |-> kind, valid |-> valid, reading |-> reading]

\* Big-endian, one or two bytes.
unsigned(b) == IF Len(b) = 1 THEN b[1] ELSE 256 * b[1] + b[2]
Limit(b) == IF Len(b) = 1 THEN 256 ELSE 65536

InvalidTemperature(b) == b \in {<<\h7d, 0>>, <<\h83, 0>>, <<\h7d>>, <<\h83>>}

\* Mutant: the sign is lost.
numericUnsigned(b, kind, isSigned, isTemperature) ==
    LET v == unsigned(b)
    IN  Value(kind, /\ v # IF isSigned THEN Limit(b) \div 2 ELSE Limit(b) - 1
                    /\ isTemperature => ~InvalidTemperature(b), <<v>>)

\* EmsValue(type, subType, data, len, divider, isSigned, invalidValues); a
\* divider of 0 makes the value an Integer.
numeric(b, kind, isSigned, isTemperature) ==
    LET v == unsigned(b)
    IN  Value(kind, /\ v # IF isSigned THEN Limit(b) \div 2 ELSE Limit(b) - 1
                    /\ isTemperature => ~InvalidTemperature(b),
              <<IF isSigned /\ 2 * v >= Limit(b) THEN v - Limit(b) ELSE v>>)

\* Mutant: every number is taken for a float.
EmsValueFloat(f, b) ==
    CASE f.kind = "signed"      -> numeric(b, "Numeric", TRUE, FALSE)
      [] f.kind = "unsigned"    -> numeric(b, "Numeric", FALSE, FALSE)
      [] f.kind = "integer"     -> numeric(b, "Numeric", FALSE, FALSE)
      [] f.kind = "temperature" -> numeric(b, "Numeric", TRUE, TRUE)
      [] f.kind = "halfDegrees" -> numeric(b, "Numeric", FALSE, TRUE)
      [] f.kind = "bool"        -> Value("Boolean", TRUE, <<(b[1] \div (2 ^ f.bit)) % 2>>)
      [] OTHER                  -> Value(f.kind, TRUE, b)

EmsValue(f, b) ==
    CASE f.kind = "signed"      -> numeric(b, "Numeric", TRUE, FALSE)
      [] f.kind = "unsigned"    -> numeric(b, "Numeric", FALSE, FALSE)
      [] f.kind = "integer"     -> numeric(b, "Integer", FALSE, FALSE)
      [] f.kind = "temperature" -> numeric(b, "Numeric", TRUE, TRUE)
      [] f.kind = "halfDegrees" -> numeric(b, "Numeric", FALSE, TRUE)
      [] f.kind = "bool"        -> Value("Boolean", TRUE, <<(b[1] \div (2 ^ f.bit)) % 2>>)
      [] OTHER                  -> Value(f.kind, TRUE, b)

-----------------------------------------------------------------------------
(* The fields of the pages *)

Field(off, size, kind, bit, type, subtype) ==
    [off |-> off, size |-> size, kind |-> kind, bit |-> bit, key |-> <<type, subtype>>]

parseNumeric(off, size, type, subtype) == Field(off, size, "signed", 0, type, subtype)
parseUnsigned(off, size, type, subtype) == Field(off, size, "unsigned", 0, type, subtype)
parseInteger(off, size, type, subtype) == Field(off, size, "integer", 0, type, subtype)
parseTemperature(off, type, subtype) == Field(off, 2, "temperature", 0, type, subtype)
parseEnum(off, type, subtype) == Field(off, 1, "Enumeration", 0, type, subtype)
parseBool(off, bit, type, subtype) == Field(off, 1, "bool", bit, type, subtype)
parseRecord(off, size, kind, type, subtype) == Field(off, size, kind, 0, type, subtype)

UBA2Fields(type) ==
    CASE type = \h15 -> {parseEnum(0, "Wartungsmeldungen", "Kessel"),
                         parseInteger(1, 1, "HektoStundenVorWartung", "Kessel"),
                         parseInteger(5, 1, "MonateVorWartung", "Kessel"),
                         parseRecord(2, 3, "Date", "Wartungstermin", "Kessel")}
      [] type = \hd1 -> {parseTemperature(0, "IstTemp", "Aussen")}
      [] type = \he4 -> {parseNumeric(6, 1, "SollTemp", "Kessel"),
                         parseTemperature(7, "IstTemp", "Kessel"),
                         parseTemperature(13, "IstTemp", "Waermetauscher"),
                         parseTemperature(17, "IstTemp", "Ruecklauf"),
                         parseNumeric(19, 2, "Flammenstrom", "None"),
                         parseUnsigned(21, 1, "Systemdruck", "None"),
                         parseInteger(40, 1, "IstModulation", "Brenner"),
                         parseInteger(41, 1, "SollModulation", "Brenner")}
      [] type = \he5 -> {parseInteger(25, 1, "IstModulation", "KesselPumpe"),
                         parseBool(26, 5, "DreiWegeVentilAufWW", "None"),
                         parseBool(2, 7, "ZirkulationAktiv", "None")}
      [] type = \he9 -> {parseNumeric(0, 1, "SollTemp", "WW"),
                         parseTemperature(1, "IstTemp", "WW")}
      [] type = \hea -> {parseNumeric(6, 1, "KomfortTemp", "WW"),
                         parseNumeric(11, 1, "ZirkProStunde", "Zirkulation"),
                         parseNumeric(16, 1, "ExtraTemp", "WW"),
                         parseNumeric(18, 1, "ReduzierteTemp", "WW")}
      [] OTHER       -> {}

UI800Fields(type) ==
    CASE type = \h06  -> {parseRecord(0, 8, "SystemTime", "SystemZeit", "None")}
      [] type = \h1f5 -> {parseEnum(2, "Betriebsart", "WW"),
                          parseEnum(3, "Betriebsart", "Zirkulation"),
                          parseNumeric(10, 1, "Extra15Mins", "WW"),
                          parseBool(11, 0, "ExtraActive", "WW")}
      [] type = \h21d -> {parseNumeric(4, 2, "ExtraRemainingMins", "WW"),
                          parseEnum(8, "Betriebszustand", "WW")}
      [] type = \he7  -> {parseEnum(0, "Betriebszustand", "Zirkulation")}
      [] type = \h140 -> {parseNumeric(10, 1, "MinTemp", "RC"),
                          parseEnum(9, "GebaeudeArt", "RC"),
                          parseBool(8, 1, "ATDaempfung", "RC")}
      [] type = \h1b9 -> {parseEnum(21, "Betriebsart", "HK1"),
                          Field(8, 1, "halfDegrees", 0, "TemporaryTemp", "HK1"),
                          parseNumeric(22, 1, "ManualTemp", "HK1"),
                          parseBool(23, 0, "BoostActive", "HK1"),
                          parseNumeric(24, 1, "BoostHours", "HK1"),
                          parseNumeric(25, 1, "BoostTemp", "HK1"),
                          parseNumeric(4, 1, "NachtTemp", "HK1"),
                          parseNumeric(2, 1, "TagTemp", "HK1")}
      [] type = \h1a5 -> {parseNumeric(41, 2, "BoostRemainingMins", "HK1"),
                          parseEnum(10, "Betriebszustand", "HK1"),
                          parseBool(2, 4, "Sommerbetrieb", "HK1")}
      [] type = \h1af -> {parseNumeric(2, 1, "RaumOffset", "HK1"),
                          parseNumeric(5, 1, "AuslegungsTemp", "HK1"),
                          parseNumeric(6, 1, "SchwelleSommerWinter", "HK1"),
                          parseEnum(7, "Sommerbetriebsart", "HK1")}
      [] OTHER        -> {}

Fields(source, type) ==
    CASE source = UBA2  -> UBA2Fields(type)
      [] source = UI800 -> UI800Fields(type)
      [] OTHER          -> {}

\* Mutant: a field at the end of the part is missed.
canAccessStrict(m, off, size) == off >= m.off /\ off + size < m.off + Len(m.data)

canAccess(m, off, size) == off >= m.off /\ off + size <= m.off + Len(m.data)

\* m_data[offset - m_offset], size bytes
bytesAt(m, off, size) == SubSeq(m.data, off - m.off + 1, off - m.off + size)

\* The fields of m, by the key of their value.
fieldValues(m) ==
    LET present == {f \in Fields(m.source, m.type) : canAccess(m, f.off, f.size)}
    IN  [k \in {f.key : f \in present} |->
            LET f == CHOOSE g \in present : g.key = k
            IN  EmsValue(f, bytesAt(m, f.off, f.size))]

-----------------------------------------------------------------------------
(* The values that are read without regard to the offset.  `junk' stands for *)
(* the bytes found behind the end of m_data.                                 *)

\* m_data[i]
byte(m, i, junk) == IF i < Len(m.data) THEN m.data[i + 1] ELSE junk[i % 3]

At(m, i, n, junk) == [j \in 1 .. n |-> byte(m, i + j - 1, junk)]

AllZero(b) == \A i \in DOMAIN b : b[i] = 0

NoValues == [k \in {} |-> {}]

\* The reports of `later' replace those of `earlier'.
Merge(later, earlier) ==
    [k \in DOMAIN later \cup DOMAIN earlier |-> IF k \in DOMAIN later THEN later[k] ELSE earlier[k]]

\* The end of parseUBA2MonitorMessage.
monitorValues(m, junk) ==
    LET code == [k \in {<<"FehlerCode", "None">>} |-> Value("Formatted", TRUE, <<unsigned(At(m, 4, 2, junk))>>)]
        service == [k \in {<<"ServiceCode", "None">>} |-> Value("Formatted", TRUE, << >>)]
        flame == [k \in {<<"FlammeAktiv", "None">>} |->
                     Value("Boolean", TRUE, <<IF unsigned(At(m, 19, 2, junk)) > 5 THEN 1 ELSE 0>>)]
    IN  Merge(IF canAccess(m, 4, 2) THEN Merge(code, service) ELSE NoValues,
              IF canAccess(m, 19, 2) THEN flame ELSE NoValues)

ErrorCode == <<"StoerungsCode", "None">>
ErrorNumber == <<"StoerungsNummer", "None">>

\* The i-th of the three records, from 0.
CodeAt(i) == 5 + 7 * i
NumberAt(i) == 8 + 7 * i

\* Mutant: the first of the records stays.
FirstOf(m, S, n, junk) == At(m, CHOOSE i \in S : \A j \in S : j >= i, n, junk)

\* The reading at the last of the offsets in S, as the later report replaces
\* the earlier; "OK" and "0" have the empty reading.
LastOf(m, S, n, junk) == At(m, CHOOSE i \in S : \A j \in S : j <= i, n, junk)

\* parseUI800ErrorMessage, which parseUBA2ErrorMessage calls too.
errorValues(m, junk) ==
    LET codes == {CodeAt(i) : i \in {j \in 0 .. 2 :
                     canAccess(m, CodeAt(j), 3) /\ ~AllZero(At(m, CodeAt(j), 3, junk))}}
        numbers == {NumberAt(i) : i \in {j \in 0 .. 2 :
                     canAccess(m, NumberAt(j), 2) /\ ~AllZero(At(m, NumberAt(j), 2, junk))}}
        none == codes \cup numbers = {}
        device == byte(m, 0, junk)
        fault == <<"Stoerung", IF device = \h08 THEN "Kessel" ELSE "RC">>
        code == [k \in {ErrorCode} |->
                    Value("Formatted", TRUE, IF none THEN << >> ELSE LastOf(m, codes, 3, junk))]
        number == [k \in {ErrorNumber} |->
                      Value("Formatted", TRUE, IF none THEN << >> ELSE <<unsigned(LastOf(m, numbers, 2, junk))>>)]
        state == [k \in {fault} |-> Value("Boolean", TRUE, <<(bytesAt(m, 7, 1)[1] \div 16) % 2>>)]
    IN  Merge(IF codes # {} \/ none THEN code ELSE NoValues,
              Merge(IF numbers # {} \/ none THEN number ELSE NoValues,
                    IF device \in {\h08, \h10} /\ canAccess(m, 7, 1) THEN state ELSE NoValues))

\* The keys of the values above.
SpecialKeys ==
    {<<"FehlerCode", "None">>, <<"ServiceCode", "None">>, <<"FlammeAktiv", "None">>,
     ErrorCode, ErrorNumber, <<"Stoerung", "Kessel">>, <<"Stoerung", "RC">>}

\* handle(): what the value handler is called with.
handle(m, junk) ==
    Merge(fieldValues(m),
          Merge(IF m.source = UBA2 /\ m.type = \he4 THEN monitorValues(m, junk) ELSE NoValues,
                IF m.source \in {UBA2, UI800} /\ m.type = \hbf THEN errorValues(m, junk) ELSE NoValues))
=============================================================================
