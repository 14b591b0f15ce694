------------------------------ MODULE ValueCache -----------------------------
(***************************************************************************)
(* The value cache of the collector (collector/ValueCache.{h,cpp}) fed by  *)
(* the telegrams of the bus: devices change their readings, send parts of  *)
(* their pages, and ask one another for parts, which the collector hears   *)
(* as well.  Every telegram goes through the constructor and the handlers  *)
(* of EmsMessage; API clients fetch from the cache by name.                *)
(***************************************************************************)
EXTENDS ValueApi, DatabaseSensors

CONSTANTS
    Groups,        \* sets of pages <<source, type>> that are looked at together
    Contents(_),   \* the contents a page can have, sequences of bytes
    Parts,         \* the parts <<offset, length>> of a page that are sent
    JunkByte       \* bytes found behind the end of a telegram

ASSUME CacheAssumption ==
    /\ \A g \in Groups : \A p \in g : Contents(p) \subseteq Seq(AnyByte)
    /\ \A x \in Parts : x[1] \in Nat /\ x[2] \in Nat
    /\ JunkByte \subseteq AnyByte

\* A page is one of the devices the collector knows, and its type, of one or
\* two bytes, is not that of another page with fields.
ASSUME PageAssumption ==
    \A g \in Groups : \A p \in g :
        /\ p[1] \in {UBA2, UI800} /\ p[2] \in Nat /\ p[2] < 65536
        /\ \A s \in {UBA2, UI800} \ {p[1]} : Fields(s, p[2]) = {}

\* The records of error page c that are not empty.
Errors(c) == {i \in 0 .. 2 : NumberAt(i) + 2 <= Len(c)
                             /\ ~AllZero(SubSeq(c, CodeAt(i) + 1, CodeAt(i) + 3))}

\* The record of an error has a number just when it has a code, and none is cut
\* off between them.
ASSUME ErrorPageAssumption ==
    \A g \in Groups : \A p \in g : p[2] = \hbf => \A c \in Contents(p) : \A i \in 0 .. 2 :
        /\ CodeAt(i) + 3 <= Len(c) => NumberAt(i) + 2 <= Len(c)
        /\ NumberAt(i) + 2 <= Len(c) =>
              (AllZero(SubSeq(c, CodeAt(i) + 1, CodeAt(i) + 3))
                  <=> AllZero(SubSeq(c, NumberAt(i) + 1, NumberAt(i) + 2)))

VARIABLES
    pages,    \* the pages of this behaviour
    memory,   \* memory[p]: the content of page p in its device
    cache,    \* m_cache: from <<type, subtype>> to the value
    sent      \* sent[k]: what the device held in the field of key k when the
              \* field was last sent

vars == <<pages, memory, cache, sent>>

Init ==
    /\ pages \in Groups
    /\ memory \in {f \in [pages -> UNION {Contents(p) : p \in pages}] :
                       \A p \in pages : f[p] \in Contents(p)}
    /\ cache = NoValues
    /\ sent = NoValues

\* ValueCache::handleValue for each of the values reported.
handleValues(reported) == cache' = Merge(reported, cache)

\* What may be behind the end of a telegram, for the types whose handlers look
\* there.
Junk(type) == [0 .. 2 -> IF type \in {\he4, \hbf} THEN JunkByte ELSE {0}]

\* IoHandler::readComplete with a whole telegram.
Receive(data) ==
    LET m == EmsMessage(data)
    IN  \E junk \in Junk(m.type) : handleValues(handle(m, junk))

\* The readings of a device change.
Change(p) ==
    /\ \E c \in Contents(p) : memory' = [memory EXCEPT ![p] = c]
    /\ UNCHANGED <<pages, cache, sent>>

\* The fields that lie in the n bytes from off of page p.
Inside(p, off, n) == {f \in Fields(p[1], p[2]) : off <= f.off /\ f.off + f.size <= off + n}

\* What the field is in the device: the value of its bytes there.
Held(p, f) == EmsValue(f, SubSeq(memory[p], f.off + 1, f.off + f.size))

\* A device sends n bytes of page p from off to all (0); one sent to the PC is
\* handled alike.
Part(p, off, n) ==
    /\ off + n <= Len(memory[p])
    /\ Receive(SentPart(p[1], 0, p[2], off, SubSeq(memory[p], off + 1, off + n)))
    /\ sent' = Merge([k \in {f.key : f \in Inside(p, off, n)} |->
                         Held(p, CHOOSE f \in Inside(p, off, n) : f.key = k)], sent)
    /\ UNCHANGED <<pages, memory>>

\* A device asks the owner of page p for n bytes from off.
Request(asker, p, off, n) ==
    /\ asker # p[1]
    /\ Receive(SentRequest(asker, p[1], p[2], off, n))
    /\ UNCHANGED <<pages, memory, sent>>

\* The collector's own request comes back from the bus.
Echo(p, off, n) ==
    /\ Receive(getSendData(p[1], p[2], off, <<n>>))
    /\ UNCHANGED <<pages, memory, sent>>

Next ==
    \/ \E p \in pages : Change(p)
    \/ \E p \in pages, x \in Parts : Part(p, x[1], x[2])
    \/ \E p \in pages, x \in Parts, asker \in {UBA2, UI800} : Request(asker, p, x[1], x[2])
    \/ \E p \in pages, x \in Parts : Echo(p, x[1], x[2])

Spec == Init /\ [][Next]_vars

-----------------------------------------------------------------------------
(* Fetching *)

\* Mutant: the first word alone selects.
matchesSelectorFirst(selector, k) ==
    LET subtype == getSubTypeName(k[2])
    IN  selector = << >> \/ selector[1] \in {getTypeName(k[1]), IF subtype = "" THEN "none" ELSE subtype}

\* "cache fetch" with the words of selector: all values, those of a type, those
\* of a subtype, or the one of both.
matchesSelector(selector, k) ==
    LET type    == getTypeName(k[1])
        subtype == getSubTypeName(k[2])
    IN  \/ selector = << >>
        \/ selector[1] = type
        \/ /\ selector[1] = IF subtype = "" THEN "none" ELSE subtype
           /\ Len(selector) = 1 \/ selector[2] = type

\* The keys of K whose values outputValues prints.
selected(selector, K) == {k \in K : getTypeName(k[1]) # "" /\ matchesSelector(selector, k)}

\* The lines, in the order of the std::map, which is left out.
outputValues(selector) ==
    {[subtype |-> getSubTypeName(k[2]), type |-> getTypeName(k[1]), text |-> formatValue(k, cache[k])] :
        k \in selected(selector, DOMAIN cache)}

\* "cache" followed by words, at least one.
handleCacheCommand(words) ==
    [lines |-> IF words[1] = "fetch" THEN outputValues(Tail(words)) ELSE {},
     final |-> IF words[1] \in {"fetch", "help"} THEN "OK" ELSE "ERRCMD"]

-----------------------------------------------------------------------------
(* Properties *)

\* Readings of the kind of field f: two's complement in the width of the field
\* for signed numbers, the plain range for the others.
IsReading(f, r) ==
    LET limit == 256 ^ f.size
        range == CASE f.kind \in {"signed", "temperature"} -> -limit \div 2 .. limit \div 2 - 1
                   [] f.kind = "bool" -> {0, 1}
                   [] OTHER -> 0 .. limit - 1
    IN  IF f.kind \in {"Enumeration", "Date", "SystemTime"} THEN Len(r) = f.size /\ r \in Seq(AnyByte)
        ELSE Len(r) = 1 /\ r[1] \in range

\* Every value in the cache is in the range its field can have.
TypeOK ==
    /\ pages \in Groups
    /\ \A p \in pages : memory[p] \in Contents(p)
    /\ \A k \in DOMAIN cache : cache[k].valid \in BOOLEAN /\ cache[k].reading \in Seq(Int)
    /\ \A p \in pages : \A f \in Fields(p[1], p[2]) :
          f.key \in DOMAIN cache => IsReading(f, cache[f.key].reading)

\* However a page is cut into telegrams, and whatever other traffic is heard,
\* a field is in the cache exactly when it was sent, with the value the device
\* held when it was last sent: no field is taken from another's bytes, none is
\* read from a request, and a part that ends within a field does not count.
CacheHoldsWhatWasSent ==
    \A p \in pages : \A f \in Fields(p[1], p[2]) :
        /\ f.key \in DOMAIN cache <=> f.key \in DOMAIN sent
        /\ f.key \in DOMAIN sent => cache[f.key] = sent[f.key]

\* The keys of everything that any page can report.
ReportedKeys ==
    {f.key : f \in UNION {Fields(p[1], p[2]) : p \in UNION Groups}} \cup SpecialKeys

\* A client that knows the name of a value can fetch it: for every value in the
\* cache that has a name there are words that select it and, of everything the
\* collector may hold, nothing else; and what is printed tells the states of an
\* enumeration apart, of which no more than the first eight have names.
FetchFindsIt ==
    \A k \in {j \in DOMAIN cache : getTypeName(j[1]) # ""} :
        LET subtype  == getSubTypeName(k[2])
            selector == <<IF subtype = "" THEN "none" ELSE subtype, getTypeName(k[1])>>
        IN  /\ selected(selector, ReportedKeys) = {k}
            /\ handleCacheCommand(<<"fetch">> \o selector) =
                  [lines |-> {[subtype |-> subtype, type |-> getTypeName(k[1]),
                               text |-> formatValue(k, cache[k])]},
                   final |-> "OK"]
            /\ cache[k].kind = "Enumeration" =>
                  \A a, b \in 0 .. 8 : a # b =>
                      formatValue(k, [cache[k] EXCEPT !.reading = <<a>>])
                          # formatValue(k, [cache[k] EXCEPT !.reading = <<b>>])

\* Database::handleValue never reads a value as another type than it holds,
\* which would throw and end the collector, and stores no two values under one
\* sensor, whose history would alternate between them.
SensorsFitValues ==
    \A k \in DOMAIN cache : cache[k].valid =>
        \A t \in takenFor(k) :
            /\ t.kind = cache[k].kind
            /\ \A j \in ReportedKeys : (\E u \in takenFor(j) : u.sensor = t.sensor) => j = k

\* What the collector puts on the bus says what it was asked to send: read the
\* way it reads telegrams itself, a request or a write for any page has the
\* type, the offset and the data it was made of, in the classic format and in
\* that of EMS+, whose reads and writes keep the type in different places.
RequestsReadBack ==
    \A p \in pages, x \in Parts : \A dest \in {p[1], p[1] - 128} :
        EmsMessage(getSendData(dest, p[2], x[1], <<x[2]>>)) =
            [source |-> PC, dest |-> dest, type |-> p[2], off |-> x[1], data |-> <<x[2]>>]

\* After a whole error page, whatever was heard before, the cache holds the
\* code and the number of its last record, both of the same one, or neither
\* when the page has no error.
WholeErrorPageShown ==
    [][\A p \in pages :
          p[2] = \hbf /\ Part(p, 0, Len(memory[p])) =>
              LET E == Errors(memory[p])
                  i == CHOOSE j \in E : \A k \in E : k <= j
              IN  /\ cache'[ErrorCode].reading =
                         IF E = {} THEN << >> ELSE SubSeq(memory[p], CodeAt(i) + 1, CodeAt(i) + 3)
                  /\ cache'[ErrorNumber].reading =
                         IF E = {} THEN << >>
                         ELSE <<unsigned(SubSeq(memory[p], NumberAt(i) + 1, NumberAt(i) + 2))>>]_vars
=============================================================================
