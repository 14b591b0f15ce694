--------------------------- MODULE CommandApiProofs ---------------------------
(***************************************************************************)
(* Proofs about CommandApi.                                                *)
(*                                                                         *)
(*  - Whatever the clients ask for and the devices answer, the parsers     *)
(*    keep their types and use the sender only the way CommandScheduler    *)
(*    allows, so what is proved of it there holds for the interface.       *)
(*  - When clients only read and devices answer in time or not at all,     *)
(*    one thing happens at a time: answers reach the client that asked,    *)
(*    no request is forgotten, and devices are not asked in haste.         *)
(*  - When, besides, a client that hangs up leaves one request at most,    *)
(*    each step is one of CommandService: every command gets one final     *)
(*    line at most, and only an unanswered one can end the process.        *)
(*  - When one client gives all the commands, one request at a time, the   *)
(*    same holds with writes among them, whose answers the sender makes    *)
(*    up, but for the pause before a write after an answer of its device.  *)
(***************************************************************************)
EXTENDS CommandApi, CommandSchedulerProofs, SequenceTheorems, WellFoundedInduction

-----------------------------------------------------------------------------
(* The invariant *)

Own(c) == {m \in Message : m.client = c}
ReadMessage == {m \in Message : ~IsWrite(m)}

\* The request a parser last started: none yet, or one of those the commands
\* cmds lead to, of which it has all it wants, or wants what was asked for.
Blank(p) == p.type = 0 /\ ~p.raw
Follows(p, k) ==
    /\ k.op = "read"
    /\ p.dest = k.dest /\ p.type = k.type /\ p.off = k.off /\ p.raw = k.raw
    /\ p.len = k.len \/ p.got >= p.len
Started(p, cmds) == Blank(p) \/ \E k \in Requests(cmds) : Follows(p, k)

TestMode == <<"uba", "testmodeon">>

\* A parser of connection c for which the commands cmds may be given.
ParserOK(p, c, cmds) ==
    /\ p \in Parser
    /\ p.active # NoMessage => p.active \in Own(c) /\ p.retries # 0
    /\ Started(p, cmds)
    /\ p.test # "off" \/ p.refresh > 0 => TestMode \in cmds

\* Without an active request no final line is owed.
Paid(p) == p.active = NoMessage => p.owed <= 0

\* The parsers a of all connections, under scenario g.
Parsers(a, g) ==
    /\ a \in [Client -> Parser]
    /\ \A c \in Client : ParserOK(a[c], c, g[c] \ {HangUp}) /\ Paid(a[c])

ApiIInv ==
    /\ IInv
    /\ Parsers(api, gives)
    /\ bus \in Seq(ReadMessage)
    /\ open \subseteq Client
    /\ up \in BOOLEAN
    /\ gives \in Scenarios

-----------------------------------------------------------------------------
(* The bus *)

\* Induction on the natural numbers, for the members of a set.
LEMMA NatSetInduction ==
    ASSUME NEW S, 0 \in S, \A n \in Nat : n \in S => n + 1 \in S
    PROVE  Nat \subseteq S
<1> DEFINE R == OpToRel(<, Nat)
           T == Nat \ S
<1>1. \A x, y \in Nat : <<y, x>> \in R <=> y < x
  BY DEF OpToRel
<1>2. IsWellFoundedOn(R, Nat)
  BY NatLessThanWellFounded
<1> SUFFICES ASSUME T # {} PROVE FALSE
  OBVIOUS
<1>3. T \subseteq Nat
  OBVIOUS
<1> HIDE DEF R, T
<1>4. PICK x \in T : \A y \in T : <<y, x>> \notin R
  BY <1>2, <1>3, WFMin
<1> USE DEF T
<1>5. x \in Nat /\ x # 0 /\ x - 1 \in Nat
  BY <1>4
<1>6. x - 1 \notin T
  <2>1. x - 1 < x
    BY <1>5
  <2>2. <<x - 1, x>> \in R
    BY <1>1, <1>5, <2>1
  <2> QED
    BY <1>4, <2>2
<1> QED
  BY <1>4, <1>5, <1>6

LEMMA AddReadType ==
    ASSUME NEW r \in Seq(ReadMessage), NEW m \in Message
    PROVE  AddRead(r, m) \in Seq(ReadMessage)
<1>1. ~IsWrite(m) => m \in ReadMessage
  BY DEF ReadMessage
<1> QED
  BY <1>1 DEF AddRead

\* r[i] holds the reads among the first i messages of out.
Filters(out, n, r) ==
    r = [i \in 0 .. n |-> IF i = 0 THEN << >> ELSE AddRead(r[i - 1], out[i])]

LEMMA FiltersExist ==
    ASSUME NEW out, NEW n \in Nat
    PROVE  \E r : Filters(out, n, r)
<1> DEFINE S == {k \in Nat : \E r : Filters(out, k, r)}
<1>1. 0 \in S
  <2>1. Filters(out, 0, [i \in 0 .. 0 |-> << >>])
    BY DEF Filters
  <2> QED
    BY <2>1
<1>2. ASSUME NEW k \in Nat, k \in S PROVE k + 1 \in S
  <2>1. PICK r : Filters(out, k, r)
    BY <1>2
  <2> DEFINE q == [i \in 0 .. k + 1 |-> IF i = k + 1 THEN AddRead(r[k], out[k + 1]) ELSE r[i]]
  <2>2. Filters(out, k + 1, q)
    BY <2>1 DEF Filters
  <2> QED
    BY <2>2
<1> HIDE DEF S
<1>3. n \in S
  BY <1>1, <1>2, NatSetInduction
<1> QED
  BY <1>3 DEF S

\* Only reads get to the bus.
LEMMA ReadsAmongType ==
    ASSUME NEW out \in Seq(Message)
    PROVE  ReadsAmong(out) \in Seq(ReadMessage)
<1> DEFINE c == CHOOSE r : Filters(out, Len(out), r)
           S == {i \in Nat : i <= Len(out) => c[i] \in Seq(ReadMessage)}
<1>1. ReadsAmong(out) = c[Len(out)]
  BY DEF ReadsAmong, Filters
<1>2. Filters(out, Len(out), c)
  <2>1. Len(out) \in Nat
    OBVIOUS
  <2> QED
    BY <2>1, FiltersExist
<1> HIDE DEF c
<1>3. 0 \in S
  BY <1>2 DEF Filters
<1>4. ASSUME NEW i \in Nat, i \in S PROVE i + 1 \in S
  <2>1. CASE i + 1 <= Len(out)
    <3>1. c[i] \in Seq(ReadMessage) /\ out[i + 1] \in Message
      BY <1>4, <2>1
    <3>2. c[i + 1] = AddRead(c[i], out[i + 1])
      BY <1>2, <2>1 DEF Filters
    <3>3. AddRead(c[i], out[i + 1]) \in Seq(ReadMessage)
      BY <3>1, AddReadType
    <3> QED
      BY <3>2, <3>3
  <2>2. CASE ~(i + 1 <= Len(out))
    BY <2>2
  <2> QED
    BY <2>1, <2>2
<1> HIDE DEF S
<1>5. Nat \subseteq S
  BY <1>3, <1>4, NatSetInduction
<1> QED
  BY <1>1, <1>5 DEF S

LEMMA TransmitType ==
    ASSUME NEW b \in Seq(ReadMessage), NEW out \in Seq(Message)
    PROVE  Transmit(b, out) \in Seq(ReadMessage)
<1> DEFINE reads == b \o ReadsAmong(out)
           n == IF Len(reads) < MaxBus THEN Len(reads) ELSE MaxBus
<1>1. reads \in Seq(ReadMessage) /\ Len(reads) \in Nat
  BY ReadsAmongType
<1>2. Transmit(b, out) = SubSeq(reads, 1, n)
  BY DEF Transmit
<1> HIDE DEF reads
<1>3. n \in Nat /\ n <= Len(reads)
  BY <1>1, ApiAssumption
<1> HIDE DEF n
<1> QED
  BY <1>1, <1>2, <1>3

\* One read less on the bus.
LEMMA WithoutType ==
    ASSUME NEW b \in Seq(ReadMessage), NEW i \in DOMAIN b
    PROVE  SubSeq(b, 1, i - 1) \o SubSeq(b, i + 1, Len(b)) \in Seq(ReadMessage)
<1>1. SubSeq(b, 1, i - 1) \in Seq(ReadMessage)
  OBVIOUS
<1>2. SubSeq(b, i + 1, Len(b)) \in Seq(ReadMessage)
  OBVIOUS
<1> QED
  BY <1>1, <1>2

-----------------------------------------------------------------------------
(* The parser *)

\* What a call may leave behind: the parser p in order, at most one message of
\* the client for the sender, and a final line if the command is over.
Sound(r, p, c, cmds) ==
    /\ ParserOK(r.p, c, cmds)
    /\ r.p.owed = p.owed
    /\ r.posted \in Burst(c)
    /\ r.line = "none" /\ r.p.active = NoMessage => p.active = NoMessage

\* A call that sends something.
Sends(r, p, c, cmds) ==
    /\ Sound(r, p, c, cmds)
    /\ r.p.active # NoMessage
    /\ r.posted = <<r.p.active>>

LEMMA InBurst ==
    ASSUME NEW c, NEW n \in 0 .. MaxBurst, NEW f \in [1 .. n -> Own(c)]
    PROVE  f \in Burst(c)
BY DEF Burst, Own

LEMMA NothingInBurst == \A c : << >> \in Burst(c)
<1> TAKE c
<1>1. << >> \in [1 .. 0 -> Own(c)]
  OBVIOUS
<1>2. 0 \in 0 .. MaxBurst
  BY BoundAssumption
<1> QED
  BY <1>1, <1>2, InBurst

LEMMA OneInBurst ==
    ASSUME NEW c, NEW m \in Own(c)
    PROVE  <<m>> \in Burst(c)
<1>1. <<m>> \in [1 .. 1 -> Own(c)]
  OBVIOUS
<1>2. 1 \in 0 .. MaxBurst
  BY BoundAssumption, ApiAssumption
<1> QED
  BY <1>1, <1>2, InBurst

\* sendActiveRequest posts the active request, a message of this client.
LEMMA SendActiveRequest ==
    ASSUME NEW c \in Client, NEW cmds, NEW p, NEW q, ParserOK(q, c, cmds),
           q.owed = p.owed, q.active # NoMessage
    PROVE  Sends(sendActiveRequest(q, "none"), p, c, cmds)
<1>1. q.active \in Own(c)
  BY DEF ParserOK
<1>2. <<q.active>> \in Burst(c)
  BY <1>1, OneInBurst
<1> QED
  BY <1>2 DEF sendActiveRequest, Result, Sends, Sound

LEMMA SendCommand ==
    ASSUME NEW c \in Client, NEW cmds, NEW p, ParserOK(p, c, cmds),
           NEW dest, NEW type, NEW off, NEW val, Request(c, dest, type, off, val) \in Message
    PROVE  Sends(sendCommand(p, c, dest, type, off, val), p, c, cmds)
<1> DEFINE m == Request(c, dest, type, off, val)
           q == [p EXCEPT !.retries = MaxRequestRetries, !.active = m]
<1>1. m \in Own(c)
  BY DEF Own, Request
<1> HIDE DEF m
<1>2. p \in Parser /\ Own(c) \subseteq Message
  BY DEF ParserOK, Own
<1>3. q \in Parser /\ q.retries # 0 /\ q.active = m
  <2>1. MaxRequestRetries \in 0 .. MaxRequestRetries /\ MaxRequestRetries # 0
    BY ApiAssumption
  <2>2. m \in Message \cup {NoMessage}
    BY <1>1, <1>2
  <2> QED
    BY <1>2, <2>1, <2>2 DEF Parser
<1>4. /\ q.dest = p.dest /\ q.type = p.type /\ q.off = p.off /\ q.len = p.len
      /\ q.got = p.got /\ q.raw = p.raw /\ q.test = p.test /\ q.refresh = p.refresh
      /\ q.owed = p.owed
  BY <1>2 DEF Parser
<1>5. sendCommand(p, c, dest, type, off, val) = sendActiveRequest(q, "none")
  BY DEF sendCommand, m
<1> HIDE DEF q
<1>6. Started(q, cmds)
  BY <1>4 DEF ParserOK, Started, Blank, Follows
<1>7. ParserOK(q, c, cmds)
  BY <1>1, <1>3, <1>4, <1>6 DEF ParserOK
<1>8. q.active # NoMessage
  BY <1>1, <1>2, <1>3, SenderAssumption
<1> QED
  BY <1>4, <1>5, <1>7, <1>8, SendActiveRequest

\* The commands cmds of connection c are those of the tables.
Tabled(c, cmds) ==
    /\ \A cmd \in cmds :
          /\ Calls(cmd) \in Seq(Call) /\ Len(Calls(cmd)) <= MaxBurst
          /\ Calls(cmd) = << >> => cmd \in AnsweredAtOnce
    /\ \A k \in Requests(cmds) :
          /\ k.op = "write" => Request(c, WriteTo(k.dest), k.type, k.off, k.len) \in Message
          /\ k.op = "read" =>
                /\ k.len > 0
                /\ \A n \in 0 .. k.len - 1 :
                      n = 0 \/ k.raw \/ k.type \in ContinuedTypes =>
                          Request(c, ReadFrom(k.dest), k.type, k.off + n, k.len - n) \in Message

LEMMA GivenIsTabled ==
    ASSUME NEW g \in Scenarios, NEW c \in Client
    PROVE  Tabled(c, g[c] \ {HangUp})
BY CommandAssumption DEF Tabled

\* What follows a command of itself is a call like those of the tables.
LEMMA FollowUps ==
    /\ \A d \in {UI800, RH800} : Read(d, \h02, 3, FALSE) \in Call
    /\ TestModeWrite(TestModeOn) \in Call
BY DEF Read, WriteValue, TestModeWrite, TestModeOn, Call, UI800, RH800, UBA2

LEMMA CallsAreRequests ==
    ASSUME NEW cmds, NEW cmd \in cmds, NEW i \in DOMAIN Calls(cmd)
    PROVE  Calls(cmd)[i] \in Requests(cmds)
<1> DEFINE made(x) == {Calls(x)[j] : j \in DOMAIN Calls(x)}
           calls == UNION {made(x) : x \in cmds}
<1>1. Calls(cmd)[i] \in made(cmd)
  OBVIOUS
<1> HIDE DEF made
<1>2. Calls(cmd)[i] \in calls
  BY <1>1
<1>3. calls \subseteq Requests(cmds)
  BY Zenon DEF Requests, made
<1> QED
  BY <1>2, <1>3

LEMMA RequestsAreCalls ==
    ASSUME NEW c, NEW cmds, Tabled(c, cmds)
    PROVE  Requests(cmds) \subseteq Call
<1> DEFINE calls == UNION {{Calls(cmd)[i] : i \in DOMAIN Calls(cmd)} : cmd \in cmds}
<1>1. calls \subseteq Call
  <2>1. ASSUME NEW cmd \in cmds, NEW i \in DOMAIN Calls(cmd) PROVE Calls(cmd)[i] \in Call
    <3>1. Calls(cmd) \in Seq(Call)
      BY DEF Tabled
    <3> HIDE DEF Tabled
    <3> QED
      BY <3>1
  <2> QED
    BY <2>1
<1> HIDE DEF calls
<1>2. ASSUME NEW k \in Requests(cmds)
      PROVE  \/ k \in calls
             \/ \E d \in {UI800, RH800} : k = Read(d, \h02, 3, FALSE)
             \/ k = TestModeWrite(TestModeOn)
  BY <1>2 DEF Requests, calls
<1> QED
  BY <1>1, <1>2, FollowUps

\* A version answered by one device is asked of the next.
LEMMA NextVersionAsked ==
    ASSUME NEW c, NEW cmds, Tabled(c, cmds), NEW k \in Requests(cmds),
           k.op = "read", k.type = \h02, ~k.raw, NEW d \in {UI800, RH800}
    PROVE  Read(d, \h02, 3, FALSE) \in Requests(cmds)
<1> DEFINE calls == UNION {{Calls(cmd)[i] : i \in DOMAIN Calls(cmd)} : cmd \in cmds}
           some == \E j \in calls : j.type = \h02 /\ ~j.raw
           more == {Read(e, \h02, 3, FALSE) : e \in IF some THEN {UI800, RH800} ELSE {}}
           test == IF TestMode \in cmds THEN {TestModeWrite(TestModeOn)} ELSE {}
<1>1. Requests(cmds) = calls \cup more \cup test
  BY DEF Requests, TestMode
<1>2. \A j \in test : j.op = "write"
  BY DEF TestModeWrite, WriteValue
<1>3. k \in calls \/ k \in more
  BY <1>1, <1>2
<1>4. k \in calls => some
  OBVIOUS
<1>5. k \in more => some
  OBVIOUS
<1> QED
  BY <1>1, <1>3, <1>4, <1>5

\* The active request is forgotten, and the final line printed.
LEMMA Forget ==
    ASSUME NEW c \in Client, NEW cmds, NEW p, ParserOK(p, c, cmds), NEW line, line # "none"
    PROVE  Sound(Result([p EXCEPT !.active = NoMessage], << >>, line), p, c, cmds)
<1> DEFINE q == [p EXCEPT !.active = NoMessage]
<1>1. p \in Parser
  BY DEF ParserOK
<1>2. /\ q \in Parser /\ q.active = NoMessage /\ q.owed = p.owed
      /\ q.dest = p.dest /\ q.type = p.type /\ q.off = p.off /\ q.len = p.len
      /\ q.got = p.got /\ q.raw = p.raw /\ q.test = p.test /\ q.refresh = p.refresh
  BY <1>1 DEF Parser
<1> HIDE DEF q
<1>3. Started(q, cmds)
  BY <1>2 DEF ParserOK, Started, Blank, Follows
<1>4. ParserOK(q, c, cmds)
  BY <1>2, <1>3 DEF ParserOK
<1>5. Sound(Result(q, << >>, line), p, c, cmds)
  BY <1>2, <1>4, NothingInBurst DEF Sound, Result
<1> QED
  BY <1>5 DEF q

\* Nothing is sent, and the parser stays as it is.
LEMMA Keep ==
    ASSUME NEW c \in Client, NEW cmds, NEW p, ParserOK(p, c, cmds), NEW line
    PROVE  Sound(Result(p, << >>, line), p, c, cmds)
BY NothingInBurst DEF Sound, Result

\* The request of a parser as startRequest leaves it.
Asked(p, k) ==
    [p EXCEPT !.dest = k.dest, !.type = k.type, !.off = k.off, !.len = k.len,
              !.got = 0, !.raw = k.raw]

LEMMA AskedSound ==
    ASSUME NEW c, NEW cmds, NEW p, ParserOK(p, c, cmds), Tabled(c, cmds),
           NEW k \in Requests(cmds), k.op = "read"
    PROVE  /\ ParserOK(Asked(p, k), c, cmds)
           /\ Asked(p, k).got = 0 /\ Asked(p, k).len = k.len
           /\ Asked(p, k).dest = k.dest /\ Asked(p, k).type = k.type /\ Asked(p, k).off = k.off
           /\ Asked(p, k).owed = p.owed
<1> DEFINE q == Asked(p, k)
<1>1. k \in Call /\ p \in Parser
  BY RequestsAreCalls DEF ParserOK
<1>2. /\ q \in Parser
      /\ q.dest = k.dest /\ q.type = k.type /\ q.off = k.off /\ q.len = k.len
      /\ q.got = 0 /\ q.raw = k.raw
      /\ q.active = p.active /\ q.retries = p.retries
      /\ q.test = p.test /\ q.refresh = p.refresh /\ q.owed = p.owed
  BY <1>1 DEF Asked, Parser, Call
<1> HIDE DEF q
<1>3. Started(q, cmds)
  BY <1>2 DEF Started, Follows
<1>4. ParserOK(q, c, cmds)
  BY <1>2, <1>3 DEF ParserOK
<1> QED
  BY <1>2, <1>4 DEF q

\* startRequest sends the first part of the request.
LEMMA StartRequest ==
    ASSUME NEW c \in Client, NEW cmds, NEW p, ParserOK(p, c, cmds), Tabled(c, cmds),
           NEW k \in Requests(cmds), k.op = "read"
    PROVE  Sends(startRequest(p, c, k.dest, k.type, k.off, k.len, k.raw), p, c, cmds)
<1> DEFINE q == Asked(p, k)
           r == sendCommand(q, c, ReadFrom(q.dest), q.type, q.off + q.got, q.len - q.got)
<1>1. /\ ParserOK(q, c, cmds) /\ q.got = 0 /\ q.len = k.len /\ q.owed = p.owed
      /\ q.dest = k.dest /\ q.type = k.type /\ q.off = k.off
  BY AskedSound
<1>2. k \in Call
  BY RequestsAreCalls
<1>3. k.len > 0 /\ k.len \in Nat /\ k.off \in Nat
  BY <1>2 DEF Tabled, Call
<1>4. Request(c, ReadFrom(k.dest), k.type, k.off + 0, k.len - 0) \in Message
  <2>1. 0 \in 0 .. k.len - 1
    BY <1>3
  <2> QED
    BY <2>1 DEF Tabled
<1>5. startRequest(p, c, k.dest, k.type, k.off, k.len, k.raw) = continueRequest(q, c)
  BY DEF startRequest, Asked
<1> HIDE DEF q
<1>6. continueRequest(q, c) = r
  BY <1>1, <1>3 DEF continueRequest
<1>7. Request(c, ReadFrom(q.dest), q.type, q.off + q.got, q.len - q.got) \in Message
  BY <1>1, <1>4
<1>8. Sends(r, q, c, cmds)
  BY <1>1, <1>7, SendCommand
<1> HIDE DEF r
<1> QED
  BY <1>1, <1>5, <1>6, <1>8 DEF Sends, Sound

\* continueRequest sends the next part, or the command is over.
LEMMA ContinueRequest ==
    ASSUME NEW c \in Client, NEW cmds, NEW p, ParserOK(p, c, cmds), Tabled(c, cmds),
           NEW k \in Requests(cmds), Follows(p, k), p.raw \/ p.type \in ContinuedTypes
    PROVE  Sound(continueRequest(p, c), p, c, cmds)
<1> DEFINE r == continueRequest(p, c)
           q == [p EXCEPT !.active = NoMessage]
           s == sendCommand(p, c, ReadFrom(p.dest), p.type, p.off + p.got, p.len - p.got)
<1>1. p \in Parser /\ k \in Call
  BY RequestsAreCalls DEF ParserOK
<1>2. p.got \in Nat /\ p.len \in Nat /\ p.off \in Nat
  BY <1>1 DEF Parser
<1>3. CASE p.got >= p.len
  <2>1. r = Result(q, << >>, "OK")
    BY <1>3 DEF continueRequest
  <2> QED
    BY <2>1, Forget
<1>4. CASE ~(p.got >= p.len)
  <2>1. /\ p.len = k.len /\ p.dest = k.dest /\ p.type = k.type /\ p.off = k.off
        /\ p.raw = k.raw /\ k.op = "read"
    BY <1>4 DEF Follows
  <2>2. p.got \in 0 .. k.len - 1
    BY <1>2, <1>4, <2>1
  <2>3. Request(c, ReadFrom(k.dest), k.type, k.off + p.got, k.len - p.got) \in Message
    BY <2>1, <2>2 DEF Tabled
  <2>4. Request(c, ReadFrom(p.dest), p.type, p.off + p.got, p.len - p.got) \in Message
    BY <2>1, <2>3
  <2>5. Sends(s, p, c, cmds)
    BY <2>4, SendCommand
  <2>6. r = s
    BY <1>4 DEF continueRequest
  <2> HIDE DEF r, s
  <2> QED
    BY <2>5, <2>6 DEF Sends, r
<1> QED
  BY <1>3, <1>4

\* A call of a command's table sends its message.
LEMMA CallSends ==
    ASSUME NEW c \in Client, NEW cmds, NEW p, ParserOK(p, c, cmds), Tabled(c, cmds),
           NEW k \in Requests(cmds)
    PROVE  Sends(call(p, c, k), p, c, cmds)
<1>1. CASE k.op = "read"
  BY <1>1, StartRequest DEF call
<1>2. CASE k.op # "read"
  <2>1. k.op = "write"
    BY <1>2, RequestsAreCalls DEF Call
  <2>2. Request(c, WriteTo(k.dest), k.type, k.off, k.len) \in Message
    BY <2>1 DEF Tabled
  <2>3. call(p, c, k) = sendCommand(p, c, WriteTo(k.dest), k.type, k.off, k.len)
    BY <1>2 DEF call
  <2> QED
    BY <2>2, <2>3, SendCommand
<1> QED
  BY <1>1, <1>2

\* A response asks the next device for its version, continues a page, or ends
\* the command.
LEMMA HandleResponse ==
    ASSUME NEW c \in Client, NEW cmds, NEW p, ParserOK(p, c, cmds), Tabled(c, cmds), ~p.raw,
           NEW end
    PROVE  Sound(handleResponse(p, c, end), p, c, cmds)
<1> DEFINE r == handleResponse(p, c, end)
           over == Result([p EXCEPT !.active = NoMessage], << >>, "OK")
           EndingTypes == {\h15, \h140, \h1a5, \h1af, \h1b9, \h1f5, \hea}
<1>1. Sound(over, p, c, cmds)
  BY Forget
<1> HIDE DEF over
<1>2. ASSUME p.type # 0
      PROVE  \E k \in Requests(cmds) : Follows(p, k)
  BY <1>2 DEF ParserOK, Started, Blank
<1>3. CASE p.type = \h02 /\ p.dest \in {UBA2, UI800}
  <2> DEFINE d == NextVersionSource(p.dest)
             j == Read(d, \h02, 3, FALSE)
  <2>1. PICK k \in Requests(cmds) : Follows(p, k)
    BY <1>2, <1>3
  <2>2. d \in {UI800, RH800}
    BY <1>3 DEF NextVersionSource, UBA2, UI800, RH800
  <2> HIDE DEF d
  <2>3. j \in Requests(cmds)
    BY <1>3, <2>1, <2>2, NextVersionAsked DEF Follows
  <2>4. j.op = "read" /\ j.dest = d /\ j.type = \h02 /\ j.off = 0 /\ j.len = 3 /\ j.raw = FALSE
    BY DEF Read
  <2> HIDE DEF j
  <2>5. Sends(startRequest(p, c, j.dest, j.type, j.off, j.len, j.raw), p, c, cmds)
    BY <2>3, <2>4, StartRequest
  <2>6. r = startRequest(p, c, d, \h02, 0, 3, FALSE)
    BY <1>3 DEF handleResponse, d
  <2> HIDE DEF r
  <2>7. Sends(startRequest(p, c, d, \h02, 0, 3, FALSE), p, c, cmds)
    BY <2>4, <2>5
  <2> QED
    BY <2>6, <2>7 DEF Sends, r
<1>4. CASE p.type = \h02 /\ p.dest \notin {UBA2, UI800}
  <2>1. r = over
    BY <1>4 DEF handleResponse, over
  <2> QED
    BY <1>1, <2>1
<1>5. CASE p.type \in ContinuedTypes
  <2>1. PICK k \in Requests(cmds) : Follows(p, k)
    BY <1>2, <1>5 DEF ContinuedTypes
  <2>2. Sound(continueRequest(p, c), p, c, cmds)
    BY <1>5, <2>1, ContinueRequest
  <2>3. r = over \/ r = continueRequest(p, c)
    <3>1. CASE p.type = \h137
      BY <3>1 DEF handleResponse
    <3>2. CASE p.type \in {\hbf, \hc0, \hc2}
      BY <3>2 DEF handleResponse, over
    <3> QED
      BY <1>5, <3>1, <3>2 DEF ContinuedTypes
  <2> QED
    BY <1>1, <2>2, <2>3
<1>6. CASE p.type \in EndingTypes
  <2>1. r = over
    BY <1>6 DEF handleResponse, over
  <2> QED
    BY <1>1, <2>1
<1>7. CASE p.type \notin {\h02} \cup ContinuedTypes \cup EndingTypes
  <2>1. p.type # \h02 /\ p.type # \h137 /\ p.type \notin {\hbf, \hc0, \hc2}
        /\ p.type \notin EndingTypes
    BY <1>7 DEF ContinuedTypes
  <2>2. r = Result(p, << >>, "FAIL")
    BY ZenonT(60), <2>1 DEF handleResponse
  <2> QED
    BY <2>2, Keep
<1> QED
  BY <1>3, <1>4, <1>5, <1>6, <1>7

\* onIncomingMessage, whatever arrives.
LEMMA OnIncomingMessage ==
    ASSUME NEW c \in Client, NEW cmds, NEW p, ParserOK(p, c, cmds), Tabled(c, cmds),
           NEW source, NEW type, NEW off, NEW n \in Nat, NEW end
    PROVE  Sound(onIncomingMessage(p, c, source, type, off, n, end), p, c, cmds)
<1> DEFINE r == onIncomingMessage(p, c, source, type, off, n, end)
           q == IF n = 0 THEN [p EXCEPT !.len = p.got] ELSE [p EXCEPT !.got = @ + n]
           matches == source = p.dest /\ type = p.type /\ off = p.off + p.got
<1>1. CASE p.active = NoMessage
  BY <1>1, Keep DEF onIncomingMessage
<1>2. CASE p.active # NoMessage /\ type = \hff
  <2> DEFINE line == IF off # 4 THEN "OK" ELSE "FAIL"
  <2>1. r = Result([p EXCEPT !.active = NoMessage], << >>, line)
    BY <1>2 DEF onIncomingMessage
  <2>2. line # "none"
    OBVIOUS
  <2> HIDE DEF line
  <2> QED
    BY <2>1, <2>2, Forget
<1>3. CASE p.active # NoMessage /\ type # \hff /\ ~matches
  <2>1. r = Result(p, << >>, "none")
    BY <1>3 DEF onIncomingMessage
  <2> QED
    BY <2>1, Keep
<1>4. CASE p.active # NoMessage /\ type # \hff /\ matches
  <2>1. p \in Parser
    BY DEF ParserOK
  <2>2. /\ q \in Parser /\ q.active = p.active /\ q.retries = p.retries /\ q.owed = p.owed
        /\ q.dest = p.dest /\ q.type = p.type /\ q.off = p.off /\ q.raw = p.raw
        /\ q.test = p.test /\ q.refresh = p.refresh
    <3>1. CASE n = 0
      BY <2>1, <3>1 DEF Parser
    <3>2. CASE n # 0
      BY <2>1, <3>2 DEF Parser
    <3> QED
      BY <3>1, <3>2
  <2>3. q.got >= q.len \/ (q.len = p.len /\ (p.got >= p.len => q.got >= q.len))
    <3>1. p.got \in Nat /\ p.len \in Nat
      BY <2>1 DEF Parser
    <3>2. CASE n = 0
      BY <2>1, <3>1, <3>2 DEF Parser
    <3>3. CASE n # 0
      <4>1. q.got = p.got + n /\ q.len = p.len
        BY <2>1, <3>3 DEF Parser
      <4> HIDE DEF q
      <4> QED
        BY <3>1, <4>1
    <3> QED
      BY <3>2, <3>3
  <2>4. r = IF q.raw THEN continueRequest(q, c) ELSE handleResponse(q, c, end)
    BY <1>4 DEF onIncomingMessage
  <2> HIDE DEF q, r
  <2>5. \A k : Follows(p, k) => Follows(q, k)
    BY <2>2, <2>3 DEF Follows
  <2>6. Started(q, cmds)
    BY <2>2, <2>5 DEF ParserOK, Started, Blank
  <2>7. ParserOK(q, c, cmds)
    BY <2>2, <2>6 DEF ParserOK
  <2>8. Sound(r, q, c, cmds)
    <3>1. CASE q.raw
      <4>1. PICK k \in Requests(cmds) : Follows(q, k)
        BY <2>6, <3>1 DEF Started, Blank
      <4> QED
        BY <2>4, <2>7, <3>1, <4>1, ContinueRequest
    <3>2. CASE ~q.raw
      BY <2>4, <2>7, <3>2, HandleResponse
    <3> QED
      BY <3>1, <3>2
  <2> QED
    BY <2>2, <2>8 DEF Sound, r
<1> QED
  BY <1>1, <1>2, <1>3, <1>4

\* onTimeout sends the active request again, or gives up.
LEMMA OnTimeout ==
    ASSUME NEW c \in Client, NEW cmds, NEW p, ParserOK(p, c, cmds)
    PROVE  Sound(onTimeout(p), p, c, cmds)
<1>1. p \in Parser
  BY DEF ParserOK
<1>2. CASE p.active = NoMessage
  BY <1>2, Keep DEF onTimeout
<1>3. CASE p.active # NoMessage /\ p.retries = 1
  <2> DEFINE q == [p EXCEPT !.retries = 0, !.active = NoMessage]
  <2>1. 0 \in 0 .. MaxRequestRetries
    BY ApiAssumption
  <2>2. /\ q \in Parser /\ q.active = NoMessage /\ q.owed = p.owed
        /\ q.dest = p.dest /\ q.type = p.type /\ q.off = p.off /\ q.len = p.len
        /\ q.got = p.got /\ q.raw = p.raw /\ q.test = p.test /\ q.refresh = p.refresh
    BY <1>1, <2>1 DEF Parser
  <2>3. onTimeout(p) = Result(q, << >>, "ERRTIMEOUT")
    BY <1>3 DEF onTimeout
  <2> HIDE DEF q
  <2>4. Started(q, cmds)
    BY <2>2 DEF ParserOK, Started, Blank, Follows
  <2>5. ParserOK(q, c, cmds)
    BY <2>2, <2>4 DEF ParserOK
  <2> QED
    BY <2>2, <2>3, <2>5, NothingInBurst DEF Sound, Result
<1>4. CASE p.active # NoMessage /\ p.retries # 1
  <2> DEFINE q == [p EXCEPT !.retries = @ - 1]
  <2>1. p.retries \in 0 .. MaxRequestRetries /\ p.retries # 0
    BY <1>1, <1>4 DEF ParserOK, Parser
  <2>2. p.retries - 1 \in 0 .. MaxRequestRetries /\ p.retries - 1 # 0
    BY <1>4, <2>1, ApiAssumption
  <2>3. /\ q \in Parser /\ q.active = p.active /\ q.retries # 0 /\ q.owed = p.owed
        /\ q.dest = p.dest /\ q.type = p.type /\ q.off = p.off /\ q.len = p.len
        /\ q.got = p.got /\ q.raw = p.raw /\ q.test = p.test /\ q.refresh = p.refresh
    BY <1>1, <2>2 DEF Parser
  <2>4. onTimeout(p) = sendActiveRequest(q, "none")
    BY <1>4 DEF onTimeout
  <2> HIDE DEF q
  <2>5. Started(q, cmds)
    BY <2>3 DEF ParserOK, Started, Blank, Follows
  <2>6. ParserOK(q, c, cmds)
    BY <2>3, <2>5 DEF ParserOK
  <2>7. Sends(sendActiveRequest(q, "none"), p, c, cmds)
    BY <1>4, <2>3, <2>6, SendActiveRequest
  <2> QED
    BY <2>4, <2>7 DEF Sends
<1> QED
  BY <1>2, <1>3, <1>4

\* The timer of the test mode changes nothing about the request.
SameRequest(q, p) ==
    /\ q.active = p.active /\ q.retries = p.retries
    /\ q.dest = p.dest /\ q.type = p.type /\ q.off = p.off /\ q.len = p.len
    /\ q.got = p.got /\ q.raw = p.raw

LEMMA SameRequestOK ==
    ASSUME NEW c, NEW cmds, NEW p, ParserOK(p, c, cmds), NEW q \in Parser, SameRequest(q, p),
           q.test # "off" \/ q.refresh > 0 => TestMode \in cmds
    PROVE  ParserOK(q, c, cmds)
<1>1. Started(q, cmds)
  BY DEF SameRequest, ParserOK, Started, Blank, Follows
<1> QED
  BY <1>1 DEF SameRequest, ParserOK

LEMMA CancelTestMode ==
    ASSUME NEW c, NEW cmds, NEW p, ParserOK(p, c, cmds)
    PROVE  LET q == cancelTestMode(p)
           IN  /\ ParserOK(q, c, cmds)
               /\ SameRequest(q, p) /\ q.owed = p.owed
<1> DEFINE q == cancelTestMode(p)
<1>1. p \in Parser
  BY DEF ParserOK
<1>2. /\ q \in Parser /\ q.owed = p.owed /\ q.test = "off"
      /\ q.refresh = IF p.test = "first" THEN p.refresh + 1 ELSE p.refresh
      /\ SameRequest(q, p)
  <2>1. (IF p.test = "first" THEN p.refresh + 1 ELSE p.refresh) \in Nat
    BY <1>1 DEF Parser
  <2> QED
    BY <1>1, <2>1 DEF cancelTestMode, Parser, SameRequest
<1> HIDE DEF q
<1>3. q.test # "off" \/ q.refresh > 0 => TestMode \in cmds
  BY <1>2 DEF ParserOK
<1> QED
  BY <1>2, <1>3, SameRequestOK DEF q

LEMMA TestModeCommand ==
    ASSUME NEW c, NEW cmds, NEW p, ParserOK(p, c, cmds), NEW cmd \in cmds
    PROVE  LET q == testModeCommand(p, cmd)
           IN  /\ ParserOK(q, c, cmds)
               /\ q.active = p.active /\ q.owed = p.owed
<1> DEFINE t == cancelTestMode(p)
           on == [t EXCEPT !.test = "first", !.wanted = "on"]
           off == [t EXCEPT !.wanted = "off"]
           q == testModeCommand(p, cmd)
<1>1. ParserOK(t, c, cmds) /\ t.active = p.active /\ t.owed = p.owed /\ t \in Parser
  BY CancelTestMode DEF SameRequest, ParserOK
<1> HIDE DEF t
<1>2. CASE cmd = TestMode
  <2>1. q = on
    BY <1>2 DEF testModeCommand, t, TestMode
  <2>2. on \in Parser /\ SameRequest(on, t) /\ on.owed = t.owed
    BY <1>1 DEF Parser, SameRequest
  <2> HIDE DEF on, q
  <2>3. ParserOK(on, c, cmds)
    BY <1>1, <1>2, <2>2, SameRequestOK
  <2> QED
    BY <1>1, <2>1, <2>2, <2>3 DEF SameRequest, q
<1>3. CASE cmd = <<"uba", "testmodeoff">>
  <2>1. q = off
    BY <1>3 DEF testModeCommand, t
  <2>2. /\ off \in Parser /\ SameRequest(off, t) /\ off.owed = t.owed
        /\ off.test = t.test /\ off.refresh = t.refresh
    BY <1>1 DEF Parser, SameRequest
  <2> HIDE DEF off, q
  <2>3. ParserOK(off, c, cmds)
    BY <1>1, <2>2, SameRequestOK DEF ParserOK
  <2> QED
    BY <1>1, <2>1, <2>2, <2>3 DEF SameRequest, q
<1>4. CASE cmd # TestMode /\ cmd # <<"uba", "testmodeoff">>
  BY <1>4 DEF testModeCommand, TestMode
<1> QED
  BY <1>2, <1>3, <1>4

\* A command posts a message for each call of its table, and has an active
\* request afterwards unless its final line was printed at once.
LEMMA Parse ==
    ASSUME NEW c \in Client, NEW cmds, NEW p, ParserOK(p, c, cmds), Tabled(c, cmds),
           NEW cmd \in cmds
    PROVE  LET r == parse(p, c, cmd)
           IN  /\ ParserOK(r.p, c, cmds)
               /\ r.p.owed = p.owed
               /\ r.posted \in Burst(c)
               /\ r.line = "none" => r.p.active # NoMessage
<1> DEFINE calls == Calls(cmd)
           n == Len(calls)
           q == testModeCommand(p, cmd)
           line == IF cmd \in AnsweredAtOnce THEN "OK" ELSE "none"
           ms == [i \in 1 .. n |-> call(q, c, calls[i]).posted[1]]
           r == parse(p, c, cmd)
<1>1. ParserOK(q, c, cmds) /\ q.owed = p.owed
  BY TestModeCommand
<1>2. calls \in Seq(Call) /\ n \in 0 .. MaxBurst /\ (calls = << >> => cmd \in AnsweredAtOnce)
  <2>1. calls \in Seq(Call) /\ Len(calls) <= MaxBurst /\ (calls = << >> => cmd \in AnsweredAtOnce)
    BY DEF Tabled
  <2> HIDE DEF calls
  <2> QED
    BY <2>1, BoundAssumption
<1>3. \A i \in 1 .. n : calls[i] \in Requests(cmds)
  <2>1. \A i \in DOMAIN calls : calls[i] \in Requests(cmds)
    BY CallsAreRequests
  <2> HIDE DEF calls
  <2> QED
    BY <1>2, <2>1
<1> HIDE DEF calls, q
<1>4. /\ r.line = line
      /\ r.p = IF calls = << >> THEN q ELSE call(q, c, calls[n]).p
      /\ r.posted = IF n = 1 THEN call(q, c, calls[1]).posted ELSE ms
  BY DEF parse, Result, calls, q
<1> HIDE DEF r
<1>5. ASSUME NEW i \in 1 .. n
      PROVE  Sends(call(q, c, calls[i]), q, c, cmds)
  BY <1>1, <1>3, CallSends
<1>6. CASE calls = << >>
  <2>1. r.p = q /\ r.line = "OK"
    BY <1>2, <1>4, <1>6
  <2>2. r.posted = << >>
    BY <1>4, <1>6
  <2> QED
    BY <1>1, <2>1, <2>2, NothingInBurst DEF r
<1>7. CASE calls # << >>
  <2>1. n \in 1 .. n /\ 1 \in 1 .. n
    BY <1>2, <1>7
  <2>2. Sends(call(q, c, calls[n]), q, c, cmds) /\ Sends(call(q, c, calls[1]), q, c, cmds)
    BY <1>5, <2>1
  <2>3. ParserOK(r.p, c, cmds) /\ r.p.owed = q.owed /\ r.p.active # NoMessage
    BY <1>4, <1>7, <2>2 DEF Sends, Sound
  <2>4. \A i \in 1 .. n : call(q, c, calls[i]).posted[1] \in Own(c)
    <3> TAKE i \in 1 .. n
    <3> DEFINE t == call(q, c, calls[i])
    <3>1. Sends(t, q, c, cmds)
      BY <1>5
    <3> HIDE DEF t
    <3>2. t.p.active \in Own(c) /\ t.posted = <<t.p.active>>
      BY <3>1 DEF Sends, Sound, ParserOK
    <3> QED
      BY <3>2 DEF t
  <2>5. ms \in [1 .. n -> Own(c)]
    BY <2>4
  <2>6. ms \in Burst(c)
    BY <1>2, <2>5, InBurst
  <2>7. r.posted \in Burst(c)
    BY <1>4, <2>2, <2>6 DEF Sends, Sound
  <2> QED
    BY <1>1, <2>3, <2>7 DEF r
<1> QED
  BY <1>6, <1>7

\* The test mode is refreshed by one message.
LEMMA RefreshSends ==
    ASSUME NEW c \in Client, NEW cmds, NEW p, ParserOK(p, c, cmds), Tabled(c, cmds),
           TestMode \in cmds
    PROVE  Sends(refreshTestMode(p, c), p, c, cmds)
<1> DEFINE t == cancelTestMode(p)
           q == [t EXCEPT !.test = "repeat"]
           k == TestModeWrite(TestModeOn)
<1>1. ParserOK(t, c, cmds) /\ t.active = p.active /\ t.owed = p.owed /\ t \in Parser
  BY CancelTestMode DEF SameRequest, ParserOK
<1> HIDE DEF t
<1>2. q \in Parser /\ SameRequest(q, t) /\ q.owed = t.owed
  BY <1>1 DEF Parser, SameRequest
<1>3. k \in Requests(cmds)
  BY DEF Requests, TestMode
<1>4. refreshTestMode(p, c) = call(q, c, k)
  BY DEF refreshTestMode, t
<1> HIDE DEF q, k
<1>5. ParserOK(q, c, cmds)
  BY <1>1, <1>2, SameRequestOK
<1>6. Sends(call(q, c, k), q, c, cmds)
  BY <1>3, <1>5, CallSends
<1> QED
  BY <1>1, <1>2, <1>4, <1>6 DEF Sends, Sound, SameRequest

-----------------------------------------------------------------------------
(* The connections *)

\* A final line pays for the command; without one the request goes on.
LEMMA SettleOK ==
    ASSUME NEW c, NEW cmds, NEW r, ParserOK(r.p, c, cmds), r.line = "none" => Paid(r.p)
    PROVE  ParserOK(Settle(r), c, cmds) /\ Paid(Settle(r))
<1> DEFINE q == Settle(r)
           n == IF r.line = "none" \/ r.p.owed = -1 THEN r.p.owed ELSE r.p.owed - 1
<1>1. r.p \in Parser
  BY DEF ParserOK
<1>2. r.p.owed \in -1 .. 1
  BY <1>1 DEF Parser
<1>3. n \in -1 .. 1 /\ (r.line # "none" => n <= 0)
  BY <1>2
<1>4. q = [r.p EXCEPT !.owed = n]
  BY <1>1 DEF Settle, Parser
<1>5. n = r.p.owed \/ n <= 0
  BY <1>3
<1>6. r.line = "none" => n = r.p.owed
  OBVIOUS
<1> HIDE DEF n
<1>7. /\ q \in Parser /\ SameRequest(q, r.p) /\ q.owed = n
      /\ q.test = r.p.test /\ q.refresh = r.p.refresh
  BY <1>1, <1>3, <1>4 DEF Parser, SameRequest
<1> HIDE DEF q
<1>8. ParserOK(q, c, cmds)
  BY <1>7, SameRequestOK DEF ParserOK
<1>9. Paid(q)
  BY <1>3, <1>6, <1>7 DEF Paid, SameRequest
<1> QED
  BY <1>8, <1>9 DEF q

\* A callback does what it does to an open connection, or nothing.
LEMMA OutcomeOK ==
    ASSUME NEW c \in Client, NEW cmds, ParserOK(api[c], c, cmds), Paid(api[c]),
           NEW r, Sound(r, api[c], c, cmds), NEW o \in Outcomes(c, r)
    PROVE  o.posted \in Burst(c) /\ ParserOK(Settle(o), c, cmds) /\ Paid(Settle(o))
<1>1. Sound(o, api[c], c, cmds)
  <2>1. o = r \/ o = Result(api[c], << >>, "none")
    BY DEF Outcomes
  <2> QED
    BY <2>1, Keep
<1>2. o.line = "none" => Paid(o.p)
  BY <1>1 DEF Sound, Paid
<1> QED
  BY <1>1, <1>2, SettleOK DEF Sound

\* One parser changes.
LEMMA ParserChanges ==
    ASSUME NEW a, NEW g, Parsers(a, g), NEW c \in Client, NEW q,
           ParserOK(q, c, g[c] \ {HangUp}), Paid(q)
    PROVE  Parsers([a EXCEPT ![c] = q], g)
<1> DEFINE b == [a EXCEPT ![c] = q]
<1>1. a \in [Client -> Parser] /\ q \in Parser
  BY DEF Parsers, ParserOK
<1>2. b \in [Client -> Parser] /\ \A d \in Client : b[d] = IF d = c THEN q ELSE a[d]
  BY <1>1
<1> HIDE DEF b
<1>3. \A d \in Client : ParserOK(b[d], d, g[d] \ {HangUp}) /\ Paid(b[d])
  BY <1>2 DEF Parsers
<1> QED
  BY <1>2, <1>3 DEF Parsers, b

\* The invariant holds initially.
LEMMA InitApi == ApiInit => ApiIInv
<1> SUFFICES ASSUME ApiInit PROVE ApiIInv
  OBVIOUS
<1>1. IInv
  BY InitIInv DEF ApiInit, Init
<1>2. NewParser \in Parser
  BY ApiAssumption DEF NewParser, Parser
<1>3. \A c \in Client : ParserOK(NewParser, c, gives[c] \ {HangUp}) /\ Paid(NewParser)
  BY <1>2 DEF NewParser, ParserOK, Started, Blank, Paid
<1>4. Parsers(api, gives)
  BY <1>2, <1>3 DEF ApiInit, Parsers
<1>5. << >> \in Seq(ReadMessage)
  OBVIOUS
<1> QED
  BY <1>1, <1>4, <1>5 DEF ApiInit, ApiIInv

\* A step of the sender's specification keeps the sender's invariant, and what
\* it transmits is messages.
LEMMA SenderSteps ==
    ASSUME IInv, [Next]_sender
    PROVE  IInv' /\ sender'.out \in Seq(Message)
<1>1. IInv'
  BY NextIInv
<1> QED
  BY <1>1 DEF IInv, TypeOK, SenderType

\* What the steps below share of the invariant.
LEMMA ParsersHere ==
    ASSUME ApiIInv, NEW c \in Client
    PROVE  /\ ParserOK(api[c], c, gives[c] \ {HangUp}) /\ Paid(api[c]) /\ api[c] \in Parser
           /\ Tabled(c, gives[c] \ {HangUp})
<1>1. Tabled(c, gives[c] \ {HangUp})
  BY GivenIsTabled DEF ApiIInv
<1> QED
  BY <1>1 DEF ApiIInv, Parsers

\* The room for pending messages is not limited.
LEMMA AlwaysRoom == \A ms : Room(ms)
BY ApiAssumption DEF Room

LEMMA CommandStep ==
    ASSUME ApiIInv, NEW c \in Client, NEW cmd \in gives[c] \ {HangUp}, Command(c, cmd)
    PROVE  [Next]_sender /\ ApiIInv'
<1> DEFINE cmds == gives[c] \ {HangUp}
           p == [api[c] EXCEPT !.owed = @ + 1]
           r == parse(p, c, cmd)
<1>1. ParserOK(api[c], c, cmds) /\ Paid(api[c]) /\ api[c] \in Parser /\ Tabled(c, cmds)
  BY ParsersHere
<1>2. /\ api' = [api EXCEPT ![c] = Settle(r)]
      /\ IF r.posted = << >> THEN UNCHANGED <<sender, bus>>
         ELSE sender' = sendMessage(event(sender), r.posted) /\ bus' = Transmit(bus, sender'.out)
      /\ UNCHANGED conns
      /\ api[c].active = NoMessage
  BY DEF Command
<1>3. ParserOK(p, c, cmds)
  <2>1. api[c].owed + 1 \in -1 .. 1
    BY <1>1, <1>2 DEF Parser, Paid
  <2>2. /\ p \in Parser /\ SameRequest(p, api[c])
        /\ p.test = api[c].test /\ p.refresh = api[c].refresh
    BY <1>1, <2>1 DEF Parser, SameRequest
  <2> HIDE DEF p
  <2> QED
    BY <1>1, <2>2, SameRequestOK DEF ParserOK
<1> HIDE DEF p
<1>4. /\ ParserOK(r.p, c, cmds) /\ r.posted \in Burst(c)
      /\ r.line = "none" => r.p.active # NoMessage
  BY <1>1, <1>3, Parse
<1> HIDE DEF r
<1>5. ParserOK(Settle(r), c, cmds) /\ Paid(Settle(r))
  BY <1>4, SettleOK DEF Paid
<1>6. Parsers(api', gives')
  BY <1>2, <1>5, ParserChanges DEF ApiIInv, conns
<1>7. CASE r.posted = << >>
  <2>1. IInv'
    BY <1>2, <1>7, SenderSteps DEF ApiIInv
  <2> QED
    BY <1>2, <1>6, <1>7, <2>1 DEF ApiIInv, conns
<1>8. CASE r.posted # << >>
  <2>1. SendMessage
    BY <1>2, <1>4, <1>8, AlwaysRoom DEF SendMessage
  <2>2. IInv' /\ sender'.out \in Seq(Message)
    BY <2>1, SenderSteps DEF ApiIInv, Next
  <2>3. bus' \in Seq(ReadMessage)
    BY <1>2, <1>8, <2>2, TransmitType DEF ApiIInv
  <2> QED
    BY <1>2, <1>6, <2>1, <2>2, <2>3 DEF ApiIInv, conns, Next
<1> QED
  BY <1>7, <1>8

LEMMA LeaveStep ==
    ASSUME ApiIInv, NEW c \in Client, Leave(c)
    PROVE  [Next]_sender /\ ApiIInv'
<1> DEFINE q == cancelTestMode(api[c])
<1>1. /\ api' = [api EXCEPT ![c] = q]
      /\ open' = open \ {c} /\ UNCHANGED <<sender, bus, up, gives>>
  BY DEF Leave
<1>2. ParserOK(q, c, gives[c] \ {HangUp}) /\ Paid(q)
  BY ParsersHere, CancelTestMode DEF Paid, SameRequest
<1> HIDE DEF q
<1>3. Parsers(api', gives')
  BY <1>1, <1>2, ParserChanges DEF ApiIInv
<1>4. IInv'
  BY <1>1, SenderSteps DEF ApiIInv
<1> QED
  BY <1>1, <1>3, <1>4 DEF ApiIInv

LEMMA AnswerStep ==
    ASSUME ApiIInv, NEW i \in DOMAIN bus, NEW n \in AnswerSizes(bus[i]), NEW end,
           Answer(i, n, end)
    PROVE  [Next]_sender /\ ApiIInv'
<1> DEFINE m == bus[i]
           c == sender.current
           r == onIncomingMessage(api[c], c, m.dest, ReceivedType(m.type, n), m.off, n, end)
           rest == SubSeq(bus, 1, i - 1) \o SubSeq(bus, i + 1, Len(bus))
<1>1. m \in ReadMessage /\ rest \in Seq(ReadMessage)
  BY WithoutType DEF ApiIInv
<1>2. m.dest \in Addr \ WriteAddr /\ n \in Nat
  <2> HIDE DEF m
  <2>1. m \in Message /\ m.dest \notin WriteAddr
    BY <1>1 DEF ReadMessage, IsWrite
  <2>2. m.dest \in Addr
    BY <2>1, SenderAssumption
  <2>3. m.val \in Nat /\ TelegramData \in Nat
    BY <2>1, ApiAssumption
  <2>4. n \in AnswerSizes(m)
    BY DEF m
  <2> QED
    BY <2>1, <2>2, <2>3, <2>4 DEF AnswerSizes
<1>3. /\ Len(sender.ready) < MaxReady
      /\ IF c = NoClient
         THEN sender' = handlePcMessage(event(sender), m.dest, << >>) /\ api' = api
         ELSE \E o \in Outcomes(c, r) :
                 /\ sender' = handlePcMessage(event(sender), m.dest, o.posted)
                 /\ api' = [api EXCEPT ![c] = Settle(o)]
      /\ bus' = Transmit(rest, sender'.out)
      /\ UNCHANGED conns
  BY DEF Answer
<1> HIDE DEF rest, m
<1>4. c \in Client \cup {NoClient}
  BY DEF ApiIInv, IInv, TypeOK, SenderType
<1>5. PcMessage /\ Parsers(api', gives')
  <2>1. CASE c = NoClient
    <3>1. << >> \in Posted
      BY <2>1 DEF Posted
    <3>2. PcMessage
      BY <1>2, <1>3, <2>1, <3>1, AlwaysRoom DEF PcMessage
    <3> QED
      BY <1>3, <2>1, <3>2 DEF ApiIInv, conns
  <2>2. CASE c # NoClient
    <3>1. c \in Client
      BY <1>4, <2>2
    <3>2. Sound(r, api[c], c, gives[c] \ {HangUp})
      BY <1>2, <3>1, ParsersHere, OnIncomingMessage
    <3> HIDE DEF r
    <3>3. PICK o \in Outcomes(c, r) :
             /\ sender' = handlePcMessage(event(sender), m.dest, o.posted)
             /\ api' = [api EXCEPT ![c] = Settle(o)]
      BY <1>3, <2>2
    <3>4. /\ o.posted \in Burst(c) /\ ParserOK(Settle(o), c, gives[c] \ {HangUp})
          /\ Paid(Settle(o))
      BY <3>1, <3>2, ParsersHere, OutcomeOK
    <3>5. o.posted \in Posted
      BY <2>2, <3>4 DEF Posted
    <3>6. PcMessage
      BY <1>2, <1>3, <3>3, <3>5, AlwaysRoom DEF PcMessage
    <3>7. Parsers(api', gives')
      BY <1>3, <3>1, <3>3, <3>4, ParserChanges DEF ApiIInv, conns
    <3> QED
      BY <3>6, <3>7
  <2> QED
    BY <2>1, <2>2
<1>6. IInv' /\ sender'.out \in Seq(Message)
  BY <1>5, SenderSteps DEF ApiIInv, Next
<1>7. bus' \in Seq(ReadMessage)
  BY <1>1, <1>3, <1>6, TransmitType
<1> QED
  BY <1>3, <1>5, <1>6, <1>7 DEF ApiIInv, conns, Next

LEMMA LoseStep ==
    ASSUME ApiIInv, NEW i \in DOMAIN bus, Lose(i)
    PROVE  [Next]_sender /\ ApiIInv'
<1>1. /\ bus' = SubSeq(bus, 1, i - 1) \o SubSeq(bus, i + 1, Len(bus))
      /\ UNCHANGED <<sender, api, conns>>
  BY DEF Lose
<1>2. bus' \in Seq(ReadMessage)
  BY <1>1, WithoutType DEF ApiIInv
<1>3. IInv'
  BY <1>1, SenderSteps DEF ApiIInv
<1> QED
  BY <1>1, <1>2, <1>3 DEF ApiIInv, conns

LEMMA ReactorStep ==
    ASSUME ApiIInv, ApiReactor
    PROVE  [Next]_sender /\ ApiIInv'
<1>1. Reactor
  BY DEF ApiReactor, Reactor
<1>2. IInv'
  BY <1>1, SenderSteps DEF ApiIInv, Next
<1>3. bus' \in Seq(ReadMessage)
  <2>1. << >> \in Seq(ReadMessage)
    OBVIOUS
  <2> QED
    BY <2>1 DEF ApiReactor, ApiIInv
<1> QED
  BY <1>1, <1>2, <1>3 DEF ApiIInv, ApiReactor, conns, Next

LEMMA RunHandlerStep ==
    ASSUME ApiIInv, ApiRunHandler
    PROVE  [Next]_sender /\ ApiIInv'
<1> DEFINE c == sender.current
           r == IF Head(sender.ready).kind = "fake"
                THEN onIncomingMessage(api[c], c, PC, \hff, 1, 0, FALSE)
                ELSE onTimeout(api[c])
<1>1. /\ sender.ready # << >>
      /\ IF HandlerCallsClient(sender)
         THEN \E o \in Outcomes(c, r) :
                 /\ sender' = runHandler(sender, o.posted)
                 /\ api' = [api EXCEPT ![c] = Settle(o)]
         ELSE sender' = runHandler(sender, << >>) /\ api' = api
      /\ bus' = Transmit(bus, sender'.out)
      /\ UNCHANGED conns
  BY DEF ApiRunHandler
<1>2. RunHandler /\ Parsers(api', gives')
  <2>1. CASE ~HandlerCallsClient(sender)
    <3>1. RunHandler
      BY <1>1, <2>1, AlwaysRoom DEF RunHandler
    <3> QED
      BY <1>1, <2>1, <3>1 DEF ApiIInv, conns
  <2>2. CASE HandlerCallsClient(sender)
    <3>1. c \in Client /\ c # NoClient
      BY <2>2 DEF HandlerCallsClient, ApiIInv, IInv, TypeOK, SenderType
    <3>2. Sound(r, api[c], c, gives[c] \ {HangUp})
      <4>1. 0 \in Nat
        OBVIOUS
      <4>2. Sound(onIncomingMessage(api[c], c, PC, \hff, 1, 0, FALSE), api[c], c,
                  gives[c] \ {HangUp})
        BY <3>1, <4>1, ParsersHere, OnIncomingMessage
      <4>3. Sound(onTimeout(api[c]), api[c], c, gives[c] \ {HangUp})
        BY <3>1, ParsersHere, OnTimeout
      <4> QED
        BY <4>2, <4>3
    <3> HIDE DEF r
    <3>3. PICK o \in Outcomes(c, r) :
             /\ sender' = runHandler(sender, o.posted)
             /\ api' = [api EXCEPT ![c] = Settle(o)]
      BY <1>1, <2>2
    <3>4. /\ o.posted \in Burst(c) /\ ParserOK(Settle(o), c, gives[c] \ {HangUp})
          /\ Paid(Settle(o))
      BY <3>1, <3>2, ParsersHere, OutcomeOK
    <3>5. o.posted \in Posted
      BY <3>1, <3>4 DEF Posted
    <3>6. RunHandler
      BY <1>1, <2>2, <3>3, <3>5, AlwaysRoom DEF RunHandler
    <3>7. Parsers(api', gives')
      BY <1>1, <3>1, <3>3, <3>4, ParserChanges DEF ApiIInv, conns
    <3> QED
      BY <3>6, <3>7
  <2> QED
    BY <2>1, <2>2
<1>3. IInv' /\ sender'.out \in Seq(Message)
  BY <1>2, SenderSteps DEF ApiIInv, Next
<1>4. bus' \in Seq(ReadMessage)
  BY <1>1, <1>3, TransmitType DEF ApiIInv
<1> QED
  BY <1>1, <1>2, <1>3, <1>4 DEF ApiIInv, conns, Next

LEMMA TestModeDueStep ==
    ASSUME ApiIInv, NEW c \in Client, TestModeDue(c)
    PROVE  [Next]_sender /\ ApiIInv'
<1> DEFINE cmds == gives[c] \ {HangUp}
           q == [api[c] EXCEPT !.test = "off", !.refresh = 1]
<1>1. /\ api[c].test # "off"
      /\ api' = [api EXCEPT ![c].test = "off", ![c].refresh = 1]
      /\ UNCHANGED <<sender, bus, conns>>
  BY DEF TestModeDue
<1>2. ParserOK(api[c], c, cmds) /\ Paid(api[c]) /\ api[c] \in Parser
  BY ParsersHere
<1>3. q \in Parser /\ SameRequest(q, api[c]) /\ q.owed = api[c].owed
  BY <1>2 DEF Parser, SameRequest
<1>4. api' = [api EXCEPT ![c] = q]
  BY <1>1, <1>2 DEF ApiIInv, Parsers, Parser
<1> HIDE DEF q
<1>5. TestMode \in cmds
  BY <1>1, <1>2 DEF ParserOK
<1>6. ParserOK(q, c, cmds) /\ Paid(q)
  BY <1>2, <1>3, <1>5, SameRequestOK DEF Paid, SameRequest
<1>7. Parsers(api', gives')
  <2>1. gives' = gives
    BY <1>1 DEF conns
  <2> QED
    BY <1>4, <1>6, <2>1, ParserChanges DEF ApiIInv
<1>8. IInv'
  BY <1>1, SenderSteps DEF ApiIInv
<1> QED
  BY <1>1, <1>7, <1>8 DEF ApiIInv, conns

LEMMA RefreshTestModeStep ==
    ASSUME ApiIInv, NEW c \in Client, RefreshTestMode(c)
    PROVE  [Next]_sender /\ ApiIInv'
<1> DEFINE cmds == gives[c] \ {HangUp}
           p == [api[c] EXCEPT !.refresh = @ - 1]
           r == refreshTestMode(p, c)
<1>1. /\ api[c].refresh > 0
      /\ \/ /\ sender' = sendMessage(event(sender), r.posted)
            /\ api' = [api EXCEPT ![c] = r.p]
            /\ bus' = Transmit(bus, sender'.out)
         \/ /\ api' = [api EXCEPT ![c] = p]
            /\ UNCHANGED <<sender, bus>>
      /\ UNCHANGED conns
  BY DEF RefreshTestMode
<1>2. /\ ParserOK(api[c], c, cmds) /\ Paid(api[c]) /\ api[c] \in Parser
      /\ Tabled(c, cmds)
  BY ParsersHere
<1>3. TestMode \in cmds
  BY <1>1, <1>2 DEF ParserOK
<1>4. p \in Parser /\ SameRequest(p, api[c]) /\ p.owed = api[c].owed
  <2>1. api[c].refresh - 1 \in Nat
    BY <1>1, <1>2 DEF Parser
  <2> QED
    BY <1>2, <2>1 DEF Parser, SameRequest
<1> HIDE DEF p
<1>5. ParserOK(p, c, cmds) /\ Paid(p)
  BY <1>2, <1>3, <1>4, SameRequestOK DEF Paid, SameRequest
<1>6. CASE /\ sender' = sendMessage(event(sender), r.posted)
           /\ api' = [api EXCEPT ![c] = r.p]
           /\ bus' = Transmit(bus, sender'.out)
  <2>1. Sends(r, p, c, cmds)
    BY <1>2, <1>3, <1>5, RefreshSends
  <2> HIDE DEF r
  <2>2. r.posted \in Burst(c) /\ r.posted # << >> /\ ParserOK(r.p, c, cmds) /\ Paid(r.p)
    BY <2>1 DEF Sends, Sound, Paid
  <2>3. SendMessage
    BY <1>6, <2>2, AlwaysRoom DEF SendMessage
  <2>4. IInv' /\ sender'.out \in Seq(Message)
    BY <2>3, SenderSteps DEF ApiIInv, Next
  <2>5. bus' \in Seq(ReadMessage)
    BY <1>6, <2>4, TransmitType DEF ApiIInv
  <2>6. Parsers(api', gives')
    BY <1>1, <1>6, <2>2, ParserChanges DEF ApiIInv, conns
  <2> QED
    BY <1>1, <2>3, <2>4, <2>5, <2>6 DEF ApiIInv, conns, Next
<1>7. CASE api' = [api EXCEPT ![c] = p] /\ UNCHANGED <<sender, bus>>
  <2>1. Parsers(api', gives')
    BY <1>1, <1>5, <1>7, ParserChanges DEF ApiIInv, conns
  <2>2. IInv'
    BY <1>7, SenderSteps DEF ApiIInv
  <2> QED
    BY <1>1, <1>7, <2>1, <2>2 DEF ApiIInv, conns
<1> QED
  BY <1>1, <1>6, <1>7

LEMMA TickStep ==
    ASSUME ApiIInv, ApiTick
    PROVE  [Next]_sender /\ ApiIInv'
<1>1. Tick /\ UNCHANGED <<api, bus, conns>>
  BY DEF ApiTick, Tick
<1>2. IInv'
  BY <1>1, SenderSteps DEF ApiIInv, Next
<1> QED
  BY <1>1, <1>2 DEF ApiIInv, conns, Next

\* Every step of the command interface is one the sender's specification
\* allows, and keeps the invariant.
LEMMA NextApi == ApiIInv /\ [ApiNext]_vars => [Next]_sender /\ ApiIInv'
<1> SUFFICES ASSUME ApiIInv, [ApiNext]_vars PROVE [Next]_sender /\ ApiIInv'
  OBVIOUS
<1>1. CASE \E c \in Client : \E cmd \in gives[c] \ {HangUp} : Command(c, cmd)
  BY <1>1, CommandStep
<1>2. CASE \E c \in Client : Leave(c)
  BY <1>2, LeaveStep
<1>3. CASE \E i \in DOMAIN bus : \E n \in AnswerSizes(bus[i]), end \in BOOLEAN : Answer(i, n, end)
  BY <1>3, AnswerStep
<1>4. CASE \E i \in DOMAIN bus : Lose(i)
  BY <1>4, LoseStep
<1>5. CASE ApiReactor
  BY <1>5, ReactorStep
<1>6. CASE ApiRunHandler
  BY <1>6, RunHandlerStep
<1>7. CASE \E c \in Client : TestModeDue(c) \/ RefreshTestMode(c)
  BY <1>7, TestModeDueStep, RefreshTestModeStep
<1>8. CASE StaleCallback
  <2>1. IInv'
    BY <1>8, SenderSteps DEF StaleCallback, ApiIInv
  <2> QED
    BY <1>8, <2>1 DEF StaleCallback, ApiIInv
<1>9. CASE ApiTick
  BY <1>9, TickStep
<1>10. CASE UNCHANGED vars
  <2>1. IInv'
    BY <1>10, SenderSteps DEF vars, ApiIInv
  <2> QED
    BY <1>10, <2>1 DEF vars, conns, ApiIInv
<1> QED
  BY <1>1, <1>2, <1>3, <1>4, <1>5, <1>6, <1>7, <1>8, <1>9, <1>10 DEF ApiNext, Ended

-----------------------------------------------------------------------------
(* The specification *)

\* Whatever the clients give and however late the devices answer, every member
\* of parsers and sender keeps its type; the retry counter its range.
THEOREM ApiTypeCorrect == ApiSpec => []ApiTypeOK
<1>1. ApiIInv => ApiTypeOK
  <2>1. ReadMessage \subseteq Message
    BY DEF ReadMessage
  <2> QED
    BY <2>1 DEF ApiIInv, Parsers, IInv, TypeOK, ApiTypeOK
<1> QED
  BY <1>1, InitApi, NextApi, PTL DEF ApiSpec

\* The clients, open or destroyed, use the sender as CommandScheduler assumes.
THEOREM SenderUsedAsAssumed == ApiSpec => UsesScheduler
<1>1. ApiInit => Init
  BY DEF ApiInit, Init
<1> QED
  BY <1>1, InitApi, NextApi, PTL DEF ApiSpec, UsesScheduler

\* So no request of a client is ever queued behind an idle sender,
THEOREM ApiNeverStranded == ApiSpec => []NoStrandedRequest
<1>1. ApiIInv => NoStrandedRequest
  BY DEF ApiIInv, IInv, Alive, NoStrandedRequest
<1> QED
  BY <1>1, InitApi, NextApi, PTL DEF ApiSpec

\* the turn of the current client always has something that will end it,
THEOREM ApiAlwaysWakeup == ApiSpec => []CurrentHasWakeup
<1>1. ApiIInv => CurrentHasWakeup
  BY DEF ApiIInv, IInv, Alive, Armed, CurrentHasWakeup
<1> QED
  BY <1>1, InitApi, NextApi, PTL DEF ApiSpec

\* and no message of a command is lost or sent twice by the sender.
THEOREM ApiSentExactlyOnce == ApiSpec => EachMessageSentOnce
<1>1. ApiIInv => IInv
  BY DEF ApiIInv
<1> QED
  BY <1>1, InitApi, NextApi, NextSendsOnce, PTL DEF ApiSpec, EachMessageSentOnce, Kept

-----------------------------------------------------------------------------
(* Reads answered in time                                                  *)
(*                                                                         *)
(* The sender hands whatever arrives to its current client, without a look *)
(* at what that client waits for.  What makes this right for reads is that *)
(* the sender has one thing to do at a time, and a device one request.     *)

\* The types for which handleResponse ends, continues or follows up a request.
AnsweredTypes ==
    {\h02, \h15, \hea, \h137, \h140, \h1a5, \h1af, \h1b9, \h1f5} \cup {\hbf, \hc0, \hc2}

\* A request that can be matched to its answers: it is for a device (bit 7 of
\* whose address is set), does not leave the page, and is raw or of a known type.
Answerable(k) ==
    /\ k.op = "read" /\ k.dest >= 128 /\ k.off + k.len <= 256
    /\ k.raw \/ k.type \in AnsweredTypes

\* The devices answer in time or not at all, and the clients only read.
InTimeReads ==
    /\ ~LateAnswers
    /\ \A c \in Client : \A k \in Requests(gives[c] \ {HangUp}) : Answerable(k)

\* Message m keeps sender s busy, with b on the bus: m waits in m_sendTimer, is
\* about to be sent, is unanswered, or its timeout is about to be handled.
InTimer(s, b, m) ==
    /\ s.send.on /\ s.send.msg = m /\ s.send.left + s.age[m.dest] >= MinDistance
    /\ ~s.resp.on /\ s.ready = << >> /\ b = << >>
AboutToSend(s, b, m) ==
    /\ s.ready = <<[kind |-> "send", msg |-> m]>> /\ s.age[m.dest] >= MinDistance
    /\ ~s.send.on /\ ~s.resp.on /\ b = << >>
Unanswered(s, b, m) ==
    /\ s.resp.on /\ ~s.resp.fake
    /\ ~s.send.on /\ s.ready = << >> /\ b \in {<< >>, <<m>>}
TimedOut(s, b) ==
    /\ s.ready = <<[kind |-> "timeout", msg |-> NoMessage]>>
    /\ ~s.send.on /\ ~s.resp.on /\ b = << >>
Turn(s, b, m) == InTimer(s, b, m) \/ AboutToSend(s, b, m) \/ Unanswered(s, b, m) \/ TimedOut(s, b)

\* No device was written to lately.
Rested(s) == \A a \in WriteAddr : s.age[a] >= MinDistance

Idle(s) == ~s.send.on /\ ~s.resp.on /\ s.ready = << >> /\ Rested(s)

OneAtATime(s, b) ==
    /\ s.pending \in Seq(ReadMessage) /\ Rested(s)
    /\ s.current = NoClient => Idle(s) /\ b = << >>
    /\ s.current # NoClient => \E m \in ReadMessage : m.client = s.current /\ Turn(s, b, m)

InSeq(q, m) == \E i \in DOMAIN q : q[i] = m

\* Message m of client c is queued, or keeps the sender busy.
Coming(m, c, s, b) == InSeq(s.pending, m) \/ (s.current = c /\ Turn(s, b, m))

\* The messages of sequence q are sent long enough after the last communication
\* with their address, and after the last write to its device.
Spaced(s, q) ==
    \A i \in DOMAIN q : \A a \in {q[i].dest, WriteTo(q[i].dest)} \cap Addr :
        s.age[a] >= MinDistance

LEMMA SpacedOne ==
    ASSUME NEW s, Rested(s), NEW m \in Message, s.age[m.dest] >= MinDistance
    PROVE  Spaced(s, <<m>>)
<1>1. m.dest \in Addr /\ m.dest \in 0 .. 255
  <2>1. Addr \subseteq 0 .. 255
    BY ApiAssumption, Zenon
  <2> QED
    BY <2>1, SenderAssumption
<1>2. WriteTo(m.dest) \in Addr => WriteTo(m.dest) \in WriteAddr
  <2>1. WriteAddr = {a \in Addr : a < 128}
    BY ApiAssumption
  <2>2. WriteTo(m.dest) < 128
    BY <1>1 DEF WriteTo
  <2> QED
    BY <2>1, <2>2
<1>3. \A a \in {m.dest, WriteTo(m.dest)} \cap Addr : s.age[a] >= MinDistance
  BY <1>2 DEF Rested
<1> QED
  BY <1>3 DEF Spaced

\* What is spaced by lesser ages is spaced.
LEMMA SpacedLess ==
    ASSUME NEW s, NEW u, \A a \in Addr : {s.age[a], u.age[a]} \subseteq Nat /\ u.age[a] <= s.age[a],
           NEW q, Spaced(u, q)
    PROVE  Spaced(s, q)
<1> SUFFICES ASSUME NEW i \in DOMAIN q, NEW a \in {q[i].dest, WriteTo(q[i].dest)} \cap Addr
             PROVE  s.age[a] >= MinDistance
  BY DEF Spaced
<1>1. u.age[a] >= MinDistance
  BY DEF Spaced
<1> QED
  BY <1>1, SenderAssumption

LEMMA IdleRests == Rested(IdleSender)
<1>1. MinDistance + 1 >= MinDistance
  BY SenderAssumption
<1> QED
  BY <1>1, SenderAssumption DEF Rested, IdleSender, LongAgo

\* A read, and an answer, leave the addresses of writes alone.
LEMMA RestedAfter ==
    ASSUME NEW s \in SenderType, Rested(s), NEW d \in Addr \ WriteAddr,
           NEW t, t.age = [s.age EXCEPT ![d] = 0]
    PROVE  Rested(t)
BY SenderAssumption DEF Rested, SenderType

\* and so does time.
LEMMA OlderStill ==
    ASSUME NEW s \in SenderType,
           NEW t, t.age = [a \in Addr |-> IF s.age[a] = LongAgo THEN LongAgo ELSE s.age[a] + 1]
    PROVE  /\ \A a \in Addr : s.age[a] \in Nat /\ t.age[a] \in Nat
           /\ \A a \in Addr : t.age[a] >= s.age[a] /\ (t.age[a] >= MinDistance \/ t.age[a] = s.age[a] + 1)
           /\ Rested(s) => Rested(t)
<1>1. ASSUME NEW a \in Addr
      PROVE  /\ s.age[a] \in Nat /\ t.age[a] \in Nat /\ t.age[a] >= s.age[a]
             /\ t.age[a] >= MinDistance \/ t.age[a] = s.age[a] + 1
  <2>1. s.age[a] \in Age /\ MinDistance \in Nat
    BY SenderAssumption DEF SenderType
  <2> QED
    BY <2>1 DEF Age, LongAgo
<1>2. WriteAddr \subseteq Addr /\ MinDistance \in Nat
  BY SenderAssumption
<1>3. ASSUME Rested(s), NEW a \in WriteAddr PROVE t.age[a] >= MinDistance
  <2>1. s.age[a] >= MinDistance
    BY <1>3 DEF Rested
  <2> QED
    BY <1>1, <1>2, <2>1
<1> QED
  BY <1>1, <1>3 DEF Rested

LEMMA InSeqOfConcat ==
    ASSUME NEW a \in Seq(Message), NEW b \in Seq(Message), NEW m
    PROVE  InSeq(a \o b, m) <=> InSeq(a, m) \/ InSeq(b, m)
<1> DEFINE q == a \o b
<1>1. /\ Len(a) \in Nat /\ Len(b) \in Nat
      /\ DOMAIN q = 1 .. Len(a) + Len(b) /\ DOMAIN a = 1 .. Len(a) /\ DOMAIN b = 1 .. Len(b)
      /\ \A i \in 1 .. Len(a) : q[i] = a[i]
      /\ \A i \in 1 .. Len(b) : q[Len(a) + i] = b[i]
  OBVIOUS
<1> HIDE DEF q
<1>2. ASSUME NEW i \in DOMAIN q PROVE i \in DOMAIN a \/ i - Len(a) \in DOMAIN b
  BY <1>1
<1>3. InSeq(q, m) => InSeq(a, m) \/ InSeq(b, m)
  <2> SUFFICES ASSUME NEW i \in DOMAIN q, q[i] = m PROVE InSeq(a, m) \/ InSeq(b, m)
    BY DEF InSeq
  <2>1. CASE i \in DOMAIN a
    BY <1>1, <2>1 DEF InSeq
  <2>2. CASE i - Len(a) \in DOMAIN b
    <3>1. q[Len(a) + (i - Len(a))] = b[i - Len(a)] /\ Len(a) + (i - Len(a)) = i
      BY <1>1, <2>2
    <3> QED
      BY <2>2, <3>1 DEF InSeq
  <2> QED
    BY <1>2, <2>1, <2>2
<1>4. InSeq(a, m) => InSeq(q, m)
  BY <1>1 DEF InSeq
<1>5. InSeq(b, m) => InSeq(q, m)
  <2> SUFFICES ASSUME NEW i \in DOMAIN b, b[i] = m PROVE InSeq(q, m)
    BY DEF InSeq
  <2>1. Len(a) + i \in DOMAIN q /\ q[Len(a) + i] = m
    BY <1>1
  <2> QED
    BY <2>1 DEF InSeq
<1> QED
  BY <1>3, <1>4, <1>5 DEF q

LEMMA HeadOrTail ==
    ASSUME NEW q \in Seq(Message), NEW m, InSeq(q, m)
    PROVE  m = Head(q) \/ InSeq(Tail(q), m)
<1>1. PICK i \in DOMAIN q : q[i] = m
  BY DEF InSeq
<1>2. CASE i = 1
  BY <1>1, <1>2
<1>3. CASE i # 1
  <2>1. i - 1 \in DOMAIN Tail(q) /\ Tail(q)[i - 1] = m
    BY <1>1, <1>3
  <2> QED
    BY <2>1 DEF InSeq
<1> QED
  BY <1>2, <1>3

\* A message in which a sequence ends is in it.
LEMMA InOne == \A m : InSeq(<<m>>, m)
BY DEF InSeq

\* What the bus holds after at most one message is transmitted.
LEMMA ReadsAmongNone == ReadsAmong(<< >>) = << >>
<1> DEFINE c == CHOOSE r : Filters(<< >>, Len(<< >>), r)
<1>1. ReadsAmong(<< >>) = c[Len(<< >>)]
  BY DEF ReadsAmong, Filters
<1>2. Len(<< >>) = 0
  OBVIOUS
<1>3. Filters(<< >>, 0, c)
  BY <1>2, FiltersExist
<1> HIDE DEF c
<1>4. c[0] = << >>
  BY <1>3 DEF Filters
<1> QED
  BY <1>1, <1>2, <1>4

LEMMA ReadsAmongOne ==
    ASSUME NEW m \in ReadMessage
    PROVE  ReadsAmong(<<m>>) = <<m>>
<1> DEFINE c == CHOOSE r : Filters(<<m>>, Len(<<m>>), r)
<1>1. ReadsAmong(<<m>>) = c[Len(<<m>>)]
  BY DEF ReadsAmong, Filters
<1>2. Len(<<m>>) = 1 /\ <<m>>[1] = m /\ 1 \in Nat
  OBVIOUS
<1>3. Filters(<<m>>, 1, c)
  BY <1>2, FiltersExist
<1> HIDE DEF c
<1>4. c[1] = AddRead(c[0], m) /\ c[0] = << >>
  BY <1>2, <1>3 DEF Filters
<1>5. AddRead(<< >>, m) = <<m>>
  BY DEF AddRead, ReadMessage
<1> QED
  BY <1>1, <1>2, <1>4, <1>5

LEMMA TransmitOne ==
    ASSUME NEW m \in ReadMessage
    PROVE  Transmit(<< >>, <<m>>) \in {<< >>, <<m>>}
<1> DEFINE q == <<m>>
           n == IF Len(q) < MaxBus THEN Len(q) ELSE MaxBus
<1>1. q \in Seq(ReadMessage) /\ Len(q) = 1
  OBVIOUS
<1>2. ReadsAmong(q) = q
  BY ReadsAmongOne
<1> HIDE DEF q
<1>3. Transmit(<< >>, q) = SubSeq(q, 1, n)
  BY <1>1, <1>2, ConcatEmptySeq DEF Transmit
<1>4. n = 0 \/ n = Len(q)
  BY <1>1, ApiAssumption
<1>5. SubSeq(q, 1, 0) = << >> /\ SubSeq(q, 1, Len(q)) = q
  BY <1>1, SubSeqEmpty, SubSeqFull
<1> HIDE DEF n
<1> QED
  BY <1>3, <1>4, <1>5 DEF q

LEMMA TransmitNothing == Transmit(<< >>, << >>) = << >>
<1>1. Len(<< >>) = 0 /\ << >> \o << >> = << >> /\ SubSeq(<< >>, 1, 0) = << >>
  OBVIOUS
<1>2. MaxBus \in Nat
  BY ApiAssumption
<1> QED
  BY <1>1, <1>2, ReadsAmongNone DEF Transmit

LEMMA TransmitNone ==
    ASSUME NEW m \in ReadMessage, NEW b \in {<< >>, <<m>>}
    PROVE  Transmit(b, << >>) \in {<< >>, b}
<1> DEFINE n == IF Len(b) < MaxBus THEN Len(b) ELSE MaxBus
<1>1. b \in Seq(ReadMessage) /\ Len(b) \in {0, 1}
  <2>1. CASE b = << >>
    BY <2>1
  <2>2. CASE b = <<m>>
    BY <2>2
  <2> QED
    BY <2>1, <2>2
<1>2. b \o << >> = b
  BY <1>1, ConcatEmptySeq
<1>3. Transmit(b, << >>) = SubSeq(b, 1, n)
  BY <1>2, ReadsAmongNone DEF Transmit
<1>4. n = 0 \/ n = Len(b)
  <2>1. MaxBus \in Nat
    BY ApiAssumption
  <2> QED
    BY <1>1, <2>1
<1>5. SubSeq(b, 1, 0) = << >> /\ SubSeq(b, 1, Len(b)) = b
  BY <1>1, SubSeqEmpty, SubSeqFull
<1> HIDE DEF n
<1> QED
  BY <1>3, <1>4, <1>5

-----------------------------------------------------------------------------
(* The sender in time *)

\* Advancing the queue of a sender that has nothing to do gives it one thing to
\* do, for the client whose message was first.
LEMMA NextTurn ==
    ASSUME NEW s \in SenderType, Idle(s), s.pending \in Seq(ReadMessage), s.out = << >>
    PROVE  LET t == continueWithNextRequest(s)
               b == Transmit(<< >>, t.out)
           IN  /\ OneAtATime(t, b)
               /\ \A m \in ReadMessage : InSeq(s.pending, m) => Coming(m, m.client, t, b)
               /\ Spaced(s, t.out)
<1> DEFINE t == continueWithNextRequest(s)
           b == Transmit(<< >>, t.out)
<1>1. CASE s.pending = << >>
  <2>1. t = [s EXCEPT !.current = NoClient]
    BY <1>1 DEF continueWithNextRequest
  <2>2. /\ t.current = NoClient /\ t.pending = << >> /\ t.out = << >> /\ Idle(t) /\ Rested(t)
    BY <1>1, <2>1 DEF SenderType, Idle, Rested
  <2>3. Transmit(<< >>, << >>) = << >>
    BY TransmitNothing
  <2> HIDE DEF t
  <2>4. OneAtATime(t, b)
    BY <1>1, <2>2, <2>3 DEF OneAtATime
  <2>5. \A m : ~InSeq(s.pending, m)
    BY <1>1 DEF InSeq
  <2>6. Spaced(s, t.out)
    BY <2>2 DEF Spaced
  <2> QED
    BY <2>4, <2>5, <2>6 DEF t
<1>2. CASE s.pending # << >>
  <2> DEFINE h == Head(s.pending)
             u == [s EXCEPT !.current = h.client, !.pending = Tail(s.pending)]
  <2>1. h \in ReadMessage /\ Tail(s.pending) \in Seq(ReadMessage)
    BY <1>2
  <2>2. h \in Message /\ ~IsWrite(h) /\ h.client \in Client /\ h.client # NoClient /\ h.dest \in Addr
    BY <2>1, SenderAssumption DEF ReadMessage
  <2>3. t = sendRequest(u, h)
    BY <1>2 DEF continueWithNextRequest
  <2>4. \A m : InSeq(s.pending, m) => m = h \/ InSeq(Tail(s.pending), m)
    BY HeadOrTail DEF SenderType
  <2> HIDE DEF h
  <2>5. /\ u \in SenderType /\ u.current = h.client /\ u.pending = Tail(s.pending)
        /\ u.send = s.send /\ u.resp = s.resp /\ u.ready = s.ready /\ u.age = s.age /\ u.out = << >>
    <3>1. Tail(s.pending) \in Seq(Message)
      BY <1>2 DEF SenderType
    <3> QED
      BY <2>2, <3>1 DEF SenderType
  <2> HIDE DEF u, t
  <2>6. s.age[h.dest] \in Nat
    BY <2>2, SenderAssumption DEF SenderType, Age
  <2>7. /\ t.current = h.client /\ t.pending = Tail(s.pending)
        /\ Turn(t, b, h) /\ Spaced(s, t.out) /\ Rested(t)
    <3>1. CASE s.age[h.dest] <= MinDistance
      <4>1. t = armSendTimer(u, h)
        BY <2>3, <2>5, <3>1 DEF sendRequest
      <4>2. /\ t.current = u.current /\ t.pending = u.pending /\ t.out = << >> /\ t.age = u.age
            /\ t.resp = u.resp /\ t.ready = u.ready
            /\ t.send = [on |-> TRUE, left |-> MinDistance - s.age[h.dest], msg |-> h]
        BY <2>5, <4>1 DEF armSendTimer, SenderType, Idle
      <4>3. Transmit(<< >>, << >>) = << >>
        BY TransmitNothing
      <4>4. InTimer(t, b, h)
        BY <2>5, <2>6, <4>2, <4>3, SenderAssumption DEF InTimer, Idle
      <4>5. Spaced(s, t.out)
        BY <4>2 DEF Spaced
      <4>6. Rested(t)
        BY <2>5, <4>2 DEF Idle, Rested
      <4> QED
        BY <2>5, <4>2, <4>4, <4>5, <4>6 DEF Turn
    <3>2. CASE ~(s.age[h.dest] <= MinDistance)
      <4>1. t = doSendMessage(u, h)
        BY <2>3, <2>5, <3>2 DEF sendRequest
      <4>2. /\ t.current = u.current /\ t.pending = u.pending /\ t.out = <<h>>
            /\ t.ready = u.ready /\ t.send = u.send
            /\ t.resp = [on |-> TRUE, left |-> RequestTimeout, fake |-> FALSE]
            /\ t.age = [s.age EXCEPT ![h.dest] = 0]
        <5>1. IsWrite(h) = FALSE
          BY <2>2 DEF IsWrite
        <5>2. t = [u EXCEPT !.resp = [on |-> TRUE, left |-> RequestTimeout, fake |-> FALSE],
                            !.out = Append(u.out, h), !.age = [u.age EXCEPT ![h.dest] = 0]]
          BY <2>5, <4>1, <5>1 DEF doSendMessage, scheduleResponseTimeout, SenderType
        <5>3. Append(u.out, h) = <<h>>
          BY <2>5
        <5> QED
          BY <2>5, <5>2, <5>3 DEF SenderType
      <4>3. b \in {<< >>, <<h>>}
        BY <2>1, <4>2, TransmitOne
      <4> HIDE DEF b
      <4>4. Unanswered(t, b, h)
        BY <2>5, <4>2, <4>3 DEF Unanswered, Idle
      <4>5. Spaced(s, t.out)
        <5>1. s.age[h.dest] >= MinDistance /\ Rested(s)
          BY <2>6, <3>2, SenderAssumption DEF Idle
        <5> QED
          BY <2>2, <4>2, <5>1, SpacedOne
      <4>6. Rested(t)
        BY <2>2, <4>2, RestedAfter DEF Idle, IsWrite
      <4> QED
        BY <2>5, <4>2, <4>4, <4>5, <4>6 DEF Turn
    <3> QED
      BY <3>1, <3>2
  <2> HIDE DEF b
  <2>8. OneAtATime(t, b)
    BY <2>1, <2>2, <2>7 DEF OneAtATime
  <2>9. \A m \in ReadMessage : InSeq(s.pending, m) => Coming(m, m.client, t, b)
    BY <2>4, <2>7 DEF Coming
  <2> QED
    BY <2>7, <2>8, <2>9 DEF t, b
<1> QED
  BY <1>1, <1>2

\* A sender stays busy with a message when the request for it gets lost.
LEMMA TurnKept ==
    ASSUME NEW s, NEW b, NEW d \in {<< >>, b}
    PROVE  /\ \A m : Turn(s, b, m) => Turn(s, d, m)
           /\ OneAtATime(s, b) => OneAtATime(s, d)
           /\ \A m, c : Coming(m, c, s, b) => Coming(m, c, s, d)
<1>1. ASSUME NEW m, Turn(s, b, m) PROVE Turn(s, d, m)
  BY <1>1 DEF Turn, InTimer, AboutToSend, Unanswered, TimedOut
<1> QED
  BY <1>1 DEF OneAtATime, Coming

\* The sender keeps what it has to do when an event starts,
LEMMA EventInTime ==
    ASSUME NEW s \in SenderType, NEW b
    PROVE  LET e == event(s)
           IN  /\ e.out = << >> /\ e.age = s.age
               /\ Idle(s) => Idle(e)
               /\ \A m : Turn(s, b, m) => Turn(e, b, m)
               /\ OneAtATime(s, b) => OneAtATime(e, b)
               /\ \A m, c : Coming(m, c, s, b) => Coming(m, c, e, b)
<1> DEFINE e == event(s)
<1>1. /\ e.out = << >> /\ e.age = s.age /\ e.current = s.current /\ e.pending = s.pending
      /\ e.resp = s.resp /\ e.send = s.send /\ e.ready = s.ready
  BY DEF event, SenderType
<1> HIDE DEF e
<1>2. \A m : Turn(s, b, m) => Turn(e, b, m)
  BY <1>1 DEF Turn, InTimer, AboutToSend, Unanswered, TimedOut
<1>3. (Idle(s) => Idle(e)) /\ (Rested(s) => Rested(e))
  BY <1>1 DEF Idle, Rested
<1>4. OneAtATime(s, b) => OneAtATime(e, b)
  BY <1>1, <1>2, <1>3 DEF OneAtATime
<1> QED
  BY <1>1, <1>2, <1>3, <1>4 DEF Coming, e

\* and when messages are queued.
LEMMA EnqueueInTime ==
    ASSUME NEW s \in SenderType, NEW b, NEW ms \in Seq(ReadMessage), s.pending \in Seq(ReadMessage)
    PROVE  LET t == enqueue(s, ms)
           IN  /\ t \in SenderType /\ t.current = s.current /\ t.out = s.out /\ t.age = s.age
               /\ t.pending = s.pending \o ms /\ t.pending \in Seq(ReadMessage)
               /\ Idle(s) => Idle(t)
               /\ OneAtATime(s, b) => OneAtATime(t, b)
               /\ \A m, c : Coming(m, c, s, b) \/ InSeq(ms, m) => Coming(m, c, t, b)
               /\ \A m : InSeq(s.pending, m) \/ InSeq(ms, m) => InSeq(t.pending, m)
<1> DEFINE t == enqueue(s, ms)
<1>1. ReadMessage \subseteq Message
  BY DEF ReadMessage
<1>2. ms \in Seq(Message) /\ s.pending \in Seq(Message)
  BY <1>1
<1>3. /\ t \in SenderType /\ t.current = s.current /\ t.pending = s.pending \o ms
      /\ t.resp = s.resp /\ t.send = s.send /\ t.ready = s.ready
  BY <1>2, Enqueue
<1>4. t.out = s.out /\ t.age = s.age
  BY DEF enqueue, SenderType
<1> HIDE DEF t
<1>5. t.pending \in Seq(ReadMessage)
  BY <1>3
<1>6. \A m : Turn(s, b, m) => Turn(t, b, m)
  BY <1>3, <1>4 DEF Turn, InTimer, AboutToSend, Unanswered, TimedOut
<1>7. (Idle(s) => Idle(t)) /\ (Rested(s) => Rested(t))
  BY <1>3, <1>4 DEF Idle, Rested
<1>8. OneAtATime(s, b) => OneAtATime(t, b)
  BY <1>3, <1>5, <1>6, <1>7 DEF OneAtATime
<1>9. \A m : InSeq(s.pending, m) \/ InSeq(ms, m) => InSeq(t.pending, m)
  BY <1>2, <1>3, InSeqOfConcat
<1>10. \A m, c : Coming(m, c, s, b) \/ InSeq(ms, m) => Coming(m, c, t, b)
  BY <1>3, <1>6, <1>9 DEF Coming
<1> QED
  BY <1>3, <1>4, <1>5, <1>7, <1>8, <1>9, <1>10 DEF t

\* After a step from s, sender t does one thing at a time with d on the bus, and
\* the step sent nothing too early.
InTime(s, t, d) == OneAtATime(t, d) /\ Spaced(s, t.out)

\* The turn ended: the next request is the client's, or that of another.
LEMMA AdvanceInTime ==
    ASSUME NEW s \in SenderType, Idle(s), s.pending \in Seq(ReadMessage), s.out = << >>,
           NEW ms \in Seq(ReadMessage)
    PROVE  LET t == continueWithNextRequest(enqueue(s, ms))
               d == Transmit(<< >>, t.out)
           IN  /\ InTime(s, t, d)
               /\ \A m \in ReadMessage :
                     InSeq(s.pending, m) \/ InSeq(ms, m) => Coming(m, m.client, t, d)
<1> DEFINE e == enqueue(s, ms)
           t == continueWithNextRequest(e)
           d == Transmit(<< >>, t.out)
<1>1. /\ e \in SenderType /\ e.pending \in Seq(ReadMessage) /\ Idle(e)
      /\ e.out = << >> /\ e.age = s.age
      /\ \A m : InSeq(s.pending, m) \/ InSeq(ms, m) => InSeq(e.pending, m)
  BY EnqueueInTime
<1> HIDE DEF e
<1>2. /\ OneAtATime(t, d) /\ Spaced(e, t.out)
      /\ \A m \in ReadMessage : InSeq(e.pending, m) => Coming(m, m.client, t, d)
  BY <1>1, NextTurn
<1> HIDE DEF t, d
<1>3. Spaced(s, t.out)
  BY <1>1, <1>2 DEF Spaced
<1> QED
  BY <1>1, <1>2, <1>3 DEF InTime, d, t, e

\* Messages of a client are queued, or start an idle sender.
LEMMA SendInTime ==
    ASSUME NEW s \in SenderType, Alive(s), s.out = << >>, NEW b, OneAtATime(s, b),
           NEW ms \in Seq(ReadMessage)
    PROVE  LET t == sendMessage(s, ms)
               d == Transmit(b, t.out)
           IN  /\ InTime(s, t, d)
               /\ \A m \in ReadMessage :
                     Coming(m, m.client, s, b) \/ InSeq(ms, m) => Coming(m, m.client, t, d)
<1> DEFINE t == sendMessage(s, ms)
           d == Transmit(b, t.out)
<1>1. s.pending \in Seq(ReadMessage)
  BY DEF OneAtATime
<1>2. CASE s.current = NoClient /\ ms # << >>
  <2> DEFINE x == Head(ms)
             y == Tail(ms)
             n == continueWithNextRequest(enqueue(s, <<x>>))
  <2>1. x \in ReadMessage /\ y \in Seq(ReadMessage) /\ <<x>> \in Seq(ReadMessage)
    BY <1>2
  <2>2. ms \in Seq(Message)
    <3>1. ReadMessage \subseteq Message
      BY DEF ReadMessage
    <3> QED
      BY <3>1
  <2>3. \A m : InSeq(ms, m) => m = x \/ InSeq(y, m)
    BY <2>2, HeadOrTail
  <2>4. Idle(s) /\ b = << >> /\ s.pending = << >>
    BY <1>2 DEF OneAtATime, Alive
  <2>5. t = enqueue(n, y)
    BY <1>2 DEF sendMessage
  <2> HIDE DEF x, y
  <2>6. /\ InTime(s, n, Transmit(<< >>, n.out))
        /\ \A m \in ReadMessage :
              InSeq(<<x>>, m) => Coming(m, m.client, n, Transmit(<< >>, n.out))
    BY <1>1, <2>1, <2>4, AdvanceInTime
  <2>7. n \in SenderType /\ n.pending \in Seq(ReadMessage)
    <3>1. <<x>> \in Seq(Message)
      BY <2>1 DEF ReadMessage
    <3>2. enqueue(s, <<x>>) \in SenderType
      BY <3>1, Enqueue
    <3>3. n \in SenderType
      BY <3>2, ContinueWithNextRequest
    <3> QED
      BY <2>6, <3>3 DEF InTime, OneAtATime
  <2> HIDE DEF n, t
  <2>8. /\ t.out = n.out
        /\ OneAtATime(n, d) => OneAtATime(t, d)
        /\ \A m, c : Coming(m, c, n, d) \/ InSeq(y, m) => Coming(m, c, t, d)
    BY <2>1, <2>5, <2>7, EnqueueInTime
  <2>9. d = Transmit(<< >>, n.out)
    BY <2>4, <2>8
  <2> HIDE DEF d
  <2>10. InTime(s, t, d)
    BY <2>6, <2>8, <2>9 DEF InTime
  <2>11. ASSUME NEW m \in ReadMessage, Coming(m, m.client, s, b) \/ InSeq(ms, m)
         PROVE  Coming(m, m.client, t, d)
    <3>1. m.client # NoClient
      BY SenderAssumption DEF ReadMessage
    <3>2. ~InSeq(s.pending, m)
      BY <2>4 DEF InSeq
    <3>3. InSeq(ms, m)
      BY <1>2, <2>11, <3>1, <3>2 DEF Coming
    <3>4. CASE m = x
      BY <2>6, <2>8, <2>9, <3>4, InOne
    <3>5. CASE InSeq(y, m)
      BY <2>8, <3>5
    <3> QED
      BY <2>3, <3>3, <3>4, <3>5
  <2> QED
    BY <2>10, <2>11 DEF d, t
<1>3. CASE ~(s.current = NoClient /\ ms # << >>)
  <2>1. t = enqueue(s, ms)
    BY <1>3 DEF sendMessage
  <2> HIDE DEF t
  <2>2. /\ t.out = << >>
        /\ OneAtATime(t, b)
        /\ \A m, c : Coming(m, c, s, b) \/ InSeq(ms, m) => Coming(m, c, t, b)
    BY <1>1, <2>1, EnqueueInTime
  <2>3. d \in {<< >>, b}
    <3>1. CASE b = << >>
      BY <2>2, <3>1, TransmitNothing
    <3>2. CASE b # << >>
      <4>1. PICK m \in ReadMessage : Turn(s, b, m)
        BY <3>2 DEF OneAtATime
      <4>2. b \in {<< >>, <<m>>}
        BY <4>1 DEF Turn, InTimer, AboutToSend, Unanswered, TimedOut
      <4> QED
        BY <2>2, <4>2, TransmitNone
    <3> QED
      BY <3>1, <3>2
  <2> HIDE DEF d
  <2>4. OneAtATime(t, d) /\ \A m, c : Coming(m, c, t, b) => Coming(m, c, t, d)
    BY <2>2, <2>3, TurnKept
  <2>5. Spaced(s, t.out)
    BY <2>2 DEF Spaced
  <2> QED
    BY <2>2, <2>4, <2>5 DEF InTime, t, d
<1> QED
  BY <1>2, <1>3

\* The answer to the only request on the bus ends its turn.
LEMMA AnswerInTime ==
    ASSUME NEW s \in SenderType, s.out = << >>, NEW m \in ReadMessage, OneAtATime(s, <<m>>),
           NEW ms \in Seq(ReadMessage)
    PROVE  LET t == handlePcMessage(s, m.dest, ms)
               d == Transmit(<< >>, t.out)
           IN  /\ s.current = m.client
               /\ \A x : Turn(s, <<m>>, x) => x = m
               /\ InTime(s, t, d)
               /\ \A x \in ReadMessage :
                     InSeq(s.pending, x) \/ InSeq(ms, x) => Coming(x, x.client, t, d)
<1> DEFINE a == [s.age EXCEPT ![m.dest] = 0]
           u == [s EXCEPT !.age = a, !.resp = NoWait]
           t == handlePcMessage(s, m.dest, ms)
           d == Transmit(<< >>, t.out)
<1>1. \A x : Turn(s, <<m>>, x) => x = m /\ Unanswered(s, <<m>>, x)
  BY DEF Turn, InTimer, AboutToSend, Unanswered, TimedOut
<1>2. <<m>> # << >>
  OBVIOUS
<1>3. s.current = m.client /\ Unanswered(s, <<m>>, m)
  BY <1>1, <1>2 DEF OneAtATime
<1>4. m.dest \in Addr /\ m.client # NoClient
  BY SenderAssumption DEF ReadMessage
<1>5. a \in [Addr -> Age] /\ \A x \in Addr : a[x] \in Nat /\ a[x] <= s.age[x]
  BY <1>4, SenderAssumption DEF SenderType, Age
<1> HIDE DEF a
<1>6. NoWait \in ResponseTimer
  BY SenderAssumption DEF NoWait, Ticks, ResponseTimer
<1>7. /\ u \in SenderType /\ u.pending = s.pending /\ u.out = << >> /\ u.age = a
      /\ u.send = s.send /\ u.ready = s.ready /\ u.resp = NoWait
  BY <1>5, <1>6 DEF SenderType
<1>8. t = continueWithNextRequest(enqueue(u, ms))
  BY <1>3, <1>4 DEF handlePcMessage, a
<1> HIDE DEF u
<1>9. Idle(u)
  <2>1. Rested(s) /\ m.dest \in Addr \ WriteAddr
    BY <1>4 DEF OneAtATime, ReadMessage, IsWrite
  <2>2. Rested(u)
    BY <1>7, <2>1, RestedAfter DEF a
  <2> QED
    BY <1>3, <1>7, <2>2 DEF Idle, Unanswered, NoWait
<1>10. u.pending \in Seq(ReadMessage)
  BY <1>7 DEF OneAtATime
<1>11. /\ InTime(u, t, d)
       /\ \A x \in ReadMessage : InSeq(u.pending, x) \/ InSeq(ms, x) => Coming(x, x.client, t, d)
  BY <1>7, <1>8, <1>9, <1>10, AdvanceInTime
<1> HIDE DEF t, d
<1>12. Spaced(s, t.out)
  <2>1. \A x \in Addr : s.age[x] \in Nat
    BY SenderAssumption DEF SenderType, Age
  <2>2. Spaced(u, t.out)
    BY <1>11 DEF InTime
  <2>3. \A x \in Addr : {s.age[x], u.age[x]} \subseteq Nat /\ u.age[x] <= s.age[x]
    BY <1>5, <1>7, <2>1
  <2> QED
    BY <2>2, <2>3, SpacedLess
<1> QED
  BY <1>1, <1>3, <1>7, <1>11, <1>12 DEF InTime, t, d

\* An idle sender has no completed wait, and one that waits for an answer has
\* none either.
LEMMA ReadyInTime ==
    ASSUME NEW s, NEW b, OneAtATime(s, b), s.ready # << >>
    PROVE  /\ s.current # NoClient /\ b = << >> /\ ~s.send.on /\ ~s.resp.on
           /\ \/ TimedOut(s, b)
              \/ \E m \in ReadMessage : m.client = s.current /\ AboutToSend(s, b, m)
<1>1. s.current # NoClient
  BY DEF OneAtATime, Idle
<1>2. PICK m \in ReadMessage : m.client = s.current /\ Turn(s, b, m)
  BY <1>1 DEF OneAtATime
<1>3. TimedOut(s, b) \/ AboutToSend(s, b, m)
  BY <1>2 DEF Turn, InTimer, Unanswered
<1> QED
  BY <1>1, <1>2, <1>3 DEF TimedOut, AboutToSend

\* doSendMessage runs after the delay: the request gets on the bus.
LEMMA DelayedInTime ==
    ASSUME NEW s \in SenderType, NEW b, OneAtATime(s, b), s.ready # << >>,
           Head(s.ready).kind = "send", NEW ms
    PROVE  LET t == runHandler(s, ms)
               d == Transmit(b, t.out)
           IN  /\ InTime(s, t, d)
               /\ \A m \in ReadMessage :
                     Coming(m, m.client, s, b) => Coming(m, m.client, t, d)
<1> DEFINE t == runHandler(s, ms)
           d == Transmit(b, t.out)
           v == event(s)
           e == [v EXCEPT !.ready = Tail(s.ready)]
<1>1. PICK m \in ReadMessage : m.client = s.current /\ AboutToSend(s, b, m)
  BY ReadyInTime DEF TimedOut
<1>2. /\ s.ready = <<[kind |-> "send", msg |-> m]>> /\ s.age[m.dest] >= MinDistance
      /\ ~s.send.on /\ ~s.resp.on /\ b = << >>
  BY <1>1 DEF AboutToSend
<1>3. Head(s.ready).msg = m /\ Tail(s.ready) = << >>
  BY <1>2
<1>4. t = doSendMessage(e, m)
  BY <1>3 DEF runHandler
<1>5. /\ e \in SenderType /\ e.out = << >> /\ e.ready = << >> /\ e.send = s.send
      /\ e.current = s.current /\ e.pending = s.pending /\ e.age = s.age
  <2>1. /\ v \in SenderType /\ v.out = << >> /\ v.send = s.send
        /\ v.current = s.current /\ v.pending = s.pending /\ v.age = s.age
    BY Event, EventInTime
  <2>2. << >> \in Seq(Handler)
    OBVIOUS
  <2> HIDE DEF v
  <2> QED
    BY <1>3, <2>1, <2>2 DEF SenderType
<1> HIDE DEF e
<1>6. /\ t.current = s.current /\ t.pending = s.pending /\ t.out = <<m>> /\ t.ready = << >>
      /\ t.send = s.send /\ t.resp = [on |-> TRUE, left |-> RequestTimeout, fake |-> FALSE]
      /\ t.age = [s.age EXCEPT ![m.dest] = 0]
  <2>1. IsWrite(m) = FALSE /\ m \in Message
    BY DEF IsWrite, ReadMessage
  <2>2. t = [e EXCEPT !.resp = [on |-> TRUE, left |-> RequestTimeout, fake |-> FALSE],
                      !.out = Append(e.out, m), !.age = [e.age EXCEPT ![m.dest] = 0]]
    BY <1>4, <1>5, <2>1 DEF doSendMessage, scheduleResponseTimeout, SenderType
  <2>3. Append(e.out, m) = <<m>>
    BY <1>5
  <2> QED
    BY <1>5, <2>2, <2>3 DEF SenderType
<1> HIDE DEF t
<1>7. d \in {<< >>, <<m>>}
  BY <1>2, <1>6, TransmitOne
<1> HIDE DEF d
<1>8. Turn(t, d, m)
  BY <1>2, <1>6, <1>7 DEF Turn, Unanswered
<1>9. m \in Message /\ m.dest \in Addr \ WriteAddr /\ Rested(s)
  BY SenderAssumption DEF ReadMessage, IsWrite, OneAtATime
<1>10. OneAtATime(t, d) /\ Spaced(s, t.out)
  <2>1. s.current # NoClient
    BY ReadyInTime
  <2>2. Rested(t)
    BY <1>6, <1>9, RestedAfter
  <2>3. OneAtATime(t, d)
    BY <1>1, <1>6, <1>8, <2>1, <2>2 DEF OneAtATime
  <2> QED
    BY <1>2, <1>6, <1>9, <2>3, SpacedOne
<1>11. ASSUME NEW x \in ReadMessage, Coming(x, x.client, s, b) PROVE Coming(x, x.client, t, d)
  <2>1. CASE InSeq(s.pending, x)
    BY <1>6, <2>1 DEF Coming
  <2>2. CASE s.current = x.client /\ Turn(s, b, x)
    <3>1. AboutToSend(s, b, x)
      BY <1>2, <2>2 DEF Turn, InTimer, Unanswered, TimedOut
    <3>2. x = m
      BY <1>2, <3>1 DEF AboutToSend
    <3> QED
      BY <1>6, <1>8, <2>2, <3>2 DEF Coming
  <2> QED
    BY <1>11, <2>1, <2>2 DEF Coming
<1> QED
  BY <1>10, <1>11 DEF InTime, t, d

\* A timeout ends the turn as well.
LEMMA TimeoutInTime ==
    ASSUME NEW s \in SenderType, NEW b, OneAtATime(s, b), s.ready # << >>,
           Head(s.ready).kind # "send", NEW ms \in Seq(ReadMessage)
    PROVE  LET t == runHandler(s, ms)
               d == Transmit(b, t.out)
           IN  /\ Head(s.ready).kind = "timeout"
               /\ InTime(s, t, d)
               /\ \A m \in ReadMessage :
                     InSeq(s.pending, m) \/ InSeq(ms, m) => Coming(m, m.client, t, d)
<1> DEFINE t == runHandler(s, ms)
           d == Transmit(b, t.out)
           v == event(s)
           e == [v EXCEPT !.ready = Tail(s.ready)]
<1>1. TimedOut(s, b) /\ s.current # NoClient
  <2>1. ASSUME NEW m, AboutToSend(s, b, m) PROVE FALSE
    <3>1. s.ready = <<[kind |-> "send", msg |-> m]>>
      BY <2>1 DEF AboutToSend
    <3>2. Head(s.ready) = [kind |-> "send", msg |-> m]
      BY <3>1
    <3> QED
      BY <3>2
  <2> QED
    BY <2>1, ReadyInTime
<1>2. /\ s.ready = <<[kind |-> "timeout", msg |-> NoMessage]>>
      /\ ~s.send.on /\ ~s.resp.on /\ b = << >>
  BY <1>1 DEF TimedOut
<1>3. Head(s.ready).kind = "timeout" /\ Tail(s.ready) = << >>
  BY <1>2
<1>4. t = timeoutHandler(e, ms)
  BY <1>3 DEF runHandler
<1>5. /\ e \in SenderType /\ e.out = << >> /\ e.ready = << >> /\ e.send = s.send /\ e.resp = s.resp
      /\ e.current = s.current /\ e.pending = s.pending /\ e.age = s.age
  <2>1. /\ v \in SenderType /\ v.out = << >> /\ v.send = s.send /\ v.resp = s.resp
        /\ v.current = s.current /\ v.pending = s.pending /\ v.age = s.age
    BY Event, EventInTime
  <2>2. << >> \in Seq(Handler)
    OBVIOUS
  <2> HIDE DEF v
  <2> QED
    BY <1>3, <2>1, <2>2 DEF SenderType
<1> HIDE DEF e
<1>6. t = continueWithNextRequest(enqueue(e, ms))
  BY <1>1, <1>4, <1>5 DEF timeoutHandler
<1>7. Idle(e) /\ e.pending \in Seq(ReadMessage)
  BY <1>2, <1>5 DEF Idle, Rested, OneAtATime
<1>8. d = Transmit(<< >>, t.out)
  BY <1>2
<1>9. /\ InTime(e, t, d)
      /\ \A m \in ReadMessage : InSeq(e.pending, m) \/ InSeq(ms, m) => Coming(m, m.client, t, d)
  BY <1>5, <1>6, <1>7, <1>8, AdvanceInTime
<1> HIDE DEF t, d
<1>10. InTime(s, t, d)
  BY <1>5, <1>9 DEF InTime, Spaced
<1> QED
  BY <1>3, <1>5, <1>9, <1>10 DEF t, d

\* A pass of the reactor: a device that has not answered will not answer.
LEMMA ReactorInTime ==
    ASSUME NEW s \in SenderType, NEW b, OneAtATime(s, b), NEW hs \in ExpiredWaits(s)
    PROVE  LET t == reactorPass(s, hs)
               d == IF ResponseDue(s) THEN << >> ELSE b
           IN  /\ InTime(s, t, d)
               /\ \A m, c : Coming(m, c, s, b) => Coming(m, c, t, d)
<1> DEFINE t == reactorPass(s, hs)
           d == IF ResponseDue(s) THEN << >> ELSE b
           r == [kind |-> IF s.resp.fake THEN "fake" ELSE "timeout", msg |-> NoMessage]
           h == [kind |-> "send", msg |-> s.send.msg]
<1>1. hs \in Seq(Handler) /\ hs # << >> /\ s.ready \in Seq(Handler)
  BY ExpiredWaitsType DEF SenderType
<1>2. /\ t.current = s.current /\ t.pending = s.pending /\ t.out = << >> /\ t.age = s.age
      /\ t.resp = (IF ResponseDue(s) THEN NoWait ELSE s.resp)
      /\ t.send = (IF SendDue(s) THEN NoSend ELSE s.send)
      /\ t.ready = s.ready \o hs
  <2> DEFINE e == event(s)
  <2>1. /\ e \in SenderType /\ e.out = << >> /\ e.age = s.age
        /\ e.current = s.current /\ e.pending = s.pending
    BY Event, EventInTime
  <2> HIDE DEF e
  <2> QED
    BY <2>1 DEF reactorPass, SenderType, e
<1>3. ResponseDue(s) \/ SendDue(s)
  BY DEF ExpiredWaits
<1>4. s.current # NoClient
  BY <1>3 DEF OneAtATime, Idle, ResponseDue, SendDue
<1> HIDE DEF t, d
<1>5. ASSUME NEW m, Turn(s, b, m) PROVE Turn(t, d, m)
  <2>1. InTimer(s, b, m) \/ Unanswered(s, b, m)
    BY <1>3, <1>5 DEF Turn, AboutToSend, TimedOut, ResponseDue, SendDue
  <2>2. CASE InTimer(s, b, m)
    <3>1. /\ SendDue(s) /\ ~ResponseDue(s) /\ s.send.msg = m /\ s.ready = << >> /\ b = << >>
          /\ s.send.left = 0 /\ s.send.left + s.age[m.dest] >= MinDistance /\ ~s.resp.on
      BY <1>3, <2>2 DEF InTimer, ResponseDue, SendDue
    <3>2. s.send.on
      BY <2>2 DEF InTimer
    <3>3. m \in Message
      BY <3>1, <3>2, SendTimerOn DEF SenderType
    <3>4. s.age[m.dest] >= MinDistance
      <4>1. s.age[m.dest] \in Nat
        BY <3>3, SenderAssumption DEF SenderType, Age
      <4> QED
        BY <3>1, <4>1
    <3>5. hs = <<[kind |-> "send", msg |-> m]>>
      BY <3>1 DEF ExpiredWaits
    <3>6. t.ready = hs
      BY <1>1, <1>2, <3>1
    <3>7. d = << >> /\ ~t.send.on /\ ~t.resp.on
      BY <1>2, <3>1 DEF d, NoSend
    <3> QED
      BY <1>2, <3>4, <3>5, <3>6, <3>7 DEF Turn, AboutToSend
  <2>3. CASE Unanswered(s, b, m)
    <3>1. ResponseDue(s) /\ ~SendDue(s) /\ ~s.resp.fake /\ s.ready = << >> /\ ~s.send.on
      BY <1>3, <2>3 DEF Unanswered, ResponseDue, SendDue
    <3>2. hs = <<[kind |-> "timeout", msg |-> NoMessage]>>
      BY <3>1 DEF ExpiredWaits
    <3>3. t.ready = hs
      BY <1>1, <1>2, <3>1
    <3>4. d = << >> /\ ~t.send.on /\ ~t.resp.on
      BY <1>2, <3>1 DEF d, NoWait
    <3> QED
      BY <3>2, <3>3, <3>4 DEF Turn, TimedOut
  <2> QED
    BY <2>1, <2>2, <2>3
<1>6. OneAtATime(t, d)
  BY <1>2, <1>4, <1>5 DEF OneAtATime, Rested
<1>7. Spaced(s, t.out)
  BY <1>2 DEF Spaced
<1> QED
  BY <1>2, <1>5, <1>6, <1>7 DEF InTime, Coming, t, d

\* Time passes.
LEMMA ElapseInTime ==
    ASSUME NEW s \in SenderType, NEW b, OneAtATime(s, b)
    PROVE  LET t == elapse(s)
           IN  /\ InTime(s, t, b)
               /\ \A m \in ReadMessage : Coming(m, m.client, s, b) => Coming(m, m.client, t, b)
<1> DEFINE t == elapse(s)
<1>1. /\ t.current = s.current /\ t.pending = s.pending /\ t.out = << >> /\ t.ready = s.ready
      /\ t.resp = [s.resp EXCEPT !.left = Less(s.resp.left)]
      /\ t.send = [s.send EXCEPT !.left = Less(s.send.left)]
      /\ t.age = [a \in Addr |-> IF s.age[a] = LongAgo THEN LongAgo ELSE s.age[a] + 1]
  BY DEF elapse, event, SenderType
<1>2. t.send.on = s.send.on /\ t.send.msg = s.send.msg /\ t.send.left = Less(s.send.left)
  BY <1>1 DEF SenderType, SendTimer
<1>3. t.resp.on = s.resp.on /\ t.resp.fake = s.resp.fake
  BY <1>1 DEF SenderType, ResponseTimer
<1> HIDE DEF t
<1>4. ASSUME NEW m \in ReadMessage, Turn(s, b, m) PROVE Turn(t, b, m)
  <2>1. m.dest \in Addr
    BY SenderAssumption DEF ReadMessage
  <2>2. s.age[m.dest] \in 0 .. MinDistance + 1 /\ MinDistance \in Nat
    BY <2>1, SenderAssumption DEF SenderType, Age
  <2>3. t.age[m.dest] = IF s.age[m.dest] = MinDistance + 1 THEN MinDistance + 1 ELSE s.age[m.dest] + 1
    BY <1>1, <2>1 DEF LongAgo
  <2>4. s.send.left \in Nat
    <3>1. s.send.left \in Ticks \cup {0}
      BY DEF SenderType, SendTimer
    <3> QED
      BY <3>1, SenderAssumption DEF Ticks
  <2>5. s.send.left + s.age[m.dest] >= MinDistance => t.send.left + t.age[m.dest] >= MinDistance
    BY <1>2, <2>2, <2>3, <2>4 DEF Less
  <2>6. s.age[m.dest] >= MinDistance => t.age[m.dest] >= MinDistance
    BY <2>2, <2>3
  <2> QED
    BY <1>1, <1>2, <1>3, <1>4, <2>5, <2>6 DEF Turn, InTimer, AboutToSend, Unanswered, TimedOut
<1>5. OneAtATime(t, b)
  <2>1. Rested(s) => Rested(t)
    BY <1>1, OlderStill
  <2> QED
    BY <1>1, <1>2, <1>3, <1>4, <2>1 DEF OneAtATime, Idle
<1>6. Spaced(s, t.out)
  BY <1>1 DEF Spaced
<1> QED
  BY <1>1, <1>4, <1>5, <1>6 DEF InTime, Coming, t

-----------------------------------------------------------------------------
(* The parser in time *)

\* The commands cmds lead to answerable requests only.
AllAnswerable(cmds) == \A k \in Requests(cmds) : Answerable(k)

\* The reads they lead to are answerable.
ReadsAnswerable(cmds) == \A k \in Requests(cmds) : k.op = "read" => Answerable(k)

\* The active request of a parser asks for what its request still lacks.
Asks(p, c, k) ==
    /\ Follows(p, k) /\ p.len = k.len /\ p.got < k.len
    /\ p.active = Request(c, ReadFrom(p.dest), p.type, p.off + p.got, p.len - p.got)
Asking(p, c, cmds) == p.active # NoMessage => \E k \in Requests(cmds) : Asks(p, c, k)

\* The command is over and its final line due, or its active request was just
\* posted.
Moves(r, c, cmds) ==
    /\ Asking(r.p, c, cmds)
    /\ \/ r.p.active = NoMessage /\ r.posted = << >> /\ r.line # "none"
       \/ r.p.active \in ReadMessage /\ r.posted = <<r.p.active>> /\ r.line = "none"

\* A parser that asks has matching members.
LEMMA AskedFields ==
    ASSUME NEW c, NEW cmds, Tabled(c, cmds), NEW k \in Requests(cmds), Answerable(k),
           NEW p \in Parser, Asks(p, c, k)
    PROVE  /\ p.active.dest = p.dest /\ p.active.type = p.type
           /\ p.active.off = p.off + p.got
<1>1. /\ p.dest = k.dest /\ p.off = k.off /\ p.len = k.len /\ p.got < k.len
      /\ p.active = Request(c, ReadFrom(p.dest), p.type, p.off + p.got, p.len - p.got)
  BY DEF Asks, Follows
<1>2. p.dest \in Nat /\ p.off \in Nat /\ p.got \in Nat /\ p.len \in Nat
  BY DEF Parser
<1>3. ReadFrom(p.dest) = p.dest
  BY <1>1, <1>2 DEF Answerable, ReadFrom
<1>4. p.off + p.got \in Nat /\ p.off + p.got < 256
  BY <1>1, <1>2 DEF Answerable
<1>5. (p.off + p.got) % 256 = p.off + p.got
  BY <1>4
<1> QED
  BY <1>1, <1>3, <1>5 DEF Request

LEMMA SendMoves ==
    ASSUME NEW c, NEW cmds, Tabled(c, cmds), ReadsAnswerable(cmds), NEW k \in Requests(cmds),
           NEW p \in Parser, Follows(p, k), p.len = k.len, p.got < k.len,
           p.got = 0 \/ k.raw \/ k.type \in ContinuedTypes
    PROVE  Moves(sendCommand(p, c, ReadFrom(p.dest), p.type, p.off + p.got, p.len - p.got), c, cmds)
<1> DEFINE m == Request(c, ReadFrom(p.dest), p.type, p.off + p.got, p.len - p.got)
           q == [p EXCEPT !.retries = MaxRequestRetries, !.active = m]
           r == sendCommand(p, c, ReadFrom(p.dest), p.type, p.off + p.got, p.len - p.got)
<1>1. /\ p.dest = k.dest /\ p.type = k.type /\ p.off = k.off /\ k.op = "read"
      /\ k \in Call /\ Answerable(k)
  BY RequestsAreCalls DEF Follows, ReadsAnswerable
<1>2. p.got \in 0 .. k.len - 1
  <2>1. p.got \in Nat /\ k.len \in Nat
    BY <1>1 DEF Parser, Call
  <2> QED
    BY <2>1
<1>3. Request(c, ReadFrom(k.dest), k.type, k.off + p.got, k.len - p.got) \in Message
  BY <1>1, <1>2 DEF Tabled
<1>4. m \in Message
  BY <1>1, <1>3
<1>5. m.dest = p.dest /\ p.dest >= 128
  <2>1. k.dest \in Nat /\ k.dest >= 128
    BY <1>1 DEF Answerable, Call
  <2>2. ReadFrom(p.dest) = p.dest
    BY <1>1, <2>1 DEF ReadFrom
  <2> QED
    BY <1>1, <2>1, <2>2 DEF Request
<1>6. m.dest \notin WriteAddr
  BY <1>1, <1>5, ApiAssumption DEF Call
<1>7. m \in ReadMessage
  BY <1>4, <1>6 DEF ReadMessage, IsWrite
<1>8. r.p = q /\ r.posted = <<q.active>> /\ r.line = "none"
  BY DEF sendCommand, sendActiveRequest, Result
<1> HIDE DEF r
<1>9. /\ q.active = m /\ q.dest = p.dest /\ q.type = p.type /\ q.off = p.off /\ q.len = p.len
      /\ q.got = p.got /\ q.raw = p.raw
  BY DEF Parser
<1>10. q.active = Request(c, ReadFrom(q.dest), q.type, q.off + q.got, q.len - q.got)
  BY <1>9
<1> HIDE DEF q, m
<1>11. Asks(q, c, k)
  BY <1>9, <1>10 DEF Asks, Follows
<1> QED
  BY <1>7, <1>8, <1>9, <1>11 DEF Moves, Asking, r

LEMMA ForgetMoves ==
    ASSUME NEW c, NEW cmds, NEW p \in Parser, NEW line, line # "none"
    PROVE  Moves(Result([p EXCEPT !.active = NoMessage], << >>, line), c, cmds)
BY DEF Moves, Asking, Result, Parser

LEMMA StartMoves ==
    ASSUME NEW c, NEW cmds, Tabled(c, cmds), ReadsAnswerable(cmds), NEW k \in Requests(cmds),
           k.op = "read", NEW p \in Parser
    PROVE  Moves(startRequest(p, c, k.dest, k.type, k.off, k.len, k.raw), c, cmds)
<1> DEFINE q == Asked(p, k)
<1>1. k \in Call /\ k.op = "read" /\ k.len > 0 /\ k.len \in Nat
  <2>1. k \in Call
    BY RequestsAreCalls
  <2> QED
    BY <2>1 DEF Tabled, Call
<1>2. /\ q \in Parser /\ q.dest = k.dest /\ q.type = k.type /\ q.off = k.off /\ q.len = k.len
      /\ q.got = 0 /\ q.raw = k.raw
  BY <1>1 DEF Asked, Parser, Call
<1>3. startRequest(p, c, k.dest, k.type, k.off, k.len, k.raw) = continueRequest(q, c)
  BY DEF startRequest, Asked
<1> HIDE DEF q
<1>4. continueRequest(q, c)
        = sendCommand(q, c, ReadFrom(q.dest), q.type, q.off + q.got, q.len - q.got)
  BY <1>1, <1>2 DEF continueRequest
<1>5. Follows(q, k) /\ q.got < k.len
  BY <1>1, <1>2 DEF Follows
<1> QED
  BY <1>2, <1>3, <1>4, <1>5, SendMoves

LEMMA ContinueMoves ==
    ASSUME NEW c, NEW cmds, Tabled(c, cmds), ReadsAnswerable(cmds), NEW k \in Requests(cmds),
           NEW p \in Parser, Follows(p, k), p.raw \/ p.type \in ContinuedTypes
    PROVE  Moves(continueRequest(p, c), c, cmds)
<1>1. p.got \in Nat /\ p.len \in Nat
  BY DEF Parser
<1>2. CASE p.got >= p.len
  <2>1. continueRequest(p, c) = Result([p EXCEPT !.active = NoMessage], << >>, "OK")
    BY <1>2 DEF continueRequest
  <2>2. "OK" # "none"
    OBVIOUS
  <2> QED
    BY <2>1, <2>2, ForgetMoves
<1>3. CASE ~(p.got >= p.len)
  <2>1. p.len = k.len /\ p.got < k.len /\ p.raw = k.raw /\ p.type = k.type
    BY <1>1, <1>3 DEF Follows
  <2>2. continueRequest(p, c)
          = sendCommand(p, c, ReadFrom(p.dest), p.type, p.off + p.got, p.len - p.got)
    BY <1>3 DEF continueRequest
  <2> QED
    BY <2>1, <2>2, SendMoves
<1> QED
  BY <1>2, <1>3

LEMMA ResponseMoves ==
    ASSUME NEW c, NEW cmds, Tabled(c, cmds), ReadsAnswerable(cmds), NEW k \in Requests(cmds),
           NEW p \in Parser, Follows(p, k), ~p.raw, NEW end
    PROVE  Moves(handleResponse(p, c, end), c, cmds)
<1> DEFINE over == Result([p EXCEPT !.active = NoMessage], << >>, "OK")
           r == handleResponse(p, c, end)
<1>1. Moves(over, c, cmds)
  <2>1. "OK" # "none"
    OBVIOUS
  <2> QED
    BY <2>1, ForgetMoves
<1> HIDE DEF over
<1>2. k.op = "read" /\ p.type = k.type /\ p.raw = k.raw /\ p.type \in AnsweredTypes
  BY DEF Follows, ReadsAnswerable, Answerable
<1>3. CASE p.type = \h02 /\ p.dest \in {UBA2, UI800}
  <2> DEFINE d == NextVersionSource(p.dest)
             j == Read(d, \h02, 3, FALSE)
  <2>1. d \in {UI800, RH800}
    BY <1>3 DEF NextVersionSource, UBA2, UI800, RH800
  <2> HIDE DEF d
  <2>2. j \in Requests(cmds)
    BY <1>2, <1>3, <2>1, NextVersionAsked
  <2>3. j.op = "read" /\ j.dest = d /\ j.type = \h02 /\ j.off = 0 /\ j.len = 3 /\ j.raw = FALSE
    BY DEF Read
  <2> HIDE DEF j
  <2>4. Moves(startRequest(p, c, j.dest, j.type, j.off, j.len, j.raw), c, cmds)
    BY <2>2, <2>3, StartMoves
  <2>5. r = startRequest(p, c, d, \h02, 0, 3, FALSE)
    BY <1>3 DEF handleResponse, d
  <2> HIDE DEF r
  <2>6. Moves(startRequest(p, c, d, \h02, 0, 3, FALSE), c, cmds)
    BY <2>3, <2>4
  <2> QED
    BY <2>5, <2>6 DEF r
<1>4. CASE p.type = \h02 /\ p.dest \notin {UBA2, UI800}
  <2>1. r = over
    BY <1>4 DEF handleResponse, over
  <2> QED
    BY <1>1, <2>1
<1>5. CASE p.type \in ContinuedTypes
  <2>1. Moves(continueRequest(p, c), c, cmds)
    BY <1>5, ContinueMoves
  <2>2. r = over \/ r = continueRequest(p, c)
    <3>1. CASE p.type = \h137
      BY <3>1 DEF handleResponse
    <3>2. CASE p.type \in {\hbf, \hc0, \hc2}
      BY <3>2 DEF handleResponse, over
    <3> QED
      BY <1>5, <3>1, <3>2 DEF ContinuedTypes
  <2> QED
    BY <1>1, <2>1, <2>2
<1>6. CASE p.type \in {\h15, \h140, \h1a5, \h1af, \h1b9, \h1f5, \hea}
  <2>1. r = over
    BY <1>6 DEF handleResponse, over
  <2> QED
    BY <1>1, <2>1
<1> QED
  BY <1>2, <1>3, <1>4, <1>5, <1>6 DEF AnsweredTypes, ContinuedTypes

\* Whatever arrives moves the command on or leaves the parser as it is; the
\* answer to the active request moves it on.
LEMMA IncomingMoves ==
    ASSUME NEW c, NEW cmds, Tabled(c, cmds), ReadsAnswerable(cmds),
           NEW p \in Parser, Asking(p, c, cmds),
           NEW source, NEW type, NEW off, NEW n \in Nat, NEW end
    PROVE  LET r == onIncomingMessage(p, c, source, type, off, n, end)
           IN  /\ Moves(r, c, cmds) \/ r = Result(p, << >>, "none")
               /\ p.active = NoMessage => r = Result(p, << >>, "none")
               /\ /\ p.active # NoMessage
                  /\ source = p.active.dest /\ off = p.active.off
                  /\ type \in {p.active.type, \hff}
                  => Moves(r, c, cmds)
<1> DEFINE r == onIncomingMessage(p, c, source, type, off, n, end)
           q == IF n = 0 THEN [p EXCEPT !.len = p.got] ELSE [p EXCEPT !.got = @ + n]
           matches == source = p.dest /\ type = p.type /\ off = p.off + p.got
<1>1. CASE p.active = NoMessage
  <2>1. r = Result(p, << >>, "none")
    BY <1>1 DEF onIncomingMessage
  <2> QED
    BY <1>1, <2>1
<1>2. CASE p.active # NoMessage /\ type = \hff
  <2> DEFINE line == IF off # 4 THEN "OK" ELSE "FAIL"
  <2>1. r = Result([p EXCEPT !.active = NoMessage], << >>, line)
    BY <1>2 DEF onIncomingMessage
  <2>2. line # "none"
    OBVIOUS
  <2> HIDE DEF line
  <2>3. Moves(r, c, cmds)
    BY <2>1, <2>2, ForgetMoves
  <2> QED
    BY <1>2, <2>3
<1>3. CASE p.active # NoMessage /\ type # \hff /\ ~matches
  <2>1. r = Result(p, << >>, "none")
    BY <1>3 DEF onIncomingMessage
  <2>2. PICK k \in Requests(cmds) : Asks(p, c, k)
    BY <1>3 DEF Asking
  <2>3. Answerable(k)
    BY <2>2 DEF ReadsAnswerable, Asks, Follows
  <2>4. /\ p.active.dest = p.dest /\ p.active.type = p.type
        /\ p.active.off = p.off + p.got
    BY <2>2, <2>3, AskedFields
  <2> QED
    BY <1>3, <2>1, <2>4
<1>4. CASE p.active # NoMessage /\ type # \hff /\ matches
  <2>1. PICK k \in Requests(cmds) : Asks(p, c, k)
    BY <1>4 DEF Asking
  <2>2. /\ q \in Parser /\ q.dest = p.dest /\ q.type = p.type /\ q.off = p.off /\ q.raw = p.raw
        /\ q.len = p.len \/ q.got >= q.len
    <3>1. p.got \in Nat /\ p.len \in Nat
      BY DEF Parser
    <3>2. CASE n = 0
      BY <3>1, <3>2 DEF Parser
    <3>3. CASE n # 0
      BY <3>1, <3>3 DEF Parser
    <3> QED
      BY <3>2, <3>3
  <2>3. r = IF q.raw THEN continueRequest(q, c) ELSE handleResponse(q, c, end)
    BY <1>4 DEF onIncomingMessage
  <2> HIDE DEF q, r
  <2>4. Follows(q, k)
    BY <2>1, <2>2 DEF Asks, Follows
  <2>5. Moves(r, c, cmds)
    <3>1. CASE q.raw
      BY <2>2, <2>3, <2>4, <3>1, ContinueMoves
    <3>2. CASE ~q.raw
      BY <2>2, <2>3, <2>4, <3>2, ResponseMoves
    <3> QED
      BY <3>1, <3>2
  <2> QED
    BY <1>4, <2>5 DEF r
<1> QED
  BY <1>1, <1>2, <1>3, <1>4

\* A timeout sends the active request again, or gives up.
LEMMA TimeoutMoves ==
    ASSUME NEW c, NEW cmds, NEW p \in Parser, Asking(p, c, cmds),
           p.active # NoMessage => p.active \in ReadMessage
    PROVE  LET r == onTimeout(p)
           IN  /\ Moves(r, c, cmds) \/ r = Result(p, << >>, "none")
               /\ p.active = NoMessage => r = Result(p, << >>, "none")
               /\ p.active # NoMessage => Moves(r, c, cmds)
<1> DEFINE r == onTimeout(p)
<1>1. CASE p.active = NoMessage
  BY <1>1 DEF onTimeout
<1>2. CASE p.active # NoMessage /\ p.retries = 1
  <2> DEFINE q == [p EXCEPT !.retries = 0, !.active = NoMessage]
  <2>1. r = Result(q, << >>, "ERRTIMEOUT")
    BY <1>2 DEF onTimeout
  <2>2. q.active = NoMessage
    BY DEF Parser
  <2>3. r.p = q /\ r.posted = << >> /\ r.line # "none"
    BY <2>1 DEF Result
  <2> HIDE DEF q, r
  <2>4. Moves(r, c, cmds)
    BY <2>2, <2>3 DEF Moves, Asking
  <2> QED
    BY <1>2, <2>4 DEF r
<1>3. CASE p.active # NoMessage /\ p.retries # 1
  <2> DEFINE q == [p EXCEPT !.retries = @ - 1]
  <2>1. r = Result(q, <<q.active>>, "none")
    BY <1>3 DEF onTimeout, sendActiveRequest
  <2>2. /\ q.active = p.active /\ q.dest = p.dest /\ q.type = p.type /\ q.off = p.off
        /\ q.len = p.len /\ q.got = p.got /\ q.raw = p.raw
    BY DEF Parser
  <2> HIDE DEF q
  <2>3. r.p = q /\ r.posted = <<p.active>> /\ r.line = "none"
    BY <2>1, <2>2 DEF Result
  <2>4. \A k : Asks(p, c, k) => Asks(q, c, k)
    BY <2>2 DEF Asks, Follows
  <2> HIDE DEF r
  <2>5. Moves(r, c, cmds)
    BY <1>3, <2>2, <2>3, <2>4 DEF Moves, Asking
  <2> QED
    BY <1>3, <2>5 DEF r
<1> QED
  BY <1>1, <1>2, <1>3

\* The commands that are answered at once write.
LEMMA AnsweredLater ==
    ASSUME NEW cmds, AllAnswerable(cmds), NEW cmd \in cmds
    PROVE  cmd \notin AnsweredAtOnce
<1>1. \A i \in DOMAIN Calls(cmd) : Calls(cmd)[i].op = "read"
  BY CallsAreRequests DEF AllAnswerable, Answerable
<1>2. CASE cmd = TestMode
  <2>1. TestModeWrite(TestModeOn) \in Requests(cmds)
    BY <1>2 DEF Requests, TestMode
  <2> QED
    BY <2>1 DEF AllAnswerable, Answerable, TestModeWrite, WriteValue
<1>3. CASE cmd = <<"rc", "setcontactinfo">>
  <2>1. Calls(cmd) = <<Write(UI800, \h137, 0), Write(UI800, \h137, 20)>>
    BY <1>3 DEF Calls, RcCommand
  <2> QED
    BY <1>1, <2>1 DEF Write, WriteValue
<1>4. CASE cmd = <<"uba", "resetmaintenanceindicator">>
  <2>1. Calls(cmd) = <<Write(UBA2, \h05, 8)>>
    BY <1>4 DEF Calls, UbaCommand
  <2> QED
    BY <1>1, <2>1 DEF Write, WriteValue
<1>5. CASE cmd = <<"uba", "unlockfault">>
  <2>1. Calls(cmd) = <<Write(UBA2, \h05, 0), Write(UI800, \h05, 0)>>
    BY <1>5 DEF Calls, UbaCommand
  <2> QED
    BY <1>1, <2>1 DEF Write, WriteValue
<1>6. CASE cmd = <<"uba", "testmodeoff">>
  <2>1. Calls(cmd) = <<TestModeWrite(TestModeOff)>>
    BY <1>6 DEF Calls, UbaCommand
  <2> QED
    BY <1>1, <2>1 DEF TestModeWrite, WriteValue
<1> QED
  BY <1>2, <1>3, <1>4, <1>5, <1>6 DEF AnsweredAtOnce, TestMode

\* A command posts reads only, one for each call, the last of which is its
\* active request.
LEMMA ParseMoves ==
    ASSUME NEW c \in Client, NEW cmds, Tabled(c, cmds), AllAnswerable(cmds),
           NEW p, ParserOK(p, c, cmds), p.active = NoMessage, NEW cmd \in cmds
    PROVE  LET r == parse(p, c, cmd)
           IN  /\ Asking(r.p, c, cmds) /\ r.line = "none"
               /\ r.posted \in Seq(ReadMessage) /\ Len(r.posted) = Len(Calls(cmd))
               /\ r.p.active # NoMessage
               /\ r.p.active \in ReadMessage /\ InSeq(r.posted, r.p.active)
<1> DEFINE calls == Calls(cmd)
           n == Len(calls)
           q == testModeCommand(p, cmd)
           ms == [i \in 1 .. n |-> call(q, c, calls[i]).posted[1]]
           r == parse(p, c, cmd)
<1>1. ParserOK(q, c, cmds) /\ q \in Parser /\ q.active = NoMessage
  BY TestModeCommand DEF ParserOK
<1>2. calls \in Seq(Call) /\ n \in Nat /\ calls # << >>
  <2>1. calls \in Seq(Call) /\ calls # << >>
    BY AnsweredLater DEF Tabled
  <2> HIDE DEF calls
  <2> QED
    BY <2>1
<1>3. \A i \in 1 .. n : calls[i] \in Requests(cmds)
  <2>1. \A i \in DOMAIN calls : calls[i] \in Requests(cmds)
    BY CallsAreRequests
  <2> HIDE DEF calls
  <2> QED
    BY <1>2, <2>1
<1> HIDE DEF calls, q
<1>4. /\ r.line = "none"
      /\ r.p = IF calls = << >> THEN q ELSE call(q, c, calls[n]).p
      /\ r.posted = IF n = 1 THEN call(q, c, calls[1]).posted ELSE ms
  BY AnsweredLater DEF parse, Result, calls, q
<1> HIDE DEF r
<1>5. ASSUME NEW i \in 1 .. n
      PROVE  LET t == call(q, c, calls[i])
             IN  /\ Asking(t.p, c, cmds)
                 /\ t.p.active # NoMessage
                 /\ t.p.active \in ReadMessage /\ t.posted = <<t.p.active>>
  <2> DEFINE k == calls[i]
             t == call(q, c, k)
  <2>1. k \in Requests(cmds) /\ k.op = "read"
    BY <1>3 DEF AllAnswerable, Answerable
  <2> HIDE DEF k
  <2>2. t = startRequest(q, c, k.dest, k.type, k.off, k.len, k.raw)
    BY <2>1 DEF call
  <2>3. Moves(t, c, cmds)
    <3>1. ReadsAnswerable(cmds)
      BY DEF AllAnswerable, ReadsAnswerable
    <3> QED
      BY <1>1, <2>1, <2>2, <3>1, StartMoves
  <2>4. t.p.active # NoMessage /\ t.posted = <<t.p.active>>
    BY <1>1, <2>1, CallSends DEF Sends
  <2> HIDE DEF t
  <2> QED
    BY <2>3, <2>4 DEF Moves, t, k
<1> DEFINE last == call(q, c, calls[n])
<1>6. n \in 1 .. n /\ 1 \in 1 .. n
  BY <1>2
<1>7. /\ Asking(last.p, c, cmds) /\ last.p.active # NoMessage
      /\ last.p.active \in ReadMessage /\ last.posted = <<last.p.active>>
  BY <1>5, <1>6
<1>8. \A i \in 1 .. n : ms[i] \in ReadMessage
  <2> TAKE i \in 1 .. n
  <2> DEFINE t == call(q, c, calls[i])
  <2>1. t.p.active \in ReadMessage /\ t.posted = <<t.p.active>>
    BY <1>5
  <2> HIDE DEF t
  <2>2. t.posted[1] \in ReadMessage
    BY <2>1
  <2> QED
    BY <2>2 DEF t
<1>9. ms[n] = last.posted[1]
  BY <1>6
<1>10. ms \in [1 .. n -> ReadMessage]
  BY <1>8
<1>11. r.p = last.p /\ r.posted = IF n = 1 THEN last.posted ELSE ms
  BY <1>2, <1>4
<1> HIDE DEF last, ms, n
<1>12. last.posted[1] = last.p.active
  BY <1>7
<1>13. ms \in Seq(ReadMessage) /\ Len(ms) = n /\ InSeq(ms, last.p.active)
  BY <1>2, <1>6, <1>9, <1>10, <1>12 DEF InSeq
<1>14. /\ last.posted \in Seq(ReadMessage) /\ Len(last.posted) = 1
       /\ InSeq(last.posted, last.p.active)
  BY <1>7, InOne
<1> QED
  BY <1>4, <1>7, <1>11, <1>13, <1>14 DEF r, n, calls

-----------------------------------------------------------------------------
(* The clients in time *)

\* A final line is owed while a request is active, and only then.
Owing(p) == p.owed = IF p.active = NoMessage THEN 0 ELSE 1

\* The parsers a of the connections ask for what they need, and the active
\* request of an open one is queued or keeps the sender busy.
Served(a, g, o, s, b) ==
    \A c \in Client :
        /\ Asking(a[c], c, g[c] \ {HangUp}) /\ Owing(a[c])
        /\ a[c].active # NoMessage =>
              /\ a[c].active \in ReadMessage
              /\ c \in o => Coming(a[c].active, c, s, b)

InTimeIInv == OneAtATime(sender, bus) /\ Served(api, gives, open, sender, bus)

\* What a step from InTimeIInv leads to.
InTimeStep ==
    /\ InTimeIInv'
    /\ sender' = sender \/ Spaced(sender, sender'.out)

LEMMA SameAsking ==
    ASSUME NEW p, NEW q, SameRequest(q, p), NEW c, NEW cmds, Asking(p, c, cmds)
    PROVE  Asking(q, c, cmds)
BY DEF SameRequest, Asking, Asks, Follows

\* Printing a line does not change the request.
LEMMA SettleSame ==
    ASSUME NEW r, r.p \in Parser
    PROVE  SameRequest(Settle(r), r.p)
BY DEF Settle, SameRequest, Parser

\* A final line pays for the command.
LEMMA SettleOwed ==
    ASSUME NEW r, r.p \in Parser, r.p.owed \in 0 .. 1
    PROVE  Settle(r).owed = IF r.line = "none" THEN r.p.owed ELSE r.p.owed - 1
BY DEF Settle, Parser

\* An active request is a message of its connection.
LEMMA ActiveIsOwn ==
    ASSUME ApiIInv, NEW c \in Client, api[c].active # NoMessage
    PROVE  api[c].active \in Message /\ api[c].active.client = c
BY ParsersHere DEF ParserOK, Own

\* The sender moves on, and the parsers stay as they are.
LEMMA StillServed ==
    ASSUME NEW a, NEW g, NEW o, NEW s, NEW b, Served(a, g, o, s, b), NEW u \in SUBSET o,
           NEW t, NEW d,
           \A c \in Client : c \in u /\ a[c].active # NoMessage => Coming(a[c].active, c, t, d)
    PROVE  Served(a, g, u, t, d)
BY DEF Served

\* The sender moves on, and one parser changes.
LEMMA OneServed ==
    ASSUME NEW a \in [Client -> Parser], NEW g, NEW o, NEW s, NEW b, Served(a, g, o, s, b),
           NEW t, NEW d, NEW x \in Client, NEW q,
           \A c \in Client :
              c # x /\ c \in o /\ a[c].active # NoMessage => Coming(a[c].active, c, t, d),
           Asking(q, x, g[x] \ {HangUp}), Owing(q),
           q.active # NoMessage =>
              q.active \in ReadMessage /\ (x \in o => Coming(q.active, x, t, d))
    PROVE  Served([a EXCEPT ![x] = q], g, o, t, d)
<1> DEFINE n == [a EXCEPT ![x] = q]
<1>1. \A c \in Client : n[c] = IF c = x THEN q ELSE a[c]
  OBVIOUS
<1> HIDE DEF n
<1>2. ASSUME NEW c \in Client
      PROVE  /\ Asking(n[c], c, g[c] \ {HangUp}) /\ Owing(n[c])
             /\ n[c].active # NoMessage =>
                   n[c].active \in ReadMessage /\ (c \in o => Coming(n[c].active, c, t, d))
  BY <1>1 DEF Served
<1>3. Served(n, g, o, t, d)
  BY <1>2 DEF Served
<1> QED
  BY <1>3 DEF n

\* All of an event: what was coming before it is coming when it starts.
LEMMA EventHere ==
    ASSUME ApiIInv, InTimeIInv
    PROVE  LET e == event(sender)
           IN  /\ e \in SenderType /\ Alive(e) /\ e.out = << >> /\ e.age = sender.age
               /\ e.current = sender.current /\ e.pending = sender.pending
               /\ OneAtATime(e, bus)
               /\ \A m, c : Coming(m, c, sender, bus) => Coming(m, c, e, bus)
               /\ \A m : Turn(sender, bus, m) => Turn(e, bus, m)
<1> DEFINE e == event(sender)
<1>1. sender \in SenderType /\ Alive(sender) /\ OneAtATime(sender, bus)
  BY DEF ApiIInv, IInv, TypeOK, InTimeIInv
<1>2. /\ e \in SenderType /\ e.current = sender.current /\ e.pending = sender.pending
      /\ e.resp = sender.resp /\ e.send = sender.send /\ e.ready = sender.ready
  BY <1>1, Event
<1>3. /\ e.out = << >> /\ e.age = sender.age /\ OneAtATime(e, bus)
      /\ \A m, c : Coming(m, c, sender, bus) => Coming(m, c, e, bus)
      /\ \A m : Turn(sender, bus, m) => Turn(e, bus, m)
  BY <1>1, EventInTime
<1> HIDE DEF e
<1>4. Alive(e)
  BY <1>1, <1>2 DEF Alive, Armed
<1> QED
  BY <1>2, <1>3, <1>4 DEF e

LEMMA CommandInTime ==
    ASSUME ApiIInv, InTimeReads, InTimeIInv, NEW c \in Client,
           NEW cmd \in gives[c] \ {HangUp}, Command(c, cmd)
    PROVE  InTimeStep
<1> DEFINE cmds == gives[c] \ {HangUp}
           p == [api[c] EXCEPT !.owed = @ + 1]
           r == parse(p, c, cmd)
           q == Settle(r)
<1>1. ParserOK(api[c], c, cmds) /\ Paid(api[c]) /\ api[c] \in Parser /\ Tabled(c, cmds)
  BY ParsersHere
<1>2. /\ api' = [api EXCEPT ![c] = q]
      /\ IF r.posted = << >> THEN UNCHANGED <<sender, bus>>
         ELSE sender' = sendMessage(event(sender), r.posted) /\ bus' = Transmit(bus, sender'.out)
      /\ open' = open /\ gives' = gives
      /\ api[c].active = NoMessage
  BY DEF Command, conns
<1>3. AllAnswerable(cmds)
  BY DEF InTimeReads, AllAnswerable
<1>4. ParserOK(p, c, cmds) /\ p.active = NoMessage /\ p.owed = 1
  <2>1. api[c].owed + 1 \in -1 .. 1
    BY <1>1, <1>2 DEF Parser, Paid
  <2>2. /\ p \in Parser /\ SameRequest(p, api[c])
        /\ p.test = api[c].test /\ p.refresh = api[c].refresh /\ p.owed = api[c].owed + 1
    BY <1>1, <2>1 DEF Parser, SameRequest
  <2>3. api[c].owed = 0
    BY <1>2 DEF InTimeIInv, Served, Owing
  <2> HIDE DEF p
  <2> QED
    BY <1>1, <1>2, <2>2, <2>3, SameRequestOK DEF ParserOK, SameRequest
<1> HIDE DEF p
<1>5. /\ ParserOK(r.p, c, cmds) /\ Asking(r.p, c, cmds)
      /\ r.line = "none" /\ r.p.owed = 1
      /\ r.posted \in Seq(ReadMessage)
      /\ r.p.active # NoMessage
      /\ r.p.active \in ReadMessage /\ InSeq(r.posted, r.p.active)
  BY <1>1, <1>3, <1>4, Parse, ParseMoves
<1> HIDE DEF r
<1>6. SameRequest(q, r.p)
  BY <1>5, SettleSame DEF ParserOK
<1>7. /\ Asking(q, c, cmds) /\ Owing(q) /\ q.active # NoMessage
      /\ q.active \in ReadMessage /\ q.active.client = c /\ InSeq(r.posted, q.active)
  <2>1. q.active = r.p.active /\ q.owed = 1
    BY <1>5, <1>6, SettleOwed DEF ParserOK, SameRequest
  <2>2. Asking(q, c, cmds)
    BY <1>5, <1>6, SameAsking
  <2> QED
    BY <1>5, <2>1, <2>2 DEF ParserOK, Own, Owing
<1> HIDE DEF q
<1>8. api \in [Client -> Parser] /\ Served(api, gives, open, sender, bus)
  BY DEF ApiIInv, Parsers, InTimeIInv
<1>9. r.posted # << >>
  BY <1>7 DEF InSeq
<1> DEFINE e == event(sender)
           t == sendMessage(e, r.posted)
           d == Transmit(bus, t.out)
<1>10. sender' = t /\ bus' = d
  BY <1>2, <1>9
<1>11. /\ e \in SenderType /\ Alive(e) /\ e.out = << >> /\ OneAtATime(e, bus) /\ e.age = sender.age
       /\ \A m, x : Coming(m, x, sender, bus) => Coming(m, x, e, bus)
  BY EventHere
<1> HIDE DEF e
<1>12. /\ InTime(e, t, d)
       /\ \A m \in ReadMessage :
             Coming(m, m.client, e, bus) \/ InSeq(r.posted, m) => Coming(m, m.client, t, d)
  BY <1>5, <1>11, SendInTime
<1> HIDE DEF t, d
<1>13. \A x \in Client : x # c /\ x \in open /\ api[x].active # NoMessage
                           => Coming(api[x].active, x, t, d)
  <2>1. SUFFICES ASSUME NEW x \in Client, x \in open, api[x].active # NoMessage
                 PROVE  Coming(api[x].active, x, t, d)
    OBVIOUS
  <2>2. api[x].active \in ReadMessage /\ Coming(api[x].active, x, sender, bus)
    BY <1>8, <2>1 DEF Served
  <2>3. api[x].active.client = x
    BY <2>1, ActiveIsOwn
  <2> QED
    BY <1>11, <1>12, <2>2, <2>3
<1>14. q.active # NoMessage => q.active \in ReadMessage /\ Coming(q.active, c, t, d)
  BY <1>7, <1>12
<1>15. Served(api', gives, open, t, d)
  BY <1>2, <1>7, <1>8, <1>13, <1>14, OneServed
<1>16. Spaced(sender, t.out)
  BY <1>11, <1>12 DEF InTime, Spaced
<1> QED
  BY <1>2, <1>10, <1>12, <1>15, <1>16 DEF InTimeStep, InTimeIInv, InTime

LEMMA LeaveInTime ==
    ASSUME ApiIInv, InTimeIInv, NEW c \in Client, Leave(c)
    PROVE  InTimeStep
<1> DEFINE q == cancelTestMode(api[c])
<1>1. /\ api' = [api EXCEPT ![c] = q]
      /\ open' = open \ {c} /\ UNCHANGED <<sender, bus, up, gives>>
  BY DEF Leave
<1>2. SameRequest(q, api[c]) /\ q.owed = api[c].owed
  <2>1. ParserOK(api[c], c, gives[c] \ {HangUp})
    BY ParsersHere
  <2> QED
    BY <2>1, CancelTestMode
<1> HIDE DEF q
<1>3. api \in [Client -> Parser] /\ Served(api, gives, open, sender, bus)
  BY DEF ApiIInv, Parsers, InTimeIInv
<1>4. Served(api, gives, open', sender, bus)
  BY <1>1, <1>3 DEF Served
<1>5. Asking(q, c, gives[c] \ {HangUp}) /\ Owing(q)
  <2>1. Asking(api[c], c, gives[c] \ {HangUp}) /\ Owing(api[c])
    BY <1>3 DEF Served
  <2>2. Asking(q, c, gives[c] \ {HangUp})
    BY <1>2, <2>1, SameAsking
  <2> QED
    BY <1>2, <2>1, <2>2 DEF Owing, SameRequest
<1>6. q.active # NoMessage => q.active \in ReadMessage /\ (c \in open' => Coming(q.active, c, sender, bus))
  BY <1>2, <1>4 DEF SameRequest, Served
<1>7. \A x \in Client : x # c /\ x \in open' /\ api[x].active # NoMessage
                           => Coming(api[x].active, x, sender, bus)
  BY <1>4 DEF Served
<1>8. Served(api', gives, open', sender, bus)
  BY <1>1, <1>3, <1>4, <1>5, <1>6, <1>7, OneServed
<1> QED
  BY <1>1, <1>8 DEF InTimeStep, InTimeIInv

\* A callback posts reads only.
LEMMA OutcomePosts ==
    ASSUME NEW c, NEW cmds, NEW r,
           Moves(r, c, cmds) \/ r = Result(api[c], << >>, "none"), NEW o \in Outcomes(c, r)
    PROVE  o.posted \in Seq(ReadMessage)
<1>1. << >> \in Seq(ReadMessage) /\ \A m \in ReadMessage : <<m>> \in Seq(ReadMessage)
  OBVIOUS
<1>2. r.posted \in Seq(ReadMessage)
  <2>1. CASE Moves(r, c, cmds)
    <3>1. r.posted = << >> \/ (r.p.active \in ReadMessage /\ r.posted = <<r.p.active>>)
      BY <2>1 DEF Moves
    <3> QED
      BY <1>1, <3>1
  <2>2. CASE r = Result(api[c], << >>, "none")
    <3>1. r.posted = << >>
      BY <2>2 DEF Result
    <3> QED
      BY <1>1, <3>1
  <2> QED
    BY <2>1, <2>2
<1>3. Result(api[c], << >>, "none").posted = << >>
  BY DEF Result
<1> QED
  BY <1>1, <1>2, <1>3 DEF Outcomes

\* What the current client's callback leads to: the requests of the others are
\* still queued, and its own is, or has just been posted.
LEMMA CallbackServed ==
    ASSUME ApiIInv, InTimeIInv, NEW c \in Client, c = sender.current,
           NEW r, Sound(r, api[c], c, gives[c] \ {HangUp}),
           Moves(r, c, gives[c] \ {HangUp}) \/ r = Result(api[c], << >>, "none"),
           api[c].active = NoMessage => r = Result(api[c], << >>, "none"),
           api[c].active # NoMessage /\ ~InSeq(sender.pending, api[c].active) /\ c \in open
              => Moves(r, c, gives[c] \ {HangUp}),
           NEW o \in Outcomes(c, r), NEW t, NEW d,
           \A x \in ReadMessage :
              InSeq(sender.pending, x) \/ InSeq(o.posted, x) => Coming(x, x.client, t, d)
    PROVE  Served([api EXCEPT ![c] = Settle(o)], gives, open, t, d)
<1> DEFINE cmds == gives[c] \ {HangUp}
           stay == Result(api[c], << >>, "none")
           q == Settle(o)
<1>1. ParserOK(api[c], c, cmds) /\ api[c] \in Parser
  BY ParsersHere
<1>2. Served(api, gives, open, sender, bus) /\ api \in [Client -> Parser]
  BY DEF InTimeIInv, ApiIInv, Parsers
<1>3. stay.p = api[c] /\ stay.posted = << >> /\ stay.line = "none"
  BY DEF Result
<1>4. o = r \/ (o = stay /\ c \notin open)
  BY DEF Outcomes
<1> HIDE DEF stay
<1>5. ParserOK(o.p, c, cmds) /\ o.p.owed = api[c].owed
  BY <1>1, <1>3, <1>4 DEF Sound
<1>6. SameRequest(q, o.p)
  BY <1>5, SettleSame DEF ParserOK
<1>7. Asking(api[c], c, cmds) /\ Owing(api[c]) /\ (api[c].active # NoMessage => api[c].active \in ReadMessage)
  BY <1>2 DEF Served
<1>8. Asking(o.p, c, cmds) /\ (o.p.active # NoMessage => o.p.active \in ReadMessage)
  <2>1. CASE Moves(r, c, cmds) /\ o = r
    BY <2>1 DEF Moves
  <2>2. CASE o = stay
    BY <1>3, <1>7, <2>2
  <2>3. CASE r = stay /\ o = r
    BY <1>3, <1>7, <2>3
  <2> QED
    BY <1>4, <2>1, <2>2, <2>3 DEF stay
<1>9. c \in open /\ o.p.active # NoMessage
         => InSeq(sender.pending, o.p.active) \/ InSeq(o.posted, o.p.active)
  <2>1. SUFFICES ASSUME c \in open, o.p.active # NoMessage
                 PROVE  InSeq(sender.pending, o.p.active) \/ InSeq(o.posted, o.p.active)
    OBVIOUS
  <2>2. o = r
    BY <1>4, <2>1
  <2>3. CASE Moves(r, c, cmds)
    <3>1. r.posted = <<r.p.active>>
      BY <2>1, <2>2, <2>3 DEF Moves
    <3> QED
      BY <2>2, <3>1, InOne
  <2>4. CASE r = stay /\ ~Moves(r, c, cmds)
    BY <1>3, <2>1, <2>2, <2>4
  <2> QED
    BY <2>3, <2>4 DEF stay
<1>10. Asking(q, c, cmds) /\ Owing(q) /\ q.active = o.p.active
  <2>1. api[c].owed \in 0 .. 1
    BY <1>7 DEF Owing
  <2>2. q.owed = IF o.line = "none" THEN api[c].owed ELSE api[c].owed - 1
    BY <1>5, <2>1, SettleOwed DEF ParserOK
  <2>3. Asking(q, c, cmds) /\ q.active = o.p.active
    BY <1>6, <1>8, SameAsking DEF SameRequest
  <2> HIDE DEF q
  <2>4. CASE o = stay
    BY <1>3, <1>7, <2>2, <2>3, <2>4 DEF Owing
  <2>5. CASE o = r /\ r # stay
    <3>1. /\ api[c].active # NoMessage
          /\ r.p.active = NoMessage <=> r.line # "none"
      BY <2>5, SenderAssumption DEF Moves, ReadMessage, stay
    <3> QED
      BY <1>7, <2>2, <2>3, <2>5, <3>1 DEF Owing
  <2> QED
    BY <1>4, <2>4, <2>5
<1> HIDE DEF q
<1>11. q.active # NoMessage => q.active \in ReadMessage /\ (c \in open => Coming(q.active, c, t, d))
  <2>1. q.active # NoMessage => q.active.client = c
    BY <1>5, <1>10 DEF ParserOK, Own
  <2> QED
    BY <1>8, <1>9, <1>10, <2>1
<1>12. \A x \in Client : x # c /\ x \in open /\ api[x].active # NoMessage
                            => Coming(api[x].active, x, t, d)
  <2>1. SUFFICES ASSUME NEW x \in Client, x # c, x \in open, api[x].active # NoMessage
                 PROVE  Coming(api[x].active, x, t, d)
    OBVIOUS
  <2>2. api[x].active \in ReadMessage /\ Coming(api[x].active, x, sender, bus)
    BY <1>2, <2>1 DEF Served
  <2>3. InSeq(sender.pending, api[x].active)
    BY <2>1, <2>2 DEF Coming
  <2>4. api[x].active.client = x
    BY <2>1, ActiveIsOwn
  <2> QED
    BY <2>2, <2>3, <2>4
<1>13. Served([api EXCEPT ![c] = q], gives, open, t, d)
  BY <1>2, <1>10, <1>11, <1>12, OneServed
<1> QED
  BY <1>13 DEF q

LEMMA AnswerMoves ==
    ASSUME ApiIInv, InTimeReads, InTimeIInv, NEW c \in Client,
           NEW m \in ReadMessage, bus = <<m>>, c = sender.current, NEW n \in Nat, NEW end
    PROVE  LET r == onIncomingMessage(api[c], c, m.dest, ReceivedType(m.type, n), m.off, n, end)
               cmds == gives[c] \ {HangUp}
           IN  /\ Sound(r, api[c], c, cmds)
               /\ Moves(r, c, cmds) \/ r = Result(api[c], << >>, "none")
               /\ api[c].active = NoMessage => r = Result(api[c], << >>, "none")
               /\ api[c].active = m => Moves(r, c, cmds)
<1> DEFINE r == onIncomingMessage(api[c], c, m.dest, ReceivedType(m.type, n), m.off, n, end)
           cmds == gives[c] \ {HangUp}
<1>1. ParserOK(api[c], c, cmds) /\ api[c] \in Parser /\ Tabled(c, cmds)
  BY ParsersHere
<1>2. ReadsAnswerable(cmds)
  BY DEF InTimeReads, ReadsAnswerable
<1>3. Asking(api[c], c, cmds)
  BY DEF InTimeIInv, Served
<1>4. ReceivedType(m.type, n) \in {m.type, \hff}
  BY DEF ReceivedType
<1>5. m # NoMessage
  BY SenderAssumption DEF ReadMessage
<1>6. Sound(r, api[c], c, cmds)
  BY <1>1, OnIncomingMessage
<1>7. /\ Moves(r, c, cmds) \/ r = Result(api[c], << >>, "none")
      /\ api[c].active = NoMessage => r = Result(api[c], << >>, "none")
      /\ /\ api[c].active # NoMessage
         /\ m.dest = api[c].active.dest /\ m.off = api[c].active.off
         /\ ReceivedType(m.type, n) \in {api[c].active.type, \hff}
         => Moves(r, c, cmds)
  BY <1>1, <1>2, <1>3, IncomingMoves
<1> HIDE DEF r
<1>8. api[c].active = m => Moves(r, c, cmds)
  BY <1>4, <1>5, <1>7
<1> QED
  BY <1>6, <1>7, <1>8 DEF r

\* With answers in time there is one request on the bus, of the current client.
LEMMA OneOnBus ==
    ASSUME NEW s, NEW b, OneAtATime(s, b), b # << >>
    PROVE  s.current # NoClient /\ \E m \in ReadMessage : m.client = s.current /\ b = <<m>>
BY DEF OneAtATime, Turn, InTimer, AboutToSend, Unanswered, TimedOut

LEMMA AnswerStepInTime ==
    ASSUME ApiIInv, InTimeReads, InTimeIInv, NEW i \in DOMAIN bus,
           NEW n \in AnswerSizes(bus[i]), NEW end, Answer(i, n, end)
    PROVE  InTimeStep
<1> DEFINE c == sender.current
<1>1. bus # << >> /\ OneAtATime(sender, bus)
  BY DEF InTimeIInv
<1>2. PICK m \in ReadMessage : m.client = c /\ bus = <<m>>
  BY <1>1, OneOnBus
<1>3. c # NoClient /\ c \in Client
  BY <1>1, OneOnBus DEF ApiIInv, IInv, TypeOK, SenderType
<1>4. i = 1 /\ bus[i] = m /\ Len(bus) = 1
  BY <1>2
<1>5. SubSeq(bus, 1, i - 1) \o SubSeq(bus, i + 1, Len(bus)) = << >>
  <2>1. SubSeq(bus, 1, 0) = << >> /\ SubSeq(bus, 2, 1) = << >>
    BY <1>2
  <2> QED
    BY <1>4, <2>1
<1>6. n \in Nat
  <2>1. m.val \in Nat /\ TelegramData \in Nat
    BY ApiAssumption DEF ReadMessage
  <2> QED
    BY <1>4, <2>1 DEF AnswerSizes
<1> DEFINE r == onIncomingMessage(api[c], c, m.dest, ReceivedType(m.type, n), m.off, n, end)
           cmds == gives[c] \ {HangUp}
<1>7. PICK o \in Outcomes(c, r) :
         /\ sender' = handlePcMessage(event(sender), m.dest, o.posted)
         /\ api' = [api EXCEPT ![c] = Settle(o)]
  BY <1>3, <1>4 DEF Answer
<1>8. bus' = Transmit(<< >>, sender'.out) /\ open' = open /\ gives' = gives
  BY <1>5 DEF Answer, conns
<1>9. /\ Sound(r, api[c], c, cmds)
      /\ Moves(r, c, cmds) \/ r = Result(api[c], << >>, "none")
      /\ api[c].active = NoMessage => r = Result(api[c], << >>, "none")
      /\ api[c].active = m => Moves(r, c, cmds)
  BY <1>2, <1>3, <1>6, AnswerMoves
<1> HIDE DEF r
<1>10. o.posted \in Seq(ReadMessage)
  BY <1>9, OutcomePosts
<1> DEFINE e == event(sender)
           t == handlePcMessage(e, m.dest, o.posted)
           d == Transmit(<< >>, t.out)
<1>11. /\ e \in SenderType /\ e.out = << >> /\ OneAtATime(e, <<m>>) /\ e.age = sender.age
       /\ e.pending = sender.pending
       /\ \A x : Turn(sender, <<m>>, x) => Turn(e, <<m>>, x)
  BY <1>2, EventHere
<1> HIDE DEF e
<1>12. /\ \A x : Turn(e, <<m>>, x) => x = m
       /\ InTime(e, t, d)
       /\ \A x \in ReadMessage : InSeq(e.pending, x) \/ InSeq(o.posted, x) => Coming(x, x.client, t, d)
  BY <1>10, <1>11, AnswerInTime
<1>13. sender' = t /\ bus' = d
  BY <1>7, <1>8 DEF e
<1> HIDE DEF t, d
\* An open client that is current and not queued waits for the answer.
<1>14. api[c].active # NoMessage /\ ~InSeq(sender.pending, api[c].active) /\ c \in open
          => Moves(r, c, cmds)
  <2>1. Served(api, gives, open, sender, <<m>>)
    BY <1>2 DEF InTimeIInv
  <2> QED
    BY <1>3, <1>9, <1>11, <1>12, <2>1 DEF Served, Coming
<1>15. Served([api EXCEPT ![c] = Settle(o)], gives, open, t, d)
  BY <1>3, <1>9, <1>11, <1>12, <1>14, CallbackServed
<1>16. Spaced(sender, t.out)
  BY <1>11, <1>12 DEF InTime, Spaced
<1> QED
  BY <1>7, <1>8, <1>12, <1>13, <1>15, <1>16 DEF InTimeStep, InTimeIInv, InTime

LEMMA RunHandlerInTime ==
    ASSUME ApiIInv, InTimeReads, InTimeIInv, ApiRunHandler
    PROVE  InTimeStep
<1> DEFINE c == sender.current
           h == Head(sender.ready).kind
<1>1. sender.ready # << >> /\ sender \in SenderType /\ OneAtATime(sender, bus)
  BY DEF ApiRunHandler, InTimeIInv, ApiIInv, IInv, TypeOK
<1>2. c # NoClient /\ c \in Client
  BY <1>1, ReadyInTime DEF SenderType
<1>3. bus' = Transmit(bus, sender'.out) /\ open' = open /\ gives' = gives
  BY DEF ApiRunHandler, conns
<1>4. Served(api, gives, open, sender, bus)
  BY DEF InTimeIInv
<1>5. CASE h = "send"
  <2> DEFINE t == runHandler(sender, << >>)
             d == Transmit(bus, t.out)
  <2>1. ~HandlerCallsClient(sender)
    BY <1>5 DEF HandlerCallsClient
  <2>2. sender' = t /\ api' = api /\ bus' = d
    BY <1>3, <2>1 DEF ApiRunHandler
  <2>3. /\ InTime(sender, t, d)
        /\ \A m \in ReadMessage :
              Coming(m, m.client, sender, bus) => Coming(m, m.client, t, d)
    BY <1>1, <1>5, DelayedInTime
  <2> HIDE DEF t, d
  <2>4. \A x \in Client : x \in open /\ api[x].active # NoMessage => Coming(api[x].active, x, t, d)
    BY <1>4, <2>3, ActiveIsOwn DEF Served
  <2>5. Served(api, gives, open, t, d)
    BY <1>4, <2>4, StillServed
  <2> QED
    BY <1>3, <2>2, <2>3, <2>5 DEF InTimeStep, InTimeIInv, InTime
<1>6. CASE h # "send"
  <2> DEFINE r == onTimeout(api[c])
             cmds == gives[c] \ {HangUp}
  <2>1. << >> \in Seq(ReadMessage)
    OBVIOUS
  <2>2. h = "timeout"
    BY <1>1, <1>6, <2>1, TimeoutInTime
  <2>3. PICK o \in Outcomes(c, r) :
           /\ sender' = runHandler(sender, o.posted)
           /\ api' = [api EXCEPT ![c] = Settle(o)]
    BY <1>2, <2>2 DEF ApiRunHandler, HandlerCallsClient
  <2>4. ParserOK(api[c], c, cmds) /\ api[c] \in Parser
    BY <1>2, ParsersHere
  <2>5. Sound(r, api[c], c, cmds)
    BY <1>2, <2>4, OnTimeout
  <2>6. Asking(api[c], c, cmds) /\ (api[c].active # NoMessage => api[c].active \in ReadMessage)
    BY <1>2, <1>4 DEF Served
  <2>7. /\ Moves(r, c, cmds) \/ r = Result(api[c], << >>, "none")
        /\ api[c].active = NoMessage => r = Result(api[c], << >>, "none")
        /\ api[c].active # NoMessage => Moves(r, c, cmds)
    BY <2>4, <2>6, TimeoutMoves
  <2> HIDE DEF r
  <2>8. o.posted \in Seq(ReadMessage)
    BY <2>7, OutcomePosts
  <2> DEFINE t == runHandler(sender, o.posted)
             d == Transmit(bus, t.out)
  <2>9. /\ InTime(sender, t, d)
        /\ \A m \in ReadMessage :
              InSeq(sender.pending, m) \/ InSeq(o.posted, m) => Coming(m, m.client, t, d)
    BY <1>1, <1>6, <2>8, TimeoutInTime
  <2>10. sender' = t /\ bus' = d
    BY <1>3, <2>3
  <2> HIDE DEF t, d
  <2>11. Served([api EXCEPT ![c] = Settle(o)], gives, open, t, d)
    BY <1>2, <2>5, <2>7, <2>9, CallbackServed
  <2> QED
    BY <1>3, <2>3, <2>9, <2>10, <2>11 DEF InTimeStep, InTimeIInv, InTime
<1> QED
  BY <1>5, <1>6

LEMMA ReactorStepInTime ==
    ASSUME ApiIInv, InTimeReads, InTimeIInv, ApiReactor
    PROVE  InTimeStep
<1>1. PICK hs \in ExpiredWaits(sender) : sender' = reactorPass(sender, hs)
  BY DEF ApiReactor
<1>2. /\ bus' = (IF ResponseDue(sender) THEN << >> ELSE bus)
      /\ api' = api /\ open' = open /\ gives' = gives
  BY DEF ApiReactor, conns, InTimeReads
<1> DEFINE t == reactorPass(sender, hs)
           d == IF ResponseDue(sender) THEN << >> ELSE bus
<1>3. sender \in SenderType /\ OneAtATime(sender, bus) /\ Served(api, gives, open, sender, bus)
  BY DEF InTimeIInv, ApiIInv, IInv, TypeOK
<1>4. /\ InTime(sender, t, d)
      /\ \A m, c : Coming(m, c, sender, bus) => Coming(m, c, t, d)
  BY <1>3, ReactorInTime
<1>5. sender' = t /\ bus' = d
  BY <1>1, <1>2
<1> HIDE DEF t, d
<1>6. Served(api, gives, open, t, d)
  <2>1. \A x \in Client : x \in open /\ api[x].active # NoMessage => Coming(api[x].active, x, t, d)
    BY <1>3, <1>4 DEF Served
  <2> QED
    BY <1>3, <2>1, StillServed
<1> QED
  BY <1>2, <1>4, <1>5, <1>6 DEF InTimeStep, InTimeIInv, InTime

LEMMA TickInTime ==
    ASSUME ApiIInv, InTimeIInv, ApiTick
    PROVE  InTimeStep
<1> DEFINE t == elapse(sender)
<1>1. sender' = t /\ bus' = bus /\ api' = api /\ open' = open /\ gives' = gives
  BY DEF ApiTick, conns
<1>2. sender \in SenderType /\ OneAtATime(sender, bus) /\ Served(api, gives, open, sender, bus)
  BY DEF InTimeIInv, ApiIInv, IInv, TypeOK
<1>3. /\ InTime(sender, t, bus)
      /\ \A m \in ReadMessage : Coming(m, m.client, sender, bus) => Coming(m, m.client, t, bus)
  BY <1>2, ElapseInTime
<1> HIDE DEF t
<1>4. \A x \in Client : x \in open /\ api[x].active # NoMessage => Coming(api[x].active, x, t, bus)
  BY <1>2, <1>3, ActiveIsOwn DEF Served
<1>5. Served(api, gives, open, t, bus)
  BY <1>2, <1>4, StillServed
<1> QED
  BY <1>1, <1>3, <1>5 DEF InTimeStep, InTimeIInv, InTime

\* No test mode is ever on.
LEMMA NoTestMode ==
    ASSUME ApiIInv, InTimeReads, NEW c \in Client
    PROVE  api[c].test = "off" /\ ~(api[c].refresh > 0)
<1>1. TestMode \notin gives[c] \ {HangUp}
  <2>1. SUFFICES ASSUME TestMode \in gives[c] \ {HangUp} PROVE FALSE
    OBVIOUS
  <2>2. TestModeWrite(TestModeOn) \in Requests(gives[c] \ {HangUp})
    BY <2>1 DEF Requests, TestMode
  <2>3. Answerable(TestModeWrite(TestModeOn))
    BY <2>2 DEF InTimeReads
  <2> QED
    BY <2>3 DEF Answerable, TestModeWrite, WriteValue
<1> QED
  BY <1>1, ParsersHere DEF ParserOK

\* Nothing is lost on the bus either.
LEMMA NextInTime ==
    ASSUME ApiIInv, InTimeReads, InTimeIInv, [ApiNext]_vars
    PROVE  InTimeStep /\ InTimeReads'
<1>1. gives' = gives
  BY DEF ApiNext, Command, Leave, Answer, Lose, ApiReactor, ApiRunHandler, TestModeDue,
         RefreshTestMode, StaleCallback, ApiTick, Ended, vars, conns
<1>2. InTimeReads'
  BY <1>1 DEF InTimeReads
<1> SUFFICES InTimeStep
  BY <1>2
<1>3. ASSUME UNCHANGED <<sender, bus, api, open>> PROVE InTimeStep
  BY <1>1, <1>3 DEF InTimeStep, InTimeIInv
<1>4. \A c \in Client : api[c].test = "off" /\ ~(api[c].refresh > 0)
  BY NoTestMode
<1>5. CASE \E c \in Client : \E cmd \in gives[c] \ {HangUp} : Command(c, cmd)
  BY <1>5, CommandInTime
<1>6. CASE \E c \in Client : Leave(c)
  BY <1>6, LeaveInTime
<1>7. CASE \E i \in DOMAIN bus : \E n \in AnswerSizes(bus[i]), end \in BOOLEAN : Answer(i, n, end)
  BY <1>7, AnswerStepInTime
<1>8. CASE \E i \in DOMAIN bus : Lose(i)
  BY <1>8 DEF Lose, InTimeReads
<1>9. CASE ApiReactor
  BY <1>9, ReactorStepInTime
<1>10. CASE ApiRunHandler
  BY <1>10, RunHandlerInTime
<1>11. CASE \E c \in Client : TestModeDue(c) \/ RefreshTestMode(c)
  BY <1>4, <1>11 DEF TestModeDue, RefreshTestMode
<1>12. CASE StaleCallback
  BY <1>3, <1>12 DEF StaleCallback
<1>13. CASE ApiTick
  BY <1>13, TickInTime
<1>14. CASE UNCHANGED vars
  BY <1>3, <1>14 DEF vars, conns
<1> QED
  BY <1>5, <1>6, <1>7, <1>8, <1>9, <1>10, <1>11, <1>12, <1>13, <1>14 DEF ApiNext, Ended

LEMMA InitInTime == ApiInit => InTimeIInv
<1> SUFFICES ASSUME ApiInit PROVE InTimeIInv
  OBVIOUS
<1>1. << >> \in Seq(ReadMessage)
  OBVIOUS
<1>2. /\ IdleSender.current = NoClient /\ IdleSender.pending = << >> /\ IdleSender.ready = << >>
      /\ ~IdleSender.send.on /\ ~IdleSender.resp.on /\ Rested(IdleSender)
  BY IdleRests DEF IdleSender, NoSend, NoWait
<1>3. OneAtATime(sender, bus)
  BY <1>1, <1>2 DEF ApiInit, OneAtATime, Idle
<1>4. \A c \in Client : api[c].active = NoMessage
  BY DEF ApiInit, NewParser
<1>5. \A c \in Client : api[c].owed = 0
  BY DEF ApiInit, NewParser
<1>6. Served(api, gives, open, sender, bus)
  BY <1>4, <1>5 DEF Served, Asking, Owing
<1> QED
  BY <1>3, <1>6 DEF InTimeIInv

-----------------------------------------------------------------------------
(* What holds for reads answered in time *)

\* The next answer belongs to the request that is at most one on the bus,
THEOREM ReadsReachTheAsker == ApiSpec /\ InTimeReads => []AnswersReachTheAsker
<1>1. InTimeIInv => AnswersReachTheAsker
  <2> SUFFICES ASSUME InTimeIInv PROVE AnswersReachTheAsker
    OBVIOUS
  <2>1. OneAtATime(sender, bus)
    BY DEF InTimeIInv
  <2>2. CASE bus = << >>
    BY <2>2 DEF AnswersReachTheAsker
  <2>3. CASE bus # << >>
    <3>1. PICK m \in ReadMessage : m.client = sender.current /\ bus = <<m>>
      BY <2>1, <2>3, OneOnBus
    <3>2. Len(bus) = 1 /\ \A i \in DOMAIN bus : i = 1 /\ bus[i] = m
      BY <3>1
    <3> QED
      BY <3>1, <3>2 DEF AnswersReachTheAsker
  <2> QED
    BY <2>2, <2>3
<1>2. ApiIInv /\ InTimeReads /\ InTimeIInv /\ [ApiNext]_vars => InTimeIInv' /\ InTimeReads'
  BY NextInTime DEF InTimeStep
<1> QED
  BY <1>1, <1>2, InitApi, NextApi, InitInTime, PTL DEF ApiSpec

\* an open connection whose request is active is served or queued, so that it
\* does not answer ERRBUSY for good,
THEOREM ReadsNotForgotten == ApiSpec /\ InTimeReads => []NoForgottenRequest
<1>1. ApiIInv /\ InTimeIInv => NoForgottenRequest
  <2> SUFFICES ASSUME ApiIInv, InTimeIInv, NEW c \in open, api[c].active # NoMessage
               PROVE  sender.current = c \/ Waiting(c)
    BY DEF NoForgottenRequest
  <2>1. c \in Client
    BY DEF ApiIInv
  <2>2. Coming(api[c].active, c, sender, bus)
    BY <2>1 DEF InTimeIInv, Served
  <2>3. api[c].active.client = c
    BY <2>1, ActiveIsOwn
  <2> QED
    BY <2>2, <2>3 DEF Coming, InSeq, Waiting
<1>2. ApiIInv /\ InTimeReads /\ InTimeIInv /\ [ApiNext]_vars => InTimeIInv' /\ InTimeReads'
  BY NextInTime DEF InTimeStep
<1> QED
  BY <1>1, <1>2, InitApi, NextApi, InitInTime, PTL DEF ApiSpec

\* and no device is asked within MinDistance of the last exchange with it: here
\* nothing is written, and a device is asked at the address it answers from.
THEOREM ReadsSpaced == ApiSpec /\ InTimeReads => RequestsSpaced
<1>1. ApiIInv /\ InTimeReads /\ InTimeIInv /\ [ApiNext]_vars => InTimeIInv' /\ InTimeReads'
  BY NextInTime DEF InTimeStep
<1>2. ApiIInv /\ InTimeReads /\ InTimeIInv /\ [ApiNext]_vars => [Spaced(sender, sender'.out)]_sender
  BY NextInTime DEF InTimeStep
<1>3. [Spaced(sender, sender'.out)]_sender
         => [\A i \in DOMAIN sender'.out :
               \A a \in {sender'.out[i].dest, WriteTo(sender'.out[i].dest)} \cap Addr :
                  sender.age[a] >= MinDistance]_sender
  BY DEF Spaced
<1> QED
  BY <1>1, <1>2, <1>3, InitApi, NextApi, InitInTime, PTL DEF ApiSpec, RequestsSpaced

-----------------------------------------------------------------------------
(* Every command is answered once                                          *)
(*                                                                         *)
(* A connection that goes away leaves its requests in the sender's queue.  *)
(* As long as commands make one request each, a connection whose turn has  *)
(* come was destroyed only if its command was not yet answered.            *)

\* A client that may hang up gives commands that make one request each.
OneRequestEach ==
    \A c \in Client : HangUp \in gives[c] =>
        \A cmd \in gives[c] \ {HangUp} : Len(Calls(cmd)) <= 1

\* Queue q holds a message of client c; it holds one at most.
Has(q, c) == \E i \in DOMAIN q : q[i].client = c
Once(q, c) == \A i, j \in DOMAIN q : q[i].client = c /\ q[j].client = c => i = j

\* The sender has at most one request of client c; it has one.
Single(s, c) == Once(s.pending, c) /\ (s.current = c => ~Has(s.pending, c))
Holds(s, c) == s.current = c \/ Has(s.pending, c)

\* What the sender holds for a client that may hang up is its active request.
SinglyAsked(a, g, s) ==
    \A c \in Client : HangUp \in g[c] =>
        Single(s, c) /\ (Holds(s, c) => a[c].active # NoMessage)

OnceIInv ==
    /\ SinglyAsked(api, gives, sender)
    /\ \A c \in Client \ open : HangUp \in gives[c]

LEMMA BurstOf ==
    ASSUME NEW c, NEW ms \in Burst(c)
    PROVE  ms \in Seq(Message) /\ \A i \in DOMAIN ms : ms[i].client = c
BY BoundAssumption DEF Burst

LEMMA OnceOfConcat ==
    ASSUME NEW a \in Seq(Message), NEW b \in Seq(Message), NEW c
    PROVE  /\ Has(a \o b, c) <=> Has(a, c) \/ Has(b, c)
           /\ Once(a, c) /\ Once(b, c) /\ ~(Has(a, c) /\ Has(b, c)) => Once(a \o b, c)
<1> DEFINE q == a \o b
<1>1. /\ Len(q) = Len(a) + Len(b) /\ DOMAIN q = 1 .. Len(q)
      /\ DOMAIN a = 1 .. Len(a) /\ DOMAIN b = 1 .. Len(b)
      /\ Len(a) \in Nat /\ Len(b) \in Nat
  OBVIOUS
<1>2. \A i \in DOMAIN q : q[i] = IF i <= Len(a) THEN a[i] ELSE b[i - Len(a)]
  OBVIOUS
<1> HIDE DEF q
<1>3. ASSUME NEW i \in DOMAIN q
      PROVE  (i <= Len(a) => i \in DOMAIN a) /\ (~(i <= Len(a)) => i - Len(a) \in DOMAIN b)
  BY <1>1
<1>4. Has(q, c) => Has(a, c) \/ Has(b, c)
  BY <1>2, <1>3 DEF Has
<1>5. Has(a, c) \/ Has(b, c) => Has(q, c)
  <2>1. \A i \in DOMAIN a : i \in DOMAIN q /\ q[i] = a[i]
    BY <1>1, <1>2
  <2>2. \A i \in DOMAIN b : i + Len(a) \in DOMAIN q /\ q[i + Len(a)] = b[i]
    BY <1>1, <1>2
  <2> QED
    BY <2>1, <2>2 DEF Has
<1>6. ASSUME Once(a, c), Once(b, c), ~(Has(a, c) /\ Has(b, c)),
             NEW i \in DOMAIN q, NEW j \in DOMAIN q, q[i].client = c, q[j].client = c
      PROVE  i = j
  <2>1. CASE i <= Len(a) /\ j <= Len(a)
    BY <1>2, <1>3, <1>6, <2>1 DEF Once
  <2>2. CASE ~(i <= Len(a)) /\ ~(j <= Len(a))
    <3>1. i - Len(a) = j - Len(a)
      BY <1>2, <1>3, <1>6, <2>2 DEF Once
    <3> QED
      BY <1>1, <3>1
  <2>3. CASE (i <= Len(a)) # (j <= Len(a))
    BY <1>2, <1>3, <1>6, <2>3 DEF Has
  <2> QED
    BY <2>1, <2>2, <2>3
<1>7. Once(a, c) /\ Once(b, c) /\ ~(Has(a, c) /\ Has(b, c)) => Once(q, c)
  BY <1>6 DEF Once
<1> QED
  BY <1>4, <1>5, <1>7 DEF q

LEMMA OnceOfTail ==
    ASSUME NEW q \in Seq(Message), q # << >>, NEW c
    PROVE  /\ Has(q, c) <=> Head(q).client = c \/ Has(Tail(q), c)
           /\ Once(q, c) => Once(Tail(q), c) /\ (Head(q).client = c => ~Has(Tail(q), c))
<1> DEFINE r == Tail(q)
<1>1. /\ Len(r) = Len(q) - 1 /\ DOMAIN r = 1 .. Len(r) /\ DOMAIN q = 1 .. Len(q)
      /\ Len(q) \in Nat /\ Len(q) > 0 /\ Head(q) = q[1]
      /\ \A i \in DOMAIN r : r[i] = q[i + 1]
  OBVIOUS
<1> HIDE DEF r
<1>2. \A i \in DOMAIN r : i + 1 \in DOMAIN q
  BY <1>1
<1>3. \A i \in DOMAIN q : i = 1 \/ (i - 1 \in DOMAIN r /\ r[i - 1] = q[i])
  BY <1>1
<1>4. 1 \in DOMAIN q
  BY <1>1
<1>5. Has(q, c) <=> q[1].client = c \/ Has(r, c)
  BY <1>1, <1>2, <1>3, <1>4 DEF Has
<1>6. ASSUME Once(q, c) PROVE Once(r, c) /\ (q[1].client = c => ~Has(r, c))
  <2>1. ASSUME NEW i \in DOMAIN r, NEW j \in DOMAIN r, r[i].client = c, r[j].client = c
        PROVE  i = j
    <3>1. i + 1 = j + 1
      BY <1>1, <1>2, <1>6, <2>1 DEF Once
    <3> QED
      BY <1>1, <3>1
  <2>2. ASSUME q[1].client = c, NEW i \in DOMAIN r, r[i].client = c PROVE FALSE
    <3>1. i + 1 = 1
      BY <1>1, <1>2, <1>4, <1>6, <2>2 DEF Once
    <3> QED
      BY <1>1, <3>1
  <2> QED
    BY <2>1, <2>2 DEF Once, Has
<1> QED
  BY <1>1, <1>5, <1>6 DEF r

LEMMA OnceShort ==
    ASSUME NEW q \in Seq(Message), Len(q) <= 1, NEW c
    PROVE  Once(q, c)
BY DEF Once

\* The first message of the queue decides whose turn is next.
LEMMA NextCurrent ==
    ASSUME NEW s \in SenderType
    PROVE  LET t == continueWithNextRequest(s)
           IN  /\ s.pending = << >> => t.current = NoClient /\ t.pending = << >>
               /\ s.pending # << >> =>
                     t.current = Head(s.pending).client /\ t.pending = Tail(s.pending)
<1> DEFINE t == continueWithNextRequest(s)
<1>1. CASE s.pending = << >>
  <2>1. t = [s EXCEPT !.current = NoClient]
    BY <1>1 DEF continueWithNextRequest
  <2> QED
    BY <1>1, <2>1 DEF SenderType
<1>2. CASE s.pending # << >>
  <2> DEFINE m == Head(s.pending)
             u == [s EXCEPT !.current = m.client, !.pending = Tail(s.pending)]
  <2>1. m \in Message /\ Tail(s.pending) \in Seq(Message)
    BY <1>2 DEF SenderType
  <2>2. m.client \in Client
    BY <2>1, SenderAssumption
  <2>3. u \in SenderType /\ u.current = m.client /\ u.pending = Tail(s.pending)
    BY <2>1, <2>2 DEF SenderType
  <2>4. t = sendRequest(u, m)
    BY <1>2 DEF continueWithNextRequest
  <2> HIDE DEF u
  <2>5. t.current = u.current /\ t.pending = u.pending
    BY <2>1, <2>3, <2>4, SendRequest
  <2> QED
    BY <1>2, <2>3, <2>5
<1> QED
  BY <1>1, <1>2

LEMMA NextOnce ==
    ASSUME NEW s \in SenderType, NEW c \in Client, Once(s.pending, c)
    PROVE  LET t == continueWithNextRequest(s)
           IN  Single(t, c) /\ (Holds(t, c) => Has(s.pending, c))
<1> DEFINE t == continueWithNextRequest(s)
<1>1. s.pending \in Seq(Message)
  BY DEF SenderType
<1>2. /\ s.pending = << >> => t.current = NoClient /\ t.pending = << >>
      /\ s.pending # << >> => t.current = Head(s.pending).client /\ t.pending = Tail(s.pending)
  BY NextCurrent
<1> HIDE DEF t
<1>3. s.pending = << >> => Single(t, c) /\ ~Holds(t, c)
  <2>1. c # NoClient
    BY SenderAssumption
  <2>2. Once(<< >>, c) /\ ~Has(<< >>, c)
    BY DEF Once, Has
  <2> QED
    BY <1>2, <2>1, <2>2 DEF Single, Holds
<1>4. s.pending # << >> => Single(t, c) /\ (Holds(t, c) => Has(s.pending, c))
  BY <1>1, <1>2, OnceOfTail DEF Single, Holds
<1> QED
  BY <1>3, <1>4 DEF t

\* The turn of the current client ends, whose callback has posted ms.
LEMMA TurnOnce ==
    ASSUME NEW s \in SenderType, NEW ms \in Seq(Message),
           \A i \in DOMAIN ms : ms[i].client = s.current,
           NEW c \in Client, Single(s, c), c = s.current => Len(ms) <= 1
    PROVE  LET t == continueWithNextRequest(enqueue(s, ms))
           IN  /\ Single(t, c)
               /\ Holds(t, c) => IF c = s.current THEN ms # << >> ELSE Holds(s, c)
<1> DEFINE e == enqueue(s, ms)
           t == continueWithNextRequest(e)
<1>1. e \in SenderType /\ e.pending = s.pending \o ms
  BY Enqueue
<1>2. s.pending \in Seq(Message)
  BY DEF SenderType
<1> HIDE DEF e
<1>3. Has(ms, c) => c = s.current /\ ms # << >>
  BY DEF Has
<1>4. Once(ms, c)
  <2>1. CASE c = s.current
    BY <2>1, OnceShort
  <2>2. CASE c # s.current
    BY <2>2 DEF Once
  <2> QED
    BY <2>1, <2>2
<1>5. Once(e.pending, c) /\ (Has(e.pending, c) <=> Has(s.pending, c) \/ Has(ms, c))
  BY <1>1, <1>2, <1>3, <1>4, OnceOfConcat DEF Single
<1>6. Single(t, c) /\ (Holds(t, c) => Has(e.pending, c))
  BY <1>1, <1>5, NextOnce
<1> HIDE DEF t
<1>7. Holds(t, c) => IF c = s.current THEN ms # << >> ELSE Holds(s, c)
  BY <1>3, <1>5, <1>6 DEF Single, Holds
<1> QED
  BY <1>6, <1>7 DEF t, e

\* Client x posts ms.
LEMMA SendOnce ==
    ASSUME NEW s \in SenderType, Alive(s), NEW ms \in Seq(Message), NEW x \in Client,
           \A i \in DOMAIN ms : ms[i].client = x,
           NEW c \in Client, Single(s, c), c = x => ~Holds(s, c) /\ Len(ms) <= 1
    PROVE  LET t == sendMessage(s, ms)
           IN  Single(t, c) /\ (c # x /\ Holds(t, c) => Holds(s, c))
<1> DEFINE t == sendMessage(s, ms)
<1>1. s.pending \in Seq(Message)
  BY DEF SenderType
<1>2. CASE s.current = NoClient /\ ms # << >>
  <2> DEFINE h == Head(ms)
             e == enqueue(s, <<h>>)
             n == continueWithNextRequest(e)
  <2>1. h \in Message /\ Tail(ms) \in Seq(Message) /\ <<h>> \in Seq(Message) /\ h.client = x
    BY <1>2
  <2>2. s.pending = << >>
    BY <1>2 DEF Alive
  <2> HIDE DEF h
  <2>3. e \in SenderType /\ e.pending = s.pending \o <<h>>
    BY <2>1, Enqueue
  <2> HIDE DEF e
  <2>4. e.pending = <<h>>
    BY <2>1, <2>2, <2>3
  <2>5. e.pending # << >> /\ Head(e.pending) = h /\ Tail(e.pending) = << >>
    BY <2>1, <2>4
  <2>6. n.current = x /\ n.pending = << >> /\ n \in SenderType
    BY <2>1, <2>3, <2>5, NextCurrent, ContinueWithNextRequest
  <2>7. t = enqueue(n, Tail(ms))
    BY <1>2 DEF sendMessage, h, e
  <2> HIDE DEF n
  <2> HIDE DEF t
  <2>8. t.current = x /\ t.pending = n.pending \o Tail(ms)
    BY <2>1, <2>6, <2>7, Enqueue
  <2>9. t.pending = Tail(ms)
    BY <2>1, <2>6, <2>8
  <2>10. c = x => Single(t, c)
    <3>1. SUFFICES ASSUME c = x PROVE Single(t, c)
      OBVIOUS
    <3>2. Tail(ms) = << >>
      BY <1>2, <3>1
    <3>3. Once(<< >>, c) /\ ~Has(<< >>, c)
      BY DEF Once, Has
    <3> QED
      BY <2>9, <3>2, <3>3 DEF Single
  <2>11. c # x => Single(t, c) /\ ~Holds(t, c)
    <3>1. SUFFICES ASSUME c # x PROVE Single(t, c) /\ ~Holds(t, c)
      OBVIOUS
    <3>2. \A i \in DOMAIN Tail(ms) : Tail(ms)[i].client = x
      BY <1>2
    <3>3. Once(Tail(ms), c) /\ ~Has(Tail(ms), c)
      BY <3>1, <3>2 DEF Once, Has
    <3> QED
      BY <2>8, <2>9, <3>1, <3>3 DEF Single, Holds
  <2> QED
    BY <2>10, <2>11 DEF t
<1>3. CASE ~(s.current = NoClient /\ ms # << >>)
  <2>1. t = enqueue(s, ms)
    BY <1>3 DEF sendMessage
  <2>2. t.current = s.current /\ t.pending = s.pending \o ms
    BY <2>1, Enqueue
  <2> HIDE DEF t
  <2>3. Has(ms, c) => c = x
    BY DEF Has
  <2>4. Once(ms, c)
    <3>1. CASE c = x
      BY <3>1, OnceShort
    <3>2. CASE c # x
      BY <3>2 DEF Once
    <3> QED
      BY <3>1, <3>2
  <2>5. Once(t.pending, c) /\ (Has(t.pending, c) <=> Has(s.pending, c) \/ Has(ms, c))
    BY <1>1, <2>2, <2>3, <2>4, OnceOfConcat DEF Single, Holds
  <2> QED
    BY <2>2, <2>3, <2>5 DEF Single, Holds, t
<1> QED
  BY <1>2, <1>3

\* The current client is called back, and o, one of the outcomes of r, is what
\* that leaves behind.
CallsBack(r, o) ==
    LET c == sender.current
        cmds == gives[c] \ {HangUp}
    IN  /\ c \in Client
        /\ Sound(r, api[c], c, cmds)
        /\ Moves(r, c, cmds) \/ r = Result(api[c], << >>, "none")
        /\ o \in Outcomes(c, r)
        /\ api' = [api EXCEPT ![c] = Settle(o)]

\* The turn of the current client ends with that; u is the sender before the
\* queue is advanced.
TurnEnds(r, o, u) ==
    /\ CallsBack(r, o)
    /\ u \in SenderType /\ u.current = sender.current /\ u.pending = sender.pending
    /\ sender' = continueWithNextRequest(enqueue(u, o.posted))

LEMMA AnswerEndsTurn ==
    ASSUME ApiIInv, InTimeReads, InTimeIInv, NEW i \in DOMAIN bus,
           NEW n \in AnswerSizes(bus[i]), NEW end, Answer(i, n, end)
    PROVE  \E r, o, u : TurnEnds(r, o, u)
<1> DEFINE c == sender.current
<1>1. bus # << >> /\ OneAtATime(sender, bus)
  BY DEF InTimeIInv
<1>2. PICK m \in ReadMessage : m.client = c /\ bus = <<m>>
  BY <1>1, OneOnBus
<1>3. c # NoClient /\ c \in Client
  BY <1>1, OneOnBus DEF ApiIInv, IInv, TypeOK, SenderType
<1>4. i = 1 /\ bus[i] = m
  BY <1>2
<1>5. n \in Nat
  <2>1. m.val \in Nat /\ TelegramData \in Nat
    BY ApiAssumption DEF ReadMessage
  <2> QED
    BY <1>4, <2>1 DEF AnswerSizes
<1> DEFINE r == onIncomingMessage(api[c], c, m.dest, ReceivedType(m.type, n), m.off, n, end)
           cmds == gives[c] \ {HangUp}
<1>6. PICK o \in Outcomes(c, r) :
         /\ sender' = handlePcMessage(event(sender), m.dest, o.posted)
         /\ api' = [api EXCEPT ![c] = Settle(o)]
  BY <1>3, <1>4 DEF Answer
<1>7. /\ Sound(r, api[c], c, cmds)
      /\ Moves(r, c, cmds) \/ r = Result(api[c], << >>, "none")
  BY <1>2, <1>3, <1>5, AnswerMoves
<1> HIDE DEF r
<1> DEFINE e == event(sender)
           a == [e.age EXCEPT ![m.dest] = 0]
           u == [e EXCEPT !.age = a, !.resp = NoWait]
<1>8. e \in SenderType /\ e.current = c /\ e.pending = sender.pending
  BY EventHere
<1>9. sender' = continueWithNextRequest(enqueue(u, o.posted))
  BY <1>3, <1>6, <1>8 DEF handlePcMessage
<1> HIDE DEF e
<1>10. u \in SenderType /\ u.current = c /\ u.pending = sender.pending
  <2>1. m.dest \in Addr /\ e.age \in [Addr -> Age] /\ 0 \in Age
    BY <1>8, SenderAssumption DEF ReadMessage, SenderType, Age
  <2>2. a \in [Addr -> Age]
    BY <2>1
  <2> HIDE DEF a
  <2>3. NoWait \in ResponseTimer
    BY SenderAssumption DEF NoWait, ResponseTimer, Ticks
  <2> QED
    BY <1>8, <2>2, <2>3 DEF SenderType
<1> HIDE DEF u
<1>11. TurnEnds(r, o, u)
  BY <1>3, <1>6, <1>7, <1>9, <1>10 DEF TurnEnds, CallsBack
<1> QED
  BY <1>11

LEMMA TimeoutEndsTurn ==
    ASSUME ApiIInv, InTimeReads, InTimeIInv, ApiRunHandler, Head(sender.ready).kind # "send"
    PROVE  \E r, o, u : TurnEnds(r, o, u)
<1> DEFINE c == sender.current
           cmds == gives[c] \ {HangUp}
           r == onTimeout(api[c])
<1>1. sender.ready # << >> /\ sender \in SenderType /\ OneAtATime(sender, bus)
  BY DEF ApiRunHandler, InTimeIInv, ApiIInv, IInv, TypeOK
<1>2. c # NoClient /\ c \in Client
  BY <1>1, ReadyInTime DEF SenderType
<1>3. Head(sender.ready).kind = "timeout"
  <2>1. << >> \in Seq(ReadMessage)
    OBVIOUS
  <2> QED
    BY <1>1, <2>1, TimeoutInTime
<1>4. PICK o \in Outcomes(c, r) :
         /\ sender' = runHandler(sender, o.posted)
         /\ api' = [api EXCEPT ![c] = Settle(o)]
  BY <1>2, <1>3 DEF ApiRunHandler, HandlerCallsClient
<1>5. ParserOK(api[c], c, cmds) /\ api[c] \in Parser
  BY <1>2, ParsersHere
<1>6. Sound(r, api[c], c, cmds)
  BY <1>2, <1>5, OnTimeout
<1>7. Moves(r, c, cmds) \/ r = Result(api[c], << >>, "none")
  <2>1. Asking(api[c], c, cmds) /\ (api[c].active # NoMessage => api[c].active \in ReadMessage)
    BY <1>2 DEF InTimeIInv, Served
  <2> QED
    BY <1>5, <2>1, TimeoutMoves
<1> HIDE DEF r
<1> DEFINE v == event(sender)
           e == [v EXCEPT !.ready = Tail(sender.ready)]
<1>8. v \in SenderType /\ v.current = c /\ v.pending = sender.pending
  BY EventHere
<1>9. sender' = timeoutHandler(e, o.posted)
  BY <1>3, <1>4 DEF runHandler
<1> HIDE DEF v
<1>10. e \in SenderType /\ e.current = c /\ e.pending = sender.pending
  <2>1. Tail(sender.ready) \in Seq(Handler)
    BY <1>1 DEF SenderType
  <2> QED
    BY <1>8, <2>1 DEF SenderType
<1> HIDE DEF e
<1>11. sender' = continueWithNextRequest(enqueue(e, o.posted))
  BY <1>2, <1>9, <1>10 DEF timeoutHandler
<1>12. TurnEnds(r, o, e)
  BY <1>2, <1>4, <1>6, <1>7, <1>10, <1>11 DEF TurnEnds, CallsBack
<1> QED
  BY <1>12

LEMMA TurnEndsOnce ==
    ASSUME ApiIInv, OnceIInv, NEW r, NEW o, NEW u, TurnEnds(r, o, u),
           UNCHANGED <<open, gives>>
    PROVE  OnceIInv'
<1> DEFINE c == sender.current
           cmds == gives[c] \ {HangUp}
           stay == Result(api[c], << >>, "none")
           q == Settle(o)
           t == continueWithNextRequest(enqueue(u, o.posted))
<1>1. /\ c \in Client
      /\ Sound(r, api[c], c, cmds)
      /\ Moves(r, c, cmds) \/ r = stay
      /\ o \in Outcomes(c, r)
      /\ api' = [api EXCEPT ![c] = q]
      /\ u \in SenderType /\ u.current = c /\ u.pending = sender.pending
      /\ sender' = t
  BY DEF TurnEnds, CallsBack
<1>2. stay.p = api[c] /\ stay.posted = << >>
  BY DEF Result
<1>3. o = r \/ o = stay
  BY <1>1 DEF Outcomes
<1> HIDE DEF stay
<1>4. ParserOK(api[c], c, cmds) /\ api \in [Client -> Parser]
  BY <1>1, ParsersHere DEF ApiIInv, Parsers
<1>5. /\ o.posted \in Seq(Message) /\ \A i \in DOMAIN o.posted : o.posted[i].client = c
      /\ Len(o.posted) <= 1
      /\ o.posted # << >> => o.p.active # NoMessage
  <2>1. r.posted \in Burst(c)
    BY <1>1 DEF Sound
  <2>2. r.posted \in Seq(Message) /\ \A i \in DOMAIN r.posted : r.posted[i].client = c
    BY <2>1, BurstOf
  <2>3. /\ << >> \in Seq(Message) /\ Len(<< >>) <= 1
        /\ \A i \in DOMAIN << >> : << >>[i].client = c
    OBVIOUS
  <2>4. CASE o = stay
    <3>1. o.posted = << >>
      BY <1>2, <2>4
    <3> QED
      BY <2>3, <3>1
  <2>5. CASE o = r /\ r # stay
    <3>1. Moves(r, c, cmds)
      BY <1>1, <2>5
    <3>2. r.posted = << >> \/ (r.posted = <<r.p.active>> /\ r.p.active \in ReadMessage)
      BY <3>1 DEF Moves
    <3>3. NoMessage \notin ReadMessage
      BY SenderAssumption DEF ReadMessage
    <3>4. Len(<<r.p.active>>) = 1 /\ Len(<< >>) = 0
      OBVIOUS
    <3>5. Len(r.posted) <= 1
      <4>1. Len(r.posted) = 1 \/ Len(r.posted) = 0
        BY <3>2, <3>4
      <4>2. \A n : n = 1 \/ n = 0 => n <= 1
        OBVIOUS
      <4> QED
        BY <4>1, <4>2, Zenon
    <3>6. r.posted # << >> => r.p.active # NoMessage
      BY <3>2, <3>3
    <3> QED
      BY <2>2, <2>5, <3>5, <3>6
  <2> QED
    BY <1>3, <2>4, <2>5
<1>6. ParserOK(o.p, c, cmds)
  BY <1>1, <1>2, <1>3, <1>4 DEF Sound
<1>7. q.active = o.p.active
  BY <1>6, SettleSame DEF ParserOK, SameRequest
<1> HIDE DEF q
<1>8. ASSUME NEW x \in Client, HangUp \in gives[x]
      PROVE  Single(t, x) /\ (Holds(t, x) => api'[x].active # NoMessage)
  <2>1. Single(sender, x) /\ (Holds(sender, x) => api[x].active # NoMessage)
    BY <1>8 DEF OnceIInv, SinglyAsked
  <2>2. Single(u, x) /\ (Holds(u, x) <=> Holds(sender, x))
    BY <1>1, <2>1 DEF Single, Holds
  <2>3. /\ Single(t, x)
        /\ Holds(t, x) => IF x = u.current THEN o.posted # << >> ELSE Holds(u, x)
    BY <1>1, <1>5, <2>2, TurnOnce
  <2> HIDE DEF t
  <2>4. api'[x] = IF x = c THEN q ELSE api[x]
    BY <1>1, <1>4
  <2> QED
    BY <1>1, <1>5, <1>7, <2>1, <2>2, <2>3, <2>4
<1> HIDE DEF t
<1>9. SinglyAsked(api', gives', sender')
  BY <1>1, <1>8 DEF SinglyAsked
<1> QED
  BY <1>9 DEF OnceIInv

\* The sender goes on with what it has, and no parser's request changes.
LEMMA OnceKept ==
    ASSUME OnceIInv, UNCHANGED <<open, gives>>,
           sender'.current = sender.current, sender'.pending = sender.pending,
           \A c \in Client : api'[c].active = api[c].active
    PROVE  OnceIInv'
BY DEF OnceIInv, SinglyAsked, Single, Holds

\* What a command does to its connection: the request of its table is posted.
Taken(c, cmd, r) ==
    /\ up /\ c \in open /\ api[c].active = NoMessage /\ api[c].owed = 0
    /\ r.p \in Parser /\ r.p.active # NoMessage /\ Settle(r).owed = 1
    /\ r.posted \in Seq(Message) /\ \A i \in DOMAIN r.posted : r.posted[i].client = c
    /\ Len(r.posted) = Len(Calls(cmd))
    /\ api' = [api EXCEPT ![c] = Settle(r)]
    /\ sender' = sendMessage(event(sender), r.posted)
    /\ UNCHANGED conns

LEMMA CommandAsks ==
    ASSUME ApiIInv, InTimeReads, InTimeIInv, NEW c \in Client,
           NEW cmd \in gives[c] \ {HangUp}, Command(c, cmd)
    PROVE  \E r : Taken(c, cmd, r)
<1> DEFINE cmds == gives[c] \ {HangUp}
           p == [api[c] EXCEPT !.owed = @ + 1]
           r == parse(p, c, cmd)
<1>1. ParserOK(api[c], c, cmds) /\ Paid(api[c]) /\ api[c] \in Parser /\ Tabled(c, cmds)
  BY ParsersHere
<1>2. /\ up /\ c \in open /\ api[c].active = NoMessage
      /\ api' = [api EXCEPT ![c] = Settle(r)]
      /\ r.posted # << >> => sender' = sendMessage(event(sender), r.posted)
      /\ UNCHANGED conns
  BY DEF Command
<1>3. AllAnswerable(cmds)
  BY DEF InTimeReads, AllAnswerable
<1>4. ParserOK(p, c, cmds) /\ p.active = NoMessage /\ p.owed = 1 /\ api[c].owed = 0
  <2>1. api[c].owed + 1 \in -1 .. 1
    BY <1>1, <1>2 DEF Parser, Paid
  <2>2. /\ p \in Parser /\ SameRequest(p, api[c])
        /\ p.test = api[c].test /\ p.refresh = api[c].refresh /\ p.owed = api[c].owed + 1
    BY <1>1, <2>1 DEF Parser, SameRequest
  <2>3. api[c].owed = 0
    BY <1>2 DEF InTimeIInv, Served, Owing
  <2> HIDE DEF p
  <2> QED
    BY <1>1, <1>2, <2>2, <2>3, SameRequestOK DEF ParserOK, SameRequest
<1> HIDE DEF p
<1>5. /\ r.p \in Parser /\ r.line = "none" /\ r.p.owed = 1 /\ r.posted \in Burst(c)
      /\ Len(r.posted) = Len(Calls(cmd)) /\ r.p.active # NoMessage
      /\ InSeq(r.posted, r.p.active)
  BY <1>1, <1>3, <1>4, Parse, ParseMoves DEF ParserOK
<1> HIDE DEF r
<1>6. Settle(r).owed = 1
  BY <1>5, SettleOwed
<1>7. r.posted # << >>
  BY <1>5 DEF InSeq
<1>8. r.posted \in Seq(Message) /\ \A i \in DOMAIN r.posted : r.posted[i].client = c
  BY <1>5, BurstOf
<1> QED
  BY <1>2, <1>4, <1>5, <1>6, <1>7, <1>8 DEF Taken

LEMMA CommandOnce ==
    ASSUME ApiIInv, InTimeReads, InTimeIInv, OneRequestEach, OnceIInv, NEW c \in Client,
           NEW cmd \in gives[c] \ {HangUp}, Command(c, cmd)
    PROVE  OnceIInv'
<1>1. PICK r : Taken(c, cmd, r)
  BY CommandAsks
<1> DEFINE e == event(sender)
           t == sendMessage(e, r.posted)
           q == Settle(r)
<1>2. /\ api[c].active = NoMessage
      /\ r.p \in Parser /\ r.p.active # NoMessage
      /\ r.posted \in Seq(Message) /\ \A i \in DOMAIN r.posted : r.posted[i].client = c
      /\ Len(r.posted) = Len(Calls(cmd))
      /\ api' = [api EXCEPT ![c] = q] /\ sender' = t
      /\ open' = open /\ gives' = gives
  BY <1>1 DEF Taken, conns
<1>3. /\ e \in SenderType /\ Alive(e)
      /\ e.current = sender.current /\ e.pending = sender.pending
  BY EventHere
<1>4. q.active # NoMessage
  BY <1>2, SettleSame DEF SameRequest
<1>5. api \in [Client -> Parser]
  BY DEF ApiIInv, Parsers
<1> HIDE DEF e, q
<1>6. ASSUME NEW x \in Client, HangUp \in gives[x]
      PROVE  Single(t, x) /\ (Holds(t, x) => api'[x].active # NoMessage)
  <2>1. Single(sender, x) /\ (Holds(sender, x) => api[x].active # NoMessage)
    BY <1>6 DEF OnceIInv, SinglyAsked
  <2>2. Single(e, x) /\ (Holds(e, x) <=> Holds(sender, x))
    BY <1>3, <2>1 DEF Single, Holds
  <2>3. x = c => ~Holds(e, x) /\ Len(r.posted) <= 1
    BY <1>2, <1>6, <2>1, <2>2 DEF OneRequestEach
  <2>4. Single(t, x) /\ (x # c /\ Holds(t, x) => Holds(e, x))
    BY <1>2, <1>3, <2>2, <2>3, SendOnce
  <2> HIDE DEF t
  <2>5. api'[x] = IF x = c THEN q ELSE api[x]
    BY <1>2, <1>5
  <2> QED
    BY <1>4, <2>1, <2>2, <2>4, <2>5
<1> HIDE DEF t
<1> QED
  BY <1>2, <1>6 DEF OnceIInv, SinglyAsked

\* The sender goes on with what it has when doSendMessage runs, when the reactor
\* finds expired waits and when time passes.
LEMMA SendHandlerHas ==
    ASSUME sender \in SenderType, sender.ready # << >>, Head(sender.ready).kind = "send",
           NEW ms
    PROVE  LET t == runHandler(sender, ms)
           IN  t.current = sender.current /\ t.pending = sender.pending
<1> DEFINE h == Head(sender.ready)
           v == event(sender)
           e == [v EXCEPT !.ready = Tail(sender.ready)]
           t == runHandler(sender, ms)
<1>1. h \in Handler /\ h.kind = "send" /\ Tail(sender.ready) \in Seq(Handler)
  BY DEF SenderType
<1>2. t = doSendMessage(e, h.msg)
  BY DEF runHandler
<1>3. v \in SenderType /\ v.current = sender.current /\ v.pending = sender.pending
  BY Event
<1> HIDE DEF v, h, t
<1>4. e \in SenderType /\ e.current = sender.current /\ e.pending = sender.pending
  BY <1>1, <1>3 DEF SenderType
<1> HIDE DEF e
<1>5. h.msg \in Message
  BY <1>1 DEF Handler
<1> QED
  BY <1>2, <1>4, <1>5, DoSendMessage DEF t

LEMMA ReactorHas ==
    ASSUME sender \in SenderType, NEW hs
    PROVE  LET t == reactorPass(sender, hs)
           IN  t.current = sender.current /\ t.pending = sender.pending
<1> DEFINE v == event(sender)
           a == IF ResponseDue(sender) THEN NoWait ELSE sender.resp
           b == IF SendDue(sender) THEN NoSend ELSE sender.send
           d == sender.ready \o hs
           t == reactorPass(sender, hs)
<1>1. v \in SenderType /\ v.current = sender.current /\ v.pending = sender.pending
  BY Event
<1>2. t = [v EXCEPT !.resp = a, !.send = b, !.ready = d]
  BY DEF reactorPass
<1> HIDE DEF v, a, b, d, t
<1> QED
  BY <1>1, <1>2 DEF SenderType, t

LEMMA TickHas ==
    ASSUME sender \in SenderType
    PROVE  LET t == elapse(sender)
           IN  t.current = sender.current /\ t.pending = sender.pending
BY DEF elapse, event, SenderType

\* What a step shows to the clients.
ServiceStep == [Service!Next]_(Service!vars)

\* The final lines connection c owes its client, and all that the clients see.
OwedTo(a, o, c) == IF c \in o THEN a[c].owed ELSE 0
Due == [c \in Client |-> IF up /\ c \in open THEN api[c].owed ELSE 0]
Deserted == \E c \in Client \ open : api[c].owed = 1

\* Nothing that a client could see.
LEMMA ServiceRests ==
    ASSUME up' = up, Deserted' <=> Deserted,
           \A c \in Client : OwedTo(api', open', c) = OwedTo(api, open, c)
    PROVE  ServiceStep
<1>1. Due' = Due
  BY DEF Due, OwedTo
<1>2. UNCHANGED Service!vars
  BY <1>1 DEF Service!vars, Due, Deserted
<1> QED
  BY <1>2 DEF ServiceStep

LEMMA ServiceSame == UNCHANGED <<api, open, up>> => ServiceStep
BY ServiceRests DEF OwedTo, Deserted

LEMMA ServiceActs ==
    ASSUME NEW c \in Client, Service!Accept(c) \/ Service!Reply(c) \/ Service!Desert(c)
    PROVE  ServiceStep
<1>1. \E x \in Client : Service!Accept(x) \/ Service!Reply(x) \/ Service!Desert(x)
  OBVIOUS
<1>2. Service!Next
  BY <1>1 DEF Service!Next
<1> QED
  BY <1>2 DEF ServiceStep

\* What is due to one client changes.
LEMMA DueChanges ==
    ASSUME up, up' = up, NEW c \in Client, NEW n, OwedTo(api', open', c) = n,
           \A x \in Client : x # c => OwedTo(api', open', x) = OwedTo(api, open, x)
    PROVE  Due' = [Due EXCEPT ![c] = n]
BY DEF Due, OwedTo

LEMMA TakenIsAccepted ==
    ASSUME ApiIInv, NEW c \in Client, NEW cmd, NEW r, Taken(c, cmd, r)
    PROVE  ServiceStep
<1>1. /\ up /\ c \in open /\ api[c].owed = 0 /\ Settle(r).owed = 1
      /\ api' = [api EXCEPT ![c] = Settle(r)]
      /\ open' = open /\ up' = up
  BY DEF Taken, conns
<1>2. api \in [Client -> Parser]
  BY DEF ApiIInv, Parsers
<1>3. api'[c].owed = 1 /\ \A x \in Client : x # c => api'[x] = api[x]
  BY <1>1, <1>2
<1>4. Due' = [Due EXCEPT ![c] = 1]
  BY <1>1, <1>3, DueChanges DEF OwedTo
<1>5. Deserted' <=> Deserted
  BY <1>1, <1>3 DEF Deserted
<1>6. Due[c] = 0
  BY <1>1 DEF Due
<1>7. Service!Accept(c)
  BY <1>1, <1>4, <1>5, <1>6 DEF Service!Accept, Due, Deserted
<1> QED
  BY <1>7, ServiceActs

LEMMA CommandIsAccepted ==
    ASSUME ApiIInv, InTimeReads, InTimeIInv, NEW c \in Client,
           NEW cmd \in gives[c] \ {HangUp}, Command(c, cmd)
    PROVE  ServiceStep
<1>1. PICK r : Taken(c, cmd, r)
  BY CommandAsks
<1> QED
  BY <1>1, TakenIsAccepted

\* What every connection owes.
AllOwing == \A c \in Client : Owing(api[c])

LEMMA InTimeOwing == InTimeIInv => AllOwing
BY DEF InTimeIInv, Served, AllOwing

\* A connection that exists prints the final line when its turn ends; what is
\* left of one that was destroyed never does.
LEMMA TurnEndsReply ==
    ASSUME ApiIInv, AllOwing, AllOwing', up, UNCHANGED conns,
           NEW r, NEW o, CallsBack(r, o)
    PROVE  ServiceStep
<1> DEFINE c == sender.current
           cmds == gives[c] \ {HangUp}
           stay == Result(api[c], << >>, "none")
           q == Settle(o)
<1>1. /\ c \in Client
      /\ Sound(r, api[c], c, cmds)
      /\ o \in Outcomes(c, r)
      /\ api' = [api EXCEPT ![c] = q]
      /\ open' = open /\ up' = up
  BY DEF CallsBack, conns
<1>2. stay.p = api[c] /\ stay.line = "none"
  BY DEF Result
<1>3. (o = r \/ o = stay) /\ (c \notin open => o.line = "none")
  BY <1>1, <1>2 DEF Outcomes
<1> HIDE DEF stay
<1>4. api \in [Client -> Parser] /\ api[c] \in Parser
  BY <1>1 DEF ApiIInv, Parsers
<1>5. o.p \in Parser /\ o.p.owed = api[c].owed
  BY <1>1, <1>2, <1>3, <1>4 DEF Sound, ParserOK
<1>6. api[c].owed \in 0 .. 1
  BY <1>1 DEF AllOwing, Owing
<1>7. q.owed = IF o.line = "none" THEN api[c].owed ELSE api[c].owed - 1
  BY <1>5, <1>6, SettleOwed
<1> HIDE DEF q
<1>8. api'[c] = q /\ \A x \in Client : x # c => api'[x] = api[x]
  BY <1>1, <1>4
<1>9. q.owed \in 0 .. 1
  <2>1. Owing(api'[c])
    BY <1>1 DEF AllOwing
  <2> QED
    BY <1>8, <2>1 DEF Owing
<1>10. CASE o.line = "none"
  <2>1. \A x \in Client : api'[x].owed = api[x].owed
    BY <1>7, <1>8, <1>10
  <2>2. Deserted' <=> Deserted
    BY <1>1, <2>1 DEF Deserted
  <2> QED
    BY <1>1, <2>1, <2>2, ServiceRests DEF OwedTo
<1>11. CASE o.line # "none"
  <2>1. c \in open /\ api[c].owed = 1 /\ q.owed = 0
    BY <1>3, <1>6, <1>7, <1>9, <1>11
  <2>2. Due' = [Due EXCEPT ![c] = 0]
    BY <1>1, <1>8, <2>1, DueChanges DEF OwedTo
  <2>3. Deserted' <=> Deserted
    BY <1>1, <1>8, <2>1 DEF Deserted
  <2>4. Due[c] = 1
    BY <1>1, <2>1 DEF Due
  <2>5. PICK x \in Client : x = c
    BY <1>1
  <2>6. Service!Reply(x)
    BY <1>1, <2>2, <2>3, <2>4, <2>5 DEF Service!Reply, Due, Deserted
  <2> QED
    BY <2>6, ServiceActs
<1> QED
  BY <1>10, <1>11

LEMMA LeaveDeserts ==
    ASSUME ApiIInv, AllOwing, NEW c \in Client, Leave(c)
    PROVE  /\ ServiceStep
           /\ \A x \in Client : api'[x].active = api[x].active /\ api'[x].owed = api[x].owed
<1> DEFINE q == cancelTestMode(api[c])
<1>1. /\ up /\ c \in open /\ HangUp \in gives[c]
      /\ api' = [api EXCEPT ![c] = q]
      /\ open' = open \ {c} /\ UNCHANGED <<sender, bus, up, gives>>
  BY DEF Leave
<1>2. q.active = api[c].active /\ q.owed = api[c].owed
  <2>1. ParserOK(api[c], c, gives[c] \ {HangUp})
    BY ParsersHere
  <2> QED
    BY <2>1, CancelTestMode DEF SameRequest
<1> HIDE DEF q
<1>3. \A x \in Client : api'[x].active = api[x].active /\ api'[x].owed = api[x].owed
  <2>1. api \in [Client -> Parser]
    BY DEF ApiIInv, Parsers
  <2> QED
    BY <1>1, <1>2, <2>1
<1> SUFFICES ServiceStep
  BY <1>3
<1>4. \A x \in Client : x # c => OwedTo(api', open', x) = OwedTo(api, open, x)
  BY <1>1, <1>3 DEF OwedTo
<1>5. OwedTo(api', open', c) = 0 /\ OwedTo(api, open, c) = api[c].owed
  BY <1>1 DEF OwedTo
<1>6. CASE api[c].owed = 0
  <2>1. Deserted' <=> Deserted
    BY <1>1, <1>3, <1>6 DEF Deserted
  <2> QED
    BY <1>1, <1>4, <1>5, <1>6, <2>1, ServiceRests
<1>7. CASE api[c].owed # 0
  <2>1. api[c].owed = 1
    BY <1>7 DEF AllOwing, Owing
  <2>2. Due' = [Due EXCEPT ![c] = 0]
    BY <1>1, <1>4, <1>5, DueChanges
  <2>3. Deserted'
    BY <1>1, <1>3, <2>1 DEF Deserted
  <2>4. Due[c] = 1
    BY <1>1, <2>1 DEF Due
  <2>5. Service!Desert(c)
    BY <1>1, <2>2, <2>3, <2>4 DEF Service!Desert, Due, Deserted
  <2> QED
    BY <2>5, ServiceActs
<1> QED
  BY <1>6, <1>7

LEMMA LeaveOnce ==
    ASSUME ApiIInv, AllOwing, OnceIInv, NEW c \in Client, Leave(c)
    PROVE  OnceIInv' /\ ServiceStep
<1>1. /\ HangUp \in gives[c] /\ open' = open \ {c}
      /\ UNCHANGED <<sender, gives>>
  BY DEF Leave
<1>2. /\ ServiceStep
      /\ \A x \in Client : api'[x].active = api[x].active
  BY LeaveDeserts
<1> QED
  BY <1>1, <1>2 DEF OnceIInv, SinglyAsked, Single, Holds

\* Only a connection with an unanswered command is called after its end.
LEMMA UnansweredEnds ==
    ASSUME up, up' = FALSE, UNCHANGED <<api, open>>, NEW c \in Client \ open, api[c].owed = 1
    PROVE  ServiceStep
<1>1. Deserted /\ (Deserted' <=> Deserted)
  BY DEF Deserted
<1>2. Due' = Service!Nothing
  BY DEF Due, Service!Nothing
<1>3. Service!End
  BY <1>1, <1>2 DEF Service!End, Due, Deserted
<1> QED
  BY <1>3 DEF ServiceStep, Service!Next

LEMMA StaleEnds ==
    ASSUME ApiIInv, InTimeReads, InTimeIInv, OnceIInv, StaleCallback
    PROVE  OnceIInv' /\ ServiceStep
<1>1. up /\ up' = FALSE /\ UNCHANGED <<sender, api, bus, open, gives>>
  BY DEF StaleCallback
<1>2. OnceIInv'
  BY <1>1 DEF OnceIInv, SinglyAsked, Single, Holds
<1> DEFINE c == sender.current
<1>3. c \in Client \ open
  BY NoTestMode DEF StaleCallback
<1>4. api[c].active # NoMessage
  BY <1>3 DEF OnceIInv, SinglyAsked, Holds
<1>5. api[c].owed = 1
  BY <1>3, <1>4 DEF InTimeIInv, Served, Owing
<1> QED
  BY <1>1, <1>2, <1>3, <1>5, UnansweredEnds

\* The commands a client may give are settled in the beginning.
LEMMA SameGiven == [ApiNext]_vars => gives' = gives
BY DEF ApiNext, Command, Leave, Answer, Lose, ApiReactor, ApiRunHandler, TestModeDue,
       RefreshTestMode, StaleCallback, ApiTick, Ended, vars, conns

\* Every step keeps the invariant, and is one the service may take.
LEMMA NextServes ==
    ASSUME ApiIInv, InTimeReads, InTimeIInv, InTimeIInv', OneRequestEach, OnceIInv,
           [ApiNext]_vars
    PROVE  OnceIInv' /\ ServiceStep
<1>1. ASSUME UNCHANGED <<api, open, up, gives>>,
             sender'.current = sender.current, sender'.pending = sender.pending
      PROVE  OnceIInv' /\ ServiceStep
  BY <1>1, OnceKept, ServiceSame
<1>2. \A c \in Client : api[c].test = "off" /\ ~(api[c].refresh > 0)
  BY NoTestMode
<1>3. sender \in SenderType
  BY DEF ApiIInv, IInv, TypeOK
<1>4. ASSUME up, UNCHANGED conns, NEW r, NEW o, NEW u, TurnEnds(r, o, u)
      PROVE  OnceIInv' /\ ServiceStep
  <2>1. AllOwing /\ InTimeIInv'
    BY InTimeOwing
  <2>2. AllOwing'
    BY <2>1 DEF InTimeIInv, Served, AllOwing
  <2>3. CallsBack(r, o)
    BY <1>4 DEF TurnEnds
  <2> QED
    BY <1>4, <2>1, <2>2, <2>3, TurnEndsOnce, TurnEndsReply DEF conns
<1>5. CASE \E c \in Client : \E cmd \in gives[c] \ {HangUp} : Command(c, cmd)
  BY <1>5, CommandOnce, CommandIsAccepted
<1>6. CASE \E c \in Client : Leave(c)
  BY <1>6, InTimeOwing, LeaveOnce
<1>7. CASE \E i \in DOMAIN bus : \E n \in AnswerSizes(bus[i]), end \in BOOLEAN : Answer(i, n, end)
  <2>1. PICK i \in DOMAIN bus : \E n \in AnswerSizes(bus[i]), end \in BOOLEAN : Answer(i, n, end)
    BY <1>7
  <2>2. PICK n \in AnswerSizes(bus[i]), end \in BOOLEAN : Answer(i, n, end)
    BY <2>1
  <2>3. up /\ UNCHANGED conns
    BY <2>2 DEF Answer
  <2>4. \E r, o, u : TurnEnds(r, o, u)
    BY <2>2, AnswerEndsTurn
  <2> QED
    BY <1>4, <2>3, <2>4
<1>8. CASE \E i \in DOMAIN bus : Lose(i)
  BY <1>8 DEF Lose, InTimeReads
<1>9. CASE ApiReactor
  <2>1. PICK hs \in ExpiredWaits(sender) : sender' = reactorPass(sender, hs)
    BY <1>9 DEF ApiReactor
  <2>2. UNCHANGED <<api, open, up, gives>>
    BY <1>9 DEF ApiReactor, conns
  <2> QED
    BY <1>1, <1>3, <2>1, <2>2, ReactorHas
<1>10. CASE ApiRunHandler
  <2>1. sender.ready # << >> /\ up /\ UNCHANGED conns
    BY <1>10 DEF ApiRunHandler
  <2>2. CASE Head(sender.ready).kind = "send"
    <3>1. ~HandlerCallsClient(sender)
      BY <2>2 DEF HandlerCallsClient
    <3>2. sender' = runHandler(sender, << >>) /\ api' = api
      BY <1>10, <3>1 DEF ApiRunHandler
    <3>3. UNCHANGED <<api, open, up, gives>>
      BY <2>1, <3>2 DEF conns
    <3> QED
      BY <1>1, <1>3, <2>1, <2>2, <3>2, <3>3, SendHandlerHas
  <2>3. CASE Head(sender.ready).kind # "send"
    <3>1. \E r, o, u : TurnEnds(r, o, u)
      BY <1>10, <2>3, TimeoutEndsTurn
    <3> QED
      BY <1>4, <2>1, <3>1
  <2> QED
    BY <2>2, <2>3
<1>11. CASE \E c \in Client : TestModeDue(c) \/ RefreshTestMode(c)
  BY <1>2, <1>11 DEF TestModeDue, RefreshTestMode
<1>12. CASE StaleCallback
  BY <1>12, StaleEnds
<1>13. CASE ApiTick
  <2>1. sender' = elapse(sender) /\ UNCHANGED <<api, open, up, gives>>
    BY <1>13 DEF ApiTick, conns
  <2> QED
    BY <1>1, <1>3, <2>1, TickHas
<1>14. CASE UNCHANGED vars
  <2>1. UNCHANGED <<api, open, up, gives>> /\ sender' = sender
    BY <1>14 DEF vars, conns
  <2> QED
    BY <1>1, <2>1
<1> QED
  BY <1>5, <1>6, <1>7, <1>8, <1>9, <1>10, <1>11, <1>12, <1>13, <1>14 DEF ApiNext, Ended

LEMMA InitServes == ApiInit => OnceIInv /\ Service!Init
<1> SUFFICES ASSUME ApiInit PROVE OnceIInv /\ Service!Init
  OBVIOUS
<1>1. /\ sender.current = NoClient /\ sender.pending = << >> /\ open = Client /\ up
      /\ \A c \in Client : api[c].owed = 0
  BY DEF ApiInit, IdleSender, NewParser
<1>2. OnceIInv
  <2>1. \A c \in Client : c # NoClient /\ Once(<< >>, c) /\ ~Has(<< >>, c)
    BY SenderAssumption DEF Once, Has
  <2> QED
    BY <1>1, <2>1 DEF OnceIInv, SinglyAsked, Single, Holds
<1>3. Due = Service!Nothing
  BY <1>1 DEF Due, Service!Nothing
<1>4. ~Deserted
  BY <1>1 DEF Deserted
<1>5. up = TRUE
  BY DEF ApiInit
<1>6. Service!Init
  BY <1>3, <1>4, <1>5 DEF Service!Init, Due, Deserted
<1> QED
  BY <1>2, <1>6

\* Every command is answered by one final line at most, whoever hangs up in the
\* middle of what, and the process ends only when a connection was destroyed
\* before its command was answered.
THEOREM ReadsServedOnce ==
    ApiSpec /\ InTimeReads /\ OneRequestEach
        => Service!Init /\ [][Service!Next]_(Service!vars)
<1>1. ApiInit => InTimeIInv /\ OnceIInv /\ Service!Init
  BY InitInTime, InitServes
<1>2. ApiIInv /\ InTimeReads /\ OneRequestEach /\ InTimeIInv /\ OnceIInv /\ [ApiNext]_vars
        => InTimeReads' /\ OneRequestEach' /\ InTimeIInv' /\ OnceIInv'
  <2> SUFFICES ASSUME ApiIInv, InTimeReads, OneRequestEach, InTimeIInv, OnceIInv, [ApiNext]_vars
               PROVE  InTimeReads' /\ OneRequestEach' /\ InTimeIInv' /\ OnceIInv'
    OBVIOUS
  <2>1. InTimeReads' /\ InTimeIInv'
    BY NextInTime DEF InTimeStep
  <2>2. OneRequestEach'
    BY SameGiven DEF OneRequestEach
  <2>3. OnceIInv'
    BY <2>1, NextServes
  <2> QED
    BY <2>1, <2>2, <2>3
<1>3. ApiIInv /\ InTimeReads /\ OneRequestEach /\ InTimeIInv /\ OnceIInv /\ InTimeIInv' /\ [ApiNext]_vars
        => [Service!Next]_(Service!vars)
  BY NextServes DEF ServiceStep
<1> QED
  BY <1>1, <1>2, <1>3, InitApi, NextApi, PTL DEF ApiSpec
-----------------------------------------------------------------------------
(* A client on its own, which also writes                                  *)
(*                                                                         *)
(* No device answers a write: the sender makes an answer up, which ends    *)
(* the turn, and then goes on to the next request once more.  With a       *)
(* single client whose commands make one request at a time nothing is      *)
(* queued then, and the second time finds the sender idle.                 *)

\* Client c is the only one to give commands.  Each makes one call, a write to
\* some device or a read that can be matched to its answers, and is finished by
\* what becomes of that call; answers come in time or not at all.
GivesAlone(c) ==
    /\ ~LateAnswers
    /\ \A x \in Client \ {c} : gives[x] \subseteq {HangUp}
    /\ \A cmd \in gives[c] \ {HangUp} : Len(Calls(cmd)) = 1 /\ cmd \notin AnsweredAtOnce
    /\ \A k \in Requests(gives[c] \ {HangUp}) :
          Answerable(k) \/ (k.op = "write" /\ k.dest < 256)
LoneClient == \E c \in Client : GivesAlone(c)

\* A write was sent, or the answer to it is about to be made up.
WriteSent(s, b) ==
    /\ s.resp.on /\ s.resp.fake
    /\ ~s.send.on /\ s.ready = << >> /\ b = << >>
AnswerDue(s, b) ==
    /\ s.ready = <<[kind |-> "fake", msg |-> NoMessage]>>
    /\ ~s.send.on /\ ~s.resp.on /\ b = << >>

\* Message m, a read or a write, keeps sender s busy, with b on the bus.
LoneTurn(s, b, m) ==
    \/ InTimer(s, b, m) \/ AboutToSend(s, b, m)
    \/ IsWrite(m) /\ (WriteSent(s, b) \/ AnswerDue(s, b))
    \/ ~IsWrite(m) /\ (Unanswered(s, b, m) \/ TimedOut(s, b))

\* A device that was written to lately rests until the answer is made up.
Resting(s) ==
    \A a \in WriteAddr :
        \/ s.age[a] >= MinDistance
        \/ s.resp.on /\ s.resp.fake /\ s.resp.left + s.age[a] >= MinDistance

\* Sender s has nothing to do, or only the request m.
AtRest(s, b) == s.current = NoClient /\ s.pending = << >> /\ Idle(s) /\ b = << >>
Busy(s, b, m) ==
    s.current = m.client /\ s.pending = << >> /\ LoneTurn(s, b, m) /\ Resting(s)

\* Without such an answer to come, none was written to lately.
LEMMA RestingIsRested ==
    ASSUME NEW s, ~s.resp.on \/ ~s.resp.fake
    PROVE  Resting(s) <=> Rested(s)
BY DEF Resting, Rested

\* A write is followed by the wait for its answer.
LEMMA RestingAfter ==
    ASSUME NEW s \in SenderType, Rested(s), NEW m \in Message,
           NEW t, t.age = [s.age EXCEPT ![m.dest] = 0],
           IsWrite(m) => t.resp.on /\ t.resp.fake /\ t.resp.left = FakeDelay
    PROVE  Resting(t)
<1> SUFFICES ASSUME NEW a \in WriteAddr
             PROVE  \/ t.age[a] >= MinDistance
                    \/ t.resp.on /\ t.resp.fake /\ t.resp.left + t.age[a] >= MinDistance
  BY DEF Resting
<1>1. a \in Addr /\ s.age \in [Addr -> Age]
  BY SenderAssumption DEF SenderType
<1>2. CASE a = m.dest
  <2>1. t.age[a] = 0 /\ IsWrite(m)
    BY <1>1, <1>2 DEF IsWrite
  <2>2. FakeDelay + 0 >= MinDistance
    BY SenderAssumption, ApiAssumption
  <2> QED
    BY <2>1, <2>2
<1>3. CASE a # m.dest
  BY <1>1, <1>3 DEF Rested
<1> QED
  BY <1>2, <1>3

LEMMA TransmitWrite ==
    ASSUME NEW m \in Message, IsWrite(m)
    PROVE  Transmit(<< >>, <<m>>) = << >>
<1> DEFINE c == CHOOSE r : Filters(<<m>>, Len(<<m>>), r)
<1>1. ReadsAmong(<<m>>) = c[Len(<<m>>)]
  BY DEF ReadsAmong, Filters
<1>2. Len(<<m>>) = 1 /\ <<m>>[1] = m /\ 1 \in Nat
  OBVIOUS
<1>3. Filters(<<m>>, 1, c)
  BY <1>2, FiltersExist
<1> HIDE DEF c
<1>4. c[1] = AddRead(c[0], m) /\ c[0] = << >>
  BY <1>2, <1>3 DEF Filters
<1>5. ReadsAmong(<<m>>) = << >>
  BY <1>1, <1>2, <1>4 DEF AddRead
<1> QED
  BY <1>5, ReadsAmongNone, TransmitNothing DEF Transmit

\* Advancing an empty queue leaves the sender with nothing to do,
LEMMA GoesToRest ==
    ASSUME NEW s \in SenderType, Idle(s), s.pending = << >>, s.out = << >>
    PROVE  LET t == continueWithNextRequest(s)
           IN  /\ t \in SenderType /\ t.out = << >> /\ Idle(t)
               /\ AtRest(t, Transmit(<< >>, t.out))
<1> DEFINE t == continueWithNextRequest(s)
<1>1. t = [s EXCEPT !.current = NoClient]
  BY DEF continueWithNextRequest
<1>2. /\ t \in SenderType /\ t.current = NoClient /\ t.pending = << >> /\ t.out = << >>
      /\ Idle(t)
  BY <1>1 DEF SenderType, Idle, Rested
<1> HIDE DEF t
<1> QED
  BY <1>2, TransmitNothing DEF AtRest, t

\* and advancing a queue of one message gives it that one to do.
LEMMA GoesOn ==
    ASSUME NEW s \in SenderType, Idle(s), NEW m \in Message, s.pending = <<m>>, s.out = << >>
    PROVE  LET t == continueWithNextRequest(s)
           IN  Busy(t, Transmit(<< >>, t.out), m) /\ Spaced(s, t.out)
<1> DEFINE t == continueWithNextRequest(s)
           b == Transmit(<< >>, t.out)
           u == [s EXCEPT !.current = m.client, !.pending = << >>]
<1>1. m.client \in Client /\ m.dest \in Addr
  BY SenderAssumption
<1>2. t = sendRequest(u, m)
  <2>1. Head(s.pending) = m /\ Tail(s.pending) = << >> /\ s.pending # << >>
    OBVIOUS
  <2> QED
    BY <2>1 DEF continueWithNextRequest
<1>3. /\ u \in SenderType /\ u.current = m.client /\ u.pending = << >>
      /\ u.send = s.send /\ u.resp = s.resp /\ u.ready = s.ready /\ u.age = s.age /\ u.out = << >>
  <2>1. << >> \in Seq(Message)
    OBVIOUS
  <2> QED
    BY <1>1, <2>1 DEF SenderType
<1> HIDE DEF u, t
<1>4. s.age[m.dest] \in Nat /\ MinDistance \in Nat
  BY <1>1, SenderAssumption DEF SenderType, Age
<1>5. CASE s.age[m.dest] <= MinDistance
  <2>1. t = armSendTimer(u, m)
    BY <1>2, <1>3, <1>5 DEF sendRequest
  <2>2. /\ t.current = u.current /\ t.pending = u.pending /\ t.out = << >> /\ t.age = u.age
        /\ t.resp = u.resp /\ t.ready = u.ready
        /\ t.send = [on |-> TRUE, left |-> MinDistance - s.age[m.dest], msg |-> m]
    BY <1>3, <2>1 DEF armSendTimer, SenderType, Idle
  <2>3. b = << >>
    BY <2>2, TransmitNothing
  <2> HIDE DEF b
  <2>4. InTimer(t, b, m)
    BY <1>3, <1>4, <2>2, <2>3 DEF InTimer, Idle
  <2>5. Spaced(s, t.out)
    BY <2>2 DEF Spaced
  <2>6. Resting(t)
    BY <1>3, <2>2 DEF Idle, Rested, Resting
  <2> QED
    BY <1>3, <2>2, <2>4, <2>5, <2>6 DEF Busy, LoneTurn, b, t
<1>6. CASE ~(s.age[m.dest] <= MinDistance)
  <2>1. t = doSendMessage(u, m)
    BY <1>2, <1>3, <1>6 DEF sendRequest
  <2>2. /\ t.current = u.current /\ t.pending = u.pending /\ t.out = <<m>>
        /\ t.ready = u.ready /\ t.send = u.send
        /\ t.resp.on /\ t.resp.fake = IsWrite(m) /\ (IsWrite(m) => t.resp.left = FakeDelay)
        /\ t.age = [s.age EXCEPT ![m.dest] = 0]
    <3> DEFINE w == [on |-> TRUE, left |-> IF IsWrite(m) THEN FakeDelay ELSE RequestTimeout,
                     fake |-> IsWrite(m)]
    <3>1. t = [u EXCEPT !.resp = w, !.out = Append(u.out, m), !.age = [u.age EXCEPT ![m.dest] = 0]]
      BY <1>3, <2>1 DEF doSendMessage, scheduleResponseTimeout, SenderType
    <3>2. w.on /\ w.fake = IsWrite(m) /\ (IsWrite(m) => w.left = FakeDelay)
      OBVIOUS
    <3> HIDE DEF w
    <3>3. Append(u.out, m) = <<m>>
      BY <1>3
    <3> QED
      BY <1>3, <3>1, <3>2, <3>3 DEF SenderType
  <2>3. IF IsWrite(m) THEN b = << >> ELSE b \in {<< >>, <<m>>}
    BY <2>2, TransmitWrite, TransmitOne DEF ReadMessage
  <2> HIDE DEF b
  <2>4. LoneTurn(t, b, m)
    BY <1>3, <2>2, <2>3 DEF LoneTurn, WriteSent, Unanswered, Idle
  <2>5. s.age[m.dest] >= MinDistance /\ Rested(s)
    BY <1>4, <1>6 DEF Idle
  <2>6. Spaced(s, t.out)
    BY <2>2, <2>5, SpacedOne
  <2>7. Resting(t)
    BY <2>2, <2>5, RestingAfter
  <2> QED
    BY <1>3, <2>2, <2>4, <2>6, <2>7 DEF Busy, b, t
<1> QED
  BY <1>5, <1>6

\* An event starts with what there was to do.
LEMMA EventAlone ==
    ASSUME NEW s \in SenderType
    PROVE  LET e == event(s)
           IN  /\ e \in SenderType /\ e.out = << >> /\ e.age = s.age
               /\ e.current = s.current /\ e.pending = s.pending
               /\ Idle(s) => Idle(e)
               /\ \A b, m : LoneTurn(s, b, m) => LoneTurn(e, b, m)
<1> DEFINE e == event(s)
<1>1. /\ e \in SenderType /\ e.current = s.current /\ e.pending = s.pending
      /\ e.resp = s.resp /\ e.send = s.send /\ e.ready = s.ready
  BY Event
<1>2. e.out = << >> /\ e.age = s.age
  BY DEF event, SenderType
<1> HIDE DEF e
<1>3. \A b, m : LoneTurn(s, b, m) => LoneTurn(e, b, m)
  BY <1>1, <1>2 DEF LoneTurn, InTimer, AboutToSend, Unanswered, TimedOut, WriteSent, AnswerDue
<1> QED
  BY <1>1, <1>2, <1>3 DEF Idle, Rested, e

\* A command gives a sender at rest its one request.
LEMMA SendAlone ==
    ASSUME NEW s \in SenderType, AtRest(s, << >>), NEW m \in Message
    PROVE  LET t == sendMessage(event(s), <<m>>)
           IN  Busy(t, Transmit(<< >>, t.out), m) /\ Spaced(s, t.out)
<1> DEFINE ms == <<m>>
           e == event(s)
           u == enqueue(e, ms)
           n == continueWithNextRequest(u)
           t == sendMessage(e, ms)
<1>1. /\ Head(ms) = m /\ Tail(ms) = << >> /\ ms # << >> /\ ms \in Seq(Message)
      /\ << >> \o ms = ms /\ <<Head(ms)>> = ms
  OBVIOUS
<1>2. /\ e \in SenderType /\ e.out = << >> /\ e.age = s.age
      /\ e.current = NoClient /\ e.pending = << >> /\ Idle(e)
  BY EventAlone DEF AtRest
<1> HIDE DEF e, ms
<1>3. t = enqueue(n, << >>)
  BY <1>1, <1>2 DEF sendMessage
<1>4. u \in SenderType /\ u.pending = <<m>> /\ u.out = << >> /\ u.age = s.age /\ Idle(u)
  <2>1. u \in SenderType /\ u.pending = << >> \o ms
        /\ u.resp = e.resp /\ u.send = e.send /\ u.ready = e.ready
    BY <1>1, <1>2, Enqueue
  <2>2. u.out = e.out /\ u.age = e.age
    BY <1>2 DEF enqueue, SenderType
  <2> HIDE DEF u
  <2> QED
    BY <1>1, <1>2, <2>1, <2>2 DEF Idle, Rested, ms
<1> HIDE DEF u
<1>5. Busy(n, Transmit(<< >>, n.out), m) /\ Spaced(u, n.out) /\ n \in SenderType
  BY <1>4, GoesOn, ContinueWithNextRequest
<1> HIDE DEF n
<1>6. /\ t.current = n.current /\ t.resp = n.resp /\ t.send = n.send /\ t.ready = n.ready
      /\ t.out = n.out /\ t.age = n.age /\ t.pending = << >>
  <2>1. n.pending = << >> /\ << >> \o << >> = << >>
    BY <1>5 DEF Busy
  <2> QED
    <3>1. t = [n EXCEPT !.pending = << >>, !.in = @ \o << >>]
      BY <1>3, <2>1 DEF enqueue
    <3> QED
      BY <1>5, <2>1, <3>1 DEF SenderType
<1> HIDE DEF t
<1> DEFINE d == Transmit(<< >>, t.out)
<1>7. d = Transmit(<< >>, n.out)
  BY <1>6
<1> HIDE DEF d
<1>8. Busy(t, d, m)
  BY <1>5, <1>6, <1>7 DEF Busy, LoneTurn, InTimer, AboutToSend, Unanswered, TimedOut, WriteSent,
     AnswerDue, Resting
<1>9. Spaced(s, t.out)
  BY <1>4, <1>5, <1>6 DEF Spaced
<1> QED
  BY <1>8, <1>9 DEF d, t, e, ms

\* The end of a turn: what its callback has posted is the one thing left to do.
LEMMA AdvanceAlone ==
    ASSUME NEW s \in SenderType, Idle(s), s.pending = << >>, s.out = << >>,
           NEW ms
    PROVE  LET t == continueWithNextRequest(enqueue(s, ms))
               d == Transmit(<< >>, t.out)
           IN  /\ ms = << >> => t \in SenderType /\ t.out = << >> /\ Idle(t) /\ AtRest(t, d)
               /\ \A m \in Message : ms = <<m>> => Busy(t, d, m) /\ Spaced(s, t.out)
<1> DEFINE e == enqueue(s, ms)
           t == continueWithNextRequest(e)
           d == Transmit(<< >>, t.out)
<1>1. ASSUME ms \in Seq(Message)
      PROVE  e \in SenderType /\ Idle(e) /\ e.pending = ms /\ e.out = << >> /\ e.age = s.age
  <2>1. /\ e \in SenderType /\ e.pending = << >> \o ms
        /\ e.resp = s.resp /\ e.send = s.send /\ e.ready = s.ready
    BY <1>1, Enqueue
  <2>2. e.out = s.out /\ e.age = s.age
    BY DEF enqueue, SenderType
  <2>3. << >> \o ms = ms
    BY <1>1
  <2> HIDE DEF e
  <2> QED
    BY <2>1, <2>2, <2>3 DEF Idle, Rested
<1> HIDE DEF e
<1>2. CASE ms = << >>
  <2>1. ms \in Seq(Message)
    BY <1>2
  <2>2. e \in SenderType /\ Idle(e) /\ e.pending = << >> /\ e.out = << >>
    BY <1>1, <1>2, <2>1
  <2>3. \A m : ms # <<m>>
    BY <1>2
  <2> QED
    BY <1>2, <2>2, <2>3, GoesToRest DEF e
<1>3. ASSUME NEW m \in Message, ms = <<m>> PROVE Busy(t, d, m) /\ Spaced(s, t.out)
  <2>1. ms \in Seq(Message)
    BY <1>3
  <2>2. e \in SenderType /\ Idle(e) /\ e.pending = <<m>> /\ e.out = << >> /\ e.age = s.age
    BY <1>1, <1>3, <2>1
  <2>3. Busy(t, d, m) /\ Spaced(e, t.out)
    BY <2>2, GoesOn
  <2> QED
    BY <2>2, <2>3 DEF Spaced
<1>4. CASE ms # << >>
  BY <1>3, <1>4 DEF e
<1> QED
  BY <1>2, <1>4

\* A turn that began with sender s has ended in t, with d on the bus; ms is what
\* the client has posted.
EndsAlone(s, t, d, ms) ==
    /\ ms = << >> => AtRest(t, d) /\ t.out = << >>
    /\ \A m \in Message : ms = <<m>> => Busy(t, d, m) /\ Spaced(s, t.out)

\* It ends with an answer, of a device or made up,
LEMMA AnswerEndsAlone ==
    ASSUME NEW s \in SenderType, s.current # NoClient, s.pending = << >>, s.out = << >>,
           ~s.send.on, s.ready = << >>, Rested(s), NEW source \in Addr \ WriteAddr, NEW ms
    PROVE  LET t == handlePcMessage(s, source, ms)
           IN  /\ EndsAlone(s, t, Transmit(<< >>, t.out), ms)
               /\ ms = << >> => t \in SenderType /\ Idle(t)
<1> DEFINE a == [s.age EXCEPT ![source] = 0]
           u == [s EXCEPT !.age = a, !.resp = NoWait]
           t == handlePcMessage(s, source, ms)
           d == Transmit(<< >>, t.out)
<1>1. a \in [Addr -> Age] /\ \A x \in Addr : a[x] \in Nat /\ a[x] <= s.age[x]
  BY SenderAssumption DEF SenderType, Age
<1>2. t = continueWithNextRequest(enqueue(u, ms))
  BY DEF handlePcMessage
<1>3. ASSUME NEW v, v.age = a PROVE Rested(v)
  BY <1>3, RestedAfter
<1> HIDE DEF a
<1>4. NoWait \in ResponseTimer /\ ~NoWait.on
  BY SenderAssumption DEF NoWait, Ticks, ResponseTimer
<1>5. /\ u \in SenderType /\ u.pending = << >> /\ u.out = << >> /\ u.age = a /\ Idle(u)
  BY <1>1, <1>3, <1>4 DEF SenderType, Idle
<1> HIDE DEF u
<1>6. /\ ms = << >> => t \in SenderType /\ t.out = << >> /\ Idle(t) /\ AtRest(t, d)
      /\ \A m \in Message : ms = <<m>> => Busy(t, d, m) /\ Spaced(u, t.out)
  BY <1>2, <1>5, AdvanceAlone
<1>7. ASSUME Spaced(u, t.out) PROVE Spaced(s, t.out)
  <2>1. \A x \in Addr : s.age[x] \in Nat
    BY SenderAssumption DEF SenderType, Age
  <2>2. \A x \in Addr : {s.age[x], u.age[x]} \subseteq Nat /\ u.age[x] <= s.age[x]
    BY <1>1, <1>5, <2>1
  <2> QED
    BY <1>7, <2>2, SpacedLess
<1> QED
  BY <1>6, <1>7 DEF EndsAlone

LEMMA AnswerAlone ==
    ASSUME NEW s \in SenderType, NEW b, NEW m \in Message, Busy(s, b, m), b # << >>, NEW ms
    PROVE  LET t == handlePcMessage(event(s), m.dest, ms)
           IN  b = <<m>> /\ ~IsWrite(m) /\ EndsAlone(s, t, Transmit(<< >>, t.out), ms)
<1> DEFINE e == event(s)
           t == handlePcMessage(e, m.dest, ms)
           d == Transmit(<< >>, t.out)
<1>1. ~IsWrite(m) /\ Unanswered(s, b, m)
  BY DEF Busy, LoneTurn, InTimer, AboutToSend, WriteSent, AnswerDue, TimedOut
<1>2. b = <<m>> /\ ~s.send.on /\ s.ready = << >> /\ s.pending = << >> /\ s.current = m.client
  BY <1>1 DEF Unanswered, Busy
<1>3. /\ e \in SenderType /\ e.out = << >> /\ e.age = s.age /\ e.current = s.current
      /\ e.pending = s.pending /\ e.send = s.send /\ e.ready = s.ready
  BY Event, EventAlone
<1>4. m.dest \in Addr \ WriteAddr /\ m.client # NoClient
  BY <1>1, SenderAssumption DEF IsWrite
<1>5. Rested(e)
  <2>1. Rested(s)
    BY <1>1, RestingIsRested DEF Busy, Unanswered
  <2> QED
    BY <1>3, <2>1 DEF Rested
<1> HIDE DEF e
<1>6. EndsAlone(e, t, d, ms)
  BY <1>2, <1>3, <1>4, <1>5, AnswerEndsAlone
<1> HIDE DEF t, d
<1>7. EndsAlone(s, t, d, ms)
  BY <1>3, <1>6 DEF EndsAlone, Spaced
<1> QED
  BY <1>1, <1>2, <1>7 DEF t, d, e

\* What a completed wait can be.
LEMMA ReadyAlone ==
    ASSUME NEW s, NEW b, NEW m, LoneTurn(s, b, m), s.ready # << >>
    PROVE  /\ ~s.send.on /\ ~s.resp.on /\ b = << >> /\ Tail(s.ready) = << >>
           /\ \/ Head(s.ready) = [kind |-> "send", msg |-> m] /\ s.age[m.dest] >= MinDistance
              \/ Head(s.ready) = [kind |-> "fake", msg |-> NoMessage] /\ IsWrite(m)
              \/ Head(s.ready) = [kind |-> "timeout", msg |-> NoMessage] /\ ~IsWrite(m)
<1>1. AboutToSend(s, b, m) \/ (AnswerDue(s, b) /\ IsWrite(m)) \/ (TimedOut(s, b) /\ ~IsWrite(m))
  BY DEF LoneTurn, InTimer, WriteSent, Unanswered
<1>2. CASE AboutToSend(s, b, m)
  <2>1. s.ready = <<[kind |-> "send", msg |-> m]>>
    BY <1>2 DEF AboutToSend
  <2>2. Head(s.ready) = [kind |-> "send", msg |-> m] /\ Tail(s.ready) = << >>
    BY <2>1
  <2> QED
    BY <1>2, <2>2 DEF AboutToSend
<1>3. CASE AnswerDue(s, b) /\ IsWrite(m)
  <2>1. Head(s.ready) = [kind |-> "fake", msg |-> NoMessage] /\ Tail(s.ready) = << >>
    BY <1>3 DEF AnswerDue
  <2> QED
    BY <1>3, <2>1 DEF AnswerDue
<1>4. CASE TimedOut(s, b) /\ ~IsWrite(m)
  <2>1. Head(s.ready) = [kind |-> "timeout", msg |-> NoMessage] /\ Tail(s.ready) = << >>
    BY <1>4 DEF TimedOut
  <2> QED
    BY <1>4, <2>1 DEF TimedOut
<1> QED
  BY <1>1, <1>2, <1>3, <1>4

\* The sender as a handler finds it.
LEMMA HandlerAlone ==
    ASSUME NEW s \in SenderType, NEW b, NEW m, Busy(s, b, m), s.ready # << >>
    PROVE  LET e == [event(s) EXCEPT !.ready = Tail(s.ready)]
           IN  /\ e \in SenderType /\ e.out = << >> /\ e.age = s.age
               /\ e.current = m.client /\ e.pending = << >> /\ e.ready = << >> /\ Idle(e)
<1> DEFINE v == event(s)
           e == [v EXCEPT !.ready = Tail(s.ready)]
<1>1. ~s.send.on /\ ~s.resp.on /\ Tail(s.ready) = << >>
  BY ReadyAlone DEF Busy
<1>2. /\ v \in SenderType /\ v.out = << >> /\ v.age = s.age
      /\ v.current = s.current /\ v.pending = s.pending
      /\ v.send = s.send /\ v.resp = s.resp
  BY Event, EventAlone
<1>3. << >> \in Seq(Handler)
  OBVIOUS
<1> HIDE DEF v
<1>4. /\ e \in SenderType /\ e.out = v.out /\ e.age = v.age /\ e.current = v.current
      /\ e.pending = v.pending /\ e.send = v.send /\ e.resp = v.resp /\ e.ready = << >>
  BY <1>1, <1>2, <1>3 DEF SenderType
<1> HIDE DEF e
<1>5. Rested(s)
  BY <1>1, RestingIsRested DEF Busy
<1>6. Idle(e)
  BY <1>1, <1>2, <1>4, <1>5 DEF Idle, Rested
<1> QED
  BY <1>2, <1>4, <1>6 DEF Busy, e, v

\* with a timeout,
LEMMA TimeoutAlone ==
    ASSUME NEW s \in SenderType, NEW b, NEW m \in Message, Busy(s, b, m), s.ready # << >>,
           Head(s.ready).kind = "timeout", NEW ms
    PROVE  LET t == runHandler(s, ms)
           IN  EndsAlone(s, t, Transmit(b, t.out), ms)
<1> DEFINE e == [event(s) EXCEPT !.ready = Tail(s.ready)]
           t == runHandler(s, ms)
           d == Transmit(<< >>, t.out)
<1>1. /\ e \in SenderType /\ e.out = << >> /\ e.age = s.age
      /\ e.current = m.client /\ e.pending = << >> /\ Idle(e)
  BY HandlerAlone
<1>2. t = timeoutHandler(e, ms)
  BY DEF runHandler
<1> HIDE DEF e, t
<1>3. m.client # NoClient /\ b = << >>
  BY SenderAssumption, ReadyAlone DEF Busy
<1>4. t = continueWithNextRequest(enqueue(e, ms))
  BY <1>1, <1>2, <1>3 DEF timeoutHandler
<1>5. /\ ms = << >> => t.out = << >> /\ AtRest(t, d)
      /\ \A x \in Message : ms = <<x>> => Busy(t, d, x) /\ Spaced(e, t.out)
  BY <1>1, <1>4, AdvanceAlone
<1> HIDE DEF d
<1>6. EndsAlone(s, t, d, ms)
  BY <1>1, <1>5 DEF EndsAlone, Spaced
<1> QED
  BY <1>3, <1>6 DEF t, d

\* and a write with the answer that is made up; the second advance finds an
\* idle sender.
LEMMA MadeUpAlone ==
    ASSUME NEW s \in SenderType, NEW b, NEW m \in Message, Busy(s, b, m), s.ready # << >>,
           Head(s.ready).kind = "fake"
    PROVE  LET t == runHandler(s, << >>)
           IN  IsWrite(m) /\ EndsAlone(s, t, Transmit(b, t.out), << >>)
<1> DEFINE e == [event(s) EXCEPT !.ready = Tail(s.ready)]
           u == handlePcMessage(e, PC, << >>)
           t == runHandler(s, << >>)
           d == Transmit(<< >>, t.out)
<1>1. /\ e \in SenderType /\ e.out = << >> /\ e.current = m.client /\ e.pending = << >>
      /\ e.ready = << >> /\ ~e.send.on /\ Rested(e)
  BY HandlerAlone DEF Idle
<1>2. t = fakeAnswerHandler(e, << >>)
  BY DEF runHandler
<1> HIDE DEF e, t
<1>3. IsWrite(m) /\ b = << >>
  <2> DEFINE h == Head(s.ready)
  <2>1. /\ b = << >>
        /\ \/ h = [kind |-> "send", msg |-> m]
           \/ h = [kind |-> "fake", msg |-> NoMessage] /\ IsWrite(m)
           \/ h = [kind |-> "timeout", msg |-> NoMessage]
    BY ReadyAlone DEF Busy
  <2>2. h.kind = "fake"
    OBVIOUS
  <2> HIDE DEF h
  <2> QED
    BY <2>1, <2>2
<1>4. m.client # NoClient /\ PC \in Addr \ WriteAddr
  BY SenderAssumption
<1>5. t = continueWithNextRequest(u)
  BY <1>1, <1>2, <1>4 DEF fakeAnswerHandler
<1>6. u \in SenderType /\ Idle(u) /\ u.pending = << >> /\ u.out = << >>
  <2> DEFINE w == Transmit(<< >>, u.out)
  <2>1. EndsAlone(e, u, w, << >>) /\ u \in SenderType /\ Idle(u)
    BY <1>1, <1>4, AnswerEndsAlone
  <2> HIDE DEF u, w
  <2> QED
    BY <2>1 DEF EndsAlone, AtRest
<1> HIDE DEF u
<1>7. t.out = << >> /\ AtRest(t, d)
  BY <1>5, <1>6, GoesToRest
<1> HIDE DEF d
<1>8. EndsAlone(s, t, d, << >>)
  <2>1. \A x : << >> # <<x>>
    OBVIOUS
  <2> QED
    BY <1>7, <2>1 DEF EndsAlone
<1> QED
  BY <1>3, <1>8 DEF t, d

\* The request goes on the bus when doSendMessage runs,
LEMMA DelayedAlone ==
    ASSUME NEW s \in SenderType, NEW b, NEW m \in Message, Busy(s, b, m), s.ready # << >>,
           Head(s.ready).kind = "send"
    PROVE  LET t == runHandler(s, << >>)
           IN  Busy(t, Transmit(b, t.out), m) /\ Spaced(s, t.out)
<1> DEFINE e == [event(s) EXCEPT !.ready = Tail(s.ready)]
           h == Head(s.ready)
           t == runHandler(s, << >>)
           d == Transmit(<< >>, t.out)
<1>1. /\ e \in SenderType /\ e.out = << >> /\ e.current = m.client /\ e.pending = << >>
      /\ e.ready = << >> /\ Idle(e) /\ e.age = s.age
  BY HandlerAlone
<1>2. h.msg = m /\ s.age[m.dest] >= MinDistance /\ b = << >>
  <2>1. /\ b = << >>
        /\ \/ h = [kind |-> "send", msg |-> m] /\ s.age[m.dest] >= MinDistance
           \/ h = [kind |-> "fake", msg |-> NoMessage]
           \/ h = [kind |-> "timeout", msg |-> NoMessage]
    BY ReadyAlone DEF Busy
  <2>2. h.kind = "send"
    OBVIOUS
  <2> HIDE DEF h
  <2> QED
    BY <2>1, <2>2
<1>3. t = doSendMessage(e, m)
  BY <1>2 DEF runHandler
<1> HIDE DEF e
<1>4. /\ t.current = m.client /\ t.pending = << >> /\ t.out = <<m>> /\ t.ready = << >>
      /\ ~t.send.on /\ t.resp.on /\ t.resp.fake = IsWrite(m)
      /\ (IsWrite(m) => t.resp.left = FakeDelay) /\ t.age = [e.age EXCEPT ![m.dest] = 0]
  <2> DEFINE w == [on |-> TRUE, left |-> IF IsWrite(m) THEN FakeDelay ELSE RequestTimeout,
                   fake |-> IsWrite(m)]
  <2>1. t = [e EXCEPT !.resp = w, !.out = Append(e.out, m), !.age = [e.age EXCEPT ![m.dest] = 0]]
    BY <1>1, <1>3 DEF doSendMessage, scheduleResponseTimeout, SenderType
  <2>2. w.on /\ w.fake = IsWrite(m) /\ (IsWrite(m) => w.left = FakeDelay)
    OBVIOUS
  <2>3. Append(e.out, m) = <<m>>
    BY <1>1
  <2>4. ~e.send.on
    BY <1>1 DEF Idle
  <2> HIDE DEF w
  <2>5. /\ t.current = e.current /\ t.pending = e.pending /\ t.out = Append(e.out, m)
        /\ t.ready = e.ready /\ t.send = e.send /\ t.resp = w
        /\ t.age = [e.age EXCEPT ![m.dest] = 0]
    BY <1>1, <2>1 DEF SenderType
  <2> HIDE DEF t
  <2> QED
    BY <1>1, <2>2, <2>3, <2>4, <2>5
<1> HIDE DEF t
<1>5. IF IsWrite(m) THEN d = << >> ELSE d \in {<< >>, <<m>>}
  BY <1>4, TransmitWrite, TransmitOne DEF ReadMessage
<1> HIDE DEF d
<1>6. Busy(t, d, m)
  <2>1. Resting(t)
    BY <1>1, <1>4, RestingAfter DEF Idle
  <2> QED
    BY <1>4, <1>5, <2>1 DEF Busy, LoneTurn, WriteSent, Unanswered
<1>7. Spaced(s, t.out)
  <2>1. Rested(s)
    BY <1>1 DEF Idle, Rested
  <2> QED
    BY <1>2, <1>4, <2>1, SpacedOne
<1> QED
  BY <1>2, <1>6, <1>7 DEF t, d

\* a pass of the reactor finds the one wait that has expired,
LEMMA ReactorAlone ==
    ASSUME NEW s \in SenderType, NEW b, NEW m \in Message, Busy(s, b, m),
           NEW hs \in ExpiredWaits(s)
    PROVE  LET t == reactorPass(s, hs)
           IN  Busy(t, IF ResponseDue(s) THEN << >> ELSE b, m) /\ t.out = << >>
<1> DEFINE t == reactorPass(s, hs)
           d == IF ResponseDue(s) THEN << >> ELSE b
<1>1. hs \in Seq(Handler) /\ s.ready \in Seq(Handler)
  BY ExpiredWaitsType DEF SenderType
<1>2. /\ t.current = s.current /\ t.pending = s.pending /\ t.out = << >> /\ t.age = s.age
      /\ t.resp = (IF ResponseDue(s) THEN NoWait ELSE s.resp)
      /\ t.send = (IF SendDue(s) THEN NoSend ELSE s.send)
      /\ t.ready = s.ready \o hs
  <2> DEFINE e == event(s)
  <2>1. /\ e \in SenderType /\ e.out = << >> /\ e.age = s.age
        /\ e.current = s.current /\ e.pending = s.pending
    BY Event, EventInTime
  <2> HIDE DEF e
  <2> QED
    BY <2>1 DEF reactorPass, SenderType, e
<1>3. ResponseDue(s) \/ SendDue(s)
  BY DEF ExpiredWaits
<1> HIDE DEF t, d
<1>4. Resting(t)
  <2> SUFFICES ASSUME NEW a \in WriteAddr, ~(t.age[a] >= MinDistance)
               PROVE  t.resp.on /\ t.resp.fake /\ t.resp.left + t.age[a] >= MinDistance
    BY DEF Resting
  <2>1. s.resp.on /\ s.resp.fake /\ s.resp.left + s.age[a] >= MinDistance
    BY <1>2 DEF Busy, Resting
  <2>2. s.age[a] \in Nat
    BY SenderAssumption DEF SenderType, Age
  <2>3. ~ResponseDue(s)
    BY <1>2, <2>1, <2>2 DEF ResponseDue
  <2> QED
    BY <1>2, <2>1, <2>3
<1>5. InTimer(s, b, m) \/ (WriteSent(s, b) /\ IsWrite(m)) \/ (Unanswered(s, b, m) /\ ~IsWrite(m))
  BY <1>3 DEF Busy, LoneTurn, AboutToSend, AnswerDue, TimedOut, ResponseDue, SendDue
<1>6. CASE InTimer(s, b, m)
  <2>1. /\ SendDue(s) /\ ~ResponseDue(s) /\ s.send.msg = m /\ s.ready = << >> /\ b = << >>
        /\ s.send.left = 0 /\ s.send.left + s.age[m.dest] >= MinDistance /\ ~s.resp.on
    BY <1>3, <1>6 DEF InTimer, ResponseDue, SendDue
  <2>2. s.age[m.dest] >= MinDistance
    <3>1. s.age[m.dest] \in Nat
      BY SenderAssumption DEF SenderType, Age
    <3> QED
      BY <2>1, <3>1
  <2>3. hs = <<[kind |-> "send", msg |-> m]>>
    BY <2>1 DEF ExpiredWaits
  <2>4. t.ready = hs
    BY <1>1, <1>2, <2>1
  <2>5. d = << >> /\ ~t.send.on /\ ~t.resp.on
    BY <1>2, <2>1 DEF d, NoSend
  <2>6. AboutToSend(t, d, m)
    BY <1>2, <2>2, <2>3, <2>4, <2>5 DEF AboutToSend
  <2> QED
    BY <1>2, <1>4, <2>6 DEF Busy, LoneTurn, d, t
<1>7. CASE ~InTimer(s, b, m)
  <2>1. ResponseDue(s) /\ ~SendDue(s) /\ s.ready = << >> /\ ~s.send.on
    BY <1>3, <1>5, <1>7 DEF WriteSent, Unanswered, ResponseDue, SendDue
  <2>2. s.resp.fake = IsWrite(m)
    <3>1. s.resp.fake \in BOOLEAN /\ IsWrite(m) \in BOOLEAN
      BY DEF SenderType, ResponseTimer, IsWrite
    <3> QED
      BY <1>5, <1>7, <3>1, Zenon DEF WriteSent, Unanswered
  <2>3. t.ready = hs /\ d = << >> /\ ~t.send.on /\ ~t.resp.on
    BY <1>1, <1>2, <2>1 DEF d, NoWait
  <2>4. CASE IsWrite(m)
    <3>1. hs = <<[kind |-> "fake", msg |-> NoMessage]>>
      BY <2>1, <2>2, <2>4 DEF ExpiredWaits
    <3> QED
      BY <1>2, <1>4, <2>3, <2>4, <3>1 DEF Busy, LoneTurn, AnswerDue, d, t
  <2>5. CASE ~IsWrite(m)
    <3>1. hs = <<[kind |-> "timeout", msg |-> NoMessage]>>
      BY <2>1, <2>2, <2>5 DEF ExpiredWaits
    <3> QED
      BY <1>2, <1>4, <2>3, <2>5, <3>1 DEF Busy, LoneTurn, TimedOut, d, t
  <2> QED
    BY <2>4, <2>5
<1> QED
  BY <1>6, <1>7

\* and time passes.
LEMMA ElapseAlone ==
    ASSUME NEW s \in SenderType, NEW b
    PROVE  LET t == elapse(s)
           IN  /\ t.out = << >>
               /\ AtRest(s, b) => AtRest(t, b)
               /\ \A m \in Message : Busy(s, b, m) => Busy(t, b, m)
<1> DEFINE t == elapse(s)
<1>1. /\ t.current = s.current /\ t.pending = s.pending /\ t.out = << >> /\ t.ready = s.ready
      /\ t.resp = [s.resp EXCEPT !.left = Less(s.resp.left)]
      /\ t.send = [s.send EXCEPT !.left = Less(s.send.left)]
      /\ t.age = [a \in Addr |-> IF s.age[a] = LongAgo THEN LongAgo ELSE s.age[a] + 1]
  BY DEF elapse, event, SenderType
<1>2. t.send.on = s.send.on /\ t.send.msg = s.send.msg /\ t.send.left = Less(s.send.left)
  BY <1>1 DEF SenderType, SendTimer
<1>3. t.resp.on = s.resp.on /\ t.resp.fake = s.resp.fake
  BY <1>1 DEF SenderType, ResponseTimer
<1> HIDE DEF t
<1>4. ASSUME NEW m \in Message, LoneTurn(s, b, m) PROVE LoneTurn(t, b, m)
  <2>1. m.dest \in Addr
    BY SenderAssumption
  <2>2. s.age[m.dest] \in 0 .. MinDistance + 1 /\ MinDistance \in Nat
    BY <2>1, SenderAssumption DEF SenderType, Age
  <2>3. t.age[m.dest] = IF s.age[m.dest] = MinDistance + 1 THEN MinDistance + 1 ELSE s.age[m.dest] + 1
    BY <1>1, <2>1 DEF LongAgo
  <2>4. s.send.left \in Nat
    <3>1. s.send.left \in Ticks \cup {0}
      BY DEF SenderType, SendTimer
    <3> QED
      BY <3>1, SenderAssumption DEF Ticks
  <2>5. s.send.left + s.age[m.dest] >= MinDistance => t.send.left + t.age[m.dest] >= MinDistance
    BY <1>2, <2>2, <2>3, <2>4 DEF Less
  <2>6. s.age[m.dest] >= MinDistance => t.age[m.dest] >= MinDistance
    BY <2>2, <2>3
  <2>7. InTimer(s, b, m) => InTimer(t, b, m)
    BY <1>1, <1>2, <1>3, <2>5 DEF InTimer
  <2>8. AboutToSend(s, b, m) => AboutToSend(t, b, m)
    BY <1>1, <1>2, <1>3, <2>6 DEF AboutToSend
  <2> QED
    BY <1>1, <1>2, <1>3, <1>4, <2>7, <2>8 DEF LoneTurn, Unanswered, TimedOut, WriteSent, AnswerDue
<1>5. AtRest(s, b) => AtRest(t, b)
  <2>1. Rested(s) => Rested(t)
    BY <1>1, OlderStill
  <2> QED
    BY <1>1, <1>2, <1>3, <2>1 DEF AtRest, Idle
<1>6. Resting(s) => Resting(t)
  <2> SUFFICES ASSUME Resting(s), NEW a \in WriteAddr, ~(t.age[a] >= MinDistance)
               PROVE  t.resp.on /\ t.resp.fake /\ t.resp.left + t.age[a] >= MinDistance
    BY DEF Resting
  <2>1. /\ s.age[a] \in Nat /\ t.age[a] = s.age[a] + 1 /\ MinDistance \in Nat
    BY <1>1, OlderStill, SenderAssumption
  <2>2. s.resp.on /\ s.resp.fake /\ s.resp.left + s.age[a] >= MinDistance
    BY <2>1 DEF Resting
  <2>3. s.resp.left \in Nat /\ t.resp.left = Less(s.resp.left)
    BY <1>1, SenderAssumption DEF SenderType, ResponseTimer, Ticks
  <2> QED
    BY <1>3, <2>1, <2>2, <2>3 DEF Less
<1> QED
  BY <1>1, <1>4, <1>5, <1>6 DEF Busy, t

\* What the one client is up to: nothing, though one that hung up may have left
\* a request behind, or the request that keeps the sender busy,
LoneIdle(c) == AtRest(sender, bus) /\ (c \in open => api[c].active = NoMessage)
LoneBusy(c) == api[c].active # NoMessage /\ Busy(sender, bus, api[c].active)

\* which is a read for what its command still lacks, or a write.
LoneAsks(p, c, cmds) == Asking(p, c, cmds) \/ (p.active # NoMessage /\ IsWrite(p.active))

LoneState(c) ==
    /\ LoneIdle(c) \/ LoneBusy(c)
    /\ LoneAsks(api[c], c, gives[c] \ {HangUp})
    /\ AllOwing
    /\ \A x \in Client \ {c} : api[x].active = NoMessage

LoneIInv == \E c \in Client : GivesAlone(c) /\ LoneState(c)

\* What a step from there leads to.
LoneStep(c) ==
    /\ LoneState(c)'
    /\ sender' = sender \/ Spaced(sender, sender'.out)
    /\ ServiceStep

LEMMA SameLoneAsks ==
    ASSUME NEW p, NEW q, SameRequest(q, p), NEW c, NEW cmds, LoneAsks(p, c, cmds)
    PROVE  LoneAsks(q, c, cmds)
<1>1. CASE Asking(p, c, cmds)
  BY <1>1, SameAsking DEF LoneAsks
<1>2. CASE p.active # NoMessage /\ IsWrite(p.active)
  BY <1>2 DEF SameRequest, LoneAsks
<1> QED
  BY <1>1, <1>2 DEF LoneAsks

\* The sender moves on, and no parser's request changes.
LEMMA LoneGoesOn ==
    ASSUME NEW c \in Client, LoneState(c), gives' = gives, open' \subseteq open,
           \A x \in Client : SameRequest(api'[x], api[x]) /\ api'[x].owed = api[x].owed,
           \/ LoneIdle(c) /\ AtRest(sender', bus')
           \/ LoneBusy(c) /\ Busy(sender', bus', api[c].active)
    PROVE  LoneState(c)'
<1>1. \A x \in Client : api'[x].active = api[x].active /\ api'[x].owed = api[x].owed
  BY DEF SameRequest
<1>2. (LoneIdle(c) \/ LoneBusy(c))'
  BY <1>1 DEF LoneIdle, LoneBusy
<1>3. LoneAsks(api'[c], c, gives'[c] \ {HangUp})
  BY SameLoneAsks DEF LoneState
<1>4. AllOwing'
  <2>1. AllOwing
    BY DEF LoneState
  <2> QED
    BY <1>1, <2>1 DEF AllOwing, Owing
<1>5. \A x \in Client \ {c} : api'[x].active = NoMessage
  BY <1>1 DEF LoneState
<1> QED
  BY <1>2, <1>3, <1>4, <1>5 DEF LoneState

\* The client's parser changes.
LEMMA LoneChanges ==
    ASSUME ApiIInv, NEW c \in Client, LoneState(c), gives' = gives, open' = open,
           NEW q, api' = [api EXCEPT ![c] = q],
           LoneAsks(q, c, gives[c] \ {HangUp}), Owing(q),
           \/ AtRest(sender', bus') /\ (c \in open => q.active = NoMessage)
           \/ q.active # NoMessage /\ Busy(sender', bus', q.active)
    PROVE  LoneState(c)'
<1>1. api \in [Client -> Parser]
  BY DEF ApiIInv, Parsers
<1>2. api'[c] = q /\ \A x \in Client : x # c => api'[x] = api[x]
  BY <1>1
<1>3. (LoneIdle(c) \/ LoneBusy(c))'
  BY <1>2 DEF LoneIdle, LoneBusy
<1>4. LoneAsks(api'[c], c, gives'[c] \ {HangUp})
  BY <1>2
<1>5. AllOwing'
  <2>1. AllOwing
    BY DEF LoneState
  <2> QED
    BY <1>2, <2>1 DEF AllOwing
<1>6. \A x \in Client \ {c} : api'[x].active = NoMessage
  BY <1>2 DEF LoneState
<1> QED
  BY <1>3, <1>4, <1>5, <1>6 DEF LoneState

\* A command posts the message of its one call.
LEMMA CallAlone ==
    ASSUME NEW c \in Client, NEW cmds, NEW p, ParserOK(p, c, cmds), Tabled(c, cmds),
           NEW k \in Requests(cmds), Answerable(k) \/ (k.op = "write" /\ k.dest < 256),
           ReadsAnswerable(cmds)
    PROVE  LET r == call(p, c, k) IN Sends(r, p, c, cmds) /\ LoneAsks(r.p, c, cmds)
<1> DEFINE r == call(p, c, k)
<1>1. Sends(r, p, c, cmds)
  BY CallSends
<1>2. p \in Parser /\ k \in Call
  BY RequestsAreCalls DEF ParserOK
<1>3. CASE k.op = "read"
  <2>1. r = startRequest(p, c, k.dest, k.type, k.off, k.len, k.raw)
    BY <1>3 DEF call
  <2>2. Moves(r, c, cmds)
    BY <1>2, <1>3, <2>1, StartMoves
  <2> HIDE DEF r
  <2> QED
    BY <1>1, <2>2 DEF Moves, LoneAsks, r
<1>4. CASE k.op # "read"
  <2> DEFINE m == Request(c, WriteTo(k.dest), k.type, k.off, k.len)
             q == [p EXCEPT !.retries = MaxRequestRetries, !.active = m]
  <2>1. k.op = "write" /\ k.dest < 256 /\ k.dest \in Nat
    BY <1>2, <1>4 DEF Answerable, Call
  <2>2. r = sendActiveRequest(q, "none")
    BY <1>4 DEF call, sendCommand
  <2>3. m \in Message
    BY <2>1, Zenon DEF Tabled
  <2>4. m.dest = WriteTo(k.dest) /\ m.dest < 128
    <3>1. m.dest = WriteTo(k.dest)
      BY DEF Request
    <3> HIDE DEF m
    <3>2. WriteTo(k.dest) < 128
      BY <2>1 DEF WriteTo
    <3> QED
      BY <3>1, <3>2
  <2> HIDE DEF m
  <2>5. q.active = m
    BY <1>2 DEF Parser
  <2> HIDE DEF q, r
  <2>6. r.p.active = m
    BY <2>2, <2>5 DEF sendActiveRequest, Result
  <2>7. IsWrite(m)
    <3>1. m.dest \in Addr /\ WriteAddr = {a \in Addr : a < 128}
      BY <2>3, SenderAssumption, ApiAssumption
    <3> QED
      BY <2>4, <3>1 DEF IsWrite
  <2> QED
    BY <1>1, <2>6, <2>7 DEF Sends, LoneAsks, r
<1> QED
  BY <1>3, <1>4

LEMMA ParseAlone ==
    ASSUME NEW c \in Client, GivesAlone(c), Tabled(c, gives[c] \ {HangUp}),
           NEW p, ParserOK(p, c, gives[c] \ {HangUp}), NEW cmd \in gives[c] \ {HangUp}
    PROVE  LET r == parse(p, c, cmd)
           IN  /\ Sends(r, p, c, gives[c] \ {HangUp})
               /\ LoneAsks(r.p, c, gives[c] \ {HangUp}) /\ r.line = "none"
<1> DEFINE cmds == gives[c] \ {HangUp}
           calls == Calls(cmd)
           q == testModeCommand(p, cmd)
           r == parse(p, c, cmd)
           t == call(q, c, calls[1])
<1>1. ParserOK(q, c, cmds) /\ q.active = p.active /\ q.owed = p.owed
  BY TestModeCommand
<1>2. Len(calls) = 1 /\ cmd \notin AnsweredAtOnce /\ calls \in Seq(Call)
  BY DEF GivesAlone, Tabled
<1>3. calls[1] \in Requests(cmds)
  <2>1. \A i \in DOMAIN calls : calls[i] \in Requests(cmds)
    BY CallsAreRequests
  <2>2. 1 \in DOMAIN calls
    <3> HIDE DEF calls
    <3> QED
      BY <1>2
  <2> QED
    BY <2>1, <2>2
<1>4. r.line = "none" /\ r.p = t.p /\ r.posted = t.posted
  <2>1. calls # << >> /\ calls[Len(calls)] = calls[1]
    <3> HIDE DEF calls
    <3> QED
      BY <1>2
  <2> QED
    BY <1>2, <2>1 DEF parse, Result
<1> HIDE DEF calls, q, r
<1>5. /\ \A k \in Requests(cmds) : Answerable(k) \/ (k.op = "write" /\ k.dest < 256)
      /\ ReadsAnswerable(cmds)
  BY DEF GivesAlone, ReadsAnswerable
<1>6. Sends(t, q, c, cmds) /\ LoneAsks(t.p, c, cmds)
  BY <1>1, <1>3, <1>5, CallAlone
<1> HIDE DEF t
<1>7. Sends(r, p, c, cmds)
  BY <1>1, <1>4, <1>6 DEF Sends, Sound
<1> QED
  BY <1>4, <1>6, <1>7 DEF r

\* What the steps below share: there is no test mode, and only client c gives
\* commands.
LEMMA AloneHere ==
    ASSUME ApiIInv, NEW c \in Client, GivesAlone(c)
    PROVE  \A x \in Client :
              /\ api[x].test = "off" /\ ~(api[x].refresh > 0)
              /\ x # c => gives[x] \ {HangUp} = {}
<1> TAKE x \in Client
<1>1. x # c => gives[x] \ {HangUp} = {}
  BY DEF GivesAlone
<1>2. TestMode \in AnsweredAtOnce
  BY DEF AnsweredAtOnce, TestMode
<1>3. TestMode \notin gives[x] \ {HangUp}
  <2>1. CASE x = c
    BY <1>2, <2>1 DEF GivesAlone
  <2>2. CASE x # c
    BY <1>1, <2>2
  <2> QED
    BY <2>1, <2>2
<1>4. ParserOK(api[x], x, gives[x] \ {HangUp})
  BY ParsersHere
<1>5. api[x].test = "off" /\ ~(api[x].refresh > 0)
  BY <1>3, <1>4 DEF ParserOK
<1> QED
  BY <1>1, <1>5

LEMMA CommandAlone ==
    ASSUME ApiIInv, NEW c \in Client, GivesAlone(c), LoneState(c),
           NEW x \in Client, NEW cmd \in gives[x] \ {HangUp}, Command(x, cmd)
    PROVE  LoneStep(c)
<1>1. x = c /\ cmd \in gives[c] \ {HangUp} /\ Command(c, cmd)
  BY AloneHere
<1> DEFINE cmds == gives[c] \ {HangUp}
           p == [api[c] EXCEPT !.owed = @ + 1]
           r == parse(p, c, cmd)
           q == Settle(r)
<1>2. ParserOK(api[c], c, cmds) /\ Paid(api[c]) /\ api[c] \in Parser /\ Tabled(c, cmds)
  BY ParsersHere
<1>3. /\ up /\ c \in open /\ api[c].active = NoMessage
      /\ api' = [api EXCEPT ![c] = q]
      /\ r.posted # << >> => /\ sender' = sendMessage(event(sender), r.posted)
                             /\ bus' = Transmit(bus, sender'.out)
      /\ UNCHANGED conns
  BY <1>1 DEF Command
<1>4. AtRest(sender, bus) /\ api[c].owed = 0
  <2>1. LoneIdle(c) \/ LoneBusy(c)
    BY DEF LoneState
  <2>2. Owing(api[c])
    BY DEF LoneState, AllOwing
  <2> QED
    BY <1>3, <2>1, <2>2 DEF LoneIdle, LoneBusy, Owing
<1>5. ParserOK(p, c, cmds) /\ p.owed = 1
  <2>1. /\ p \in Parser /\ SameRequest(p, api[c])
        /\ p.test = api[c].test /\ p.refresh = api[c].refresh /\ p.owed = 1
    BY <1>2, <1>4 DEF Parser, SameRequest
  <2> HIDE DEF p
  <2> QED
    BY <1>2, <2>1, SameRequestOK DEF ParserOK
<1> HIDE DEF p
<1>6. Sends(r, p, c, cmds) /\ LoneAsks(r.p, c, cmds) /\ r.line = "none"
  BY <1>1, <1>2, <1>5, ParseAlone
<1> HIDE DEF r
<1>7. PICK m \in Message : m = r.p.active
  BY <1>6 DEF Sends, Sound, ParserOK, Own
<1>8. r.p \in Parser /\ r.p.owed = 1 /\ m \in Own(c) /\ m # NoMessage
  BY <1>5, <1>6, <1>7 DEF Sends, Sound, ParserOK
<1>9. q.active = m /\ q.owed = 1 /\ LoneAsks(q, c, cmds)
  <2>1. SameRequest(q, r.p)
    BY <1>8, SettleSame
  <2>2. q.owed = 1
    BY <1>6, <1>8, SettleOwed
  <2> HIDE DEF q
  <2> QED
    BY <1>6, <1>7, <2>1, <2>2, SameLoneAsks DEF SameRequest
<1> HIDE DEF q
<1> DEFINE ms == <<m>>
<1>10. /\ ms \in Seq(Message) /\ Len(ms) = 1 /\ ms # << >>
       /\ \A i \in DOMAIN ms : ms[i].client = c
  BY <1>8 DEF Own
<1>11. r.posted = ms
  BY <1>6, <1>7 DEF Sends
<1>12. sender \in SenderType /\ AtRest(sender, << >>) /\ bus = << >>
  BY <1>4 DEF ApiIInv, IInv, TypeOK, AtRest
<1>13. Busy(sender', bus', m) /\ Spaced(sender, sender'.out)
  <2>1. sender' = sendMessage(event(sender), <<m>>) /\ bus' = Transmit(<< >>, sender'.out)
    BY <1>3, <1>10, <1>11, <1>12
  <2> QED
    BY <1>12, <2>1, SendAlone
<1> HIDE DEF ms
<1>14. LoneState(c)'
  <2>1. gives' = gives /\ open' = open
    BY <1>3 DEF conns
  <2>2. Owing(q)
    BY <1>8, <1>9 DEF Owing
  <2> QED
    BY <1>3, <1>8, <1>9, <1>13, <2>1, <2>2, LoneChanges
<1>15. ServiceStep
  <2>1. Len(Calls(cmd)) = 1
    BY <1>1 DEF GivesAlone
  <2>2. sender' = sendMessage(event(sender), r.posted)
    BY <1>3, <1>10, <1>11
  <2>3. Taken(c, cmd, r)
    BY <1>3, <1>4, <1>7, <1>8, <1>9, <1>10, <1>11, <2>1, <2>2 DEF Taken, q
  <2> QED
    BY <2>3, TakenIsAccepted
<1> QED
  BY <1>13, <1>14, <1>15 DEF LoneStep

LEMMA LeaveAlone ==
    ASSUME ApiIInv, NEW c \in Client, GivesAlone(c), LoneState(c), NEW x \in Client, Leave(x)
    PROVE  LoneStep(c)
<1> DEFINE q == cancelTestMode(api[x])
<1>1. /\ api' = [api EXCEPT ![x] = q] /\ open' \subseteq open
      /\ UNCHANGED <<sender, bus, gives>>
  BY DEF Leave
<1>2. SameRequest(q, api[x]) /\ q.owed = api[x].owed
  <2>1. ParserOK(api[x], x, gives[x] \ {HangUp})
    BY ParsersHere
  <2> QED
    BY <2>1, CancelTestMode
<1> HIDE DEF q
<1>3. \A y \in Client : SameRequest(api'[y], api[y]) /\ api'[y].owed = api[y].owed
  <2>1. api \in [Client -> Parser]
    BY DEF ApiIInv, Parsers
  <2>2. \A y \in Client : SameRequest(api[y], api[y])
    BY DEF SameRequest
  <2> QED
    BY <1>1, <1>2, <2>1, <2>2
<1>4. LoneState(c)'
  <2>1. LoneIdle(c) \/ LoneBusy(c)
    BY DEF LoneState
  <2>2. \/ LoneIdle(c) /\ AtRest(sender', bus')
        \/ LoneBusy(c) /\ Busy(sender', bus', api[c].active)
    BY <1>1, <2>1 DEF LoneIdle, LoneBusy
  <2> QED
    BY <1>1, <1>3, <2>2, LoneGoesOn
<1>5. AllOwing
  BY DEF LoneState
<1> QED
  BY <1>1, <1>4, <1>5, LeaveDeserts DEF LoneStep

\* The client that keeps the sender busy is current.
LEMMA BusyHere ==
    ASSUME ApiIInv, NEW c \in Client, LoneState(c), bus # << >> \/ sender.ready # << >>
    PROVE  /\ sender \in SenderType /\ sender.current = c /\ c # NoClient
           /\ api[c].active \in Message /\ api[c].owed = 1 /\ LoneBusy(c)
<1>1. ~AtRest(sender, bus)
  BY DEF AtRest, Idle
<1>2. LoneBusy(c)
  BY <1>1 DEF LoneState, LoneIdle
<1>3. api[c].active # NoMessage /\ sender.current = api[c].active.client
  BY <1>2 DEF LoneBusy, Busy
<1>4. api[c].active \in Message /\ api[c].active.client = c
  BY <1>3, ActiveIsOwn
<1>5. Owing(api[c])
  BY DEF LoneState, AllOwing
<1>6. sender \in SenderType /\ c # NoClient
  BY SenderAssumption DEF ApiIInv, IInv, TypeOK
<1> QED
  BY <1>2, <1>3, <1>4, <1>5, <1>6 DEF Owing

\* The turn ends: an open connection's command is over or goes on, and a
\* destroyed one may get stuck with its request.
LEMMA TurnEndsAlone ==
    ASSUME ApiIInv, NEW c \in Client, LoneState(c), up, UNCHANGED conns,
           sender.current = c, api[c].active # NoMessage,
           NEW r, NEW o, CallsBack(r, o), Moves(r, c, gives[c] \ {HangUp}),
           EndsAlone(sender, sender', bus', o.posted)
    PROVE  LoneStep(c)
<1> DEFINE cmds == gives[c] \ {HangUp}
           stay == Result(api[c], << >>, "none")
           q == Settle(o)
<1>1. /\ Sound(r, api[c], c, cmds) /\ o \in Outcomes(c, r)
      /\ api' = [api EXCEPT ![c] = q] /\ gives' = gives /\ open' = open
  BY DEF CallsBack, conns
<1>2. stay.p = api[c] /\ stay.posted = << >> /\ stay.line = "none"
  BY DEF Result
<1>3. o = r \/ (o = stay /\ c \notin open)
  BY <1>1 DEF Outcomes
<1>4. r.line # "none" /\ c \notin open => o = stay
  BY <1>1, <1>2 DEF Outcomes
<1> HIDE DEF stay
<1>5. api[c] \in Parser /\ api[c].owed = 1 /\ LoneAsks(api[c], c, cmds)
  <2>1. Owing(api[c]) /\ LoneAsks(api[c], c, cmds)
    BY DEF LoneState, AllOwing
  <2> QED
    BY <2>1, ParsersHere DEF Owing
<1>6. o.p \in Parser /\ o.p.owed = 1
  BY <1>1, <1>2, <1>3, <1>5 DEF Sound, ParserOK
<1>7. SameRequest(q, o.p) /\ q.owed = IF o.line = "none" THEN 1 ELSE 0
  BY <1>6, SettleSame, SettleOwed
<1> HIDE DEF q
<1>8. q.active = o.p.active
  BY <1>7 DEF SameRequest
<1>9. CASE o = stay /\ c \notin open
  <2>1. o.posted = << >> /\ o.p = api[c] /\ o.line = "none"
    BY <1>2, <1>9
  <2>2. AtRest(sender', bus') /\ sender'.out = << >>
    BY <2>1 DEF EndsAlone
  <2>3. LoneAsks(q, c, cmds) /\ Owing(q)
    BY <1>5, <1>7, <1>8, <2>1, SameLoneAsks DEF Owing
  <2>4. LoneState(c)'
    BY <1>1, <1>9, <2>2, <2>3, LoneChanges
  <2> QED
    BY <2>2, <2>4, TurnEndsReply DEF LoneStep, LoneState, Spaced
<1>10. CASE o = r /\ r.p.active = NoMessage /\ r.posted = << >> /\ r.line # "none"
  <2>1. AtRest(sender', bus') /\ sender'.out = << >>
    BY <1>10 DEF EndsAlone
  <2>2. LoneAsks(q, c, cmds) /\ Owing(q)
    BY <1>7, <1>8, <1>10 DEF Owing, LoneAsks, Asking
  <2>3. LoneState(c)'
    BY <1>1, <1>8, <1>10, <2>1, <2>2, LoneChanges
  <2> QED
    BY <2>1, <2>3, TurnEndsReply DEF LoneStep, LoneState, Spaced
<1>11. CASE /\ o = r /\ r.p.active \in ReadMessage /\ r.posted = <<r.p.active>>
            /\ r.line = "none"
  <2>1. PICK m \in Message : m = r.p.active
    BY <1>11 DEF ReadMessage
  <2>2. m # NoMessage
    BY SenderAssumption
  <2>3. Busy(sender', bus', m) /\ Spaced(sender, sender'.out)
    BY <1>11, <2>1 DEF EndsAlone
  <2>4. LoneAsks(r.p, c, cmds)
    BY DEF Moves, LoneAsks
  <2>5. LoneAsks(q, c, cmds) /\ Owing(q)
    BY <1>7, <1>8, <1>11, <2>1, <2>2, <2>4, SameLoneAsks DEF Owing
  <2>6. LoneState(c)'
    BY <1>1, <1>8, <1>11, <2>1, <2>2, <2>3, <2>5, LoneChanges
  <2> QED
    BY <2>3, <2>6, TurnEndsReply DEF LoneStep, LoneState
<1> QED
  BY <1>3, <1>9, <1>10, <1>11 DEF Moves

LEMMA AnswerStepAlone ==
    ASSUME ApiIInv, NEW c \in Client, GivesAlone(c), LoneState(c), NEW i \in DOMAIN bus,
           NEW n \in AnswerSizes(bus[i]), NEW end, Answer(i, n, end)
    PROVE  LoneStep(c)
<1> DEFINE cmds == gives[c] \ {HangUp}
<1>1. bus # << >>
  OBVIOUS
<1>2. PICK m \in Message : m = api[c].active
  BY <1>1, BusyHere
<1>3. /\ sender \in SenderType /\ sender.current = c /\ c # NoClient
      /\ api[c].active = m /\ m # NoMessage /\ Busy(sender, bus, m)
  BY <1>1, <1>2, BusyHere DEF LoneBusy
<1>4. bus = <<m>> /\ ~IsWrite(m)
  BY <1>1, <1>3, AnswerAlone
<1>5. i = 1 /\ bus[i] = m /\ Len(bus) = 1
  BY <1>4
<1>6. SubSeq(bus, 1, i - 1) \o SubSeq(bus, i + 1, Len(bus)) = << >>
  <2>1. SubSeq(bus, 1, 0) = << >> /\ SubSeq(bus, 2, 1) = << >>
    BY <1>4
  <2> QED
    BY <1>5, <2>1
<1>7. n \in Nat
  <2>1. m.val \in Nat /\ TelegramData \in Nat
    BY ApiAssumption
  <2> QED
    BY <1>5, <2>1 DEF AnswerSizes
<1> DEFINE r == onIncomingMessage(api[c], c, m.dest, ReceivedType(m.type, n), m.off, n, end)
<1>8. PICK o \in Outcomes(c, r) :
         /\ sender' = handlePcMessage(event(sender), m.dest, o.posted)
         /\ api' = [api EXCEPT ![c] = Settle(o)]
  BY <1>3, <1>5 DEF Answer
<1>9. bus' = Transmit(<< >>, sender'.out) /\ UNCHANGED conns /\ up
  BY <1>6 DEF Answer
<1>10. ParserOK(api[c], c, cmds) /\ api[c] \in Parser /\ Tabled(c, cmds)
  BY ParsersHere
<1>11. ReadsAnswerable(cmds) /\ Asking(api[c], c, cmds)
  <2>1. LoneAsks(api[c], c, cmds)
    BY DEF LoneState
  <2> QED
    BY <1>3, <1>4, <2>1 DEF GivesAlone, ReadsAnswerable, LoneAsks
<1>12. ReceivedType(m.type, n) \in {m.type, \hff}
  BY DEF ReceivedType
<1>13. Sound(r, api[c], c, cmds)
  BY <1>7, <1>10, OnIncomingMessage
<1>14. Moves(r, c, cmds)
  BY <1>3, <1>7, <1>10, <1>11, <1>12, IncomingMoves
<1> HIDE DEF r
<1>15. CallsBack(r, o)
  BY <1>3, <1>8, <1>13, <1>14 DEF CallsBack
<1>16. EndsAlone(sender, sender', bus', o.posted)
  BY <1>1, <1>3, <1>8, <1>9, AnswerAlone
<1> QED
  BY <1>3, <1>9, <1>14, <1>15, <1>16, TurnEndsAlone

LEMMA RunHandlerAlone ==
    ASSUME ApiIInv, NEW c \in Client, GivesAlone(c), LoneState(c), ApiRunHandler
    PROVE  LoneStep(c)
<1> DEFINE cmds == gives[c] \ {HangUp}
           h == Head(sender.ready)
<1>1. /\ sender.ready # << >> /\ up /\ UNCHANGED conns
      /\ bus' = Transmit(bus, sender'.out)
  BY DEF ApiRunHandler
<1>2. PICK m \in Message : m = api[c].active
  BY <1>1, BusyHere
<1>3. /\ sender \in SenderType /\ sender.current = c /\ c # NoClient
      /\ api[c].active = m /\ m # NoMessage /\ Busy(sender, bus, m) /\ LoneBusy(c)
  BY <1>1, <1>2, BusyHere DEF LoneBusy
<1>4. \/ h = [kind |-> "send", msg |-> m]
      \/ h = [kind |-> "fake", msg |-> NoMessage] /\ IsWrite(m)
      \/ h = [kind |-> "timeout", msg |-> NoMessage] /\ ~IsWrite(m)
  BY <1>1, <1>3, ReadyAlone DEF Busy
<1> HIDE DEF h
<1>5. \/ h.kind = "send"
      \/ h.kind = "fake" /\ IsWrite(m)
      \/ h.kind = "timeout" /\ ~IsWrite(m)
  BY <1>4
<1>6. ParserOK(api[c], c, cmds) /\ api[c] \in Parser /\ Tabled(c, cmds)
  BY ParsersHere
<1>7. CASE h.kind = "send"
  <2>1. ~HandlerCallsClient(sender)
    BY <1>7 DEF HandlerCallsClient, h
  <2>2. sender' = runHandler(sender, << >>) /\ api' = api
    BY <1>1, <2>1 DEF ApiRunHandler
  <2>3. Busy(sender', bus', m) /\ Spaced(sender, sender'.out)
    BY <1>1, <1>3, <1>7, <2>2, DelayedAlone DEF h
  <2>4. \A x \in Client : SameRequest(api'[x], api[x]) /\ api'[x].owed = api[x].owed
    BY <2>2 DEF SameRequest
  <2>5. LoneState(c)'
    BY <1>1, <1>3, <2>3, <2>4, LoneGoesOn DEF conns
  <2>6. ServiceStep
    BY <1>1, <2>2, ServiceSame DEF conns
  <2> QED
    BY <2>3, <2>5, <2>6 DEF LoneStep
<1>8. CASE h.kind = "fake" /\ IsWrite(m)
  <2> DEFINE r == onIncomingMessage(api[c], c, PC, \hff, 1, 0, FALSE)
             over == Result([api[c] EXCEPT !.active = NoMessage], << >>, "OK")
             stay == Result(api[c], << >>, "none")
  <2>1. HandlerCallsClient(sender)
    BY <1>3, <1>8 DEF HandlerCallsClient, h
  <2>2. PICK o \in Outcomes(c, r) :
           /\ sender' = runHandler(sender, o.posted)
           /\ api' = [api EXCEPT ![c] = Settle(o)]
    BY <1>1, <1>3, <1>8, <2>1 DEF ApiRunHandler, h
  <2>3. r = over
    BY <1>3 DEF onIncomingMessage
  <2>4. Sound(r, api[c], c, cmds)
    <3>1. 0 \in Nat
      OBVIOUS
    <3> QED
      BY <1>6, <3>1, OnIncomingMessage
  <2> HIDE DEF r
  <2>5. Moves(r, c, cmds)
    <3>1. "OK" # "none"
      OBVIOUS
    <3> QED
      BY <1>6, <2>3, <3>1, ForgetMoves
  <2>6. o.posted = << >>
    <3>1. o = r \/ o = stay
      BY DEF Outcomes
    <3>2. over.posted = << >> /\ stay.posted = << >>
      BY DEF Result
    <3> QED
      BY <2>3, <3>1, <3>2
  <2>7. CallsBack(r, o)
    BY <1>3, <2>2, <2>4, <2>5 DEF CallsBack
  <2>8. EndsAlone(sender, sender', bus', o.posted)
    BY <1>1, <1>3, <1>8, <2>2, <2>6, MadeUpAlone DEF h
  <2> QED
    BY <1>1, <1>3, <2>5, <2>7, <2>8, TurnEndsAlone
<1>9. CASE h.kind = "timeout" /\ ~IsWrite(m)
  <2> DEFINE r == onTimeout(api[c])
  <2>1. HandlerCallsClient(sender) /\ h.kind # "fake"
    BY <1>3, <1>9 DEF HandlerCallsClient, h
  <2>2. PICK o \in Outcomes(c, r) :
           /\ sender' = runHandler(sender, o.posted)
           /\ api' = [api EXCEPT ![c] = Settle(o)]
    BY <1>1, <1>3, <2>1 DEF ApiRunHandler, h
  <2>3. Sound(r, api[c], c, cmds)
    BY <1>6, OnTimeout
  <2>4. Asking(api[c], c, cmds) /\ api[c].active \in ReadMessage
    BY <1>3, <1>9 DEF LoneState, LoneAsks, ReadMessage
  <2>5. Moves(r, c, cmds)
    BY <1>3, <1>6, <2>4, TimeoutMoves
  <2> HIDE DEF r
  <2>6. CallsBack(r, o)
    BY <1>3, <2>2, <2>3, <2>5 DEF CallsBack
  <2>7. EndsAlone(sender, sender', bus', o.posted)
    BY <1>1, <1>3, <1>9, <2>2, TimeoutAlone DEF h
  <2> QED
    BY <1>1, <1>3, <2>5, <2>6, <2>7, TurnEndsAlone
<1> QED
  BY <1>5, <1>7, <1>8, <1>9

\* The sender goes on by itself.
LEMMA SenderAlone ==
    ASSUME ApiIInv, NEW c \in Client, LoneState(c), UNCHANGED <<api, conns>>,
           sender'.out = << >>,
           AtRest(sender, bus) => AtRest(sender', bus'),
           \A m \in Message : Busy(sender, bus, m) => Busy(sender', bus', m)
    PROVE  LoneStep(c)
<1>1. LoneIdle(c) \/ LoneBusy(c)
  BY DEF LoneState
<1>2. LoneBusy(c) => Busy(sender', bus', api[c].active)
  BY ActiveIsOwn DEF LoneBusy
<1>3. \A x \in Client : SameRequest(api'[x], api[x]) /\ api'[x].owed = api[x].owed
  BY DEF SameRequest
<1>4. LoneState(c)'
  BY <1>1, <1>2, <1>3, LoneGoesOn DEF LoneIdle, conns
<1>5. ServiceStep
  BY ServiceSame DEF conns
<1> QED
  BY <1>4, <1>5 DEF LoneStep, Spaced

LEMMA StaleAlone ==
    ASSUME ApiIInv, NEW c \in Client, GivesAlone(c), LoneState(c), StaleCallback
    PROVE  LoneStep(c)
<1>1. up /\ up' = FALSE /\ UNCHANGED <<sender, api, bus, open, gives>>
  BY DEF StaleCallback
<1>2. /\ sender.current \in Client \ open
      /\ bus # << >> \/ sender.ready # << >>
  BY AloneHere DEF StaleCallback
<1>3. c \in Client \ open /\ api[c].owed = 1
  BY <1>2, BusyHere
<1>4. ServiceStep
  BY <1>1, <1>3, UnansweredEnds
<1>5. LoneState(c)'
  BY <1>1 DEF LoneState, LoneIdle, LoneBusy, AllOwing
<1> QED
  BY <1>1, <1>4, <1>5 DEF LoneStep

\* Every step keeps the invariant, sends no request too early for its address,
\* and is one the service may take.
LEMMA NextAlone ==
    ASSUME ApiIInv, NEW c \in Client, GivesAlone(c), LoneState(c), [ApiNext]_vars
    PROVE  LoneStep(c)
<1>1. \A x \in Client : api[x].test = "off" /\ ~(api[x].refresh > 0)
  BY AloneHere
<1>2. sender \in SenderType
  BY DEF ApiIInv, IInv, TypeOK
<1>3. CASE \E x \in Client : \E cmd \in gives[x] \ {HangUp} : Command(x, cmd)
  BY <1>3, CommandAlone
<1>4. CASE \E x \in Client : Leave(x)
  BY <1>4, LeaveAlone
<1>5. CASE \E i \in DOMAIN bus : \E n \in AnswerSizes(bus[i]), end \in BOOLEAN : Answer(i, n, end)
  BY <1>5, AnswerStepAlone
<1>6. CASE \E i \in DOMAIN bus : Lose(i)
  BY <1>6 DEF Lose, GivesAlone
<1>7. CASE ApiReactor
  <2>1. PICK hs \in ExpiredWaits(sender) : sender' = reactorPass(sender, hs)
    BY <1>7 DEF ApiReactor
  <2>2. /\ bus' = (IF ResponseDue(sender) THEN << >> ELSE bus)
        /\ UNCHANGED <<api, conns>>
    BY <1>7 DEF ApiReactor, GivesAlone
  <2>3. sender'.out = << >>
    <3>1. event(sender).out = << >> /\ event(sender) \in SenderType
      BY <1>2, EventAlone
    <3> HIDE DEF event
    <3> QED
      BY <2>1, <3>1 DEF reactorPass, SenderType
  <2>4. ~AtRest(sender, bus)
    BY DEF AtRest, Idle, ExpiredWaits, ResponseDue, SendDue
  <2>5. \A m \in Message : Busy(sender, bus, m) => Busy(sender', bus', m)
    BY <1>2, <2>1, <2>2, ReactorAlone
  <2> QED
    BY <2>2, <2>3, <2>4, <2>5, SenderAlone
<1>8. CASE ApiRunHandler
  BY <1>8, RunHandlerAlone
<1>9. CASE \E x \in Client : TestModeDue(x) \/ RefreshTestMode(x)
  BY <1>1, <1>9 DEF TestModeDue, RefreshTestMode
<1>10. CASE StaleCallback
  BY <1>10, StaleAlone
<1>11. CASE ApiTick
  <2>1. sender' = elapse(sender) /\ UNCHANGED <<api, bus, conns>>
    BY <1>11 DEF ApiTick
  <2> QED
    BY <1>2, <2>1, ElapseAlone, SenderAlone
<1>12. CASE UNCHANGED vars
  <2>1. UNCHANGED <<sender, api, bus, open, up, gives>>
    BY <1>12 DEF vars, conns
  <2>2. LoneState(c)'
    BY <2>1 DEF LoneState, LoneIdle, LoneBusy, AllOwing
  <2>3. ServiceStep
    BY <2>1, ServiceSame
  <2> QED
    BY <2>1, <2>2, <2>3 DEF LoneStep
<1> QED
  BY <1>3, <1>4, <1>5, <1>6, <1>7, <1>8, <1>9, <1>10, <1>11, <1>12 DEF ApiNext, Ended

LEMMA LoneSteps ==
    ApiIInv /\ LoneIInv /\ [ApiNext]_vars
        => LoneIInv' /\ ServiceStep /\ (sender' = sender \/ Spaced(sender, sender'.out))
<1> SUFFICES ASSUME ApiIInv, LoneIInv, [ApiNext]_vars
             PROVE  LoneIInv' /\ ServiceStep /\ (sender' = sender \/ Spaced(sender, sender'.out))
  OBVIOUS
<1>1. PICK c \in Client : GivesAlone(c) /\ LoneState(c)
  BY DEF LoneIInv
<1>2. LoneStep(c)
  BY <1>1, NextAlone
<1>3. GivesAlone(c)'
  BY <1>1, SameGiven DEF GivesAlone
<1> QED
  BY <1>2, <1>3 DEF LoneStep, LoneIInv

LEMMA InitAlone == ApiInit /\ LoneClient => LoneIInv
<1> SUFFICES ASSUME ApiInit, NEW c \in Client, GivesAlone(c) PROVE LoneState(c)
  BY DEF LoneClient, LoneIInv
<1>1. AtRest(sender, bus)
  BY IdleRests DEF ApiInit, IdleSender, NoSend, NoWait, AtRest, Idle
<1>2. \A x \in Client : api[x].active = NoMessage /\ api[x].owed = 0
  BY DEF ApiInit, NewParser
<1>3. LoneAsks(api[c], c, gives[c] \ {HangUp})
  BY <1>2 DEF LoneAsks, Asking
<1>4. AllOwing
  BY <1>2 DEF AllOwing, Owing
<1> QED
  BY <1>1, <1>2, <1>3, <1>4 DEF LoneState, LoneIdle

\* The one read that may be on the bus is the current client's, also when writes
\* with their made-up answers come in between,
THEOREM LoneReachesTheAsker == ApiSpec /\ LoneClient => []AnswersReachTheAsker
<1>1. ApiIInv /\ LoneIInv => AnswersReachTheAsker
  <2> SUFFICES ASSUME ApiIInv, NEW c \in Client, LoneState(c) PROVE AnswersReachTheAsker
    BY DEF LoneIInv
  <2>1. CASE bus = << >>
    BY <2>1 DEF AnswersReachTheAsker
  <2>2. CASE bus # << >>
    <3>1. PICK m \in Message : m = api[c].active
      BY <2>2, BusyHere
    <3>2. sender \in SenderType /\ Busy(sender, bus, m)
      BY <2>2, <3>1, BusyHere DEF LoneBusy
    <3>3. bus = <<m>> /\ m.client = sender.current
      BY <2>2, <3>2, AnswerAlone DEF Busy
    <3>4. Len(bus) = 1 /\ \A i \in DOMAIN bus : i = 1 /\ bus[i] = m
      BY <3>3
    <3> QED
      BY <3>3, <3>4 DEF AnswersReachTheAsker
  <2> QED
    BY <2>1, <2>2
<1> QED
  BY <1>1, InitApi, NextApi, InitAlone, LoneSteps, PTL DEF ApiSpec

\* a connection whose request is active is the current client, and does not
\* answer ERRBUSY for good,
THEOREM LoneNotForgotten == ApiSpec /\ LoneClient => []NoForgottenRequest
<1>1. ApiIInv /\ LoneIInv => NoForgottenRequest
  <2> SUFFICES ASSUME ApiIInv, NEW c \in Client, LoneState(c),
                      NEW x \in open, api[x].active # NoMessage
               PROVE  sender.current = x
    BY DEF LoneIInv, NoForgottenRequest
  <2>1. x = c
    BY DEF ApiIInv, LoneState
  <2>2. LoneBusy(c)
    BY <2>1 DEF LoneState, LoneIdle
  <2> QED
    BY <2>1, <2>2, ActiveIsOwn DEF LoneBusy, Busy
<1> QED
  BY <1>1, InitApi, NextApi, InitAlone, LoneSteps, PTL DEF ApiSpec

\* a request goes out MinDistance after the last communication with its address,
\* and a read MinDistance after a write to the same device too, since the made-up
\* answer advances the queue only then (nothing is promised of a write after an
\* answer of the same device, which came from the other of its addresses),
THEOREM LoneSpaced == ApiSpec /\ LoneClient => RequestsSpaced
<1>1. ApiIInv /\ LoneIInv /\ [ApiNext]_vars => [Spaced(sender, sender'.out)]_sender
  BY LoneSteps
<1>2. [Spaced(sender, sender'.out)]_sender
         => [\A i \in DOMAIN sender'.out :
               \A a \in {sender'.out[i].dest, WriteTo(sender'.out[i].dest)} \cap Addr :
                  sender.age[a] >= MinDistance]_sender
  BY DEF Spaced
<1> QED
  BY <1>1, <1>2, InitApi, NextApi, InitAlone, LoneSteps, PTL DEF ApiSpec, RequestsSpaced

\* and every command, read or write, is answered by one final line at most; the
\* process ends only when the client hung up on an unanswered one.
THEOREM LoneServedOnce ==
    ApiSpec /\ LoneClient => Service!Init /\ [][Service!Next]_(Service!vars)
<1>1. ApiIInv /\ LoneIInv /\ [ApiNext]_vars => [Service!Next]_(Service!vars)
  BY LoneSteps DEF ServiceStep
<1>2. ApiInit => Service!Init
  BY InitServes
<1> QED
  BY <1>1, <1>2, InitApi, NextApi, InitAlone, LoneSteps, PTL DEF ApiSpec
=============================================================================
