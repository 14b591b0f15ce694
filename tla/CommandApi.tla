----------------------------- MODULE CommandApi ------------------------------
(***************************************************************************)
(* The command interface as a whole: the API clients (ApiCommandParser     *)
(* with the CommandConnection that owns it), the EmsCommandSender they     *)
(* share, and the EMS bus with its devices.                                *)
(*                                                                         *)
(* api[c] is the parser of connection c.  `owed' counts the commands it    *)
(* accepted for which the connection has not yet printed a final line (OK, *)
(* FAIL or ERRTIMEOUT).  `bus' holds the read requests a device may still  *)
(* answer.  Byte counts are those of the code; a device answers a read     *)
(* with as many of the requested bytes as fit in a telegram, or with none. *)
(*                                                                         *)
(* A connection is destroyed as soon as its client hangs up, but the       *)
(* sender keeps its CommandClient with the requests still queued, and with *)
(* it a plain pointer to the connection.  What a callback through that     *)
(* pointer does is undefined: it may work on what is left in the memory,   *)
(* do nothing, or end the process.                                         *)
(***************************************************************************)
EXTENDS CommandScheduler, ApiCommands

CONSTANTS
    Scenarios,          \* functions from Client to the commands each may give
    HangUp,             \* stands among them for hanging up at any time
    MaxRequestRetries,  \* MaxRequestRetries
    TelegramData,       \* data bytes in one telegram
    LateAnswers,        \* may a device answer after the request timed out?
    MaxQueue,           \* bound on m_pending when a client gives a command
    MaxBus              \* reads a device may still answer; later ones get lost

ASSUME ApiAssumption ==
    /\ MaxRequestRetries \in Nat \ {0}
    /\ TelegramData \in 1 .. 255
    /\ LateAnswers \in BOOLEAN
    /\ MaxQueue \in Nat /\ MaxBus \in Nat
    /\ \A m \in Message : m.val \in 0 .. 255
    /\ Addr \subseteq 0 .. 255 /\ WriteAddr = {a \in Addr : a < 128}
    /\ MinDistance <= FakeDelay     \* 100 ms and 200 ms
    /\ MaxBurst # 0 /\ MaxPending = Unbounded

\* The EmsMessage constructor: bit 7 of a destination is set for reads only.
ReadFrom(dest) == IF dest < 128 THEN dest + 128 ELSE dest
WriteTo(dest) == IF dest < 128 THEN dest ELSE dest - 128

Request(c, dest, type, off, val) ==
    [client |-> c, dest |-> dest, type |-> type, off |-> off % 256, val |-> val % 256]

\* All that the commands cmds can ask for, with the reads and the refresh of the
\* test mode that follow of themselves.
Requests(cmds) ==
    LET calls == UNION {{Calls(cmd)[i] : i \in DOMAIN Calls(cmd)} : cmd \in cmds}
    IN  calls
        \cup {Read(d, \h02, 3, FALSE) : d \in IF \E k \in calls : k.type = \h02 /\ ~k.raw
                                              THEN {UI800, RH800} ELSE {}}
        \cup (IF <<"uba", "testmodeon">> \in cmds THEN {TestModeWrite(TestModeOn)} ELSE {})

\* The types whose handlers ask for the rest of a page.
ContinuedTypes == {\h137, \hbf, \hc0, \hc2}

\* The clients give commands of the tables; a read asks for at least one byte.
\* Message contains whatever may have to be sent for them.
ASSUME CommandAssumption ==
    \A g \in Scenarios : \A c \in Client :
        /\ \A cmd \in g[c] \ {HangUp} :
              /\ Calls(cmd) \in Seq(Call) /\ Len(Calls(cmd)) <= MaxBurst
              /\ Calls(cmd) = << >> => cmd \in AnsweredAtOnce
        /\ \A k \in Requests(g[c] \ {HangUp}) :
              /\ k.op = "write" => Request(c, WriteTo(k.dest), k.type, k.off, k.len) \in Message
              /\ k.op = "read" =>
                    /\ k.len > 0
                    /\ \A n \in 0 .. k.len - 1 :
                          n = 0 \/ k.raw \/ k.type \in ContinuedTypes =>
                              Request(c, ReadFrom(k.dest), k.type, k.off + n, k.len - n) \in Message

VARIABLES
    api, bus,
    open,   \* m_connections
    up,     \* the process has not ended
    gives   \* the scenario this behaviour follows

conns == <<open, up, gives>>
vars == <<sender, api, bus, conns>>

-----------------------------------------------------------------------------
(* ApiCommandParser *)

NewParser ==
    [active  |-> NoMessage,                 \* m_activeRequest
     retries |-> 0,                         \* m_retriesLeft
     dest |-> 0, type |-> 0,                \* m_requestDestination, m_requestType
     off |-> 0, len |-> 0,                  \* m_requestOffset, m_requestLength
     got |-> 0,                             \* m_requestResponse.size()
     raw |-> FALSE,                         \* m_outputRawData
     test |-> "off",                        \* the wait of testModeRepeater
     refresh |-> 0,                         \* its completed waits, not yet run
     wanted |-> "off",                      \* the last "testmode" command
     owed |-> 0]

Parser ==
    [active : Message \cup {NoMessage}, retries : 0 .. MaxRequestRetries,
     dest : Nat, type : Nat, off : Nat, len : Nat, got : Nat, raw : BOOLEAN,
     test : {"off", "first", "repeat"}, refresh : Nat, wanted : {"on", "off"}, owed : -1 .. 1]

\* What a call leaves behind: the parser p, the messages it passed to the
\* sender, and the line the connection prints because of the result.
Result(p, posted, line) == [p |-> p, posted |-> posted, line |-> line]

sendActiveRequest(p, line) == Result(p, <<p.active>>, line)

sendCommand(p, c, dest, type, off, val) ==
    sendActiveRequest(
        [p EXCEPT !.retries = MaxRequestRetries, !.active = Request(c, dest, type, off, val)],
        "none")

\* continueRequest() and what its callers do when nothing is left to ask for:
\* they return true, and onIncomingMessage forgets the active request.
continueRequest(p, c) ==
    IF p.got >= p.len
    THEN Result([p EXCEPT !.active = NoMessage], << >>, "OK")
    ELSE sendCommand(p, c, ReadFrom(p.dest), p.type, p.off + p.got, p.len - p.got)

startRequest(p, c, dest, type, off, len, raw) ==
    continueRequest([p EXCEPT !.dest = dest, !.type = type, !.off = off, !.len = len,
                              !.got = 0, !.raw = raw], c)

\* One entry of a command's table.
call(p, c, k) ==
    IF k.op = "read"
    THEN startRequest(p, c, k.dest, k.type, k.off, k.len, k.raw)
    ELSE sendCommand(p, c, WriteTo(k.dest), k.type, k.off, k.len)

\* testModeRepeater.cancel() or expires_from_now(): the wait armed by
\* "testmode on" ignores that it was aborted and refreshes all the same.
cancelTestMode(p) ==
    [p EXCEPT !.refresh = IF p.test = "first" THEN @ + 1 ELSE @, !.test = "off"]

\* The parts of handleUbaCommand about the timer of the test mode.
testModeCommand(p, cmd) ==
    CASE cmd = <<"uba", "testmodeon">>  -> [cancelTestMode(p) EXCEPT !.test = "first", !.wanted = "on"]
      [] cmd = <<"uba", "testmodeoff">> -> [cancelTestMode(p) EXCEPT !.wanted = "off"]
      [] OTHER                          -> p

\* parse(), for a command the handlers accept.  All calls of a command set the
\* same members, so the parser is left as the last of them leaves it.
parse(p, c, cmd) ==
    LET calls == Calls(cmd)
        q     == testModeCommand(p, cmd)
        line  == IF cmd \in AnsweredAtOnce THEN "OK" ELSE "none"
    IN  Result(IF calls = << >> THEN q ELSE call(q, c, calls[Len(calls)]).p,
               IF Len(calls) = 1 THEN call(q, c, calls[1]).posted
               ELSE [i \in 1 .. Len(calls) |-> call(q, c, calls[i]).posted[1]],
               line)

refreshTestMode(p, c) ==
    call([cancelTestMode(p) EXCEPT !.test = "repeat"], c, TestModeWrite(TestModeOn))

\* handleResponse(), after m_requestResponse has grown.  `end' says whether
\* loopOverResponse came to an empty error record.
handleResponse(p, c, end) ==
    CASE p.type = \h02                -> IF p.dest \in {UBA2, UI800}
                                         THEN startRequest(p, c, NextVersionSource(p.dest), \h02, 0, 3, FALSE)
                                         ELSE Result([p EXCEPT !.active = NoMessage], << >>, "OK")
      [] p.type = \h137               -> continueRequest(p, c)
      [] p.type \in {\hbf, \hc0, \hc2} -> IF end THEN Result([p EXCEPT !.active = NoMessage], << >>, "OK")
                                         ELSE continueRequest(p, c)
      [] p.type \in {\h15, \h140, \h1a5, \h1af, \h1b9, \h1f5, \hea}
                                      -> Result([p EXCEPT !.active = NoMessage], << >>, "OK")
      [] OTHER                        -> Result(p, << >>, "FAIL")

\* onIncomingMessage() for a message from source with n bytes of data.
onIncomingMessage(p, c, source, type, off, n, end) ==
    IF p.active = NoMessage THEN Result(p, << >>, "none")
    ELSE IF type = \hff
    THEN Result([p EXCEPT !.active = NoMessage], << >>, IF off # 4 THEN "OK" ELSE "FAIL")
    ELSE IF source # p.dest \/ type # p.type \/ off # p.off + p.got
    THEN Result(p, << >>, "none")
    ELSE LET q == IF n = 0 THEN [p EXCEPT !.len = p.got] ELSE [p EXCEPT !.got = @ + n]
         IN  IF q.raw THEN continueRequest(q, c) ELSE handleResponse(q, c, end)

\* Mutant: the retries are not limited.
onTimeoutForever(p) ==
    IF p.active = NoMessage THEN Result(p, << >>, "none")
    ELSE sendActiveRequest([p EXCEPT !.retries = @ - 1], "none")

\* Mutant: ERRTIMEOUT is printed for every attempt.
onTimeoutEach(p) ==
    IF p.active = NoMessage THEN Result(p, << >>, "none")
    ELSE IF p.retries = 1
    THEN Result([p EXCEPT !.retries = 0, !.active = NoMessage], << >>, "ERRTIMEOUT")
    ELSE sendActiveRequest([p EXCEPT !.retries = @ - 1], "ERRTIMEOUT")

onTimeout(p) ==
    IF p.active = NoMessage THEN Result(p, << >>, "none")
    ELSE IF p.retries = 1
    THEN Result([p EXCEPT !.retries = 0, !.active = NoMessage], << >>, "ERRTIMEOUT")
    ELSE sendActiveRequest([p EXCEPT !.retries = @ - 1], "none")

-----------------------------------------------------------------------------
(* The connections, the sender and the bus *)

\* The parser after the connection has printed the line of the result; -1
\* stands for any number of lines beyond one for each command.
Settle(r) == [r.p EXCEPT !.owed = IF r.line = "none" \/ @ = -1 THEN @ ELSE @ - 1]

\* The reads among messages, in their order.
AddRead(reads, m) == IF IsWrite(m) THEN reads ELSE Append(reads, m)
ReadsAmong(out) ==
    LET r[i \in 0 .. Len(out)] == IF i = 0 THEN << >> ELSE AddRead(r[i - 1], out[i])
    IN  r[Len(out)]

\* sendMessageImpl: the reads reach their devices.
Transmit(b, out) ==
    LET reads == b \o ReadsAmong(out)
    IN  SubSeq(reads, 1, IF Len(reads) < MaxBus THEN Len(reads) ELSE MaxBus)

\* The EmsMessage constructor for a received telegram: an EMS+ answer without
\* data is too short to be recognised as EMS+ and keeps the type byte 0xff.
ReceivedType(type, n) == IF type >= \hf0 /\ n = 0 THEN \hff ELSE type

ApiInit ==
    /\ sender = IdleSender
    /\ api = [c \in Client |-> NewParser]
    /\ bus = << >>
    /\ open = Client
    /\ up = TRUE
    /\ gives \in Scenarios

\* What a callback into c can lead to that r describes for a connection that
\* exists.  respond() fails for one that does not.
Outcomes(c, r) ==
    IF c \in open THEN {r}
    ELSE {Result(api[c], << >>, "none")} \cup (IF r.line = "none" THEN {r} ELSE {})

\* CommandConnection::handleRequest: a client gives a command.  While a
\* request is active the answer is ERRBUSY and nothing changes.  An aborted
\* wait of testModeRepeater runs before the next command is read, so at most
\* an expired one is still to run.
Command(c, cmd) ==
    /\ up /\ c \in open
    /\ api[c].active = NoMessage
    /\ api[c].refresh <= 1
    /\ Len(sender.pending) <= MaxQueue
    /\ LET r == parse([api[c] EXCEPT !.owed = @ + 1], c, cmd)
       IN  /\ api' = [api EXCEPT ![c] = Settle(r)]
           /\ IF r.posted = << >> THEN UNCHANGED <<sender, bus>>
              ELSE /\ sender' = sendMessage(event(sender), r.posted)
                   /\ bus' = Transmit(bus, sender'.out)
    /\ UNCHANGED conns

\* stopConnection: the client hung up, or a write to it failed.  The parser's
\* timer goes with it, which aborts a wait.
Leave(c) ==
    /\ up /\ c \in open /\ HangUp \in gives[c]
    /\ open' = open \ {c}
    /\ api' = [api EXCEPT ![c] = cancelTestMode(@)]
    /\ UNCHANGED <<sender, bus, up, gives>>

\* A device answers read i with all it can or with nothing; the answer arrives
\* and the current client, if there is one, handles it.
Answer(i, n, end) ==
    LET m == bus[i]
        c == sender.current
        r == onIncomingMessage(api[c], c, m.dest, ReceivedType(m.type, n), m.off, n, end)
        rest == SubSeq(bus, 1, i - 1) \o SubSeq(bus, i + 1, Len(bus))
    IN  /\ up
        /\ Len(sender.ready) < MaxReady
        /\ IF c = NoClient
           THEN sender' = handlePcMessage(event(sender), m.dest, << >>) /\ api' = api
           ELSE \E o \in Outcomes(c, r) :
                   /\ sender' = handlePcMessage(event(sender), m.dest, o.posted)
                   /\ api' = [api EXCEPT ![c] = Settle(o)]
        /\ bus' = Transmit(rest, sender'.out)
        /\ UNCHANGED conns

AnswerSizes(m) == {0, IF m.val < TelegramData THEN m.val ELSE TelegramData}

\* An answer, or the request, is lost.
Lose(i) ==
    /\ up /\ LateAnswers
    /\ bus' = SubSeq(bus, 1, i - 1) \o SubSeq(bus, i + 1, Len(bus))
    /\ UNCHANGED <<sender, api, conns>>

\* Unless answers may be late, a read that is not answered when its timeout is
\* noticed will not be answered at all.
ApiReactor ==
    /\ up /\ ReactorTurn(sender)
    /\ \E hs \in ExpiredWaits(sender) : sender' = reactorPass(sender, hs)
    /\ bus' = IF ResponseDue(sender) /\ ~LateAnswers THEN << >> ELSE bus
    /\ UNCHANGED <<api, conns>>

\* A completed wait of the sender runs.
ApiRunHandler ==
    /\ up /\ sender.ready # << >>
    /\ LET c == sender.current
           r == IF Head(sender.ready).kind = "fake"
                THEN onIncomingMessage(api[c], c, PC, \hff, 1, 0, FALSE)
                ELSE onTimeout(api[c])
       IN  IF HandlerCallsClient(sender)
           THEN \E o \in Outcomes(c, r) :
                   /\ sender' = runHandler(sender, o.posted)
                   /\ api' = [api EXCEPT ![c] = Settle(o)]
           ELSE sender' = runHandler(sender, << >>) /\ api' = api
    /\ bus' = Transmit(bus, sender'.out)
    /\ UNCHANGED conns

\* testModeRepeater expires: one second after "testmode on", then every five.
TestModeDue(c) ==
    /\ up /\ api[c].test # "off"
    /\ api[c].refresh = 0
    /\ Len(sender.pending) <= MaxQueue
    /\ api' = [api EXCEPT ![c].test = "off", ![c].refresh = 1]
    /\ UNCHANGED <<sender, bus, conns>>

\* Mutant: the message is queued without starting an idle sender.
RefreshTestModeQueued(c) ==
    /\ up /\ api[c].refresh > 0
    /\ LET r == refreshTestMode([api[c] EXCEPT !.refresh = @ - 1], c)
       IN  /\ sender' = enqueue(event(sender), r.posted)
           /\ api' = [api EXCEPT ![c] = r.p]
           /\ UNCHANGED <<bus, conns>>

\* A completed wait of testModeRepeater runs refreshTestMode.
RefreshTestMode(c) ==
    /\ up /\ api[c].refresh > 0
    /\ LET p == [api[c] EXCEPT !.refresh = @ - 1]
           r == refreshTestMode(p, c)
       IN  \/ /\ sender' = sendMessage(event(sender), r.posted)
              /\ api' = [api EXCEPT ![c] = r.p]
              /\ bus' = Transmit(bus, sender'.out)
           \/ /\ c \notin open
              /\ api' = [api EXCEPT ![c] = p]
              /\ UNCHANGED <<sender, bus>>
    /\ UNCHANGED conns

\* The last outcome of a callback into a connection that was destroyed, or into
\* its parser: the process ends, by a signal or by the exception of
\* shared_from_this, which main() only reports.
StaleCallback ==
    /\ up
    /\ \/ /\ sender.current \in Client \ open
          /\ bus # << >> \/ (sender.ready # << >> /\ HandlerCallsClient(sender))
       \/ \E c \in Client \ open : api[c].refresh > 0
    /\ up' = FALSE
    /\ UNCHANGED <<sender, api, bus, open, gives>>

ApiTick == up /\ sender' = elapse(sender) /\ UNCHANGED <<api, bus, conns>>

\* Nothing follows the end of the process.
Ended == ~up /\ UNCHANGED vars

ApiNext ==
    \/ \E c \in Client : \E cmd \in gives[c] \ {HangUp} : Command(c, cmd)
    \/ \E c \in Client : Leave(c)
    \/ \E i \in DOMAIN bus : \E n \in AnswerSizes(bus[i]), end \in BOOLEAN : Answer(i, n, end)
    \/ \E i \in DOMAIN bus : Lose(i)
    \/ ApiReactor
    \/ ApiRunHandler
    \/ \E c \in Client : TestModeDue(c) \/ RefreshTestMode(c)
    \/ StaleCallback
    \/ ApiTick
    \/ Ended

ApiFairness ==
    /\ WF_vars(ApiTick) /\ WF_vars(ApiReactor) /\ WF_vars(ApiRunHandler)
    /\ \A c \in Client : WF_vars(RefreshTestMode(c))

ApiSpec == ApiInit /\ [][ApiNext]_vars /\ ApiFairness

-----------------------------------------------------------------------------
(* Properties *)

\* Every member keeps the type its declaration gives it, the retry counter its
\* range.
ApiTypeOK ==
    /\ sender \in SenderType
    /\ api \in [Client -> Parser]
    /\ bus \in Seq(Message)
    /\ open \subseteq Client
    /\ up \in BOOLEAN
    /\ gives \in Scenarios

Waiting(c) == \E i \in DOMAIN sender.pending : sender.pending[i].client = c

\* A client with an active request is either the one the sender delivers
\* answers and timeouts to, or has a request in the queue.  Otherwise nothing
\* will ever call it again, and it answers ERRBUSY for good.
NoForgottenRequest ==
    \A c \in open : api[c].active # NoMessage => sender.current = c \/ Waiting(c)

\* The sender delivers whatever arrives to m_currentClient: that is right as
\* long as at most one read is unanswered, and it is the current client's.
AnswersReachTheAsker ==
    /\ Len(bus) <= 1
    /\ \A i \in DOMAIN bus : bus[i].client = sender.current

\* m_lastCommTimes is kept by address, and a device has two that differ in bit
\* 7: it is read at, and answers from, the one and is written to at the other.
\* A request goes out at least MinDistanceBetweenRequests after the last
\* communication with its own address, however the wait of m_sendTimer, the
\* answers and the timeouts interleave; and a read only that long after the
\* last write to the same device as well, which nothing in the code compares:
\* it takes the made-up answer to the write to go on.  Nothing of the kind
\* holds for a write: it may follow an answer of the same device at once.
RequestsSpaced ==
    [][\A i \in DOMAIN sender'.out :
          \A a \in {sender'.out[i].dest, WriteTo(sender'.out[i].dest)} \cap Addr :
             sender.age[a] >= MinDistance]_sender

\* A request that is unanswered runs into RequestTimeout: the command it
\* belongs to is over eventually, answered or not.
RequestTimesOut ==
    \A c \in Client : api[c].active # NoMessage ~> api[c].active = NoMessage

\* After "testmode off" the collector does not switch the test mode on again.
TestModeStaysOff ==
    [][\A i \in DOMAIN sender'.in :
          sender'.in[i].type = \h1d /\ sender'.in[i].val = TestModeOn
              => api[sender'.in[i].client].wanted = "on"]_sender

\* Whatever the clients and the devices do (late and lost answers, refreshes
\* of the test mode that overtake a command), the sender is used as
\* CommandScheduler assumes, so all that is shown of it there holds here.
UsesScheduler == Init /\ [][Next]_sender

\* What a client of the interface sees: one command at a time, each answered
\* by exactly one final line, also when another client hangs up in the middle
\* of its command, unless that ends the process.  A line beyond that makes
\* owed -1, which is no state of the service.  As long as commands make one
\* request each, a client that hangs up with none unanswered harms nobody.
Service == INSTANCE CommandService WITH
    due <- [c \in Client |-> IF up /\ c \in open THEN api[c].owed ELSE 0],
    deserted <- \E c \in Client \ open : api[c].owed = 1
Refines == Service!Spec
=============================================================================
