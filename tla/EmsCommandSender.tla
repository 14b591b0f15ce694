--------------------------- MODULE EmsCommandSender ---------------------------
(***************************************************************************)
(* The class EmsCommandSender (collector/CommandScheduler.{h,cpp}): the    *)
(* queue that hands the requests of all API clients to the EMS bus one     *)
(* after the other.  The object is a record s; every member function is an *)
(* operator that returns the object after the call.  The callbacks into a  *)
(* client are represented by their effect on the sender: the sequence      *)
(* `posted' of messages the client passed to sendMessage during the call.  *)
(*                                                                         *)
(* Time is counted in ticks.  The two boost::asio timers are modelled with *)
(* the io_service's queue of completed operations:                         *)
(*   - a timer is armed with the ticks left until it expires;              *)
(*   - when the reactor notices the expiry, the wait moves to `ready',     *)
(*     from where cancel() and expires_*() cannot recall it any more;      *)
(*   - cancelling an armed wait queues its handler with operation_aborted. *)
(*     The response handlers ignore such a call and it is left out; the    *)
(*     handler of m_sendTimer has no error parameter and runs all the same.*)
(***************************************************************************)
EXTENDS Integers, Sequences, FiniteSets

CONSTANTS
    Client,          \* the EmsCommandClient objects
    Message,         \* requests: records with at least the fields client and dest
    Addr,            \* bus addresses, as in m_dest and m_source
    WriteAddr,       \* the addresses with bit 7 clear: destinations of writes
    PC,              \* the collector's own address
    MinDistance,     \* MinDistanceBetweenRequests, in ticks
    FakeDelay,       \* delay of the made-up answer to a write, in ticks
    RequestTimeout,  \* RequestTimeout, in ticks
    NoClient,        \* null m_currentClient
    NoMessage        \* no message attached to a timer or handler

ASSUME SenderAssumption ==
    /\ NoClient \notin Client
    /\ NoMessage \notin Message
    /\ WriteAddr \subseteq Addr
    /\ PC \in Addr \ WriteAddr
    /\ MinDistance \in Nat /\ FakeDelay \in Nat /\ RequestTimeout \in Nat
    /\ \A m \in Message : m.client \in Client /\ m.dest \in Addr

\* Time since the last communication with an address; MinDistance + 1 stands
\* for anything longer and for an address m_lastCommTimes does not contain.
Age == 0 .. MinDistance + 1
LongAgo == MinDistance + 1
Ticks == 0 .. FakeDelay + RequestTimeout + MinDistance

NoWait == [on |-> FALSE, left |-> 0, fake |-> FALSE]
NoSend == [on |-> FALSE, left |-> 0, msg |-> NoMessage]

\* A completed wait.  Only those of m_sendTimer carry a message.
Handler == [kind : {"timeout", "fake"}, msg : {NoMessage}] \cup [kind : {"send"}, msg : Message]

ResponseTimer == [on : BOOLEAN, left : Ticks, fake : BOOLEAN]
SendTimer == [on : {FALSE}, left : {0}, msg : {NoMessage}] \cup [on : {TRUE}, left : Ticks, msg : Message]

SenderType ==
    [current : Client \cup {NoClient},     \* m_currentClient
     pending : Seq(Message),               \* m_pending
     resp    : ResponseTimer,              \* m_responseTimeout
     send    : SendTimer,                  \* m_sendTimer
     ready   : Seq(Handler),               \* completed waits, oldest first
     age     : [Addr -> Age],              \* m_lastCommTimes
     in      : Seq(Message),               \* accepted by the last event
     out     : Seq(Message)]               \* given to sendMessageImpl by it

IdleSender ==
    [current |-> NoClient, pending |-> << >>, resp |-> NoWait, send |-> NoSend,
     ready |-> << >>, age |-> [a \in Addr |-> LongAgo],
     in |-> << >>, out |-> << >>]

IsWrite(m) == m.dest \in WriteAddr

-----------------------------------------------------------------------------
(* The member functions *)

scheduleResponseTimeout(s, fakeAnswer) ==
    [s EXCEPT !.resp = [on   |-> TRUE,
                        left |-> IF fakeAnswer THEN FakeDelay ELSE RequestTimeout,
                        fake |-> fakeAnswer]]

\* Mutant: no timeout is scheduled.
doSendMessageUntimed(s, m) ==
    [s EXCEPT !.out = Append(@, m), !.age = [@ EXCEPT ![m.dest] = 0]]

doSendMessage(s, m) ==
    [scheduleResponseTimeout(s, IsWrite(m)) EXCEPT
        !.out = Append(@, m),
        !.age = [@ EXCEPT ![m.dest] = 0]]

\* Mutant: the message of an aborted wait is lost.
armSendTimerLossy(s, m) ==
    [s EXCEPT !.send = [on |-> TRUE, left |-> MinDistance - s.age[m.dest], msg |-> m]]

\* m_sendTimer.expires_at() and async_wait(): a wait that was armed is
\* aborted, and its handler, doSendMessage, is queued.
armSendTimer(s, m) ==
    [s EXCEPT
        !.ready = IF s.send.on
                  THEN Append(@, [kind |-> "send", msg |-> s.send.msg]) ELSE @,
        !.send  = [on |-> TRUE, left |-> MinDistance - s.age[m.dest], msg |-> m]]

\* Mutants: the distance is never or always taken for too short.
sendRequestAtOnce(s, m) == doSendMessage(s, m)
sendRequestDelayed(s, m) == armSendTimer(s, m)

\* The private sendMessage(message).
sendRequest(s, m) ==
    IF s.age[m.dest] <= MinDistance THEN armSendTimer(s, m) ELSE doSendMessage(s, m)

continueWithNextRequest(s) ==
    IF s.pending = << >>
    THEN [s EXCEPT !.current = NoClient]
    ELSE sendRequest([s EXCEPT !.current = Head(s.pending).client,
                               !.pending = Tail(s.pending)],
                     Head(s.pending))

enqueue(s, ms) == [s EXCEPT !.pending = @ \o ms, !.in = @ \o ms]

\* Mutant: the queue is advanced although a request is under way.
sendMessageEager(s, ms) == continueWithNextRequest(enqueue(s, ms))

\* The public sendMessage(client, message), called once for each element of ms
\* by one handler of the client: only the first call can find the sender idle.
sendMessage(s, ms) ==
    IF s.current = NoClient /\ ms # << >>
    THEN enqueue(continueWithNextRequest(enqueue(s, <<Head(ms)>>)), Tail(ms))
    ELSE enqueue(s, ms)

\* Mutant: an answer ends the client's turn without starting the next one.
handlePcMessageIdle(s, source, posted) ==
    [enqueue([s EXCEPT !.age = [@ EXCEPT ![source] = 0], !.resp = NoWait],
             IF s.current = NoClient THEN << >> ELSE posted) EXCEPT !.current = NoClient]

\* Mutant: the queue is advanced twice.
handlePcMessageTwice(s, source, posted) ==
    continueWithNextRequest(continueWithNextRequest(
        enqueue([s EXCEPT !.age = [@ EXCEPT ![source] = 0], !.resp = NoWait],
                IF s.current = NoClient THEN << >> ELSE posted)))

\* A message for the PC arrived, and the current client's onIncomingMessage
\* posted the messages `posted'.
handlePcMessage(s, source, posted) ==
    continueWithNextRequest(
        enqueue([s EXCEPT !.age = [@ EXCEPT ![source] = 0], !.resp = NoWait],
                IF s.current = NoClient THEN << >> ELSE posted))

\* Expiry of m_responseTimeout after a write: the handler answers on behalf
\* of the addressee, from the collector's own address, and then goes on to
\* the next request once more.
fakeAnswerHandler(s, posted) ==
    continueWithNextRequest(
        IF s.current = NoClient THEN s ELSE handlePcMessage(s, PC, posted))

\* Mutant: the queue is not advanced.
timeoutHandlerStuck(s, posted) == enqueue(s, IF s.current = NoClient THEN << >> ELSE posted)

\* Expiry of m_responseTimeout after a read.
timeoutHandler(s, posted) ==
    continueWithNextRequest(
        enqueue(s, IF s.current = NoClient THEN << >> ELSE posted))

-----------------------------------------------------------------------------
(* The io_service *)

\* Every event starts with an empty record of what went in and out.
event(s) == [s EXCEPT !.in = << >>, !.out = << >>]

ResponseDue(s) == s.resp.on /\ s.resp.left = 0
SendDue(s) == s.send.on /\ s.send.left = 0

\* The waits a pass of the reactor finds expired, in either order when both are.
ExpiredWaits(s) ==
    LET r == [kind |-> IF s.resp.fake THEN "fake" ELSE "timeout", msg |-> NoMessage]
        d == [kind |-> "send", msg |-> s.send.msg]
    IN  IF ResponseDue(s)
        THEN IF SendDue(s) THEN {<<r, d>>, <<d, r>>} ELSE {<<r>>}
        ELSE IF SendDue(s) THEN {<<d>>} ELSE {}

\* A pass of the reactor comes after the handlers the last pass queued; only
\* aborted waits, queued by those handlers, may still be there.
ReactorTurn(s) == \A i \in DOMAIN s.ready : s.ready[i].kind = "send"

\* The pass queues the handlers hs of all expired waits.
reactorPass(s, hs) ==
    [event(s) EXCEPT !.resp  = IF ResponseDue(s) THEN NoWait ELSE s.resp,
                     !.send  = IF SendDue(s) THEN NoSend ELSE s.send,
                     !.ready = s.ready \o hs]

\* Runs the oldest completed wait.
runHandler(s, posted) ==
    LET h == Head(s.ready)
        t == [event(s) EXCEPT !.ready = Tail(s.ready)]
    IN  CASE h.kind = "send"    -> doSendMessage(t, h.msg)
          [] h.kind = "fake"    -> fakeAnswerHandler(t, posted)
          [] h.kind = "timeout" -> timeoutHandler(t, posted)

Less(n) == IF n > 0 THEN n - 1 ELSE 0

\* One tick passes.
elapse(s) ==
    [event(s) EXCEPT
        !.resp = [s.resp EXCEPT !.left = Less(s.resp.left)],
        !.send = [s.send EXCEPT !.left = Less(s.send.left)],
        !.age  = [a \in Addr |-> IF s.age[a] = LongAgo THEN LongAgo ELSE s.age[a] + 1]]

\* Does the current client get a callback when the oldest completed wait runs?
HandlerCallsClient(s) == s.current # NoClient /\ Head(s.ready).kind \in {"fake", "timeout"}

\* The accepted messages not yet given to sendMessageImpl.  Completed waits
\* of m_responseTimeout count for NoMessage, which is none.
HeldMessages(s) ==
    s.pending \o (IF s.send.on THEN <<s.send.msg>> ELSE << >>)
              \o [i \in DOMAIN s.ready |-> s.ready[i].msg]
=============================================================================
