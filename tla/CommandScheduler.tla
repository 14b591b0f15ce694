--------------------------- MODULE CommandScheduler ---------------------------
(***************************************************************************)
(* The EmsCommandSender in the most general environment: clients that post *)
(* requests at any time and from their callbacks, and a bus on which a     *)
(* message for the PC (an answer, a late or a repeated answer, or anything *)
(* else addressed to it) may arrive at any moment, from any address.       *)
(***************************************************************************)
EXTENDS EmsCommandSender

CONSTANTS
    MaxBurst,    \* most messages one handler of a client posts
    MaxPending,  \* bound on the length of m_pending, or Unbounded
    MaxReady     \* most completed waits queued while bus messages keep arriving

Unbounded == -1

ASSUME BoundAssumption == MaxBurst \in Nat /\ MaxPending \in Nat \cup {Unbounded} /\ MaxReady \in Nat

VARIABLE sender

Burst(c) ==
    UNION {[1 .. n -> {m \in Message : m.client = c}] : n \in 0 .. MaxBurst}

\* What the current client may post from a callback.
Posted == IF sender.current = NoClient THEN {<< >>} ELSE Burst(sender.current)

Room(ms) == MaxPending = Unbounded \/ Len(sender.pending) + Len(ms) <= MaxPending

Init == sender = IdleSender

\* A client posts requests (ApiCommandParser::sendActiveRequest).
SendMessage ==
    \E c \in Client : \E ms \in Burst(c) :
        /\ ms # << >>
        /\ Room(ms)
        /\ sender' = sendMessage(event(sender), ms)

\* A message addressed to the PC arrives from the bus.
PcMessage ==
    \E source \in Addr \ WriteAddr : \E ms \in Posted :
        /\ Room(ms)
        /\ Len(sender.ready) < MaxReady
        /\ sender' = handlePcMessage(event(sender), source, ms)

Reactor ==
    /\ ReactorTurn(sender)
    /\ \E hs \in ExpiredWaits(sender) : sender' = reactorPass(sender, hs)

RunHandler ==
    /\ sender.ready # << >>
    /\ \E ms \in IF HandlerCallsClient(sender) THEN Posted ELSE {<< >>} :
          /\ Room(ms)
          /\ sender' = runHandler(sender, ms)

Tick == sender' = elapse(sender)

Next == SendMessage \/ PcMessage \/ Reactor \/ RunHandler \/ Tick

\* Time passes, the reactor notices expired timers, and completed waits run.
Fairness == WF_sender(Tick) /\ WF_sender(Reactor) /\ WF_sender(RunHandler)

Spec == Init /\ [][Next]_sender /\ Fairness

-----------------------------------------------------------------------------
(* Properties *)

\* Every member of the sender keeps the type its declaration gives it.
TypeOK == sender \in SenderType

\* continueWithNextRequest clears m_currentClient only when m_pending is
\* empty, and sendMessage restarts the queue exactly when it finds no current
\* client: no interleaving leaves a queued request behind an idle sender, where
\* nothing would ever take it out again.
NoStrandedRequest == sender.current = NoClient => sender.pending = << >>

\* While a client is current, something is under way that will end its turn:
\* its request waits in m_sendTimer, the response timeout is armed, or a
\* completed wait is about to run.  handlePcMessage cancels m_responseTimeout
\* before it advances the queue, so this hangs on what the next request does.
CurrentHasWakeup ==
    sender.current # NoClient => sender.resp.on \/ sender.send.on \/ sender.ready # << >>

Count(q, m) == Cardinality({i \in DOMAIN q : q[i] = m})

\* No message is lost or sent twice: whatever an event does (aborting the wait
\* of m_sendTimer and advancing twice after a write included), what the sender
\* held before plus what it accepted is what it holds afterwards plus what it
\* gave to sendMessageImpl.
EachMessageSentOnce ==
    [][\A m \in Message :
          Count(HeldMessages(sender'), m) + Count(sender'.out, m)
        = Count(HeldMessages(sender), m) + Count(sender'.in, m)]_sender

\* Every request accepted by sendMessage reaches the bus eventually, however
\* many messages arrive for the PC in between.
EveryRequestSent ==
    \A m \in Message : Count(HeldMessages(sender), m) > 0 ~> Count(sender.out, m) > 0
=============================================================================
