------------------------------ MODULE FrameLink ------------------------------
(***************************************************************************)
(* The framer connected to the collector: every byte the framer writes to  *)
(* UDR is read by IoHandler::readComplete.  `inFlight' are the payloads of *)
(* the telegrams the framer accepted that have not become an EmsMessage.   *)
(***************************************************************************)
EXTENDS Framer

VARIABLES parser, inFlight

linkVars == <<vars, parser, inFlight>>

Parser == INSTANCE FrameParser WITH MaxData <- 0, recent <- << >>

LinkInit == Init /\ parser = Parser!NewParser /\ inFlight = << >>

\* The end of a telegram, which the framer may accept.
Telegram ==
    /\ RecvEnd
    /\ inFlight' = IF Accepted THEN Append(inFlight, Payload) ELSE inFlight
    /\ UNCHANGED parser

\* A byte is written and read.
Transfer ==
    /\ Write
    /\ parser' = Parser!readByte(parser, wire')
    /\ inFlight' = IF parser'.out = << >> \/ inFlight = << >> THEN inFlight ELSE Tail(inFlight)

\* Steps of the framer the collector does not see.
Internal ==
    /\ (\E b \in BusByte : RecvByte(b)) \/ CheckData \/ AdvanceRead
    /\ UNCHANGED <<parser, inFlight>>

LinkNext == Telegram \/ Transfer \/ Internal

LinkSpec ==
    LinkInit /\ [][LinkNext]_linkVars /\ WF_linkVars(Transfer)
             /\ WF_linkVars((CheckData \/ AdvanceRead) /\ UNCHANGED <<parser, inFlight>>)

-----------------------------------------------------------------------------
(* Properties *)

\* A message the collector makes is the oldest telegram the framer accepted
\* and the collector has not seen yet: nothing is skipped, repeated or changed
\* on the way through the ring, the frame and the parser.
DeliveredInOrder ==
    [][parser'.out # << >> => inFlight # << >> /\ parser'.out = <<Head(inFlight)>>]_parser

\* Nothing is left half-way: when the framer has sent all it had, the parser
\* has completed its last frame and waits for the next.
NothingLeftBehind ==
    queue = << >> => inFlight = << >> /\ parser.state = "Syncing" /\ parser.pos = 0

\* An accepted telegram becomes a message eventually, whatever else is
\* received meanwhile.
TelegramDelivered == inFlight # << >> ~> parser.out # << >>
=============================================================================
