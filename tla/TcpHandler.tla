------------------------------ MODULE TcpHandler ------------------------------
(***************************************************************************)
(* The connection to the adapter (collector/TcpHandler.cpp, and doClose    *)
(* of collector/IoHandler.cpp).  The object is a record h; it is also the  *)
(* io_service that main() runs, with the queue of completed operations in  *)
(* h.ready, oldest first.  What is queued cannot be recalled: cancelling   *)
(* the watchdog after its expiry was noticed has no effect.                *)
(***************************************************************************)
EXTENDS Naturals, Sequences

CONSTANT Watchdog   \* two minutes, in ticks

ASSUME WatchdogAssumption == Watchdog \in Nat \ {0}

Event == {"connected", "refused", "data", "error", "watchdog", "timer", "signal"}

HandlerType ==
    [conn : {"none", "connecting", "reading", "busy", "closed"},   \* m_socket
     armed : BOOLEAN, left : 0 .. Watchdog,                        \* m_watchdog
     stopped : BOOLEAN,                                            \* stop() was called
     ready : Seq(Event)]

NoHandler ==
    [conn |-> "none", armed |-> FALSE, left |-> 0, stopped |-> FALSE, ready |-> << >>]

stop(h) == [h EXCEPT !.stopped = TRUE]

\* The handler is resolved and connects, or doClose() is called right away.
newHandler(resolved) ==
    IF resolved THEN [NoHandler EXCEPT !.conn = "connecting"]
    ELSE stop([NoHandler EXCEPT !.conn = "closed"])

\* An operation has completed: its handler is queued.
completed(h, e) == [h EXCEPT !.ready = Append(@, e)]

\* Mutants: the watchdog gets too much time, or is not armed.
resetWatchdogLong(h) == [h EXCEPT !.armed = TRUE, !.left = Watchdog + 1]
resetWatchdogOff(h) == [h EXCEPT !.armed = FALSE]

resetWatchdog(h) == [h EXCEPT !.armed = TRUE, !.left = Watchdog]

readStart(h) == [h EXCEPT !.conn = "reading"]

doClose(h) == stop([h EXCEPT !.conn = "closed", !.armed = FALSE])

\* The completed connect and read, from the head of the queue.
next(h) == [h EXCEPT !.ready = Tail(@)]

connectComplete(h, error) ==
    IF error THEN doClose(next(h)) ELSE readStart(resetWatchdog(next(h)))

\* Mutant: the watchdog runs on while data is read.
readCompleteUnwatched(h, error) ==
    IF error THEN doClose(next(h)) ELSE readStart(next(h))

readComplete(h, error) ==
    IF error THEN doClose(resetWatchdog(next(h))) ELSE readStart(resetWatchdog(next(h)))

\* Mutant: an expired watchdog is only wound up again.
watchdogExpiredAgain(h) == resetWatchdog(next(h))

watchdogExpired(h) == doClose(next(h))
=============================================================================
