---------------------------- MODULE CollectorProofs ----------------------------
(***************************************************************************)
(* For any instances, subscribers and watchdog time: at most one instance  *)
(* serves, a run of the io_service always has something to wake it up, and *)
(* the watchdog only closes a connection that was quiet for its time.  A   *)
(* daemon that was alone all its life, and did not start amid the removal  *)
(* of a file, can be found by its pid file, and everything keeps its type. *)
(***************************************************************************)
EXTENDS Collector, TLAPS

ScriptWorks == ScriptReads \/ ScriptKills \/ ScriptRemoves

\* What a step of the init script does to the instances: it signals one of them,
\* or leaves all as they are.
LEMMA ScriptSteps ==
    ASSUME ScriptWorks
    PROVE  \/ \E p \in Proc : Signalled(p)
           \/ UNCHANGED <<pc, running, asked, io, silent, quiet, port, sub, met>>
BY DEF ScriptWorks, ScriptReads, ScriptKills, ScriptRemoves, ScriptTargets

-----------------------------------------------------------------------------
(* One server: who serves holds the ports. *)

PortHeld ==
    /\ pc \in [Proc -> Place]
    /\ \A p \in Proc : pc[p] \in Serving => port = p

LEMMA PortHeldInit == Init => PortHeld
BY DEF Init, PortHeld, Place, Serving, Starting

\* An instance that ends gives up the ports only if they are its own.
LEMMA GoneKeepsPort ==
    ASSUME NEW p \in Proc, PortHeld, Gone(p) PROVE PortHeld'
BY PidFileAssumption DEF PortHeld, Gone, Goto, Place, Serving, Starting

\* A step that changes neither the places nor the ports.
LEMMA SamePlaces ==
    ASSUME PortHeld, UNCHANGED <<pc, port>> PROVE PortHeld'
BY DEF PortHeld

\* A step to a place where p does not serve, with the ports unchanged.
LEMMA StartingStep ==
    ASSUME NEW p \in Proc, NEW place \in Starting, PortHeld, Goto(p, place), port' = port
    PROVE  PortHeld'
BY DEF PortHeld, Goto, Place, Serving, Starting

LEMMA MainKeepsPort ==
    ASSUME NEW p \in Proc, PortHeld, MainStep(p) PROVE PortHeld'
<1>1. CASE Lock(p)
  BY <1>1, GoneKeepsPort, StartingStep DEF Lock, Exit, Starting
<1>2. CASE Daemonize(p)
  BY <1>2, GoneKeepsPort, StartingStep DEF Daemonize, Exit, Starting
<1>3. CASE WritePid(p)
  BY <1>3, StartingStep DEF WritePid, Starting
<1>4. CASE Construct(p)
  BY <1>4, StartingStep DEF Construct, Starting
<1>5. CASE Bind(p)
  <2>1. CASE port = NoProc
    <3>1. \A q \in Proc : pc[q] \notin Serving
      BY <2>1, PidFileAssumption DEF PortHeld
    <3>2. Goto(p, "run") /\ port' = p
      BY <1>5, <2>1 DEF Bind
    <3>. QED BY <3>1, <3>2 DEF PortHeld, Goto, Place, Serving, Starting
  <2>2. CASE port # NoProc
    BY <1>5, <2>2, GoneKeepsPort DEF Bind, Exit
  <2>. QED BY <2>1, <2>2
<1>6. CASE EndRun(p)
  <2>1. CASE Exit(p)
    BY <2>1, GoneKeepsPort DEF Exit
  <2>2. CASE Goto(p, "wait") /\ port' = port
    BY <1>6, <2>2 DEF EndRun, PortHeld, Goto, Place, Serving, Starting
  <2>. QED BY <1>6, <2>1, <2>2 DEF EndRun
<1>7. CASE WaitTimer(p) \/ StopWait(p)
  BY <1>7, SamePlaces DEF WaitTimer, StopWait
<1>8. CASE EndWait(p)
  <2>1. CASE Exit(p)
    BY <2>1, GoneKeepsPort DEF Exit
  <2>2. CASE Goto(p, "loop") /\ port' = NoProc
    <3>1. \A q \in Proc : q # p => pc[q] \notin Serving
      BY <1>8 DEF EndWait, PortHeld, Serving
    <3>. QED BY <2>2, <3>1 DEF PortHeld, Goto, Place, Serving, Starting
  <2>. QED BY <1>8, <2>1, <2>2 DEF EndWait
<1>. QED BY <1>1, <1>2, <1>3, <1>4, <1>5, <1>6, <1>7, <1>8 DEF MainStep

LEMMA PortHeldStep == PortHeld /\ [Next]_vars => PortHeld'
<1>. SUFFICES ASSUME PortHeld, [Next]_vars PROVE PortHeld'
  OBVIOUS
<1>1. CASE UNCHANGED vars
  BY <1>1, SamePlaces DEF vars
<1>2. ASSUME NEW p \in Proc, Start(p) PROVE PortHeld'
  BY <1>2, StartingStep DEF Start, Starting
<1>3. ASSUME NEW p \in Proc, MainStep(p) PROVE PortHeld'
  BY <1>3, MainKeepsPort
<1>4. ASSUME NEW p \in Proc, RunHandler(p) PROVE PortHeld'
  BY <1>4, SamePlaces
     DEF RunHandler, Connected, Read, ReadFails, WatchdogBites, stopHandler, Handle
<1>5. ASSUME NEW p \in Proc, Throws(p) \/ Crash(p) PROVE PortHeld'
  BY <1>5, GoneKeepsPort DEF Throws, Crash, Exit
<1>6. ASSUME NEW p \in Proc,
             Connects(p) \/ Arrives(p) \/ WatchdogDue(p) \/ GoesSilent(p) \/ Tick(p)
      PROVE  PortHeld'
  BY <1>6, SamePlaces DEF Connects, Arrives, WatchdogDue, GoesSilent, Tick, Complete
<1>7. ASSUME NEW p \in Proc, Signalled(p) PROVE PortHeld'
  BY <1>7, GoneKeepsPort, SamePlaces DEF Signalled
<1>8. ASSUME NEW p \in Proc, NEW s \in Sub, Accept(p, s) PROVE PortHeld'
  BY <1>8, SamePlaces DEF Accept
<1>9. ASSUME NEW s \in Sub, WriteFails(s) \/ SubscriberLeaves(s) PROVE PortHeld'
  BY <1>9, SamePlaces DEF WriteFails, SubscriberLeaves
<1>10. CASE Over
  BY <1>10, SamePlaces DEF Over, vars
<1>11. CASE ScriptWorks
  BY <1>7, <1>11, ScriptSteps, SamePlaces
<1>. QED
  BY <1>1, <1>2, <1>3, <1>4, <1>5, <1>6, <1>7, <1>8, <1>9, <1>10, <1>11, CastAssumption
     DEF Next, Signal, ScriptWorks

\* At most one instance runs the handler, by the order in which main() binds
\* the ports, runs and waits.
THEOREM ServesAlone == Spec => []OneServer
<1>1. PortHeld => OneServer
  BY DEF PortHeld, OneServer
<1>. QED BY <1>1, PortHeldInit, PortHeldStep, PTL DEF Spec

-----------------------------------------------------------------------------
(* The watchdog: every handler either stops the io_service or arms it. *)

Wakeup(h) ==
    \/ h.stopped \/ h.conn = "connecting" \/ h.armed
    \/ \E i \in DOMAIN h.ready : h.ready[i] \in {"connected", "refused", "watchdog"}

Awake ==
    /\ io \in [Proc -> HandlerType]
    /\ \A p \in Proc : pc[p] \in {"bind", "run"} => Wakeup(io[p])

\* The operations on a handler keep its type.
LEMMA HandlerTypes ==
    /\ NoHandler \in HandlerType
    /\ [NoHandler EXCEPT !.conn = "closed"] \in HandlerType
    /\ \A r \in BOOLEAN : newHandler(r) \in HandlerType
    /\ \A h \in HandlerType :
          /\ stop(h) \in HandlerType
          /\ [h EXCEPT !.conn = "busy"] \in HandlerType
          /\ [h EXCEPT !.armed = FALSE] \in HandlerType
          /\ resetWatchdog(h) \in HandlerType
          /\ \A e \in Event : completed(h, e) \in HandlerType
          /\ h.left > 0 => [h EXCEPT !.left = @ - 1] \in HandlerType
          /\ h.ready # << >> =>
                /\ next(h) \in HandlerType
                /\ \A e \in BOOLEAN : connectComplete(h, e) \in HandlerType
                /\ \A e \in BOOLEAN : readComplete(h, e) \in HandlerType
                /\ watchdogExpired(h) \in HandlerType
<1>1. NoHandler \in HandlerType
  BY WatchdogAssumption DEF NoHandler, HandlerType
<1>2. ASSUME NEW h \in HandlerType
      PROVE  stop(h) \in HandlerType /\ readStart(h) \in HandlerType /\ doClose(h) \in HandlerType
  BY DEF stop, readStart, doClose, HandlerType
<1>3. ASSUME NEW h \in HandlerType PROVE resetWatchdog(h) \in HandlerType
  <2>1. Watchdog \in 0 .. Watchdog
    BY WatchdogAssumption
  <2>. QED BY <2>1 DEF resetWatchdog, HandlerType
<1>4. ASSUME NEW h \in HandlerType, NEW q \in Seq(Event)
      PROVE  [h EXCEPT !.ready = q] \in HandlerType
  BY DEF HandlerType
<1>5. ASSUME NEW h \in HandlerType, h.ready # << >> PROVE next(h) \in HandlerType
  <2>1. h.ready \in Seq(Event)
    BY DEF HandlerType
  <2>2. Tail(h.ready) \in Seq(Event)
    BY <1>5, <2>1
  <2>. QED BY <1>4, <2>2 DEF next
<1>6. ASSUME NEW h \in HandlerType, NEW e \in Event PROVE completed(h, e) \in HandlerType
  <2>1. h.ready \in Seq(Event)
    BY DEF HandlerType
  <2>2. Append(h.ready, e) \in Seq(Event)
    BY <2>1
  <2>. QED BY <1>4, <2>2 DEF completed
<1>7. ASSUME NEW h \in HandlerType
      PROVE  /\ [h EXCEPT !.conn = "busy"] \in HandlerType
             /\ [h EXCEPT !.conn = "closed"] \in HandlerType
             /\ [h EXCEPT !.conn = "connecting"] \in HandlerType
             /\ [h EXCEPT !.armed = FALSE] \in HandlerType
  BY DEF HandlerType
<1>8. ASSUME NEW h \in HandlerType, h.left > 0 PROVE [h EXCEPT !.left = @ - 1] \in HandlerType
  <2>1. h.left - 1 \in 0 .. Watchdog
    BY <1>8, WatchdogAssumption DEF HandlerType
  <2>. QED BY <2>1 DEF HandlerType
<1>9. ASSUME NEW r \in BOOLEAN PROVE newHandler(r) \in HandlerType
  BY <1>1, <1>2, <1>7 DEF newHandler
<1>10. ASSUME NEW h \in HandlerType, h.ready # << >>, NEW e \in BOOLEAN
       PROVE  /\ connectComplete(h, e) \in HandlerType /\ readComplete(h, e) \in HandlerType
              /\ watchdogExpired(h) \in HandlerType
  <2>1. next(h) \in HandlerType /\ resetWatchdog(next(h)) \in HandlerType
    BY <1>3, <1>5, <1>10
  <2>. QED BY <1>2, <2>1 DEF connectComplete, readComplete, watchdogExpired
<1>11. [NoHandler EXCEPT !.conn = "closed"] \in HandlerType
  BY <1>1, <1>7
<1>. QED
  BY <1>1, <1>2, <1>3, <1>5, <1>6, <1>7, <1>8, <1>9, <1>10, <1>11

\* Whatever handler runs next, a wakeup remains.
LEMMA HandlersWakeUp ==
    ASSUME NEW h \in HandlerType, h.ready # << >>
    PROVE  /\ \A e \in BOOLEAN : Wakeup(connectComplete(h, e)) /\ Wakeup(readComplete(h, e))
           /\ Wakeup(watchdogExpired(h)) /\ Wakeup(stop(next(h)))
<1>1. \A g \in HandlerType : Wakeup(doClose(g)) /\ Wakeup(stop(g))
  BY DEF Wakeup, doClose, stop, HandlerType
<1>2. \A g \in HandlerType : Wakeup(readStart(resetWatchdog(g)))
  BY DEF Wakeup, readStart, resetWatchdog, HandlerType
<1>3. next(h) \in HandlerType /\ resetWatchdog(next(h)) \in HandlerType
  BY HandlerTypes
<1>. QED BY <1>1, <1>2, <1>3 DEF connectComplete, readComplete, watchdogExpired

\* A completed operation adds to the queue; one that ends the wakeup there was
\* is one itself.
LEMMA CompletedWakesUp ==
    ASSUME NEW h \in HandlerType, NEW e \in Event
    PROVE  /\ Wakeup(h) => Wakeup(completed(h, e))
           /\ e \in {"connected", "refused", "watchdog"} => Wakeup(completed(h, e))
<1>1. /\ completed(h, e).ready = Append(h.ready, e) /\ completed(h, e).conn = h.conn
      /\ completed(h, e).stopped = h.stopped /\ completed(h, e).armed = h.armed
  BY DEF completed, HandlerType
<1>2. h.ready \in Seq(Event)
  BY DEF HandlerType
<1>3. \A i \in DOMAIN h.ready : i \in DOMAIN Append(h.ready, e) /\ Append(h.ready, e)[i] = h.ready[i]
  BY <1>2
<1>4. Len(h.ready) + 1 \in DOMAIN Append(h.ready, e) /\ Append(h.ready, e)[Len(h.ready) + 1] = e
  BY <1>2
<1>5. Wakeup(h) => Wakeup(completed(h, e))
  BY <1>1, <1>3 DEF Wakeup
<1>6. e \in {"connected", "refused", "watchdog"} => Wakeup(completed(h, e))
  BY <1>1, <1>4 DEF Wakeup
<1>. QED BY <1>5, <1>6

\* A step that leaves every instance's wakeup as it is, or makes p's handler a
\* given one.
LEMMA SameHandlers ==
    ASSUME Awake, UNCHANGED <<pc, io>> PROVE Awake'
BY DEF Awake

LEMMA OneHandler ==
    ASSUME NEW p \in Proc, NEW h \in HandlerType, PortHeld, Awake, io' = [io EXCEPT ![p] = h],
           \A q \in Proc : q # p => pc'[q] = pc[q],
           pc'[p] \in {"bind", "run"} => Wakeup(h)
    PROVE  Awake'
<1>1. io' \in [Proc -> HandlerType] /\ io'[p] = h /\ \A q \in Proc : q # p => io'[q] = io[q]
  BY DEF Awake
<1>. QED BY <1>1 DEF Awake

\* A step that keeps the handlers and takes p to a place without a run, or from
\* the binding of the ports to the run.
LEMMA OnePlace ==
    ASSUME NEW p \in Proc, NEW place, PortHeld, Awake, io' = io, Goto(p, place),
           place \in {"bind", "run"} => pc[p] = "bind"
    PROVE  Awake'
BY DEF Awake, PortHeld, Goto

LEMMA GoneAwake ==
    ASSUME NEW p \in Proc, PortHeld, Awake, Gone(p) PROVE Awake'
<1>1. pc'[p] = "ended" /\ \A q \in Proc : q # p => pc'[q] = pc[q]
  BY DEF Gone, Goto, PortHeld
<1>. QED BY <1>1, HandlerTypes, OneHandler DEF Gone

\* The steps of main().
LEMMA MainAwake ==
    ASSUME NEW p \in Proc, PortHeld, Awake, MainStep(p) PROVE Awake'
<1>. io[p] \in HandlerType
  BY DEF Awake
<1>1. CASE Lock(p) \/ Daemonize(p) \/ WritePid(p)
  BY <1>1, GoneAwake, OnePlace DEF Lock, Daemonize, WritePid, Exit
<1>2. CASE Construct(p)
  <2>1. PICK r \in BOOLEAN : io' = [io EXCEPT ![p] = newHandler(r)]
    BY <1>2 DEF Construct
  <2>2. newHandler(r) \in HandlerType /\ Wakeup(newHandler(r))
    BY HandlerTypes DEF newHandler, NoHandler, stop, Wakeup
  <2>3. \A q \in Proc : q # p => pc'[q] = pc[q]
    BY <1>2 DEF Construct, Goto, PortHeld
  <2>. QED BY <2>1, <2>2, <2>3, OneHandler
<1>3. CASE Bind(p)
  BY <1>3, GoneAwake, OnePlace DEF Bind, Exit
<1>4. CASE EndRun(p)
  <2>1. CASE Exit(p)
    BY <2>1, GoneAwake DEF Exit
  <2>2. CASE Goto(p, "wait") /\ io' = [io EXCEPT ![p] = [NoHandler EXCEPT !.conn = "closed"]]
    <3>1. pc'[p] = "wait" /\ \A q \in Proc : q # p => pc'[q] = pc[q]
      BY <2>2 DEF Goto, PortHeld
    <3>. QED BY <2>2, <3>1, HandlerTypes, OneHandler
  <2>. QED BY <1>4, <2>1, <2>2 DEF EndRun
<1>5. CASE WaitTimer(p)
  <2>1. completed(io[p], "timer") \in HandlerType
    BY HandlerTypes DEF Event
  <2>2. io' = [io EXCEPT ![p] = completed(io[p], "timer")] /\ pc' = pc /\ pc[p] = "wait"
    BY <1>5 DEF WaitTimer
  <2>. QED BY <2>1, <2>2, OneHandler
<1>6. CASE StopWait(p)
  <2>1. stop(next(io[p])) \in HandlerType
    BY <1>6, HandlerTypes DEF StopWait
  <2>2. io' = [io EXCEPT ![p] = stop(next(io[p]))] /\ pc' = pc /\ pc[p] = "wait"
    BY <1>6 DEF StopWait
  <2>. QED BY <2>1, <2>2, OneHandler
<1>7. CASE EndWait(p)
  <2>1. CASE Exit(p)
    BY <2>1, GoneAwake DEF Exit
  <2>2. CASE Goto(p, "loop") /\ io' = [io EXCEPT ![p] = NoHandler]
    <3>1. pc'[p] = "loop" /\ \A q \in Proc : q # p => pc'[q] = pc[q]
      BY <2>2 DEF Goto, PortHeld
    <3>. QED BY <2>2, <3>1, HandlerTypes, OneHandler
  <2>. QED BY <1>7, <2>1, <2>2 DEF EndWait
<1>. QED BY <1>1, <1>2, <1>3, <1>4, <1>5, <1>6, <1>7 DEF MainStep

\* The handlers that run() calls.
LEMMA RunAwake ==
    ASSUME NEW p \in Proc, PortHeld, Awake, RunHandler(p) PROVE Awake'
<1>. io[p] \in HandlerType
  BY DEF Awake
<1>1. ASSUME NEW e, NEW h, Handle(p, e, h), h \in HandlerType, Wakeup(h) PROVE Awake'
  <2>1. io' = [io EXCEPT ![p] = h] /\ pc' = pc
    BY <1>1 DEF Handle
  <2>. QED BY <1>1, <2>1, OneHandler
<1>2. CASE Connected(p)
  <2>1. PICK e \in {"connected", "refused"} : Handle(p, e, connectComplete(io[p], e = "refused"))
    BY <1>2 DEF Connected
  <2>2. io[p].ready # << >>
    BY <2>1 DEF Handle
  <2>3. (e = "refused") \in BOOLEAN
    OBVIOUS
  <2>4. connectComplete(io[p], e = "refused") \in HandlerType
    BY <2>2, <2>3, HandlerTypes
  <2>5. Wakeup(connectComplete(io[p], e = "refused"))
    BY <2>2, <2>3, HandlersWakeUp
  <2>. QED BY <1>1, <2>1, <2>4, <2>5
<1>3. ASSUME NEW value \in BOOLEAN, Read(p, value) PROVE Awake'
  <2>1. Handle(p, "data", readComplete(io[p], FALSE)) /\ io[p].ready # << >>
    BY <1>3 DEF Read, Handle
  <2>2. readComplete(io[p], FALSE) \in HandlerType /\ Wakeup(readComplete(io[p], FALSE))
    BY <2>1, HandlerTypes, HandlersWakeUp
  <2>. QED BY <1>1, <2>1, <2>2
<1>4. CASE ReadFails(p)
  <2>1. Handle(p, "error", readComplete(io[p], TRUE)) /\ io[p].ready # << >>
    BY <1>4 DEF ReadFails, Handle
  <2>2. readComplete(io[p], TRUE) \in HandlerType /\ Wakeup(readComplete(io[p], TRUE))
    BY <2>1, HandlerTypes, HandlersWakeUp
  <2>. QED BY <1>1, <2>1, <2>2
<1>5. CASE WatchdogBites(p)
  <2>1. Handle(p, "watchdog", watchdogExpired(io[p])) /\ io[p].ready # << >>
    BY <1>5 DEF WatchdogBites, Handle
  <2>2. watchdogExpired(io[p]) \in HandlerType /\ Wakeup(watchdogExpired(io[p]))
    BY <2>1, HandlerTypes, HandlersWakeUp
  <2>. QED BY <1>1, <2>1, <2>2
<1>6. CASE stopHandler(p)
  <2>1. Handle(p, "signal", stop(next(io[p]))) /\ io[p].ready # << >>
    BY <1>6 DEF stopHandler, Handle
  <2>2. stop(next(io[p])) \in HandlerType /\ Wakeup(stop(next(io[p])))
    BY <2>1, HandlerTypes, HandlersWakeUp
  <2>. QED BY <1>1, <2>1, <2>2
<1>. QED BY <1>2, <1>3, <1>4, <1>5, <1>6 DEF RunHandler

\* What the reactor notices: only a wakeup of its own kind takes one away.
LEMMA ReactorAwake ==
    ASSUME NEW p \in Proc, PortHeld, Awake, Connects(p) \/ Arrives(p) \/ WatchdogDue(p)
    PROVE  Awake'
<1>. io[p] \in HandlerType
  BY DEF Awake
<1>1. ASSUME NEW e \in Event, NEW h \in HandlerType, Complete(p, e, h),
             Wakeup(h) \/ e \in {"connected", "refused", "watchdog"}
      PROVE  Awake'
  <2>1. io' = [io EXCEPT ![p] = completed(h, e)] /\ pc' = pc
    BY <1>1 DEF Complete
  <2>2. completed(h, e) \in HandlerType /\ Wakeup(completed(h, e))
    BY <1>1, HandlerTypes, CompletedWakesUp
  <2>. QED BY <2>1, <2>2, OneHandler
<1>2. CASE Connects(p)
  BY <1>1, <1>2, HandlerTypes DEF Connects, Event
<1>3. CASE Arrives(p)
  <2>1. PICK e \in {"data", "error"} : Complete(p, e, [io[p] EXCEPT !.conn = "busy"])
    BY <1>3 DEF Arrives
  <2>2. Wakeup(io[p]) /\ io[p].conn = "reading"
    BY <1>3 DEF Arrives, Complete, Runs, Awake
  <2>3. Wakeup([io[p] EXCEPT !.conn = "busy"])
    BY <2>2 DEF Wakeup, HandlerType
  <2>. QED BY <1>1, <2>1, <2>3, HandlerTypes DEF Event
<1>4. CASE WatchdogDue(p)
  BY <1>1, <1>4, HandlerTypes DEF WatchdogDue, Event
<1>. QED BY <1>2, <1>3, <1>4

LEMMA SignalAwake ==
    ASSUME NEW p \in Proc, PortHeld, Awake, Signalled(p) PROVE Awake'
<1>. io[p] \in HandlerType
  BY DEF Awake
<1>1. CASE Gone(p)
  BY <1>1, GoneAwake
<1>2. CASE UNCHANGED <<pc, io>>
  BY <1>2, SameHandlers
<1>3. CASE io' = [io EXCEPT ![p] = completed(io[p], "signal")] /\ pc' = pc
  <2>1. completed(io[p], "signal") \in HandlerType
    BY HandlerTypes DEF Event
  <2>2. pc[p] \in {"bind", "run"} => Wakeup(completed(io[p], "signal"))
    BY CompletedWakesUp DEF Awake, Event
  <2>. QED BY <1>3, <2>1, <2>2, OneHandler
<1>. QED BY <1>1, <1>2, <1>3 DEF Signalled

LEMMA AwakeInit == Init => Awake
BY HandlerTypes DEF Init, Awake

LEMMA AwakeStep == PortHeld /\ Awake /\ [Next]_vars => Awake'
<1>. SUFFICES ASSUME PortHeld, Awake, [Next]_vars PROVE Awake'
  OBVIOUS
<1>1. CASE UNCHANGED vars \/ Over
  BY <1>1, SameHandlers DEF vars, Over
<1>2. ASSUME NEW p \in Proc, Start(p) PROVE Awake'
  BY <1>2, OnePlace DEF Start
<1>3. ASSUME NEW p \in Proc, MainStep(p) PROVE Awake'
  BY <1>3, MainAwake
<1>4. ASSUME NEW p \in Proc, RunHandler(p) PROVE Awake'
  BY <1>4, RunAwake
<1>5. ASSUME NEW p \in Proc, Throws(p) \/ Crash(p) PROVE Awake'
  BY <1>5, GoneAwake DEF Throws, Crash, Exit
<1>6. ASSUME NEW p \in Proc, Connects(p) \/ Arrives(p) \/ WatchdogDue(p) PROVE Awake'
  BY <1>6, ReactorAwake
<1>7. ASSUME NEW p \in Proc, Tick(p) PROVE Awake'
  <2>1. io[p] \in HandlerType /\ io[p].left > 0 /\ io[p].armed
    BY <1>7 DEF Tick, Awake
  <2>2. [io[p] EXCEPT !.left = @ - 1] \in HandlerType
    BY <2>1, HandlerTypes
  <2>3. Wakeup([io[p] EXCEPT !.left = @ - 1])
    BY <2>1 DEF Wakeup, HandlerType
  <2>4. io' = [io EXCEPT ![p] = [io[p] EXCEPT !.left = @ - 1]] /\ pc' = pc
    BY <1>7 DEF Tick
  <2>. QED BY <2>2, <2>3, <2>4, OneHandler
<1>8. ASSUME NEW p \in Proc, Signalled(p) PROVE Awake'
  BY <1>8, SignalAwake
<1>9. ASSUME NEW p \in Proc, GoesSilent(p) PROVE Awake'
  BY <1>9, SameHandlers DEF GoesSilent
<1>10. ASSUME NEW p \in Proc, NEW s \in Sub, Accept(p, s) PROVE Awake'
  BY <1>10, SameHandlers DEF Accept
<1>11. ASSUME NEW s \in Sub, WriteFails(s) \/ SubscriberLeaves(s) PROVE Awake'
  BY <1>11, SameHandlers DEF WriteFails, SubscriberLeaves
<1>12. CASE ScriptWorks
  BY <1>8, <1>12, ScriptSteps, SameHandlers
<1>. QED
  BY <1>1, <1>2, <1>3, <1>4, <1>5, <1>6, <1>7, <1>8, <1>9, <1>10, <1>11, <1>12, CastAssumption
     DEF Next, Signal, ScriptWorks

\* No run of the io_service is left without a connect, an armed watchdog or a
\* handler that is about to see to it.
THEOREM NeverHangs == Spec => []RunHasWakeup
<1>1. Awake => RunHasWakeup
  BY DEF Awake, Wakeup, RunHasWakeup, Runs, Queued
<1>. QED BY <1>1, PortHeldInit, PortHeldStep, AwakeInit, AwakeStep, PTL DEF Spec
-----------------------------------------------------------------------------
(* The patience of the watchdog: an armed one has at least as much time left *)
(* as is missing to a quiet time of Watchdog, and one that has expired has   *)
(* none missing.                                                             *)

Patient(h, q) ==
    /\ h.armed => h.left + q >= Watchdog
    /\ \A i \in DOMAIN h.ready : h.ready[i] = "watchdog" => q = Watchdog

Lively ==
    /\ quiet \in [Proc -> 0 .. Watchdog]
    /\ \A p \in Proc : Patient(io[p], quiet[p])

\* What changes the queue or the timer in no dangerous way.
LEMMA PatientStays ==
    ASSUME NEW h \in HandlerType, NEW q \in 0 .. Watchdog, Patient(h, q)
    PROVE  /\ Patient(stop(h), q) /\ Patient(doClose(h), q)
           /\ Patient(readStart(resetWatchdog(h)), q)
           /\ (\A i \in DOMAIN h.ready : h.ready[i] # "watchdog") => Patient(readStart(resetWatchdog(h)), 0)
           /\ Patient([h EXCEPT !.conn = "busy"], q)
           /\ h.left = 0 /\ h.armed => q = Watchdog
<1>. h.left \in 0 .. Watchdog /\ Watchdog \in Nat
  BY WatchdogAssumption DEF HandlerType
<1>1. Patient(stop(h), q) /\ Patient(doClose(h), q) /\ Patient([h EXCEPT !.conn = "busy"], q)
  BY DEF Patient, stop, doClose, HandlerType
<1>2. readStart(resetWatchdog(h)).left = Watchdog /\ readStart(resetWatchdog(h)).ready = h.ready
  BY DEF readStart, resetWatchdog, HandlerType
<1>3. /\ Patient(readStart(resetWatchdog(h)), q)
      /\ (\A i \in DOMAIN h.ready : h.ready[i] # "watchdog") => Patient(readStart(resetWatchdog(h)), 0)
  BY <1>2 DEF Patient
<1>4. h.left = 0 /\ h.armed => q = Watchdog
  BY DEF Patient
<1>. QED BY <1>1, <1>3, <1>4

LEMMA PatientQueue ==
    ASSUME NEW h \in HandlerType, NEW q \in 0 .. Watchdog, Patient(h, q)
    PROVE  /\ \A e \in Event : e # "watchdog" \/ q = Watchdog => Patient(completed(h, e), q)
           /\ h.ready # << >> => Patient(next(h), q) /\ (Head(h.ready) = "watchdog" => q = Watchdog)
<1>. h.ready \in Seq(Event)
  BY DEF HandlerType
<1>1. ASSUME NEW e \in Event, e # "watchdog" \/ q = Watchdog PROVE Patient(completed(h, e), q)
  <2>1. completed(h, e).ready = Append(h.ready, e) /\ completed(h, e).armed = h.armed
        /\ completed(h, e).left = h.left
    BY DEF completed, HandlerType
  <2>2. \A i \in DOMAIN Append(h.ready, e) :
           \/ i \in DOMAIN h.ready /\ Append(h.ready, e)[i] = h.ready[i]
           \/ Append(h.ready, e)[i] = e
    OBVIOUS
  <2>. QED BY <1>1, <2>1, <2>2 DEF Patient
<1>2. ASSUME h.ready # << >> PROVE Patient(next(h), q) /\ (Head(h.ready) = "watchdog" => q = Watchdog)
  <2>1. next(h).ready = Tail(h.ready) /\ next(h).armed = h.armed /\ next(h).left = h.left
    BY DEF next, HandlerType
  <2>2. \A i \in DOMAIN Tail(h.ready) :
           i + 1 \in DOMAIN h.ready /\ Tail(h.ready)[i] = h.ready[i + 1]
    BY <1>2
  <2>3. 1 \in DOMAIN h.ready /\ Head(h.ready) = h.ready[1]
    BY <1>2
  <2>. QED BY <2>1, <2>2, <2>3 DEF Patient
<1>. QED BY <1>1, <1>2

LEMMA PatientNew ==
    ASSUME NEW q
    PROVE  /\ Patient(NoHandler, q) /\ Patient([NoHandler EXCEPT !.conn = "closed"], q)
           /\ \A r \in BOOLEAN : Patient(newHandler(r), q)
BY DEF Patient, NoHandler, newHandler, stop

LEMMA SameLively ==
    ASSUME Lively, UNCHANGED <<io, quiet>> PROVE Lively'
BY DEF Lively

LEMMA OneLively ==
    ASSUME NEW p \in Proc, NEW h \in HandlerType, NEW q \in 0 .. Watchdog, Awake, Lively,
           io' = [io EXCEPT ![p] = h], quiet' = [quiet EXCEPT ![p] = q], Patient(h, q)
    PROVE  Lively'
<1>1. io'[p] = h /\ \A r \in Proc : r # p => io'[r] = io[r]
  BY DEF Awake
<1>2. quiet' \in [Proc -> 0 .. Watchdog] /\ quiet'[p] = q /\ \A r \in Proc : r # p => quiet'[r] = quiet[r]
  BY DEF Lively
<1>. QED BY <1>1, <1>2 DEF Lively

LEMMA QuietKept ==
    ASSUME NEW p \in Proc, NEW h \in HandlerType, Awake, Lively,
           io' = [io EXCEPT ![p] = h], quiet' = quiet, Patient(h, quiet[p])
    PROVE  Lively'
<1>1. quiet' = [quiet EXCEPT ![p] = quiet[p]] /\ quiet[p] \in 0 .. Watchdog
  BY DEF Lively
<1>. QED BY <1>1, OneLively

LEMMA GoneLively ==
    ASSUME NEW p \in Proc, Awake, Lively, Gone(p) PROVE Lively'
<1>1. 0 \in 0 .. Watchdog
  BY WatchdogAssumption
<1>. QED BY <1>1, OneLively, PatientNew, HandlerTypes DEF Gone

LEMMA MainLively ==
    ASSUME NEW p \in Proc, Awake, Lively, MainStep(p) PROVE Lively'
<1>. io[p] \in HandlerType /\ quiet[p] \in 0 .. Watchdog /\ Patient(io[p], quiet[p])
  BY DEF Awake, Lively
<1>. 0 \in 0 .. Watchdog
  BY WatchdogAssumption
<1>1. CASE Exit(p)
  BY <1>1, GoneLively DEF Exit
<1>2. CASE UNCHANGED <<io, quiet>>
  BY <1>2, SameLively
<1>3. CASE Construct(p)
  <2>1. PICK r \in BOOLEAN : io' = [io EXCEPT ![p] = newHandler(r)]
    BY <1>3 DEF Construct
  <2>. QED BY <1>3, <2>1, OneLively, PatientNew, HandlerTypes DEF Construct
<1>4. CASE io' = [io EXCEPT ![p] = [NoHandler EXCEPT !.conn = "closed"]] /\ quiet' = [quiet EXCEPT ![p] = 0]
  BY <1>4, OneLively, PatientNew, HandlerTypes
<1>5. CASE WaitTimer(p)
  <2>1. "timer" \in Event
    BY DEF Event
  <2>2. completed(io[p], "timer") \in HandlerType /\ Patient(completed(io[p], "timer"), quiet[p])
    BY <2>1, PatientQueue, HandlerTypes
  <2>3. io' = [io EXCEPT ![p] = completed(io[p], "timer")] /\ quiet' = quiet
    BY <1>5 DEF WaitTimer
  <2>. QED BY <2>2, <2>3, QuietKept
<1>6. CASE StopWait(p)
  <2>1. next(io[p]) \in HandlerType /\ Patient(next(io[p]), quiet[p])
    BY <1>6, PatientQueue, HandlerTypes DEF StopWait
  <2>2. stop(next(io[p])) \in HandlerType /\ Patient(stop(next(io[p])), quiet[p])
    BY <2>1, PatientStays, HandlerTypes
  <2>3. io' = [io EXCEPT ![p] = stop(next(io[p]))] /\ quiet' = quiet
    BY <1>6 DEF StopWait
  <2>. QED BY <2>2, <2>3, QuietKept
<1>7. CASE io' = [io EXCEPT ![p] = NoHandler] /\ quiet' = quiet
  BY <1>7, QuietKept, PatientNew, HandlerTypes
<1>. QED
  BY <1>1, <1>2, <1>3, <1>4, <1>5, <1>6, <1>7
     DEF MainStep, Lock, Daemonize, WritePid, Bind, EndRun, EndWait

LEMMA RunLively ==
    ASSUME NEW p \in Proc, Awake, Lively, RunHandler(p) PROVE Lively'
<1>. DEFINE h == next(io[p])
<1>. io[p] \in HandlerType /\ quiet[p] \in 0 .. Watchdog /\ Patient(io[p], quiet[p])
  BY DEF Awake, Lively
<1>0. io[p].ready # << >>
  BY DEF RunHandler, Connected, Read, ReadFails, WatchdogBites, stopHandler, Handle
<1>1. h \in HandlerType /\ Patient(h, quiet[p])
  BY <1>0, PatientQueue, HandlerTypes
<1>2. resetWatchdog(h) \in HandlerType /\ Patient(readStart(resetWatchdog(h)), quiet[p])
  BY <1>1, PatientStays, HandlerTypes
<1>3. ASSUME NEW e, NEW g \in HandlerType, Handle(p, e, g), Patient(g, quiet[p]), quiet' = quiet
      PROVE  Lively'
  <2>1. io' = [io EXCEPT ![p] = g]
    BY <1>3 DEF Handle
  <2>. QED BY <1>3, <2>1, QuietKept
<1>4. Patient(doClose(h), quiet[p]) /\ Patient(stop(h), quiet[p])
  BY <1>1, PatientStays
<1>5. Patient(doClose(resetWatchdog(h)), quiet[p])
  BY <1>1, <1>4 DEF Patient, doClose, stop, resetWatchdog, HandlerType
<1>6. CASE Connected(p)
  <2>1. PICK e \in {"connected", "refused"} : Handle(p, e, connectComplete(io[p], e = "refused"))
    BY <1>6 DEF Connected
  <2>2. (e = "refused") \in BOOLEAN
    OBVIOUS
  <2>3. connectComplete(io[p], e = "refused") \in HandlerType
    BY <1>0, <2>2, HandlerTypes
  <2>4. Patient(connectComplete(io[p], e = "refused"), quiet[p])
    BY <1>2, <1>4 DEF connectComplete
  <2>. QED BY <1>3, <1>6, <2>1, <2>3, <2>4 DEF Connected
<1>7. ASSUME NEW value \in BOOLEAN, Read(p, value) PROVE Lively'
  <2>1. readComplete(io[p], FALSE) \in HandlerType
    BY <1>0, HandlerTypes
  <2>. DEFINE q == IF Queued(p, "watchdog") THEN quiet[p] ELSE 0
  <2>2. q \in 0 .. Watchdog
    BY WatchdogAssumption
  <2>3. Patient(readComplete(io[p], FALSE), q)
    <3>1. readComplete(io[p], FALSE) = readStart(resetWatchdog(h))
      BY DEF readComplete
    <3>2. CASE Queued(p, "watchdog")
      BY <1>2, <3>1, <3>2
    <3>3. CASE ~Queued(p, "watchdog")
      <4>1. io[p].ready \in Seq(Event) /\ h.ready = Tail(io[p].ready)
        BY DEF next, HandlerType
      <4>2. \A i \in DOMAIN h.ready : i + 1 \in DOMAIN io[p].ready /\ h.ready[i] = io[p].ready[i + 1]
        BY <1>0, <4>1
      <4>3. \A i \in DOMAIN h.ready : h.ready[i] # "watchdog"
        BY <3>3, <4>2 DEF Queued
      <4>. HIDE DEF h
      <4>4. Patient(readStart(resetWatchdog(h)), 0)
        BY <1>1, <4>3, PatientStays
      <4>. QED BY <3>1, <3>3, <4>4
    <3>. QED BY <3>2, <3>3
  <2>4. io' = [io EXCEPT ![p] = readComplete(io[p], FALSE)] /\ quiet' = [quiet EXCEPT ![p] = q]
    BY <1>7 DEF Read, Handle
  <2>. QED BY <2>1, <2>2, <2>3, <2>4, OneLively
<1>8. CASE ReadFails(p)
  <2>1. readComplete(io[p], TRUE) \in HandlerType /\ Patient(readComplete(io[p], TRUE), quiet[p])
    BY <1>0, <1>5, HandlerTypes DEF readComplete
  <2>. QED BY <1>3, <1>8, <2>1 DEF ReadFails
<1>9. CASE WatchdogBites(p)
  <2>1. watchdogExpired(io[p]) \in HandlerType /\ Patient(watchdogExpired(io[p]), quiet[p])
    BY <1>0, <1>4, HandlerTypes DEF watchdogExpired
  <2>. QED BY <1>3, <1>9, <2>1 DEF WatchdogBites
<1>10. CASE stopHandler(p)
  <2>1. stop(h) \in HandlerType
    BY <1>1, HandlerTypes
  <2>. QED BY <1>3, <1>4, <1>10, <2>1 DEF stopHandler
<1>. QED BY <1>6, <1>7, <1>8, <1>9, <1>10 DEF RunHandler

\* What the reactor notices, time, and signals.
LEMMA ReactorLively ==
    ASSUME NEW p \in Proc, Awake, Lively,
           Connects(p) \/ Arrives(p) \/ WatchdogDue(p) \/ Tick(p)
    PROVE  Lively'
<1>. io[p] \in HandlerType /\ quiet[p] \in 0 .. Watchdog /\ Patient(io[p], quiet[p])
  BY DEF Awake, Lively
<1>1. ASSUME NEW e \in Event, NEW g \in HandlerType, Complete(p, e, g), Patient(g, quiet[p]),
             e # "watchdog" \/ quiet[p] = Watchdog
      PROVE  Lively'
  <2>1. io' = [io EXCEPT ![p] = completed(g, e)] /\ quiet' = quiet
    BY <1>1 DEF Complete
  <2>2. completed(g, e) \in HandlerType /\ Patient(completed(g, e), quiet[p])
    BY <1>1, PatientQueue, HandlerTypes
  <2>. QED BY <2>1, <2>2, QuietKept
<1>2. [io[p] EXCEPT !.conn = "busy"] \in HandlerType /\ Patient([io[p] EXCEPT !.conn = "busy"], quiet[p])
  BY PatientStays, HandlerTypes
<1>3. CASE Connects(p)
  BY <1>1, <1>2, <1>3 DEF Connects, Event
<1>4. CASE Arrives(p)
  BY <1>1, <1>2, <1>4 DEF Arrives, Event
<1>5. CASE WatchdogDue(p)
  <2>1. quiet[p] = Watchdog /\ Complete(p, "watchdog", [io[p] EXCEPT !.armed = FALSE])
    BY <1>5, PatientStays DEF WatchdogDue
  <2>2. [io[p] EXCEPT !.armed = FALSE] \in HandlerType
        /\ Patient([io[p] EXCEPT !.armed = FALSE], quiet[p])
    BY HandlerTypes DEF Patient, HandlerType
  <2>. QED BY <1>1, <2>1, <2>2 DEF Event
<1>6. CASE Tick(p)
  <2>. DEFINE g == [io[p] EXCEPT !.left = @ - 1]
              q == IF quiet[p] < Watchdog THEN quiet[p] + 1 ELSE quiet[p]
  <2>1. io[p].left > 0 /\ io[p].armed /\ g \in HandlerType
    BY <1>6, HandlerTypes DEF Tick
  <2>2. g.left = io[p].left - 1 /\ g.armed = io[p].armed /\ g.ready = io[p].ready
    BY DEF HandlerType
  <2>3. Watchdog \in Nat /\ io[p].left \in Nat
    BY WatchdogAssumption DEF HandlerType
  <2>4. q \in 0 .. Watchdog
    BY <2>3
  <2>5. g.armed => g.left + q >= Watchdog
    BY <2>1, <2>2, <2>3 DEF Patient
  <2>6. \A i \in DOMAIN g.ready : g.ready[i] = "watchdog" => q = Watchdog
    BY <2>2, <2>3 DEF Patient
  <2>7. io' = [io EXCEPT ![p] = g] /\ quiet' = [quiet EXCEPT ![p] = q]
    BY <1>6 DEF Tick
  <2>8. Patient(g, q)
    BY <2>5, <2>6 DEF Patient
  <2>. QED BY <2>1, <2>4, <2>7, <2>8, OneLively
<1>. QED BY <1>3, <1>4, <1>5, <1>6

LEMMA SignalLively ==
    ASSUME NEW p \in Proc, Awake, Lively, Signalled(p) PROVE Lively'
<1>. io[p] \in HandlerType /\ quiet[p] \in 0 .. Watchdog /\ Patient(io[p], quiet[p])
  BY DEF Awake, Lively
<1>1. completed(io[p], "signal") \in HandlerType /\ Patient(completed(io[p], "signal"), quiet[p])
  <2>1. "signal" \in Event
    BY DEF Event
  <2>. QED BY <2>1, PatientQueue, HandlerTypes
<1>2. CASE Gone(p)
  BY <1>2, GoneLively
<1>3. CASE UNCHANGED <<io, quiet>>
  BY <1>3, SameLively
<1>4. CASE io' = [io EXCEPT ![p] = completed(io[p], "signal")] /\ quiet' = quiet
  BY <1>1, <1>4, QuietKept
<1>. QED BY <1>2, <1>3, <1>4 DEF Signalled

LEMMA LivelyInit == Init => Lively
BY PatientNew, WatchdogAssumption DEF Init, Lively

LEMMA LivelyStep == Awake /\ Lively /\ [Next]_vars => Lively'
<1>. SUFFICES ASSUME Awake, Lively, [Next]_vars PROVE Lively'
  OBVIOUS
<1>1. CASE UNCHANGED vars \/ Over
  BY <1>1, SameLively DEF vars, Over
<1>2. ASSUME NEW p \in Proc, Start(p) \/ GoesSilent(p) PROVE Lively'
  BY <1>2, SameLively DEF Start, GoesSilent
<1>3. ASSUME NEW p \in Proc, MainStep(p) PROVE Lively'
  BY <1>3, MainLively
<1>4. ASSUME NEW p \in Proc, RunHandler(p) PROVE Lively'
  BY <1>4, RunLively
<1>5. ASSUME NEW p \in Proc, Throws(p) \/ Crash(p) PROVE Lively'
  BY <1>5, GoneLively DEF Throws, Crash, Exit
<1>6. ASSUME NEW p \in Proc, Connects(p) \/ Arrives(p) \/ WatchdogDue(p) \/ Tick(p) PROVE Lively'
  BY <1>6, ReactorLively
<1>7. ASSUME NEW p \in Proc, Signalled(p) PROVE Lively'
  BY <1>7, SignalLively
<1>8. ASSUME NEW p \in Proc, NEW s \in Sub, Accept(p, s) PROVE Lively'
  BY <1>8, SameLively DEF Accept
<1>9. ASSUME NEW s \in Sub, WriteFails(s) \/ SubscriberLeaves(s) PROVE Lively'
  BY <1>9, SameLively DEF WriteFails, SubscriberLeaves
<1>10. CASE ScriptWorks
  BY <1>7, <1>10, ScriptSteps, SameLively
<1>. QED
  BY <1>1, <1>2, <1>3, <1>4, <1>5, <1>6, <1>7, <1>8, <1>9, <1>10, CastAssumption
     DEF Next, Signal, ScriptWorks

\* An expired watchdog that runs was quiet for all its time, also when data
\* arrived after it expired.
LEMMA BitesWhenQuiet ==
    ASSUME NEW p \in Proc, Awake, Lively, WatchdogBites(p) PROVE quiet[p] = Watchdog
<1>1. io[p] \in HandlerType /\ quiet[p] \in 0 .. Watchdog /\ Patient(io[p], quiet[p])
  BY DEF Awake, Lively
<1>2. io[p].ready # << >> /\ Head(io[p].ready) = "watchdog"
  BY DEF WatchdogBites, Handle
<1>. QED BY <1>1, <1>2, PatientQueue

\* The watchdog never closes a connection from which something was read in
\* the last two minutes before it expired.
THEOREM KeepsLivelyLinks == Spec => LivelyLinkKept
<1>1. Awake /\ Lively /\ [Next]_vars => [\A p \in Proc : WatchdogBites(p) => quiet[p] = Watchdog]_vars
  BY BitesWhenQuiet
<1>. QED
  BY <1>1, PortHeldInit, PortHeldStep, AwakeInit, AwakeStep, LivelyInit, LivelyStep, PTL
     DEF Spec, LivelyLinkKept

-----------------------------------------------------------------------------
(* The pid file, and the types *)

\* An instance that has never met another is the only one, and its file is
\* there from the start and names it from write() on.  While a stop is about to
\* remove the file, the only one is the one that was signalled, or has seen it
\* coming.
Named(p) ==
    /\ fs.path # NoInode
    /\ pc[p] \in {"loop", "bind"} \cup Serving => fs.text = <<p, "daemon">>

Found ==
    /\ fs \in FsType
    /\ asked \in [Proc -> {"no", "yes", "lost"}]
    /\ \A p, q \in Proc : Live(p) /\ p \notin met /\ Live(q) => p = q
    /\ \A p \in Proc : Live(p) /\ p \notin met /\ asked[p] = "no" => Named(p) /\ script.at # "rm"
    /\ script \in [at : {"idle", "kill", "rm"}, pid : Pid \cup {NoPid}]

LEMMA FileAtType == \A f \in FsType : FileAt(f) \in Inode
BY PidFileAssumption DEF FsType, FileAt

\* The operations on the file system keep its type.
LEMMA FsTypes ==
    /\ EmptyFs \in FsType
    /\ \A f \in FsType : unlink(f) \in FsType
    /\ \A f \in FsType, p \in Proc :
          /\ opened(f, p) \in FsType /\ locked(f, p) \in FsType /\ unlocked(f, p) \in FsType
          /\ closed(f, p) \in FsType /\ destroyed(f, p) \in FsType
    /\ \A f \in FsType, pid \in Pid : written(f, pid) \in FsType
<1>1. EmptyFs \in FsType
  BY DEF EmptyFs, FsType
<1>2. ASSUME NEW f \in FsType PROVE unlink(f) \in FsType
  BY DEF unlink, FsType
<1>3. ASSUME NEW f \in FsType, NEW p \in Proc PROVE opened(f, p) \in FsType
  BY FileAtType DEF opened, FsType
<1>4. ASSUME NEW f \in FsType, NEW p \in Proc PROVE locked(f, p) \in FsType
  BY DEF locked, FsType
<1>5. ASSUME NEW f \in FsType, NEW p \in Proc PROVE unlocked(f, p) \in FsType
  BY DEF unlocked, FsType
<1>6. ASSUME NEW f \in FsType, NEW p \in Proc PROVE closed(f, p) \in FsType
  <2>1. \A g \in FsType : [g EXCEPT !.fd[p] = NoInode] \in FsType
    BY DEF FsType
  <2>. QED BY <1>5, <2>1 DEF closed
<1>7. ASSUME NEW f \in FsType, NEW p \in Proc PROVE destroyed(f, p) \in FsType
  BY <1>2, <1>6 DEF destroyed
<1>8. ASSUME NEW f \in FsType, NEW pid \in Pid PROVE written(f, pid) \in FsType
  BY FileAtType DEF written, FsType
<1>. QED BY <1>1, <1>2, <1>3, <1>4, <1>5, <1>6, <1>7, <1>8

\* What a file operation does to the path and the pid in the file.
LEMMA FsEffects ==
    ASSUME NEW f \in FsType, NEW p \in Proc
    PROVE  /\ opened(f, p).path # NoInode
           /\ locked(f, p).path = f.path /\ unlocked(f, p).path = f.path
           /\ \A pid \in Pid : written(f, pid).path # NoInode /\ written(f, pid).text = pid
BY FileAtType, PidFileAssumption DEF opened, locked, unlocked, written, FsType

\* A step of one live instance concerns no one who is alone but itself.
LEMMA OwnStep ==
    ASSUME NEW p \in Proc, PortHeld, Found, Live(p),
           \A q \in Proc : q # p => pc'[q] = pc[q] /\ (q \in met' <=> q \in met),
           pc'[p] \notin {"off", "ended"} => (p \in met' <=> p \in met),
           fs' \in FsType, asked' \in [Proc -> {"no", "yes", "lost"}],
           script' \in [at : {"idle", "kill", "rm"}, pid : Pid \cup {NoPid}],
           pc'[p] \notin {"off", "ended"} /\ p \notin met /\ asked'[p] = "no"
               => Named(p)' /\ script'.at # "rm"
    PROVE  Found'
<1>1. ASSUME NEW r \in Proc, r # p, Live(r)', r \notin met' PROVE FALSE
  BY <1>1 DEF Found, Live
<1>2. ASSUME NEW q \in Proc, q # p, Live(p)', p \notin met', Live(q)' PROVE FALSE
  BY <1>2 DEF Found, Live
<1>3. \A r, q \in Proc : Live(r)' /\ r \notin met' /\ Live(q)' => r = q
  BY <1>1, <1>2
<1>4. \A r \in Proc : Live(r)' /\ r \notin met' /\ asked'[r] = "no" => Named(r)' /\ script'.at # "rm"
  BY <1>1 DEF Live
<1>. QED BY <1>3, <1>4 DEF Found

LEMMA GoneFound ==
    ASSUME NEW p \in Proc, PortHeld, Found, Live(p), Gone(p), fs' \in FsType,
           script' \in [at : {"idle", "kill", "rm"}, pid : Pid \cup {NoPid}]
    PROVE  Found'
<1>1. pc'[p] = "ended" /\ \A q \in Proc : q # p => pc'[q] = pc[q]
  BY DEF Gone, Goto, PortHeld
<1>2. asked' \in [Proc -> {"no", "yes", "lost"}]
  BY DEF Gone, Found
<1>3. \A q \in Proc : q # p => (q \in met' <=> q \in met)
  BY DEF Gone
<1>. QED BY <1>1, <1>2, <1>3, OwnStep

\* A step with the files and the signals as they are.
LEMMA PlaceFound ==
    ASSUME NEW p \in Proc, NEW place, PortHeld, Found, Live(p), Goto(p, place),
           UNCHANGED <<fs, met, asked, script>>,
           place \in {"loop", "bind"} \cup Serving => pc[p] \in {"loop", "bind"} \cup Serving
    PROVE  Found'
<1>1. pc'[p] = place /\ \A q \in Proc : q # p => pc'[q] = pc[q]
  BY DEF Goto, PortHeld
<1>2. Live(p) /\ p \notin met /\ asked[p] = "no" => Named(p) /\ script.at # "rm"
  BY DEF Found
<1>3. Live(p) /\ p \notin met /\ asked'[p] = "no" => Named(p)' /\ script'.at # "rm"
  BY <1>1, <1>2 DEF Named
<1>4. /\ fs' \in FsType /\ asked' \in [Proc -> {"no", "yes", "lost"}]
      /\ script' \in [at : {"idle", "kill", "rm"}, pid : Pid \cup {NoPid}]
  BY DEF Found
<1>. QED BY <1>1, <1>3, <1>4, OwnStep

LEMMA SameFound ==
    ASSUME Found, UNCHANGED <<pc, fs, met, asked, script>> PROVE Found'
BY DEF Found, Live, Named

\* A step of main() or a signal that changes what p was asked, and not its file.
LEMMA AskedFound ==
    ASSUME NEW p \in Proc, NEW a \in {"yes", "lost"}, PortHeld, Found, Live(p),
           \A q \in Proc : q # p => pc'[q] = pc[q],
           met' = met, fs' \in FsType, asked' = [asked EXCEPT ![p] = a],
           script' \in [at : {"idle", "kill", "rm"}, pid : Pid \cup {NoPid}]
    PROVE  Found'
<1>1. asked' \in [Proc -> {"no", "yes", "lost"}] /\ asked'[p] = a
  BY DEF Found
<1>. QED BY <1>1, OwnStep

\* Who starts while the file is about to be removed does not count as alone.
LEMMA StartFound ==
    ASSUME NEW p \in Proc, PortHeld, Found, Start(p) PROVE Found'
<1>1. pc'[p] = "opened" /\ \A q \in Proc : q # p => pc'[q] = pc[q]
  BY DEF Start, Goto, PortHeld
<1>2. fs' \in FsType /\ fs'.path # NoInode
  BY FsTypes, FsEffects DEF Start, Found
<1>3. asked' \in [Proc -> {"no", "yes", "lost"}] /\ script' = script
  BY DEF Start, Found
<1>4. \A r \in Proc : Live(r) /\ r # p => r \in met' /\ p \in met'
  BY DEF Start
<1>5. \A r \in Proc : r # p => (Live(r)' <=> Live(r))
  BY <1>1 DEF Live
<1>6. \A r, q \in Proc : Live(r)' /\ r \notin met' /\ Live(q)' => r = q
  BY <1>4, <1>5
<1>7. \A r \in Proc : Live(r)' /\ r \notin met' => r = p
  BY <1>4, <1>5
<1>8. p \notin met' => Named(p)' /\ script'.at # "rm"
  BY <1>1, <1>2, <1>3 DEF Start, Named, Serving
<1>. QED BY <1>2, <1>3, <1>6, <1>7, <1>8 DEF Found

LEMMA MainFound ==
    ASSUME NEW p \in Proc, PortHeld, Found, MainStep(p) PROVE Found'
<1>. fs \in FsType /\ script \in [at : {"idle", "kill", "rm"}, pid : Pid \cup {NoPid}]
  BY DEF Found
<1>0. Live(p) /\ script' = script
  BY DEF MainStep, Lock, Daemonize, WritePid, Construct, Bind, EndRun, WaitTimer, StopWait,
         EndWait, Exit, Live
<1>1. CASE Exit(p)
  BY <1>0, <1>1, GoneFound, FsTypes DEF Exit
<1>2. CASE Goto(p, "locked") /\ fs' = locked(fs, p) /\ UNCHANGED <<met, asked>>
  <2>1. pc'[p] = "locked" /\ \A q \in Proc : q # p => pc'[q] = pc[q]
    BY <1>2 DEF Goto, PortHeld
  <2>2. Live(p) /\ p \notin met /\ asked'[p] = "no" => Named(p)' /\ script'.at # "rm"
    BY <1>0, <1>2, <2>1, FsEffects DEF Found, Named, Serving
  <2>. QED BY <1>0, <1>2, <2>1, <2>2, OwnStep, FsTypes DEF Found
<1>3. CASE Goto(p, "daemon") /\ fs' = unlocked(fs, p) /\ UNCHANGED <<met, asked>>
  <2>1. pc'[p] = "daemon" /\ \A q \in Proc : q # p => pc'[q] = pc[q]
    BY <1>3 DEF Goto, PortHeld
  <2>2. Live(p) /\ p \notin met /\ asked'[p] = "no" => Named(p)' /\ script'.at # "rm"
    BY <1>0, <1>3, <2>1, FsEffects DEF Found, Named, Serving
  <2>. QED BY <1>0, <1>3, <2>1, <2>2, OwnStep, FsTypes DEF Found
<1>4. CASE WritePid(p)
  <2>1. pc'[p] = "loop" /\ \A q \in Proc : q # p => pc'[q] = pc[q]
    BY <1>4 DEF WritePid, Goto, PortHeld
  <2>2. getpid(p) = <<p, "daemon">> /\ getpid(p) \in Pid
    BY <1>4 DEF WritePid, getpid, Pid
  <2>3. fs' \in FsType /\ fs'.path # NoInode /\ fs'.text = <<p, "daemon">>
    BY <1>4, <2>2, FsTypes, FsEffects DEF WritePid
  <2>4. UNCHANGED <<met, asked>> /\ Named(p)'
    BY <1>4, <2>3 DEF WritePid, Named
  <2>5. p \notin met /\ asked'[p] = "no" => script'.at # "rm"
    BY <1>0, <2>4 DEF Found
  <2>. QED BY <1>0, <2>1, <2>3, <2>4, <2>5, OwnStep DEF Found
<1>5. CASE Construct(p)
  BY <1>0, <1>5, PlaceFound DEF Construct
<1>6. CASE Goto(p, "run") /\ UNCHANGED <<fs, met, asked>> /\ pc[p] = "bind"
  BY <1>0, <1>6, PlaceFound
<1>7. CASE /\ Goto(p, "wait") \/ Goto(p, "loop")
           /\ pc[p] \in Serving /\ UNCHANGED <<fs, met>>
           /\ asked' = [asked EXCEPT ![p] = IF Dropped(p) THEN "lost" ELSE @]
  <2>1. CASE Dropped(p)
    <3>1. \A q \in Proc : q # p => pc'[q] = pc[q]
      BY <1>7 DEF Goto, PortHeld
    <3>. QED BY <1>0, <1>7, <2>1, <3>1, AskedFound
  <2>2. CASE ~Dropped(p)
    <3>1. asked' = asked
      BY <1>7, <2>2 DEF Found
    <3>. QED BY <1>0, <1>7, <3>1, PlaceFound
  <2>. QED BY <2>1, <2>2
<1>8. CASE WaitTimer(p) \/ StopWait(p)
  BY <1>8, SameFound DEF WaitTimer, StopWait
<1>. QED
  BY <1>1, <1>2, <1>3, <1>4, <1>5, <1>6, <1>7, <1>8
     DEF MainStep, Lock, Daemonize, Bind, EndRun, EndWait, Serving

\* A signal ends an instance that is starting, and is noted by one that serves,
\* so that its file may be removed.
LEMMA SignalFound ==
    ASSUME NEW p \in Proc, PortHeld, Found, Signalled(p), fs' \in FsType,
           script' \in [at : {"idle", "kill", "rm"}, pid : Pid \cup {NoPid}]
    PROVE  Found'
<1>1. Live(p)
  BY DEF Signalled, Starting, Serving, Live
<1>2. CASE Gone(p)
  BY <1>1, <1>2, GoneFound
<1>3. CASE /\ UNCHANGED <<pc, met>>
           /\ asked' = [asked EXCEPT ![p] = IF io[p].stopped /\ running[p] THEN "lost" ELSE "yes"]
  BY <1>1, <1>3, AskedFound
<1>. QED BY <1>2, <1>3 DEF Signalled

\* A stop of the init script: it removes the file of no one who is alone and was
\* not signalled.
LEMMA ScriptFound ==
    ASSUME PortHeld, Found, ScriptWorks PROVE Found'
<1>. fs \in FsType /\ script \in [at : {"idle", "kill", "rm"}, pid : Pid \cup {NoPid}]
  BY DEF Found
<1>1. NoStop \in [at : {"idle", "kill", "rm"}, pid : Pid \cup {NoPid}] /\ NoStop.at # "rm"
  BY DEF NoStop
<1>2. CASE ScriptReads
  <2>1. script' \in [at : {"idle", "kill", "rm"}, pid : Pid \cup {NoPid}] /\ script'.at # "rm"
    BY <1>2 DEF ScriptReads, FsType
  <2>. QED BY <1>2, <2>1 DEF ScriptReads, Found, Live, Named
<1>3. CASE ScriptKills
  <2>1. ASSUME NEW p \in ScriptTargets, Signalled(p), fs' = FsAfterSignal(p),
               script' = [at |-> "rm", pid |-> NoPid]
        PROVE  Found'
    <3>1. p \in Proc
      BY DEF ScriptTargets
    <3>2. script' \in [at : {"idle", "kill", "rm"}, pid : Pid \cup {NoPid}]
      BY <2>1
    <3>3. fs' \in FsType
      BY <2>1, <3>1, FsTypes DEF FsAfterSignal
    <3>. QED BY <2>1, <3>1, <3>2, <3>3, SignalFound
  <2>2. CASE script' = NoStop /\ UNCHANGED <<pc, asked, fs, met>>
    BY <1>1, <2>2 DEF Found, Live, Named
  <2>. QED BY <1>3, <2>1, <2>2 DEF ScriptKills
<1>4. CASE ScriptRemoves
  <2>1. fs' \in FsType /\ script' = NoStop /\ UNCHANGED <<pc, asked, met>>
    BY <1>4, FsTypes DEF ScriptRemoves
  <2>2. \A p \in Proc : ~(Live(p) /\ p \notin met /\ asked[p] = "no")
    BY <1>4 DEF ScriptRemoves, Found
  <2>. QED BY <1>1, <2>1, <2>2 DEF Found, Live
<1>. QED BY <1>2, <1>3, <1>4 DEF ScriptWorks

LEMMA FoundInit == Init => Found
BY FsTypes DEF Init, Found, Live, NoStop

LEMMA FoundStep == PortHeld /\ Found /\ [Next]_vars => Found'
<1>. SUFFICES ASSUME PortHeld, Found, [Next]_vars PROVE Found'
  OBVIOUS
<1>. fs \in FsType /\ script \in [at : {"idle", "kill", "rm"}, pid : Pid \cup {NoPid}]
  BY DEF Found
<1>1. CASE UNCHANGED vars \/ Over
  BY <1>1, SameFound DEF vars, Over
<1>2. ASSUME NEW p \in Proc, Start(p) PROVE Found'
  BY <1>2, StartFound
<1>3. ASSUME NEW p \in Proc, MainStep(p) PROVE Found'
  BY <1>3, MainFound
<1>4. ASSUME NEW p \in Proc, RunHandler(p) PROVE Found'
  BY <1>4, SameFound
     DEF RunHandler, Connected, Read, ReadFails, WatchdogBites, stopHandler, Handle
<1>5. ASSUME NEW p \in Proc, Throws(p) \/ Crash(p) PROVE Found'
  <2>1. Live(p)
    BY <1>5 DEF Throws, Crash, Runs, Live
  <2>. QED BY <1>5, <2>1, GoneFound, FsTypes DEF Throws, Crash, Exit
<1>6. ASSUME NEW p \in Proc,
             Connects(p) \/ Arrives(p) \/ WatchdogDue(p) \/ GoesSilent(p) \/ Tick(p)
      PROVE  Found'
  BY <1>6, SameFound DEF Connects, Arrives, WatchdogDue, GoesSilent, Tick, Complete
<1>7. ASSUME NEW p \in Proc, Signal(p) PROVE Found'
  BY <1>7, SignalFound, FsTypes DEF Signal, FsAfterSignal
<1>8. CASE ScriptWorks
  BY <1>8, ScriptFound
<1>9. ASSUME NEW p \in Proc, NEW s \in Sub, Accept(p, s) PROVE Found'
  BY <1>9, SameFound DEF Accept
<1>10. ASSUME NEW s \in Sub, WriteFails(s) \/ SubscriberLeaves(s) PROVE Found'
  BY <1>10, SameFound DEF WriteFails, SubscriberLeaves
<1>. QED
  BY <1>1, <1>2, <1>3, <1>4, <1>5, <1>6, <1>7, <1>8, <1>9, <1>10, CastAssumption
     DEF Next, ScriptWorks

\* The pid file names a daemon that never had company, unless it started between
\* the kill and the rm of a stop: whatever was there before it, whatever stops are
\* under way and however often its connection is lost.
THEOREM CanBeFound == Spec => []FileNamesTheDaemon
<1>1. Found => FileNamesTheDaemon
  BY DEF Found, FileNamesTheDaemon, Named, Serving, Live
<1>. QED BY <1>1, PortHeldInit, PortHeldStep, FoundInit, FoundStep, PTL DEF Spec

-----------------------------------------------------------------------------
(* Types: what the invariants above leave out. *)

Rest ==
    /\ running \in [Proc -> BOOLEAN] /\ silent \in [Proc -> BOOLEAN]
    /\ port \in Proc \cup {NoProc}
    /\ sub \in [Sub -> Connection(Proc)]
    /\ met \subseteq Proc

LEMMA ConnectionTypes ==
    /\ NoConnection \in Connection(Proc)
    /\ \A p \in Proc : startConnection(p) \in Connection(Proc)
    /\ \A k \in Connection(Proc) :
          /\ [k EXCEPT !.end = "closed"] \in Connection(Proc)
          /\ k.failed < MaxFailed => handleValue(k) \in Connection(Proc)
          /\ k.failed > 0 => handleWrite(k) \in Connection(Proc)
<1>1. NoConnection \in Connection(Proc)
  BY DataAssumption DEF NoConnection, Connection
<1>2. ASSUME NEW p \in Proc PROVE startConnection(p) \in Connection(Proc)
  BY <1>1 DEF startConnection, NoConnection, Connection
<1>3. ASSUME NEW k \in Connection(Proc)
      PROVE  /\ [k EXCEPT !.end = "closed"] \in Connection(Proc)
             /\ [k EXCEPT !.end = "reset"] \in Connection(Proc)
             /\ [k EXCEPT !.member = FALSE] \in Connection(Proc)
             /\ \A n \in 0 .. MaxFailed : [k EXCEPT !.failed = n] \in Connection(Proc)
  BY DEF Connection
<1>4. ASSUME NEW k \in Connection(Proc), k.failed < MaxFailed PROVE handleValue(k) \in Connection(Proc)
  <2>1. k.failed + 1 \in 0 .. MaxFailed /\ k.end \in {"open", "closed", "reset"} /\ k.member \in BOOLEAN
    BY <1>4, DataAssumption DEF Connection
  <2>. QED BY <1>3, <2>1 DEF handleValue
<1>5. ASSUME NEW k \in Connection(Proc), k.failed > 0 PROVE handleWrite(k) \in Connection(Proc)
  <2>1. k.failed - 1 \in 0 .. MaxFailed
    BY <1>5, DataAssumption DEF Connection
  <2>2. [k EXCEPT !.failed = @ - 1] \in Connection(Proc)
    BY <1>3, <2>1
  <2>. QED BY <1>1, <1>3, <2>2 DEF handleWrite, stopConnection
<1>. QED BY <1>1, <1>2, <1>3, <1>4, <1>5

LEMMA GoneRest ==
    ASSUME NEW p \in Proc, Rest, Gone(p) PROVE Rest'
<1>1. sub' \in [Sub -> Connection(Proc)]
  BY ConnectionTypes DEF Gone, closeAll, Rest
<1>. QED BY <1>1 DEF Gone, Rest

LEMMA MainRest ==
    ASSUME NEW p \in Proc, Rest, MainStep(p) PROVE Rest'
<1>1. CASE Exit(p)
  BY <1>1, GoneRest DEF Exit
<1>2. CASE UNCHANGED <<running, silent, sub, met>> /\ port' = p
  BY <1>2 DEF Rest
<1>3. CASE StopWait(p)
  <2>1. running' \in [Proc -> BOOLEAN]
    BY <1>3 DEF StopWait, Rest
  <2>. QED BY <1>3, <2>1 DEF StopWait, Rest
<1>4. CASE UNCHANGED <<running, silent, met>> /\ port' = NoProc /\ sub' = closeAll(sub, p)
  <2>1. sub' \in [Sub -> Connection(Proc)]
    BY <1>4, ConnectionTypes DEF closeAll, Rest
  <2>. QED BY <1>4, <2>1 DEF Rest
<1>5. CASE EndRun(p)
  <2>1. CASE UNCHANGED <<running, port, sub, met>> /\ silent' = [silent EXCEPT ![p] = FALSE]
    BY <2>1 DEF Rest
  <2>. QED BY <1>1, <1>5, <2>1 DEF EndRun
<1>6. CASE UNCHANGED <<running, silent, port, sub, met>>
  BY <1>6 DEF Rest
<1>. QED
  BY <1>1, <1>2, <1>3, <1>4, <1>5, <1>6
     DEF MainStep, Lock, Daemonize, WritePid, Construct, Bind, WaitTimer, EndWait

LEMMA RunRest ==
    ASSUME NEW p \in Proc, Rest, RunHandler(p) PROVE Rest'
<1>1. CASE UNCHANGED <<running, silent, port, sub, met>>
  BY <1>1 DEF Rest
<1>2. ASSUME NEW value \in BOOLEAN, Read(p, value) PROVE Rest'
  <2>1. sub' \in [Sub -> Connection(Proc)]
    <3>1. \A s \in Sub : sub[s] \in Connection(Proc)
      BY DEF Rest
    <3>2. \A s \in Sub : value => sub[s].failed < MaxFailed
      BY <1>2 DEF Read
    <3>3. sub' = [s \in Sub |-> IF value /\ sub[s].at = p THEN handleValue(sub[s]) ELSE sub[s]]
      BY <1>2 DEF Read
    <3>4. \A s \in Sub :
             (IF value /\ sub[s].at = p THEN handleValue(sub[s]) ELSE sub[s]) \in Connection(Proc)
      BY <3>1, <3>2, ConnectionTypes
    <3>. QED BY <3>3, <3>4
  <2>. QED BY <1>2, <2>1 DEF Read, Handle, Rest
<1>3. CASE stopHandler(p)
  BY <1>3 DEF stopHandler, Handle, Rest
<1>. QED
  BY <1>1, <1>2, <1>3 DEF RunHandler, Connected, ReadFails, WatchdogBites, Handle

LEMMA RestInit == Init => Rest
BY ConnectionTypes DEF Init, Rest

LEMMA RestStep == Rest /\ [Next]_vars => Rest'
<1>. SUFFICES ASSUME Rest, [Next]_vars PROVE Rest'
  OBVIOUS
<1>1. CASE UNCHANGED vars \/ Over
  BY <1>1 DEF vars, Over, Rest
<1>2. ASSUME NEW p \in Proc, Start(p) PROVE Rest'
  BY <1>2 DEF Start, Rest
<1>3. ASSUME NEW p \in Proc, MainStep(p) PROVE Rest'
  BY <1>3, MainRest
<1>4. ASSUME NEW p \in Proc, RunHandler(p) PROVE Rest'
  BY <1>4, RunRest
<1>5. ASSUME NEW p \in Proc, Throws(p) \/ Crash(p) PROVE Rest'
  BY <1>5, GoneRest DEF Throws, Crash, Exit
<1>6. ASSUME NEW p \in Proc, Connects(p) \/ Arrives(p) \/ WatchdogDue(p) \/ GoesSilent(p) \/ Tick(p)
      PROVE  Rest'
  BY <1>6 DEF Connects, Arrives, WatchdogDue, GoesSilent, Tick, Complete, Rest
<1>7. ASSUME NEW p \in Proc, Signalled(p) PROVE Rest'
  <2>1. CASE Gone(p)
    BY <2>1, GoneRest
  <2>2. CASE UNCHANGED <<running, silent, port, sub, met>>
    BY <2>2 DEF Rest
  <2>. QED BY <1>7, <2>1, <2>2 DEF Signalled
<1>8. ASSUME NEW p \in Proc, NEW s \in Sub, Accept(p, s) PROVE Rest'
  BY <1>8, ConnectionTypes DEF Accept, Rest
<1>9. ASSUME NEW s \in Sub, WriteFails(s) \/ SubscriberLeaves(s) PROVE Rest'
  <2>1. sub[s] \in Connection(Proc)
    BY DEF Rest
  <2>2. CASE WriteFails(s)
    <3>1. handleWrite(sub[s]) \in Connection(Proc)
      BY <2>1, <2>2, ConnectionTypes DEF WriteFails
    <3>. QED BY <2>2, <3>1 DEF WriteFails, Rest
  <2>3. CASE SubscriberLeaves(s)
    <3>1. [sub[s] EXCEPT !.end = "closed"] \in Connection(Proc)
      BY <2>1, ConnectionTypes
    <3>2. sub' = [sub EXCEPT ![s] = [sub[s] EXCEPT !.end = "closed"]]
      BY <2>3 DEF SubscriberLeaves
    <3>. QED BY <2>3, <3>1, <3>2 DEF SubscriberLeaves, Rest
  <2>. QED BY <1>9, <2>2, <2>3
<1>10. CASE ScriptWorks
  <2>1. CASE UNCHANGED <<running, silent, port, sub, met>>
    BY <2>1 DEF Rest
  <2>. QED BY <1>7, <1>10, <2>1, ScriptSteps
<1>. QED
  BY <1>1, <1>2, <1>3, <1>4, <1>5, <1>6, <1>7, <1>8, <1>9, <1>10, CastAssumption
     DEF Next, Signal, ScriptWorks

\* Whatever happens to the instances, nothing leaves its type: the watchdog is
\* never given more than its time, and no failed write goes uncounted.
THEOREM TypeCorrect == Spec => []TypeOK
<1>1. PortHeld /\ Awake /\ Lively /\ Found /\ Rest => TypeOK
  BY DEF PortHeld, Awake, Lively, Found, Rest, TypeOK
<1>. QED
  BY <1>1, PortHeldInit, PortHeldStep, AwakeInit, AwakeStep, LivelyInit, LivelyStep,
     FoundInit, FoundStep, RestInit, RestStep, PTL DEF Spec
=============================================================================
