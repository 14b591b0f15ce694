------------------------------- MODULE Collector -------------------------------
(***************************************************************************)
(* main() of the collector (collector/main.cpp), for instances that share  *)
(* the pid file, the ports of the command and data interfaces (both are    *)
(* taken to be configured) and the adapter.  An instance becomes a daemon, *)
(* then runs a TcpHandler until its connection is closed, waits, and       *)
(* starts over, until a signal ends it.  The init script stops whatever    *)
(* the pid file names, in three commands that anything may come between.   *)
(*                                                                         *)
(* io[p] is the io_service that p runs: the TcpHandler, and while p waits  *)
(* the local one with its timer.  Handlers run one after the other; the    *)
(* reactor may notice a completed operation at any moment of a run.        *)
(***************************************************************************)
EXTENDS PidFile, TcpHandler, DataHandler

CONSTANTS
    Casts,     \* sets of instances; a behaviour is about one of them
    Visited    \* the instances subscribers come to

ASSUME CastAssumption == Visited \subseteq Proc /\ \A C \in Casts : C \subseteq Proc

VARIABLES
    pc,       \* where in main() an instance is
    running,  \* running
    asked,    \* whether it was signalled, and the signal got lost
    io,       \* the io_service, with the connection to the adapter
    silent,   \* the adapter has gone silent without closing the connection
    quiet,    \* how long nothing was read; not reset once the watchdog's expiry is queued
    fs,       \* the pid file
    port,     \* who listens on the ports
    sub,      \* the subscribers
    met,      \* instances that have had company, or started amid a removal of the file
    script    \* how far a "stop" of the init script has come, and the pid it has read

vars == <<pc, running, asked, io, silent, quiet, fs, port, sub, met, script>>

Starting == {"opened", "locked", "daemon", "loop", "bind"}
Serving == {"run", "wait"}
Place == Starting \cup Serving \cup {"off", "ended"}

NoStop == [at |-> "idle", pid |-> NoPid]

Live(p) == pc[p] \notin {"off", "ended"}
Runs(p) == pc[p] = "run" /\ ~io[p].stopped
Queued(p, e) == \E i \in DOMAIN io[p].ready : io[p].ready[i] = e
getpid(p) == <<p, IF pc[p] \in {"opened", "locked"} THEN "launcher" ELSE "daemon">>

Init ==
    /\ pc \in {[p \in Proc |-> IF p \in C THEN "off" ELSE "ended"] : C \in Casts}
    /\ running = [p \in Proc |-> TRUE]
    /\ asked = [p \in Proc |-> "no"]
    /\ io = [p \in Proc |-> NoHandler]
    /\ silent = [p \in Proc |-> FALSE]
    /\ quiet = [p \in Proc |-> 0]
    /\ fs = EmptyFs
    /\ port = NoProc
    /\ sub = [s \in Sub |-> NoConnection]
    /\ met = {}
    /\ script = NoStop

Goto(p, place) == pc' = [pc EXCEPT ![p] = place]

\* The kernel cleans up after a process: its ports and connections.  What the
\* instance knew is as if it had never been.
Gone(p) ==
    /\ Goto(p, "ended")
    /\ running' = [running EXCEPT ![p] = TRUE]
    /\ asked' = [asked EXCEPT ![p] = "no"]
    /\ met' = met \ {p}
    /\ io' = [io EXCEPT ![p] = NoHandler]
    /\ silent' = [silent EXCEPT ![p] = FALSE]
    /\ quiet' = [quiet EXCEPT ![p] = 0]
    /\ port' = IF port = p THEN NoProc ELSE port
    /\ sub' = closeAll(sub, p)

\* main() returns, or an exception leaves its try block: destructors run.
Exit(p) == Gone(p) /\ fs' = destroyed(fs, p) /\ UNCHANGED script

-----------------------------------------------------------------------------
(* Starting *)

\* PidFile::aquire opens the file ...
Start(p) ==
    /\ pc[p] = "off"
    /\ Goto(p, "opened")
    /\ fs' = opened(fs, p)
    /\ met' = LET others == {q \in Proc : Live(q)}
              IN  IF others = {} /\ script.at # "rm" THEN met ELSE met \cup others \cup {p}
    /\ UNCHANGED <<running, asked, io, silent, quiet, port, sub, script>>

\* ... and locks it, or throws.
Lock(p) ==
    /\ pc[p] = "opened"
    /\ IF CanLock(fs, p)
       THEN /\ Goto(p, "locked")
            /\ fs' = locked(fs, p)
            /\ UNCHANGED <<running, asked, io, silent, quiet, port, sub, met, script>>
       ELSE Exit(p)

\* The database is connected and daemon() called; either may fail.
Daemonize(p) ==
    /\ pc[p] = "locked"
    /\ \/ /\ Goto(p, "daemon")
          /\ fs' = unlocked(fs, p)
          /\ UNCHANGED <<running, asked, io, silent, quiet, port, sub, met, script>>
       \/ Exit(p)

\* Mutant: the pid was taken before the process became a daemon.
WritePidEarly(p) ==
    /\ pc[p] = "daemon"
    /\ Goto(p, "loop")
    /\ fs' = written(fs, <<p, "launcher">>)
    /\ UNCHANGED <<running, asked, io, silent, quiet, port, sub, met, script>>

\* pid.write() of the daemon.
WritePid(p) ==
    /\ pc[p] = "daemon"
    /\ Goto(p, "loop")
    /\ fs' = written(fs, getpid(p))
    /\ UNCHANGED <<running, asked, io, silent, quiet, port, sub, met, script>>

\* The top of the loop: a new handler, which starts to connect.
Construct(p) ==
    /\ pc[p] = "loop"
    /\ Goto(p, "bind")
    /\ \E resolved \in BOOLEAN : io' = [io EXCEPT ![p] = newHandler(resolved)]
    /\ quiet' = [quiet EXCEPT ![p] = 0]
    /\ UNCHANGED <<running, asked, silent, fs, port, sub, met, script>>

\* Mutant: ports in use do not matter.
BindShared(p) ==
    /\ pc[p] = "bind"
    /\ Goto(p, "run")
    /\ port' = p
    /\ UNCHANGED <<running, asked, io, silent, quiet, fs, sub, met, script>>

\* The acceptors are bound, or their constructor throws; then the signal set
\* is filled and the io_service run.
Bind(p) ==
    /\ pc[p] = "bind"
    /\ IF port = NoProc
       THEN /\ Goto(p, "run")
            /\ port' = p
            /\ UNCHANGED <<running, asked, io, silent, quiet, fs, sub, met, script>>
       ELSE Exit(p)

-----------------------------------------------------------------------------
(* Running *)

\* The reactor notices that an operation has completed.
Complete(p, e, h) ==
    /\ Runs(p)
    /\ io' = [io EXCEPT ![p] = completed(h, e)]
    /\ UNCHANGED <<pc, running, asked, silent, quiet, fs, port, sub, met, script>>

Connects(p) ==
    /\ io[p].conn = "connecting"
    /\ \E e \in {"connected", "refused"} : Complete(p, e, [io[p] EXCEPT !.conn = "busy"])

Arrives(p) ==
    /\ io[p].conn = "reading" /\ ~silent[p]
    /\ \E e \in {"data", "error"} : Complete(p, e, [io[p] EXCEPT !.conn = "busy"])

WatchdogDue(p) ==
    /\ io[p].armed /\ io[p].left = 0
    /\ Complete(p, "watchdog", [io[p] EXCEPT !.armed = FALSE])

\* The adapter loses power, or the network between: no end of the connection
\* is ever seen.
GoesSilent(p) ==
    /\ Runs(p) /\ io[p].conn = "reading" /\ ~silent[p]
    /\ silent' = [silent EXCEPT ![p] = TRUE]
    /\ UNCHANGED <<pc, running, asked, io, quiet, fs, port, sub, met, script>>

\* A handler runs and leaves h.
Handle(p, e, h) ==
    /\ Runs(p) /\ io[p].ready # << >> /\ Head(io[p].ready) = e
    /\ io' = [io EXCEPT ![p] = h]
    /\ UNCHANGED <<pc, asked, fs, port, met, script>>

Connected(p) ==
    /\ \E e \in {"connected", "refused"} : Handle(p, e, connectComplete(io[p], e = "refused"))
    /\ UNCHANGED <<running, silent, quiet, sub>>

\* The bytes read complete no value, or one, which every subscriber gets.
Read(p, value) ==
    /\ value => \A s \in Sub : sub[s].failed < MaxFailed
    /\ Handle(p, "data", readComplete(io[p], FALSE))
    /\ quiet' = [quiet EXCEPT ![p] = IF Queued(p, "watchdog") THEN @ ELSE 0]
    /\ sub' = [s \in Sub |-> IF value /\ sub[s].at = p THEN handleValue(sub[s]) ELSE sub[s]]
    /\ UNCHANGED <<running, silent>>

ReadFails(p) ==
    /\ Handle(p, "error", readComplete(io[p], TRUE))
    /\ UNCHANGED <<running, silent, quiet, sub>>

WatchdogBites(p) ==
    /\ Handle(p, "watchdog", watchdogExpired(io[p]))
    /\ UNCHANGED <<running, silent, quiet, sub>>

\* Mutant: the io_service is stopped, but the loop goes on.
stopHandlerOnce(p) ==
    /\ Handle(p, "signal", stop(next(io[p])))
    /\ UNCHANGED <<running, silent, quiet, sub>>

stopHandler(p) ==
    /\ Handle(p, "signal", stop(next(io[p])))
    /\ running' = [running EXCEPT ![p] = FALSE]
    /\ UNCHANGED <<silent, quiet, sub>>

\* A handler throws (a value of an unexpected type, a client that is gone).
Throws(p) ==
    /\ Runs(p) /\ io[p].ready # << >>
    /\ Exit(p)

Accept(p, s) ==
    /\ Runs(p) /\ sub[s] = NoConnection
    /\ sub' = [sub EXCEPT ![s] = startConnection(p)]
    /\ UNCHANGED <<pc, running, asked, io, silent, quiet, fs, port, met, script>>

\* A failed write to s is handled.
WriteFails(s) ==
    /\ sub[s].failed > 0 /\ Runs(sub[s].at)
    /\ sub' = [sub EXCEPT ![s] = handleWrite(@)]
    /\ UNCHANGED <<pc, running, asked, io, silent, quiet, fs, port, met, script>>

SubscriberLeaves(s) ==
    /\ sub[s].at # Nowhere /\ sub[s].end = "open"
    /\ sub' = [sub EXCEPT ![s].end = "closed"]
    /\ UNCHANGED <<pc, running, asked, io, silent, quiet, fs, port, met, script>>

-----------------------------------------------------------------------------
(* Ending a run, and waiting for the next *)

Dropped(p) == Queued(p, "signal")

\* run() returns once the io_service is stopped.  What it has not handled is
\* dropped, a signal included.
EndRun(p) ==
    /\ pc[p] = "run" /\ io[p].stopped
    /\ IF running[p]
       THEN /\ Goto(p, "wait")
            /\ io' = [io EXCEPT ![p] = [NoHandler EXCEPT !.conn = "closed"]]
            /\ silent' = [silent EXCEPT ![p] = FALSE]
            /\ asked' = [asked EXCEPT ![p] = IF Dropped(p) THEN "lost" ELSE @]
            /\ quiet' = [quiet EXCEPT ![p] = 0]
            /\ UNCHANGED <<running, fs, port, sub, met, script>>
       ELSE Exit(p)

\* Ten seconds have passed.
WaitTimer(p) ==
    /\ pc[p] = "wait" /\ ~io[p].stopped
    /\ \A i \in DOMAIN io[p].ready : io[p].ready[i] # "timer"
    /\ io' = [io EXCEPT ![p] = completed(@, "timer")]
    /\ UNCHANGED <<pc, running, asked, silent, quiet, fs, port, sub, met, script>>

\* Mutant: the timer's handler stops another io_service.
StopWaitDeaf(p) ==
    /\ pc[p] = "wait" /\ ~io[p].stopped /\ io[p].ready # << >>
    /\ io' = [io EXCEPT ![p] = IF Head(@.ready) = "signal" THEN stop(next(@)) ELSE next(@)]
    /\ running' = [running EXCEPT ![p] = @ /\ Head(io[p].ready) # "signal"]
    /\ UNCHANGED <<pc, asked, silent, quiet, fs, port, sub, met, script>>

\* The timer's or the signal's handler stops the wait.
StopWait(p) ==
    /\ pc[p] = "wait" /\ ~io[p].stopped /\ io[p].ready # << >>
    /\ io' = [io EXCEPT ![p] = stop(next(@))]
    /\ running' = [running EXCEPT ![p] = @ /\ Head(io[p].ready) # "signal"]
    /\ UNCHANGED <<pc, asked, silent, quiet, fs, port, sub, met, script>>

\* The body of the loop ends: only now are the acceptors and the connections
\* of this run closed.
EndWait(p) ==
    /\ pc[p] = "wait" /\ io[p].stopped
    /\ IF running[p]
       THEN /\ Goto(p, "loop")
            /\ io' = [io EXCEPT ![p] = NoHandler]
            /\ port' = NoProc
            /\ sub' = closeAll(sub, p)
            /\ asked' = [asked EXCEPT ![p] = IF Dropped(p) THEN "lost" ELSE @]
            /\ UNCHANGED <<running, silent, quiet, fs, met, script>>
       ELSE Exit(p)

-----------------------------------------------------------------------------
(* Signals, crashes and time *)

\* A signal to p.  While the signal set is in place it is queued once; with
\* the io_service stopped nobody hears it; before, it ends the process.
Signalled(p) ==
    \/ /\ pc[p] \in Starting
       /\ Gone(p)
    \/ /\ pc[p] \in Serving
       /\ asked' = [asked EXCEPT ![p] = IF io[p].stopped /\ running[p] THEN "lost" ELSE "yes"]
       /\ io' = IF io[p].stopped \/ Dropped(p) THEN io ELSE [io EXCEPT ![p] = completed(@, "signal")]
       /\ UNCHANGED <<pc, running, silent, quiet, port, sub, met>>

FsAfterSignal(p) == IF pc[p] \in Starting THEN closed(fs, p) ELSE fs

Signal(p) == Signalled(p) /\ fs' = FsAfterSignal(p) /\ UNCHANGED script

\* "stop" of the init script reads the file, if there is a pid in it ...
ScriptReads ==
    /\ script.at = "idle" /\ fs.text # NoPid
    /\ script' = [at |-> "kill", pid |-> fs.text]
    /\ UNCHANGED <<pc, running, asked, io, silent, quiet, fs, port, sub, met>>

ScriptTargets == {p \in Proc : Live(p) /\ getpid(p) = script.pid}

\* ... signals that process, which is over if there is none any more ...
ScriptKills ==
    /\ script.at = "kill"
    /\ \/ \E p \in ScriptTargets :
             Signalled(p) /\ fs' = FsAfterSignal(p) /\ script' = [at |-> "rm", pid |-> NoPid]
       \/ /\ ScriptTargets = {}
          /\ script' = NoStop
          /\ UNCHANGED <<pc, running, asked, io, silent, quiet, fs, port, sub, met>>

\* ... and removes what is then behind the path.
ScriptRemoves ==
    /\ script.at = "rm"
    /\ fs' = unlink(fs)
    /\ script' = NoStop
    /\ UNCHANGED <<pc, running, asked, io, silent, quiet, port, sub, met>>

\* SIGKILL, a crash, the machine's power.
Crash(p) ==
    /\ Live(p)
    /\ Gone(p)
    /\ fs' = closed(fs, p)
    /\ UNCHANGED script

\* Time passes for the watchdog.
Tick(p) ==
    /\ Runs(p) /\ io[p].armed /\ io[p].left > 0
    /\ io' = [io EXCEPT ![p].left = @ - 1]
    /\ quiet' = [quiet EXCEPT ![p] = IF @ < Watchdog THEN @ + 1 ELSE @]
    /\ UNCHANGED <<pc, running, asked, silent, fs, port, sub, met, script>>

\* All instances have ended.
Over == (\A p \in Proc : pc[p] = "ended") /\ UNCHANGED vars

RunHandler(p) ==
    \/ Connected(p) \/ \E value \in BOOLEAN : Read(p, value)
    \/ ReadFails(p) \/ WatchdogBites(p) \/ stopHandler(p)

MainStep(p) ==
    Lock(p) \/ Daemonize(p) \/ WritePid(p) \/ Construct(p) \/ Bind(p)
    \/ EndRun(p) \/ WaitTimer(p) \/ StopWait(p) \/ EndWait(p)

Next ==
    \/ \E p \in Proc :
          \/ Start(p) \/ MainStep(p) \/ RunHandler(p) \/ Throws(p)
          \/ Connects(p) \/ Arrives(p) \/ WatchdogDue(p) \/ GoesSilent(p)
          \/ Signal(p) \/ Crash(p) \/ Tick(p)
    \/ \E p \in Visited, s \in Sub : Accept(p, s)
    \/ \E s \in Sub : WriteFails(s) \/ SubscriberLeaves(s)
    \/ ScriptReads \/ ScriptKills \/ ScriptRemoves
    \/ Over

\* main() goes on, completed operations are noticed and handled, time passes,
\* and the kernel gives up a connect that nobody answers.
Fairness ==
    /\ \A p \in Proc :
          /\ WF_vars(MainStep(p)) /\ WF_vars(RunHandler(p))
          /\ WF_vars(Connects(p)) /\ WF_vars(WatchdogDue(p)) /\ WF_vars(Tick(p))
    /\ \A s \in Sub : WF_vars(WriteFails(s))

Spec == Init /\ [][Next]_vars /\ Fairness

-----------------------------------------------------------------------------
(* Properties *)

\* Everything keeps its type; in particular nothing arms the watchdog for more
\* than its two minutes.
TypeOK ==
    /\ pc \in [Proc -> Place] /\ running \in [Proc -> BOOLEAN]
    /\ asked \in [Proc -> {"no", "yes", "lost"}]
    /\ io \in [Proc -> HandlerType]
    /\ silent \in [Proc -> BOOLEAN] /\ quiet \in [Proc -> 0 .. Watchdog]
    /\ fs \in FsType /\ port \in Proc \cup {NoProc}
    /\ sub \in [Sub -> Connection(Proc)] /\ met \subseteq Proc
    /\ script \in [at : {"idle", "kill", "rm"}, pid : Pid \cup {NoPid}]

\* However instances are started, stopped and killed, at most one of them
\* handles the adapter's data and stores it.  The lock on the pid file does not
\* see to that, as no daemon holds it; the ports do, which main() binds before
\* it runs the handler and keeps while it waits.
OneServer ==
    \A p, q \in Proc : pc[p] \in Serving /\ pc[q] \in Serving => p = q

\* A run of the io_service never hangs on a connection that says nothing: it
\* is connecting, or the watchdog is armed or about to bite.
RunHasWakeup ==
    \A p \in Proc : Runs(p) =>
        \/ io[p].conn = "connecting" \/ Queued(p, "connected") \/ Queued(p, "refused")
        \/ io[p].armed \/ Queued(p, "watchdog")

\* A daemon that was not told to stop, never had another instance for company
\* and did not start between the kill and the rm of a stop can be found: the pid
\* file names it, also when it is not the first to use the file, when others were
\* killed before they could remove it, and when a stop that has read the pid of
\* another signals it too late.
FileNamesTheDaemon ==
    \A p \in Proc :
        p \notin met /\ asked[p] = "no" /\ pc[p] \in Serving
            => fs.path # NoInode /\ fs.text = <<p, "daemon">>

\* The watchdog closes a connection only if for two minutes on end nothing was
\* read from it, even where its expiry and the next data race each other.
LivelyLinkKept ==
    [][\A p \in Proc : WatchdogBites(p) => quiet[p] = Watchdog]_vars

\* An adapter that went silent is given up, so that main() can try again.
DeadLinkIsLeft == \A p \in Proc : pc[p] = "run" /\ silent[p] ~> pc[p] # "run"

\* After a lost connection the collector comes back, or ends.
KeepsTrying == \A p \in Proc : pc[p] = "wait" ~> pc[p] \in {"run", "ended"}

\* A signal ends the collector, in a run and in the wait, unless it comes in
\* the instant in which the io_service has just been stopped by something else.
StopsWhenAsked == \A p \in Proc : asked[p] = "yes" ~> pc[p] = "ended" \/ asked[p] = "lost"

\* As long as values come, a subscriber that is gone is not kept for good.
DeadSubscriberDropped ==
    []<><<\E p \in Proc : Read(p, TRUE)>>_vars
        => \A s \in Sub : sub[s].member /\ sub[s].end # "open" ~> ~sub[s].member \/ sub[s].end = "open"
=============================================================================
