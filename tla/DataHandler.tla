------------------------------ MODULE DataHandler ------------------------------
(***************************************************************************)
(* The subscribers to decoded values (collector/DataHandler.cpp).  sub[s]  *)
(* tells which instance has the connection of s in its m_connections, what *)
(* became of the other end, and how many failed writes have not been       *)
(* handled.  The first write after the other end has closed still          *)
(* succeeds; it provokes the reset that makes the later ones fail.         *)
(***************************************************************************)
EXTENDS Naturals

CONSTANTS
    Sub,         \* the subscribers
    Nowhere,     \* the place of a subscriber that is not connected
    MaxFailed    \* bound on the failed writes not handled yet

ASSUME DataAssumption == MaxFailed \in Nat \ {0}

\* `member' is false for a connection that was erased while writes to it were
\* not handled yet: their handlers keep it alive.
Connection(P) ==
    [at : P \cup {Nowhere}, member : BOOLEAN, end : {"open", "closed", "reset"}, failed : 0 .. MaxFailed]

NoConnection == [at |-> Nowhere, member |-> FALSE, end |-> "open", failed |-> 0]

startConnection(p) == [NoConnection EXCEPT !.at = p, !.member = TRUE]

\* Erases the connection, which may have been erased before.
stopConnection(k) == IF k.failed = 0 THEN NoConnection ELSE [k EXCEPT !.member = FALSE]

\* DataConnection::handleValue for a value that has a name: a write is started.
handleValue(k) ==
    CASE ~k.member \/ k.end = "open" -> k
      [] k.member /\ k.end = "closed" -> [k EXCEPT !.end = "reset"]
      [] k.member /\ k.end = "reset"  -> [k EXCEPT !.failed = @ + 1]

\* Mutant: a failed write is ignored.
handleWriteIgnored(k) == [k EXCEPT !.failed = @ - 1]

\* A failed write completes.
handleWrite(k) == stopConnection([k EXCEPT !.failed = @ - 1])

\* What a run of p leaves of the connections: ~DataHandler closes those of
\* m_connections, and the io_service drops what is still to be handled.
closeAll(sub, p) == [s \in Sub |-> IF sub[s].at = p THEN NoConnection ELSE sub[s]]
=============================================================================
