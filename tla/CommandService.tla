---------------------------- MODULE CommandService ----------------------------
(***************************************************************************)
(* What the command interface promises to a client: a connection works on  *)
(* at most one command at a time, and every command it accepts is finished *)
(* by exactly one final line (OK, FAIL or ERRTIMEOUT), which comes         *)
(* eventually, whatever the other connections and the bus are doing.  No   *)
(* state of the service has a line that was not due: a second final line   *)
(* for one command leads out of it.  The service may end only after a      *)
(* client has hung up before its command was finished.                     *)
(***************************************************************************)
CONSTANT Client

VARIABLES
    due,        \* due[c]: the final lines the service still owes c, 0 or 1
    deserted,   \* a client has hung up on an unanswered command
    up          \* the service has not ended

vars == <<due, deserted, up>>

Nothing == [c \in Client |-> 0]

Init == due = Nothing /\ deserted = FALSE /\ up = TRUE

Accept(c) ==
    /\ up /\ due[c] = 0
    /\ due' = [due EXCEPT ![c] = 1]
    /\ UNCHANGED <<deserted, up>>

Reply(c) ==
    /\ up /\ due[c] = 1
    /\ due' = [due EXCEPT ![c] = 0]
    /\ UNCHANGED <<deserted, up>>

Desert(c) ==
    /\ up /\ due[c] = 1
    /\ due' = [due EXCEPT ![c] = 0]
    /\ deserted' = TRUE
    /\ up' = up

End ==
    /\ up /\ deserted
    /\ due' = Nothing
    /\ up' = FALSE
    /\ deserted' = deserted

Next == End \/ \E c \in Client : Accept(c) \/ Reply(c) \/ Desert(c)

Spec == Init /\ [][Next]_vars /\ \A c \in Client : WF_vars(Reply(c))
=============================================================================
