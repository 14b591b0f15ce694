----------------------------- MODULE MCCommandApi -----------------------------
(* Instances of CommandApi: the devices of EmsProto and selections of the    *)
(* commands.                                                                 *)
EXTENDS CommandApi

CONSTANTS c1, c2

MCHangUp == <<"hangup">>

\* What the sender queues is bounded by what the clients do.
MCMaxPending == Unbounded

MCAddr == {UBA2, UI800, RH800, \h08, \h10, \h8b}
MCWriteAddr == {\h08, \h10}
MCPC == \h8b
MCMessage == [client : Client, dest : MCAddr,
              type : {\h02, \h05, \h15, \h1d, \h2d, \hbf, \hc0, \hc2, \hea, \h06,
                      \h137, \h140, \h1a5, \h1af, \h1b9, \h1f5},
              off : 0 .. 255, val : 0 .. 255]

\* Every client gives the same commands.
Alike(commands) == {[c \in Client |-> commands]}

ReadCommands ==
    {<<"getversion">>, <<"uba", "activeerrors">>, <<"ww", "requestdata">>}

SingleCommands ==
    {<<"hk", "mode">>, <<"uba", "teststate">>, <<"uba", "checkmaintenanceneeded">>,
     <<"rc", "getcontactinfo">>, <<"getversion">>, <<"raw", "write", UBA2, \hea, 6>>,
     <<"raw", "read", UBA2, \h15, 5, 40>>}

\* Two clients that read; one that also writes, alone, and may hang up; and two
\* that read with one request at a time, of which the first may hang up.
ReadScenarios ==
    Alike(ReadCommands)
    \cup {[c \in Client |-> IF c = c1 THEN SingleCommands \cup {HangUp} ELSE {}],
          [c \in Client |-> IF c = c1 THEN {<<"getversion">>, HangUp}
                            ELSE {<<"uba", "activeerrors">>}]}

LateCommands == {<<"hk", "requestdata">>}

MixedCommands == {<<"hk", "mode">>, <<"uba", "checkmaintenanceneeded">>}

\* The messages of the commands below.
FewMessages == [client : Client, dest : {\h08}, type : {\h1d}, off : {0}, val : {\h5a}]
               \cup [client : Client, dest : {UBA2}, type : {\h15}, off : {0}, val : {10}]

FewAddr == {UBA2, \h08, \h8b}
FewWriteAddr == {\h08}

FewCommands == {<<"uba", "testmodeon">>, <<"uba", "checkmaintenanceneeded">>}

TestModeCommands == {<<"uba", "testmodeon">>, <<"uba", "testmodeoff">>}

LateScenarios == Alike(LateCommands)
MixedScenarios == Alike(MixedCommands)
FewScenarios == Alike(FewCommands \cup {HangUp})
TestModeScenarios == Alike(TestModeCommands)
=============================================================================
