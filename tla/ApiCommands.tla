----------------------------- MODULE ApiCommands -----------------------------
(***************************************************************************)
(* What the API commands send to the bus: the command handlers of          *)
(* collector/ApiCommandParser.cpp as tables from the subcommand to the     *)
(* calls of startRequest (Read) and sendCommand (Write) it makes, in the   *)
(* order of the calls.  The values a write carries are left out, except    *)
(* that the two settings of the test mode are told apart.  Lines that a    *)
(* handler rejects (ERRCMD, ERRARGS) and the subcommands it answers by     *)
(* itself (help, cache fetch) send nothing and have no entry.              *)
(***************************************************************************)
EXTENDS Integers, Sequences

UBA2 == \h88
UI800 == \h90
RH800 == \hb8

\* A call; for a write, len stands for its data.
Call == [op : {"read", "write"}, dest : Nat, type : Nat, off : Nat, len : Nat, raw : BOOLEAN]

\* startRequest(dest, type, 0, len, true, raw)
Read(dest, type, len, raw) ==
    [op |-> "read", dest |-> dest, type |-> type, off |-> 0, len |-> len, raw |-> raw]

\* sendCommand(dest, type, off, data, count); val stands for the data.
WriteValue(dest, type, off, val) ==
    [op |-> "write", dest |-> dest, type |-> type, off |-> off, len |-> val, raw |-> FALSE]
Write(dest, type, off) == WriteValue(dest, type, off, 0)

RcCommand ==
    [requestdata        |-> <<Read(UI800, \h140, 46, TRUE), Read(UI800, \hbf, 20, FALSE),
                              Read(UBA2, \hbf, 20, FALSE)>>,
     activeerrors       |-> <<Read(UI800, \hbf, 20, FALSE)>>,
     geterrors          |-> <<Read(UI800, \hc0, 200, FALSE)>>,
     mintemperature     |-> <<Write(UI800, \h140, 10)>>,
     buildingtype       |-> <<Write(UI800, \h140, 9)>>,
     outdoortempdamping |-> <<Write(UI800, \h140, 8)>>,
     settime            |-> <<Write(UI800, \h06, 0)>>,
     getcontactinfo     |-> <<Read(UI800, \h137, 120, FALSE)>>,
     setcontactinfo     |-> <<Write(UI800, \h137, 0), Write(UI800, \h137, 20)>>]

TestModeOn == \h5a
TestModeOff == 0
TestModeWrite(val) == WriteValue(UBA2, \h1d, 0, val)

\* "testmode on" only arms a timer; see CommandApi.
UbaCommand ==
    [activeerrors              |-> <<Read(UBA2, \hbf, 20, FALSE)>>,
     geterrors                 |-> <<Read(UBA2, \hc2, 200, FALSE)>>,
     schedulemaintenance       |-> <<Write(UBA2, \h15, 0)>>,
     checkmaintenanceneeded    |-> <<Read(UBA2, \h15, 10, FALSE)>>,
     resetmaintenanceindicator |-> <<Write(UBA2, \h05, 8)>>,
     unlockfault               |-> <<Write(UBA2, \h05, 0), Write(UI800, \h05, 0)>>,
     testmodeon                |-> << >>,
     testmodeoff               |-> <<TestModeWrite(TestModeOff)>>,
     teststate                 |-> <<Write(UBA2, \h2d, 0)>>]

HkCommand ==
    [requestdata           |-> <<Read(UI800, \h1b9, 32, TRUE), Read(UI800, \h1a5, 46, TRUE),
                                 Read(UI800, \h1af, 46, TRUE)>>,
     summerwinterthreshold |-> <<Write(UI800, \h1af, 6)>>,
     roomtemperatureoffset |-> <<Write(UI800, \h1af, 2)>>,
     designtemperature     |-> <<Write(UI800, \h1af, 5)>>,
     summeropmode          |-> <<Write(UI800, \h1af, 7)>>,
     mode                  |-> <<Write(UI800, \h1b9, 21)>>,
     manualtemp            |-> <<Write(UI800, \h1b9, 22)>>,
     daytemperature        |-> <<Write(UI800, \h1b9, 2)>>,
     nighttemperature      |-> <<Write(UI800, \h1b9, 4)>>,
     temporarytemp         |-> <<Write(UI800, \h1b9, 8)>>,
     activateboost         |-> <<Write(UI800, \h1b9, 23)>>,
     boosttemp             |-> <<Write(UI800, \h1b9, 25)>>,
     boosthours            |-> <<Write(UI800, \h1b9, 24)>>]

WwCommand ==
    [mode         |-> <<Write(UI800, \h1f5, 2)>>,
     zirkmode     |-> <<Write(UI800, \h1f5, 3)>>,
     requestdata  |-> <<Read(UBA2, \hea, 25, TRUE), Read(UI800, \h1f5, 21, TRUE)>>,
     comforttemp  |-> <<Write(UBA2, \hea, 6)>>,
     reducedtemp  |-> <<Write(UBA2, \hea, 18)>>,
     extratemp    |-> <<Write(UBA2, \hea, 16)>>,
     extra15mins  |-> <<Write(UI800, \h1f5, 10)>>,
     zirksperhour |-> <<Write(UBA2, \hea, 11)>>,
     extra        |-> <<Write(UI800, \h1f5, 11)>>]

\* raw read <target> <type> <offset> <len>, raw write <target> <type> <offset> <data>
RawCommand(cmd) ==
    IF cmd[2] = "read"
    THEN <<[Read(cmd[3], cmd[4], cmd[6], TRUE) EXCEPT !.off = cmd[5]]>>
    ELSE <<Write(cmd[3], cmd[4], cmd[5])>>

\* Subcommands of rc and uba that print "OK" themselves before they return,
\* whatever becomes of the writes they have queued.
AnsweredAtOnce ==
    {<<"rc", "setcontactinfo">>, <<"uba", "resetmaintenanceindicator">>,
     <<"uba", "unlockfault">>, <<"uba", "testmodeon">>, <<"uba", "testmodeoff">>}

\* ApiCommandParser::parse: hk1 to hk4 are handled alike (the number is not used).
Calls(cmd) ==
    CASE cmd[1] = "hk"         -> HkCommand[cmd[2]]
      [] cmd[1] = "ww"         -> WwCommand[cmd[2]]
      [] cmd[1] = "rc"         -> RcCommand[cmd[2]]
      [] cmd[1] = "uba"        -> UbaCommand[cmd[2]]
      [] cmd[1] = "raw"        -> RawCommand(cmd)
      [] cmd[1] = "getversion" -> <<Read(UBA2, \h02, 3, FALSE)>>

\* The device asked by "getversion" after dest has answered.
NextVersionSource(dest) == CASE dest = UBA2 -> UI800 [] dest = UI800 -> RH800
=============================================================================
