---------------------------- MODULE SensorHistory ----------------------------
(***************************************************************************)
(* The class Database (collector/Database.{h,cpp}): the history of each    *)
(* sensor is kept as rows (value, starttime, endtime) in MySQL.  A value   *)
(* that has not changed extends its sensor's last row, another value       *)
(* starts a new one.  Every query may fail on its own, and the process may *)
(* stop and start again, which loses what the object remembers and keeps   *)
(* the tables.                                                             *)
(***************************************************************************)
EXTENDS Integers, Sequences

CONSTANTS
    Sensor,      \* the sensors
    Numeric,     \* those of NumericSensors
    Bool,        \* those of BooleanSensors; the others are StateSensors
    Value,       \* the values of a sensor
    RateLimit,   \* Options::rateLimit(), 0 for none
    NoValue,     \* no entry in a map
    MaxTime,     \* bound on the clock
    MaxRows      \* bound on the rows of a sensor

ASSUME HistoryAssumption ==
    /\ Numeric \subseteq Sensor /\ Bool \subseteq Sensor
    /\ RateLimit \in Nat
    /\ NoValue \notin Value
    /\ MaxTime \in Nat /\ MaxRows \in Nat

\* The steps of createTables: sensors, its rows, and the three data tables.
AllTables == 5

Time == 0 .. MaxTime
Row == [value : Value, start : Time, end : Time]

VARIABLES
    now,         \* time(NULL)
    running,     \* the process runs
    connected,   \* m_connection is set
    tables,      \* how many steps of createTables have been done
    rows,        \* rows[s]: the rows of sensor s in the order of their ids
    lastWrites,  \* m_lastWrites; -1 for no entry
    cache,       \* m_numericCache, m_booleanCache, m_stateCache
    lastId,      \* m_lastInsertIds, as an index of rows[s]; 0 for no entry
    report       \* what became of the last value given to addSensorValue

memory == <<lastWrites, cache, lastId, report>>
vars == <<now, running, connected, tables, rows, memory>>

NoReport == [value |-> NoValue, time |-> 0, stored |-> FALSE]

Init ==
    /\ now = 0
    /\ running = FALSE /\ connected = FALSE /\ tables = 0
    /\ rows = [s \in Sensor |-> << >>]
    /\ lastWrites = [s \in Sensor |-> -1]
    /\ cache = [s \in Sensor |-> NoValue]
    /\ lastId = [s \in Sensor |-> 0]
    /\ report = [s \in Sensor |-> NoReport]

\* Mutant: the tables are created without looking for them.
createTablesAgain(n) == tables' = tables + n

\* createTables does nothing when it finds a table; n of its steps succeed.
createTables(n) == tables' = IF tables > 0 THEN tables ELSE n

\* connect(), in main(): the collector runs if it succeeds.
Connect(n) ==
    /\ ~running
    /\ createTables(n)
    /\ running' = (tables > 0 \/ n = AllTables)
    /\ connected' = (tables > 0 \/ n = AllTables)
    /\ UNCHANGED <<now, rows, memory>>

\* The database path is "none".
RunWithout ==
    /\ ~running
    /\ running' = TRUE
    /\ UNCHANGED <<now, connected, tables, rows, memory>>

\* The process ends or crashes.
Stop ==
    /\ running
    /\ running' = FALSE /\ connected' = FALSE
    /\ lastWrites' = [s \in Sensor |-> -1]
    /\ cache' = [s \in Sensor |-> NoValue]
    /\ lastId' = [s \in Sensor |-> 0]
    /\ report' = [s \in Sensor |-> NoReport]
    /\ UNCHANGED <<now, tables, rows>>

checkAndUpdateRateLimit(s) ==
    RateLimit = 0 \/ lastWrites[s] = -1 \/ now - lastWrites[s] >= RateLimit

\* The data table of sensor s exists.
HasTable(s) == tables >= IF s \in Numeric THEN 3 ELSE IF s \in Bool THEN 4 ELSE AllTables

\* Mutant: the update has no "where id =".
extendedAll(s, updateOk) ==
    IF lastId[s] # 0 /\ updateOk
    THEN [i \in DOMAIN rows[s] |-> [rows[s][i] EXCEPT !.end = now]] ELSE rows[s]

\* Mutant: an unchanged value leaves its row as it is.
extendedNever(s, updateOk) == rows[s]

\* The update of the last row, if it is known and the query succeeds.
extended(s, updateOk) ==
    IF lastId[s] # 0 /\ updateOk THEN [rows[s] EXCEPT ![lastId[s]].end = now] ELSE rows[s]

\* Mutant: the cache is updated although the insert failed.
remembersFailure(s, v, insertOk) == cache' = [cache EXCEPT ![s] = v]

\* What the object remembers of an insert.
remembers(s, v, insertOk) == cache' = [cache EXCEPT ![s] = IF insertOk THEN v ELSE @]

\* addSensorValue(s, v), and whether its two queries succeed.
addSensorValue(s, v, updateOk, insertOk) ==
    LET insert == cache[s] # v \/ lastId[s] = 0
    IN  /\ updateOk \/ insertOk => HasTable(s)
        /\ IF insert
           THEN /\ rows' = [rows EXCEPT ![s] =
                        extended(s, updateOk) \o
                        IF insertOk THEN <<[value |-> v, start |-> now, end |-> now]>> ELSE << >>]
                /\ lastId' = [lastId EXCEPT ![s] = IF insertOk THEN Len(rows[s]) + 1 ELSE @]
                /\ remembers(s, v, insertOk)
           ELSE /\ rows' = [rows EXCEPT ![s] = extended(s, updateOk)]
                /\ UNCHANGED <<lastId, cache>>
        /\ report' = [report EXCEPT ![s] =
               [value |-> v, time |-> now, stored |-> IF insert THEN insertOk ELSE updateOk]]

\* handleValue() for a valid value of one of the sensors.
HandleValue(s, v, updateOk, insertOk) ==
    /\ running /\ connected
    /\ Len(rows[s]) < MaxRows
    /\ s \in Numeric => checkAndUpdateRateLimit(s)
    /\ lastWrites' = IF s \in Numeric /\ RateLimit # 0
                     THEN [lastWrites EXCEPT ![s] = now] ELSE lastWrites
    /\ addSensorValue(s, v, updateOk, insertOk)
    /\ UNCHANGED <<now, running, connected, tables>>

\* The clock advances.
Tick ==
    /\ now < MaxTime
    /\ now' = now + 1
    /\ UNCHANGED <<running, connected, tables, rows, memory>>

Next ==
    \/ \E n \in 0 .. AllTables : Connect(n)
    \/ RunWithout
    \/ Stop
    \/ \E s \in Sensor, v \in Value, updateOk, insertOk \in BOOLEAN :
          HandleValue(s, v, updateOk, insertOk)
    \/ Tick

Spec == Init /\ [][Next]_vars

-----------------------------------------------------------------------------
(* Properties *)

\* Every member and every column keeps its type.
TypeOK ==
    /\ now \in Time
    /\ running \in BOOLEAN /\ connected \in BOOLEAN
    /\ tables \in 0 .. AllTables
    /\ rows \in [Sensor -> Seq(Row)]
    /\ lastWrites \in [Sensor -> Time \cup {-1}]
    /\ cache \in [Sensor -> Value \cup {NoValue}]
    /\ lastId \in [Sensor -> Nat]
    /\ report \in [Sensor -> [value : Value \cup {NoValue}, time : Time, stored : BOOLEAN]]

\* The rows of a sensor follow one another without overlap, whatever queries
\* fail and however often the process is restarted: at no time a sensor had
\* two values.
RowsInOrder ==
    \A s \in Sensor :
        /\ \A i \in DOMAIN rows[s] : rows[s][i].start <= rows[s][i].end
        /\ \A i, j \in DOMAIN rows[s] : i < j => rows[s][i].end <= rows[s][j].start

\* The remembered id is that of the sensor's last row and the remembered value
\* is the one stored there, also when an insert has failed: a value is never
\* written into the row of another.
CacheMatchesRow ==
    \A s \in Sensor : lastId[s] # 0 =>
        lastId[s] = Len(rows[s]) /\ cache[s] = rows[s][lastId[s]].value

\* A value whose query succeeded is the last one in the history, up to the
\* time it was reported: failures before it leave nothing wrong behind.
StoredValueIsLast ==
    \A s \in Sensor : report[s].stored =>
        /\ rows[s] # << >>
        /\ rows[s][Len(rows[s])].value = report[s].value
        /\ rows[s][Len(rows[s])].end = report[s].time

\* "tables already present": the tables a connection works with are there.
TablesPresent == connected => tables = AllTables
=============================================================================
