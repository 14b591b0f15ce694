------------------------- MODULE SensorHistoryProofs -------------------------
(***************************************************************************)
(* Proofs about the sensors' history, for any sensors, values and rate     *)
(* limit.  Nothing in the history lies in the future: with this the rows   *)
(* are in order, as a new row starts now.                                  *)
(***************************************************************************)
EXTENDS SensorHistory, TLAPS

NotInFuture == \A s \in Sensor : \A i \in DOMAIN rows[s] : rows[s][i].end <= now

IInv == TypeOK /\ RowsInOrder /\ CacheMatchesRow /\ StoredValueIsLast /\ NotInFuture

\* The rows r of one sensor are in order at time t.
Ordered(r, t) ==
    /\ \A i \in DOMAIN r : r[i].start <= r[i].end /\ r[i].end <= t
    /\ \A i, j \in DOMAIN r : i < j => r[i].end <= r[j].start

\* The parts of the invariant for one sensor with rows r.
Good(r, id, c, rep, t) ==
    /\ Ordered(r, t)
    /\ id # 0 => id = Len(r) /\ c = r[id].value
    /\ rep.stored => /\ r # << >>
                     /\ r[Len(r)].value = rep.value
                     /\ r[Len(r)].end = rep.time

LEMMA IInvIsGood ==
    IInv <=> TypeOK /\ \A s \in Sensor : Good(rows[s], lastId[s], cache[s], report[s], now)
BY DEF IInv, RowsInOrder, CacheMatchesRow, StoredValueIsLast, NotInFuture, Good, Ordered

LEMMA IInvIsGoodNext ==
    IInv' <=> TypeOK' /\ \A s \in Sensor : Good(rows'[s], lastId'[s], cache'[s], report'[s], now')
BY DEF IInv, RowsInOrder, CacheMatchesRow, StoredValueIsLast, NotInFuture, Good, Ordered

LEMMA TimesAreIntegers == Time \subseteq Int /\ \A w \in Row : w.start \in Int /\ w.end \in Int
BY HistoryAssumption DEF Row, Time

LEMMA InitIInv == Init => IInv
<1> SUFFICES ASSUME Init PROVE IInv
  OBVIOUS
<1>1. 0 \in Time /\ << >> \in Seq(Row)
  BY HistoryAssumption DEF Time
<1>2. TypeOK
  <2>1. rows \in [Sensor -> Seq(Row)]
    BY <1>1 DEF Init
  <2>2. report \in [Sensor -> [value : Value \cup {NoValue}, time : Time, stored : BOOLEAN]]
    BY <1>1 DEF Init, NoReport
  <2>3. /\ lastWrites \in [Sensor -> Time \cup {-1}]
        /\ cache \in [Sensor -> Value \cup {NoValue}]
        /\ lastId \in [Sensor -> Nat]
    BY DEF Init
  <2>4. now \in Time /\ tables \in 0 .. AllTables
    BY <1>1 DEF Init, AllTables
  <2>5. running \in BOOLEAN /\ connected \in BOOLEAN
    BY Zenon DEF Init
  <2>6. QED
    BY <2>1, <2>2, <2>3, <2>4, <2>5 DEF TypeOK
<1>3. ASSUME NEW s \in Sensor PROVE Good(rows[s], lastId[s], cache[s], report[s], now)
  BY DEF Init, Good, Ordered, NoReport
<1>4. QED
  BY <1>2, <1>3, IInvIsGood

\* r with its last row extended to t, and r with a row added at t
Extend(r, t) == [r EXCEPT ![Len(r)].end = t]
Add(r, v, t) == r \o <<[value |-> v, start |-> t, end |-> t]>>

\* The update of a last row keeps the history in order.
LEMMA ExtendKeepsOrder ==
    ASSUME NEW r \in Seq(Row), r # << >>, NEW t \in Time, Ordered(r, t)
    PROVE  /\ Extend(r, t) \in Seq(Row) /\ Len(Extend(r, t)) = Len(r)
           /\ Ordered(Extend(r, t), t)
           /\ Extend(r, t)[Len(r)].value = r[Len(r)].value
           /\ Extend(r, t)[Len(r)].end = t
<1> DEFINE id == Len(r)
           q == Extend(r, t)
<1>1. id \in DOMAIN r
  OBVIOUS
<1>2. /\ \A i \in DOMAIN r : r[i] \in Row
      /\ \A i \in DOMAIN r : r[i].start \in Int /\ r[i].end \in Int
      /\ t \in Int
  <2>1. \A i \in DOMAIN r : r[i] \in Row
    OBVIOUS
  <2>2. QED
    BY <2>1, TimesAreIntegers
<1>3. [r[id] EXCEPT !.end = t] \in Row
  BY <1>1, <1>2 DEF Row
<1>4. /\ q = [r EXCEPT ![id] = [r[id] EXCEPT !.end = t]]
      /\ q \in Seq(Row) /\ Len(q) = Len(r) /\ DOMAIN q = DOMAIN r
  BY <1>1, <1>3 DEF Extend
<1> HIDE DEF q
<1>5. \A i \in DOMAIN r : i # id => q[i] = r[i]
  BY <1>4
<1>6. q[id].end = t /\ q[id].start = r[id].start /\ q[id].value = r[id].value
  BY <1>1, <1>2, <1>4 DEF Row
<1>7. ASSUME NEW i \in DOMAIN q PROVE q[i].start <= q[i].end /\ q[i].end <= t
  BY <1>2, <1>4, <1>5, <1>6 DEF Ordered
<1>8. ASSUME NEW i \in DOMAIN q, NEW j \in DOMAIN q, i < j PROVE q[i].end <= q[j].start
  BY <1>1, <1>2, <1>4, <1>5, <1>6, <1>8 DEF Ordered
<1>9. QED
  BY <1>4, <1>6, <1>7, <1>8 DEF Ordered, q

\* A row added now keeps it in order, too.
LEMMA AddKeepsOrder ==
    ASSUME NEW r \in Seq(Row), NEW t \in Time, NEW v \in Value, Ordered(r, t)
    PROVE  /\ Add(r, v, t) \in Seq(Row) /\ Len(Add(r, v, t)) = Len(r) + 1
           /\ Ordered(Add(r, v, t), t)
           /\ Add(r, v, t)[Len(r) + 1].value = v
           /\ Add(r, v, t)[Len(r) + 1].end = t
<1> DEFINE new == [value |-> v, start |-> t, end |-> t]
           p == Add(r, v, t)
<1>1. new \in Row /\ new.value = v /\ new.start = t /\ new.end = t /\ t \in Int
  BY HistoryAssumption DEF Row, Time
<1>2. p = r \o <<new>>
  BY DEF Add
<1> HIDE DEF new, p
<1>3. /\ p \in Seq(Row) /\ Len(p) = Len(r) + 1
      /\ p[Len(r) + 1] = new
      /\ \A i \in DOMAIN r : p[i] = r[i]
  BY <1>1, <1>2
<1>4. \A i \in DOMAIN p : i \in DOMAIN r \/ i = Len(r) + 1
  BY <1>3
<1>5. \A i \in DOMAIN p : p[i].start <= p[i].end /\ p[i].end <= t
  BY <1>1, <1>3, <1>4 DEF Ordered
<1>6. ASSUME NEW i \in DOMAIN p, NEW j \in DOMAIN p, i < j PROVE p[i].end <= p[j].start
  <2>1. i \in DOMAIN r
    BY <1>3, <1>4, <1>6
  <2>2. QED
    BY <1>1, <1>3, <1>4, <1>6, <2>1 DEF Ordered
<1>7. QED
  BY <1>1, <1>3, <1>5, <1>6 DEF Ordered, p

LEMMA ValueKeepsIInv ==
    ASSUME IInv,
           NEW s \in Sensor, NEW v \in Value, NEW updateOk \in BOOLEAN, NEW insertOk \in BOOLEAN,
           HandleValue(s, v, updateOk, insertOk)
    PROVE  IInv'
<1> DEFINE r == rows[s]
           q == extended(s, updateOk)
           ins == cache[s] # v \/ lastId[s] = 0
           rep == [value |-> v, time |-> now, stored |-> IF ins THEN insertOk ELSE updateOk]
<1>1. /\ r \in Seq(Row) /\ lastId[s] \in Nat /\ now \in Time
      /\ Good(r, lastId[s], cache[s], report[s], now)
  BY IInvIsGood DEF TypeOK
<1>2. /\ q \in Seq(Row) /\ Len(q) = Len(r) /\ Ordered(q, now)
      /\ lastId[s] # 0 => lastId[s] = Len(r) /\ q[Len(r)].value = cache[s] /\ r # << >>
      /\ lastId[s] # 0 /\ updateOk => q[Len(r)].end = now
  <2>1. Ordered(r, now)
    BY <1>1 DEF Good
  <2>2. lastId[s] # 0 => lastId[s] = Len(r) /\ r[Len(r)].value = cache[s] /\ r # << >>
    <3> HIDE DEF r
    <3>1. QED
      BY <1>1 DEF Good
  <2>3. CASE lastId[s] # 0 /\ updateOk
    <3>1. q = Extend(r, now)
      BY <2>2, <2>3 DEF extended, Extend
    <3> HIDE DEF q, r
    <3>2. QED
      BY <1>1, <2>1, <2>2, <2>3, <3>1, ExtendKeepsOrder
  <2>4. CASE ~(lastId[s] # 0 /\ updateOk)
    <3>1. q = r
      BY <2>4 DEF extended
    <3> HIDE DEF q, r
    <3>2. QED
      BY <1>1, <2>1, <2>2, <2>4, <3>1
  <2>5. QED
    BY <2>3, <2>4
<1>3. UNCHANGED <<now, running, connected, tables>> /\ report' = [report EXCEPT ![s] = rep]
  BY DEF HandleValue, addSensorValue
<1>4. lastWrites' \in [Sensor -> Time \cup {-1}]
  BY <1>1 DEF HandleValue, IInv, TypeOK
<1>5. CASE ins /\ insertOk
  <2> DEFINE p == Add(q, v, now)
  <2>1. /\ rows' = [rows EXCEPT ![s] = p]
        /\ lastId' = [lastId EXCEPT ![s] = Len(r) + 1]
        /\ cache' = [cache EXCEPT ![s] = v]
    BY <1>5 DEF HandleValue, addSensorValue, remembers, Add
  <2> HIDE DEF q, r, ins
  <2>2. /\ p \in Seq(Row) /\ Len(p) = Len(r) + 1 /\ Ordered(p, now)
        /\ p[Len(r) + 1].value = v /\ p[Len(r) + 1].end = now
    BY <1>1, <1>2, AddKeepsOrder
  <2> HIDE DEF p
  <2>3. Good(p, Len(r) + 1, v, rep, now)
    BY <1>1, <1>2, <2>2 DEF Good
  <2>4. TypeOK'
    BY <1>1, <1>3, <1>4, <2>1, <2>2 DEF IInv, TypeOK
  <2>5. ASSUME NEW u \in Sensor
        PROVE  Good(rows'[u], lastId'[u], cache'[u], report'[u], now')
    <3> HIDE DEF rep
    <3>1. CASE u = s
      BY <1>3, <2>1, <2>3, <3>1 DEF IInv, TypeOK
    <3>2. CASE u # s
      BY <1>3, <2>1, <3>2, IInvIsGood DEF IInv, TypeOK
    <3>3. QED
      BY <3>1, <3>2
  <2>6. QED
    BY <2>4, <2>5, IInvIsGoodNext
<1>6. CASE ~(ins /\ insertOk)
  <2>1. rows' = [rows EXCEPT ![s] = q] /\ lastId' = lastId /\ cache' = cache
    <3>1. q \o << >> = q
      <4> HIDE DEF q
      <4>1. QED
        BY <1>2
    <3>2. CASE ins
      <4>1. /\ rows' = [rows EXCEPT ![s] = q \o << >>]
            /\ lastId' = [lastId EXCEPT ![s] = lastId[s]]
            /\ cache' = [cache EXCEPT ![s] = cache[s]]
        BY <1>6, <3>2 DEF HandleValue, addSensorValue, remembers
      <4>2. QED
        BY <3>1, <4>1 DEF IInv, TypeOK
    <3>3. CASE ~ins
      BY <3>3 DEF HandleValue, addSensorValue
    <3>4. QED
      BY <3>2, <3>3
  <2> HIDE DEF q, r
  <2>2. Good(q, lastId[s], cache[s], rep, now)
    BY <1>2, <1>6 DEF Good
  <2>3. TypeOK'
    BY <1>1, <1>2, <1>3, <1>4, <2>1 DEF IInv, TypeOK
  <2>4. ASSUME NEW u \in Sensor
        PROVE  Good(rows'[u], lastId'[u], cache'[u], report'[u], now')
    <3> HIDE DEF rep
    <3>1. CASE u = s
      BY <1>3, <2>1, <2>2, <3>1 DEF IInv, TypeOK
    <3>2. CASE u # s
      BY <1>3, <2>1, <3>2, IInvIsGood DEF IInv, TypeOK
    <3>3. QED
      BY <3>1, <3>2
  <2>5. QED
    BY <2>3, <2>4, IInvIsGoodNext
<1>7. QED
  BY <1>5, <1>6

LEMMA NextKeepsIInv == IInv /\ [Next]_vars => IInv'
<1> SUFFICES ASSUME IInv, [Next]_vars PROVE IInv'
  OBVIOUS
<1>1. CASE \E n \in 0 .. AllTables : Connect(n)
  BY <1>1 DEF Connect, createTables, memory, IInv, TypeOK, RowsInOrder, CacheMatchesRow,
              StoredValueIsLast, NotInFuture
<1>2. CASE RunWithout
  BY <1>2 DEF RunWithout, memory, IInv, TypeOK, RowsInOrder, CacheMatchesRow,
              StoredValueIsLast, NotInFuture
<1>3. CASE Stop
  <2>1. 0 \in Time
    BY HistoryAssumption DEF Time
  <2>2. report' \in [Sensor -> [value : Value \cup {NoValue}, time : Time, stored : BOOLEAN]]
    BY <1>3, <2>1 DEF Stop, NoReport
  <2>3. \A s \in Sensor : lastId'[s] = 0 /\ ~report'[s].stored
    BY <1>3 DEF Stop, NoReport
  <2>4. TypeOK'
    BY <1>3, <2>2 DEF Stop, IInv, TypeOK
  <2>5. QED
    BY <1>3, <2>3, <2>4
       DEF Stop, IInv, RowsInOrder, CacheMatchesRow, StoredValueIsLast, NotInFuture
<1>4. CASE \E s \in Sensor, v \in Value, updateOk, insertOk \in BOOLEAN :
              HandleValue(s, v, updateOk, insertOk)
  BY <1>4, ValueKeepsIInv
<1>5. CASE Tick
  <2>1. TypeOK'
    BY <1>5, HistoryAssumption DEF Tick, memory, IInv, TypeOK, Time
  <2>2. NotInFuture'
    <3>1. \A s \in Sensor : \A i \in DOMAIN rows[s] : rows[s][i].end \in Int
      <4>1. \A s \in Sensor : rows[s] \in Seq(Row)
        BY DEF IInv, TypeOK
      <4>2. \A s \in Sensor : \A i \in DOMAIN rows[s] : rows[s][i] \in Row
        BY <4>1
      <4>3. QED
        BY <4>2, TimesAreIntegers
    <3>2. QED
      BY <1>5, <3>1 DEF Tick, IInv, NotInFuture, TypeOK, Time
  <2>3. QED
    BY <1>5, <2>1, <2>2 DEF Tick, memory, IInv, RowsInOrder, CacheMatchesRow, StoredValueIsLast
<1>6. CASE UNCHANGED vars
  BY <1>6 DEF vars, memory, IInv, TypeOK, RowsInOrder, CacheMatchesRow, StoredValueIsLast, NotInFuture
<1>7. QED
  BY <1>1, <1>2, <1>3, <1>4, <1>5, <1>6 DEF Next

\* At no time a sensor's history has two values, whatever queries fail and
\* however often the process restarts.
THEOREM HistoryInOrder == Spec => []RowsInOrder
<1>1. IInv => RowsInOrder
  BY DEF IInv
<1>2. QED
  BY <1>1, InitIInv, NextKeepsIInv, PTL DEF Spec

\* The object's memory agrees with the tables after every partial failure.
THEOREM MemoryMatchesTables == Spec => []CacheMatchesRow
<1>1. IInv => CacheMatchesRow
  BY DEF IInv
<1>2. QED
  BY <1>1, InitIInv, NextKeepsIInv, PTL DEF Spec

\* A value whose query succeeded is the last one in its sensor's history.
THEOREM StoredIsLast == Spec => []StoredValueIsLast
<1>1. IInv => StoredValueIsLast
  BY DEF IInv
<1>2. QED
  BY <1>1, InitIInv, NextKeepsIInv, PTL DEF Spec

\* Every member of the object and every row keeps its type.
THEOREM TypeCorrect == Spec => []TypeOK
<1>1. IInv => TypeOK
  BY DEF IInv
<1>2. QED
  BY <1>1, InitIInv, NextKeepsIInv, PTL DEF Spec
=============================================================================
