------------------------ MODULE CommandSchedulerProofs ------------------------
(***************************************************************************)
(* Proofs about CommandScheduler: the sender is well typed and never gets  *)
(* stuck, for any set of clients, messages and addresses, any timer        *)
(* settings and any bounds.                                                *)
(***************************************************************************)
EXTENDS CommandScheduler, FiniteSetTheorems, TLAPS

\* The state of the sender once its timers are armed, and the property of a
\* sender that keeps going.
Armed(s) == s.resp.on \/ s.send.on

Alive(s) ==
    /\ s.current = NoClient => s.pending = << >>
    /\ s.current # NoClient => Armed(s) \/ s.ready # << >>

-----------------------------------------------------------------------------
(* The member functions *)

\* A wait of m_sendTimer carries the message it delays.
LEMMA SendTimerOn ==
    ASSUME NEW w \in SendTimer, w.on
    PROVE  w.msg \in Message
BY DEF SendTimer

\* doSendMessage transmits and arms the response timeout.
LEMMA DoSendMessage ==
    ASSUME NEW s \in SenderType, NEW m \in Message
    PROVE  LET t == doSendMessage(s, m)
           IN  /\ t \in SenderType
               /\ t.current = s.current
               /\ t.pending = s.pending
               /\ Armed(t)
<1> DEFINE w == [on   |-> TRUE, left |-> IF IsWrite(m) THEN FakeDelay ELSE RequestTimeout,
                 fake |-> IsWrite(m)]
           t == doSendMessage(s, m)
<1>1. IsWrite(m) \in BOOLEAN
  BY DEF IsWrite
<1>2. w \in ResponseTimer
  BY <1>1, SenderAssumption DEF Ticks, ResponseTimer
<1>3. [s.age EXCEPT ![m.dest] = 0] \in [Addr -> Age]
  BY SenderAssumption DEF SenderType, Age
<1>4. Append(s.out, m) \in Seq(Message)
  BY DEF SenderType
<1>5. t = [s EXCEPT !.resp = w, !.out = Append(s.out, m), !.age = [s.age EXCEPT ![m.dest] = 0]]
  BY DEF doSendMessage, scheduleResponseTimeout, SenderType
<1>6. t \in SenderType
  BY <1>2, <1>3, <1>4, <1>5 DEF SenderType
<1>7. t.current = s.current /\ t.pending = s.pending /\ t.resp = w
  BY <1>5 DEF SenderType
<1> QED
  BY <1>6, <1>7 DEF Armed

\* armSendTimer leaves m_sendTimer armed, and queues the message it displaces.
LEMMA ArmSendTimer ==
    ASSUME NEW s \in SenderType, NEW m \in Message, s.age[m.dest] <= MinDistance
    PROVE  LET t == armSendTimer(s, m)
           IN  /\ t \in SenderType
               /\ t.current = s.current
               /\ t.pending = s.pending
               /\ Armed(t)
<1> DEFINE w == [on |-> TRUE, left |-> MinDistance - s.age[m.dest], msg |-> m]
           h == [kind |-> "send", msg |-> s.send.msg]
           r == IF s.send.on THEN Append(s.ready, h) ELSE s.ready
           t == armSendTimer(s, m)
<1>1. s.age[m.dest] \in Age
  BY SenderAssumption DEF SenderType
<1>2. MinDistance - s.age[m.dest] \in Ticks
  BY <1>1, SenderAssumption DEF Ticks, Age
<1>3. w \in SendTimer
  BY <1>2 DEF SendTimer
<1>4. s.send.on => h \in Handler
  BY SendTimerOn DEF Handler, SenderType
<1>5. r \in Seq(Handler)
  BY <1>4 DEF SenderType
<1>6. t = [s EXCEPT !.ready = r, !.send = w]
  BY DEF armSendTimer, SenderType
<1>7. t \in SenderType
  BY <1>3, <1>5, <1>6 DEF SenderType
<1>8. t.current = s.current /\ t.pending = s.pending /\ t.send = w
  BY <1>6 DEF SenderType
<1> QED
  BY <1>7, <1>8 DEF Armed

\* The private sendMessage arms one of the two timers.
LEMMA SendRequest ==
    ASSUME NEW s \in SenderType, NEW m \in Message
    PROVE  LET t == sendRequest(s, m)
           IN  /\ t \in SenderType
               /\ t.current = s.current
               /\ t.pending = s.pending
               /\ Armed(t)
BY DoSendMessage, ArmSendTimer DEF sendRequest

\* Advancing the queue either leaves it empty with no current client, or arms
\* a timer for the client it makes current.
LEMMA ContinueWithNextRequest ==
    ASSUME NEW s \in SenderType
    PROVE  LET t == continueWithNextRequest(s)
           IN  /\ t \in SenderType
               /\ Alive(t)
               /\ s.pending # << >> => t.current # NoClient
<1> DEFINE t == continueWithNextRequest(s)
<1>1. CASE s.pending = << >>
  <2>1. t = [s EXCEPT !.current = NoClient]
    BY <1>1 DEF continueWithNextRequest
  <2>2. t \in SenderType /\ t.current = NoClient /\ t.pending = << >>
    BY <1>1, <2>1 DEF SenderType
  <2> QED
    BY <1>1, <2>2 DEF Alive
<1>2. CASE s.pending # << >>
  <2> DEFINE m == Head(s.pending)
             u == [s EXCEPT !.current = m.client, !.pending = Tail(s.pending)]
  <2>1. m \in Message /\ Tail(s.pending) \in Seq(Message)
    BY <1>2 DEF SenderType
  <2>2. m.client \in Client /\ m.client # NoClient
    BY <2>1, SenderAssumption
  <2>3. u \in SenderType /\ u.current = m.client
    BY <2>1, <2>2 DEF SenderType
  <2>4. t = sendRequest(u, m)
    BY <1>2 DEF continueWithNextRequest
  <2>5. t \in SenderType /\ t.current = u.current /\ Armed(t)
    BY <2>1, <2>3, <2>4, SendRequest
  <2> QED
    BY <2>2, <2>3, <2>5 DEF Alive
<1> QED
  BY <1>1, <1>2

\* Queueing messages changes nothing else.
LEMMA Enqueue ==
    ASSUME NEW s \in SenderType, NEW ms \in Seq(Message)
    PROVE  LET t == enqueue(s, ms)
           IN  /\ t \in SenderType
               /\ t.current = s.current
               /\ t.pending = s.pending \o ms
               /\ t.resp = s.resp /\ t.send = s.send /\ t.ready = s.ready
<1>1. s.pending \o ms \in Seq(Message) /\ s.in \o ms \in Seq(Message)
  BY DEF SenderType
<1> QED
  BY <1>1 DEF enqueue, SenderType

\* A new event clears the record of the last one only.
LEMMA Event ==
    ASSUME NEW s \in SenderType
    PROVE  LET t == event(s)
           IN  /\ t \in SenderType
               /\ t.current = s.current /\ t.pending = s.pending
               /\ t.resp = s.resp /\ t.send = s.send /\ t.ready = s.ready
<1>1. << >> \in Seq(Message)
  OBVIOUS
<1> QED
  BY <1>1 DEF event, SenderType

\* Posting messages keeps the sender alive: an idle sender is restarted.
LEMMA SendMessages ==
    ASSUME NEW s \in SenderType, Alive(s), NEW ms \in Seq(Message)
    PROVE  LET t == sendMessage(s, ms) IN t \in SenderType /\ Alive(t)
<1> DEFINE t == sendMessage(s, ms)
<1>1. CASE s.current = NoClient /\ ms # << >>
  <2> DEFINE x == Head(ms)
             e == enqueue(s, <<x>>)
             n == continueWithNextRequest(e)
  <2>1. x \in Message /\ Tail(ms) \in Seq(Message) /\ <<x>> \in Seq(Message)
    BY <1>1
  <2>2. e \in SenderType /\ e.pending = s.pending \o <<x>>
    BY <2>1, Enqueue
  <2>3. s.pending \o <<x>> # << >>
    BY <2>1 DEF SenderType
  <2>4. n \in SenderType /\ Alive(n) /\ n.current # NoClient
    BY <2>2, <2>3, ContinueWithNextRequest
  <2>5. t = enqueue(n, Tail(ms))
    BY <1>1 DEF sendMessage
  <2> HIDE DEF n, t
  <2>6. /\ t \in SenderType /\ t.current = n.current
        /\ t.resp = n.resp /\ t.send = n.send /\ t.ready = n.ready
    BY <2>1, <2>4, <2>5, Enqueue
  <2> QED
    BY <2>4, <2>6 DEF Alive, Armed, t
<1>2. CASE ~(s.current = NoClient /\ ms # << >>)
  <2>1. t = enqueue(s, ms)
    BY <1>2 DEF sendMessage
  <2>2. /\ t \in SenderType /\ t.current = s.current /\ t.pending = s.pending \o ms
        /\ t.resp = s.resp /\ t.send = s.send /\ t.ready = s.ready
    BY <2>1, Enqueue
  <2>3. s.current = NoClient => t.pending = << >>
    BY <1>2, <2>2 DEF Alive
  <2> QED
    BY <2>2, <2>3 DEF Alive, Armed
<1> QED
  BY <1>1, <1>2

\* Whatever arrives for the PC, the queue is advanced afterwards.
LEMMA HandlePcMessage ==
    ASSUME NEW s \in SenderType, NEW source \in Addr, NEW ms \in Seq(Message)
    PROVE  LET t == handlePcMessage(s, source, ms) IN t \in SenderType /\ Alive(t)
<1> DEFINE a == [s.age EXCEPT ![source] = 0]
           u == [s EXCEPT !.age = a, !.resp = NoWait]
           ps == IF s.current = NoClient THEN << >> ELSE ms
<1>1. a \in [Addr -> Age] /\ NoWait \in ResponseTimer
  BY SenderAssumption DEF SenderType, Age, NoWait, Ticks, ResponseTimer
<1>2. u \in SenderType
  BY <1>1 DEF SenderType
<1>3. ps \in Seq(Message)
  OBVIOUS
<1>4. enqueue(u, ps) \in SenderType
  BY <1>2, <1>3, Enqueue
<1>5. handlePcMessage(s, source, ms) = continueWithNextRequest(enqueue(u, ps))
  BY DEF handlePcMessage, SenderType
<1> QED
  BY <1>4, <1>5, ContinueWithNextRequest

\* The handler of an expired wait that was armed after a write.
LEMMA FakeAnswerHandler ==
    ASSUME NEW s \in SenderType, NEW ms \in Seq(Message)
    PROVE  LET t == fakeAnswerHandler(s, ms) IN t \in SenderType /\ Alive(t)
<1> DEFINE u == IF s.current = NoClient THEN s ELSE handlePcMessage(s, PC, ms)
<1>1. u \in SenderType
  BY HandlePcMessage, SenderAssumption
<1>2. fakeAnswerHandler(s, ms) = continueWithNextRequest(u)
  BY DEF fakeAnswerHandler
<1> QED
  BY <1>1, <1>2, ContinueWithNextRequest

\* The handler of an expired wait that was armed after a read.
LEMMA TimeoutHandler ==
    ASSUME NEW s \in SenderType, NEW ms \in Seq(Message)
    PROVE  LET t == timeoutHandler(s, ms) IN t \in SenderType /\ Alive(t)
<1> DEFINE ps == IF s.current = NoClient THEN << >> ELSE ms
<1>1. ps \in Seq(Message)
  OBVIOUS
<1>2. enqueue(s, ps) \in SenderType
  BY <1>1, Enqueue
<1>3. timeoutHandler(s, ms) = continueWithNextRequest(enqueue(s, ps))
  BY DEF timeoutHandler
<1> QED
  BY <1>2, <1>3, ContinueWithNextRequest

-----------------------------------------------------------------------------
(* The io_service *)

\* Running a completed wait keeps the sender alive.
LEMMA RunHandlerLemma ==
    ASSUME NEW s \in SenderType, Alive(s), s.ready # << >>, NEW ms \in Seq(Message)
    PROVE  LET t == runHandler(s, ms) IN t \in SenderType /\ Alive(t)
<1> DEFINE h == Head(s.ready)
           u == [event(s) EXCEPT !.ready = Tail(s.ready)]
           t == runHandler(s, ms)
<1>1. h \in Handler /\ Tail(s.ready) \in Seq(Handler)
  BY DEF SenderType
<1>2. u \in SenderType /\ u.current = s.current /\ u.pending = s.pending
  BY <1>1, Event DEF SenderType
<1>3. t = CASE h.kind = "send"    -> doSendMessage(u, h.msg)
            [] h.kind = "fake"    -> fakeAnswerHandler(u, ms)
            [] h.kind = "timeout" -> timeoutHandler(u, ms)
  BY DEF runHandler
<1> HIDE DEF u, h, t
<1>4. CASE h.kind = "send"
  <2>1. h.msg \in Message
    BY <1>1, <1>4 DEF Handler
  <2>2. t = doSendMessage(u, h.msg)
    BY <1>3, <1>4
  <2>3. t \in SenderType /\ t.current = u.current /\ t.pending = u.pending /\ Armed(t)
    BY <1>2, <2>1, <2>2, DoSendMessage
  <2> QED
    BY <1>2, <2>3 DEF Alive, t
<1>5. CASE h.kind = "fake"
  <2>1. t = fakeAnswerHandler(u, ms)
    BY <1>3, <1>5
  <2> QED
    BY <1>2, <2>1, FakeAnswerHandler DEF t
<1>6. CASE h.kind = "timeout"
  <2>1. t = timeoutHandler(u, ms)
    BY <1>3, <1>6
  <2> QED
    BY <1>2, <2>1, TimeoutHandler DEF t
<1> QED
  BY <1>1, <1>4, <1>5, <1>6 DEF Handler

\* The handlers of expired waits, as a pass of the reactor queues them.
LEMMA ExpiredWaitsType ==
    ASSUME NEW s \in SenderType, NEW hs \in ExpiredWaits(s)
    PROVE  hs \in Seq(Handler) /\ hs # << >>
<1> DEFINE r == [kind |-> IF s.resp.fake THEN "fake" ELSE "timeout", msg |-> NoMessage]
           d == [kind |-> "send", msg |-> s.send.msg]
<1>1. r \in Handler
  BY DEF Handler
<1>2. SendDue(s) => d \in Handler
  BY SendTimerOn DEF Handler, SenderType, SendDue
<1>3. CASE ResponseDue(s) /\ SendDue(s)
  <2>1. hs \in {<<r, d>>, <<d, r>>}
    BY <1>3 DEF ExpiredWaits
  <2> HIDE DEF r, d
  <2>2. r \in Handler /\ d \in Handler
    BY <1>1, <1>2, <1>3
  <2>3. <<r, d>> \in Seq(Handler) /\ <<r, d>> # << >>
    BY <2>2
  <2>4. <<d, r>> \in Seq(Handler) /\ <<d, r>> # << >>
    BY <2>2
  <2> QED
    BY <2>1, <2>3, <2>4
<1>4. CASE ResponseDue(s) /\ ~SendDue(s)
  <2>1. hs = <<r>>
    BY <1>4 DEF ExpiredWaits
  <2> HIDE DEF r, d
  <2> QED
    BY <1>1, <2>1
<1>5. CASE ~ResponseDue(s) /\ SendDue(s)
  <2>1. hs = <<d>>
    BY <1>5 DEF ExpiredWaits
  <2> HIDE DEF r, d
  <2> QED
    BY <1>2, <1>5, <2>1
<1>6. CASE ~ResponseDue(s) /\ ~SendDue(s)
  <2>1. hs \in {}
    BY <1>6 DEF ExpiredWaits
  <2> QED
    BY <2>1
<1> QED
  BY <1>3, <1>4, <1>5, <1>6

\* A pass of the reactor disarms timers only to queue their handlers.
LEMMA ReactorPass ==
    ASSUME NEW s \in SenderType, Alive(s), NEW hs \in ExpiredWaits(s)
    PROVE  LET t == reactorPass(s, hs) IN t \in SenderType /\ Alive(t)
<1> DEFINE e == event(s)
           r == IF ResponseDue(s) THEN NoWait ELSE s.resp
           d == IF SendDue(s) THEN NoSend ELSE s.send
           t == reactorPass(s, hs)
<1>1. hs \in Seq(Handler) /\ hs # << >>
  BY ExpiredWaitsType
<1>2. s.ready \o hs \in Seq(Handler) /\ s.ready \o hs # << >>
  BY <1>1 DEF SenderType
<1>3. r \in ResponseTimer /\ d \in SendTimer
  <2>1. NoWait \in ResponseTimer
    BY SenderAssumption DEF NoWait, ResponseTimer, Ticks
  <2>2. NoSend \in SendTimer
    BY DEF SendTimer, NoSend
  <2> QED
    BY <2>1, <2>2 DEF SenderType
<1>4. e \in SenderType /\ e.current = s.current /\ e.pending = s.pending
      /\ e.resp = s.resp /\ e.send = s.send /\ e.ready = s.ready
  BY Event
<1>5. t = [e EXCEPT !.resp = r, !.send = d, !.ready = s.ready \o hs]
  BY DEF reactorPass
<1> HIDE DEF e, r, d, t
<1>6. t \in SenderType
  BY <1>2, <1>3, <1>4, <1>5 DEF SenderType
<1>7. t.current = s.current /\ t.pending = s.pending /\ t.ready = s.ready \o hs
  BY <1>4, <1>5 DEF SenderType
<1> QED
  BY <1>2, <1>6, <1>7 DEF Alive, t

\* Time passing disarms nothing.
LEMMA Elapse ==
    ASSUME NEW s \in SenderType, Alive(s)
    PROVE  LET t == elapse(s) IN t \in SenderType /\ Alive(t)
<1> DEFINE e == event(s)
           r == [s.resp EXCEPT !.left = Less(s.resp.left)]
           d == [s.send EXCEPT !.left = Less(s.send.left)]
           a == [x \in Addr |-> IF s.age[x] = LongAgo THEN LongAgo ELSE s.age[x] + 1]
           t == elapse(s)
<1>1. \A n \in Ticks : Less(n) \in Ticks
  BY SenderAssumption DEF Ticks, Less
<1>2. r \in ResponseTimer /\ r.on = s.resp.on
  BY <1>1 DEF SenderType, ResponseTimer
<1>3. d \in SendTimer /\ d.on = s.send.on
  <2>1. CASE s.send \in [on : {FALSE}, left : {0}, msg : {NoMessage}]
    <3>1. s.send.left = 0
      BY <2>1
    <3>2. Less(0) = 0
      BY DEF Less
    <3>3. Less(s.send.left) = 0
      BY <3>1, <3>2
    <3>4. d \in [on : {FALSE}, left : {0}, msg : {NoMessage}] /\ d.on = s.send.on
      BY <2>1, <3>3
    <3> QED
      BY <3>4 DEF SendTimer
  <2>2. CASE s.send \in [on : {TRUE}, left : Ticks, msg : Message]
    <3>1. Less(s.send.left) \in Ticks
      BY <1>1, <2>2
    <3>2. d \in [on : {TRUE}, left : Ticks, msg : Message] /\ d.on = s.send.on
      BY <2>2, <3>1
    <3> QED
      BY <3>2 DEF SendTimer
  <2> QED
    BY <2>1, <2>2 DEF SenderType, SendTimer
<1>4. a \in [Addr -> Age]
  BY SenderAssumption DEF SenderType, Age, LongAgo
<1>5. e \in SenderType /\ e.current = s.current /\ e.pending = s.pending
      /\ e.resp = s.resp /\ e.send = s.send /\ e.ready = s.ready
  BY Event
<1>6. t = [e EXCEPT !.resp = r, !.send = d, !.age = a]
  BY DEF elapse
<1> HIDE DEF e, r, d, a, t
<1>7. t \in SenderType
  BY <1>2, <1>3, <1>4, <1>5, <1>6 DEF SenderType
<1>8. t.current = s.current /\ t.pending = s.pending /\ t.ready = s.ready
      /\ t.resp = r /\ t.send = d
  BY <1>5, <1>6 DEF SenderType
<1> QED
  BY <1>2, <1>3, <1>7, <1>8 DEF Alive, Armed, t

-----------------------------------------------------------------------------
(* Counting messages *)

\* The places of m in q.
Occurs(q, m) == {i \in DOMAIN q : q[i] = m}

LEMMA OccursFinite ==
    ASSUME NEW S, NEW q \in Seq(S), NEW m
    PROVE  IsFiniteSet(Occurs(q, m)) /\ Count(q, m) \in Nat
<1>1. Len(q) \in Nat /\ DOMAIN q = 1 .. Len(q)
  OBVIOUS
<1>2. IsFiniteSet(1 .. Len(q))
  BY <1>1, FS_Interval
<1>3. Occurs(q, m) \in SUBSET (1 .. Len(q))
  BY <1>1 DEF Occurs
<1>4. IsFiniteSet(Occurs(q, m))
  BY <1>2, <1>3, FS_Subset
<1> QED
  BY <1>4, FS_CardinalityType DEF Count, Occurs

\* What two sequences hold together.
LEMMA CountConcat ==
    ASSUME NEW S, NEW a \in Seq(S), NEW b \in Seq(S), NEW m
    PROVE  Count(a \o b, m) = Count(a, m) + Count(b, m)
<1> DEFINE A == Occurs(a, m)
           B == Occurs(b, m)
           C == Occurs(a \o b, m)
           D == {Len(a) + i : i \in B}
           shift == [i \in B |-> Len(a) + i]
<1>1. /\ Len(a) \in Nat /\ Len(b) \in Nat
      /\ DOMAIN a = 1 .. Len(a) /\ DOMAIN b = 1 .. Len(b) /\ DOMAIN (a \o b) = 1 .. Len(a) + Len(b)
      /\ \A i \in 1 .. Len(a) : (a \o b)[i] = a[i]
      /\ \A i \in 1 .. Len(b) : (a \o b)[Len(a) + i] = b[i]
  OBVIOUS
<1>2. /\ IsFiniteSet(A) /\ Cardinality(A) = Count(a, m) /\ Cardinality(A) \in Nat
      /\ IsFiniteSet(B) /\ Cardinality(B) = Count(b, m) /\ Cardinality(B) \in Nat
      /\ Cardinality(C) = Count(a \o b, m)
  BY OccursFinite DEF Count, Occurs
<1>3. A \subseteq 1 .. Len(a) /\ B \subseteq 1 .. Len(b)
  BY <1>1 DEF Occurs
<1>4. C = A \cup D
  <2>1. A \subseteq C
    BY <1>1 DEF Occurs
  <2>2. D \subseteq C
    BY <1>1 DEF Occurs
  <2>3. ASSUME NEW i \in C, i \notin A PROVE i \in D
    <3>1. i \in 1 .. Len(a) + Len(b) /\ (a \o b)[i] = m
      BY <1>1 DEF Occurs
    <3>2. ~(i \in 1 .. Len(a))
      BY <1>1, <2>3, <3>1 DEF Occurs
    <3>3. i - Len(a) \in 1 .. Len(b) /\ Len(a) + (i - Len(a)) = i
      BY <1>1, <3>1, <3>2
    <3>4. i - Len(a) \in B
      BY <1>1, <3>1, <3>3 DEF Occurs
    <3> QED
      BY <3>3, <3>4
  <2> QED
    BY <2>1, <2>2, <2>3
<1>5. A \cap D = {}
  BY <1>1, <1>3
<1>6. shift \in Bijection(B, D)
  <2>1. shift \in [B -> D]
    OBVIOUS
  <2>2. ASSUME NEW i \in B, NEW j \in B, shift[i] = shift[j] PROVE i = j
    BY <1>1, <1>3, <2>2
  <2>3. \A d \in D : \E i \in B : shift[i] = d
    OBVIOUS
  <2> QED
    BY <2>1, <2>2, <2>3 DEF Bijection, Injection, Surjection, IsInjective
<1> HIDE DEF A, B, C, D, shift
<1>7. IsFiniteSet(D) /\ Cardinality(D) = Cardinality(B)
  BY <1>2, <1>6, FS_Bijection DEF ExistsBijection
<1>8. Cardinality(C) = Cardinality(A) + Cardinality(D) - Cardinality(A \cap D)
  BY <1>2, <1>4, <1>7, FS_Union
<1>9. Cardinality(A \cap D) = 0
  BY <1>5, FS_EmptySet
<1> QED
  BY <1>2, <1>7, <1>8, <1>9

\* One message.
LEMMA CountOne ==
    ASSUME NEW x, NEW m
    PROVE  Count(<<x>>, m) = IF x = m THEN 1 ELSE 0
<1>1. Occurs(<<x>>, m) = IF x = m THEN {1} ELSE {}
  BY DEF Occurs
<1>2. Cardinality({1}) = 1 /\ Cardinality({}) = 0
  BY FS_Singleton, FS_EmptySet
<1> QED
  BY <1>1, <1>2 DEF Count, Occurs

LEMMA CountNone ==
    ASSUME NEW m
    PROVE  Count(<< >>, m) = 0
<1>1. Occurs(<< >>, m) = {}
  BY DEF Occurs
<1> QED
  BY <1>1, FS_EmptySet DEF Count, Occurs

LEMMA CountAppend ==
    ASSUME NEW S, NEW q \in Seq(S), NEW x \in S, NEW m
    PROVE  Count(Append(q, x), m) = Count(q, m) + (IF x = m THEN 1 ELSE 0)
<1>1. Append(q, x) = q \o <<x>> /\ <<x>> \in Seq(S)
  OBVIOUS
<1>2. Count(Append(q, x), m) = Count(q, m) + Count(<<x>>, m)
  BY ZenonT(60), <1>1, CountConcat
<1> QED
  BY <1>2, CountOne

LEMMA CountHead ==
    ASSUME NEW S, NEW q \in Seq(S), q # << >>, NEW m
    PROVE  Count(q, m) = Count(Tail(q), m) + (IF Head(q) = m THEN 1 ELSE 0)
<1>1. <<Head(q)>> \in Seq(S) /\ Tail(q) \in Seq(S)
  OBVIOUS
<1>2. q = <<Head(q)>> \o Tail(q)
  OBVIOUS
<1>3. Count(<<Head(q)>> \o Tail(q), m) = Count(<<Head(q)>>, m) + Count(Tail(q), m)
  BY <1>1, CountConcat
<1>4. Count(Tail(q), m) \in Nat
  BY <1>1, OccursFinite
<1> DEFINE h == Head(q)
           t == Tail(q)
<1>5. Count(q, m) = Count(<<h>>, m) + Count(t, m)
  BY <1>2, <1>3
<1>6. Count(<<h>>, m) = IF h = m THEN 1 ELSE 0
  BY CountOne
<1>7. Count(t, m) \in Nat
  BY <1>4
<1> HIDE DEF h, t
<1>8. Count(q, m) = Count(t, m) + (IF h = m THEN 1 ELSE 0)
  BY <1>5, <1>6, <1>7
<1> QED
  BY <1>8 DEF h, t

-----------------------------------------------------------------------------
(* No member function loses a message or sends one twice.  `Balance' is what *)
(* the sender holds plus what it sent, less what it accepted: it stays the   *)
(* same when a member function is called, and grows by the message a private *)
(* one is given to send.                                                     *)

Carried == Message \cup {NoMessage}

\* The messages of completed waits.
Msgs(r) == [i \in DOMAIN r |-> r[i].msg]

One(x, m) == IF x = m THEN 1 ELSE 0
Delayed(w, m) == IF w.on THEN One(w.msg, m) ELSE 0

Balance(s, m) ==
    Count(s.pending, m) + Delayed(s.send, m) + Count(Msgs(s.ready), m)
        + Count(s.out, m) - Count(s.in, m)

LEMMA MsgsType ==
    ASSUME NEW r \in Seq(Handler)
    PROVE  /\ Msgs(r) \in Seq(Carried) /\ Len(Msgs(r)) = Len(r)
           /\ \A i \in 1 .. Len(r) : Msgs(r)[i] = r[i].msg
<1>1. \A h \in Handler : h.msg \in Carried
  BY DEF Handler, Carried
<1>2. Len(r) \in Nat /\ DOMAIN r = 1 .. Len(r) /\ \A i \in 1 .. Len(r) : r[i] \in Handler
  OBVIOUS
<1>3. Msgs(r) = [i \in 1 .. Len(r) |-> r[i].msg]
  BY <1>2 DEF Msgs
<1>4. Msgs(r) \in [1 .. Len(r) -> Carried]
  BY <1>1, <1>2, <1>3
<1> QED
  BY <1>2, <1>3, <1>4

LEMMA MsgsOfConcat ==
    ASSUME NEW a \in Seq(Handler), NEW b \in Seq(Handler)
    PROVE  Msgs(a \o b) = Msgs(a) \o Msgs(b)
<1> DEFINE u == Msgs(a)
           v == Msgs(b)
           w == Msgs(a \o b)
           c == a \o b
<1>1. /\ u \in Seq(Carried) /\ Len(u) = Len(a) /\ \A i \in 1 .. Len(a) : u[i] = a[i].msg
      /\ v \in Seq(Carried) /\ Len(v) = Len(b) /\ \A i \in 1 .. Len(b) : v[i] = b[i].msg
  BY MsgsType
<1>2. /\ c \in Seq(Handler) /\ Len(c) = Len(a) + Len(b)
      /\ \A i \in 1 .. Len(a) : c[i] = a[i]
      /\ \A i \in 1 .. Len(b) : c[Len(a) + i] = b[i]
  OBVIOUS
<1>3. w \in Seq(Carried) /\ Len(w) = Len(c) /\ \A i \in 1 .. Len(c) : w[i] = c[i].msg
  BY <1>2, MsgsType
<1>4. Len(a) \in Nat /\ Len(b) \in Nat
  OBVIOUS
<1> HIDE DEF u, v, w, c
<1>5. /\ u \o v \in Seq(Carried) /\ Len(u \o v) = Len(u) + Len(v)
      /\ \A i \in 1 .. Len(u) : (u \o v)[i] = u[i]
      /\ \A i \in 1 .. Len(v) : (u \o v)[Len(u) + i] = v[i]
  <2>1. u \in Seq(Carried) /\ v \in Seq(Carried)
    BY <1>1
  <2> QED
    BY <2>1
<1>6. ASSUME NEW i \in 1 .. Len(w) PROVE w[i] = (u \o v)[i]
  <2>1. CASE i \in 1 .. Len(a)
    BY ZenonT(60), <1>1, <1>2, <1>3, <1>4, <1>5, <2>1
  <2>2. CASE ~(i \in 1 .. Len(a))
    <3>1. i - Len(a) \in 1 .. Len(b) /\ Len(a) + (i - Len(a)) = i
      BY <1>2, <1>3, <1>4, <2>2
    <3>2. c[Len(a) + (i - Len(a))] = b[i - Len(a)] /\ v[i - Len(a)] = b[i - Len(a)].msg
      BY <1>1, <1>2, <3>1
    <3>3. (u \o v)[Len(a) + (i - Len(a))] = v[i - Len(a)]
      BY <1>1, <1>5, <3>1
    <3> QED
      BY <1>3, <3>1, <3>2, <3>3
  <2> QED
    BY <2>1, <2>2
<1>7. w = u \o v
  BY <1>1, <1>2, <1>3, <1>5, <1>6
<1> QED
  BY <1>7 DEF u, v, w, c

\* All the counts are numbers, so they can be added up.
LEMMA CountTypes ==
    ASSUME NEW s \in SenderType, NEW m
    PROVE  /\ Count(s.pending, m) \in Nat /\ Count(Msgs(s.ready), m) \in Nat
           /\ Count(s.out, m) \in Nat /\ Count(s.in, m) \in Nat
           /\ Delayed(s.send, m) \in Nat
<1>1. /\ s.pending \in Seq(Message) /\ s.ready \in Seq(Handler)
      /\ s.out \in Seq(Message) /\ s.in \in Seq(Message)
  BY DEF SenderType
<1>2. Msgs(s.ready) \in Seq(Carried)
  BY <1>1, MsgsType
<1>3. Delayed(s.send, m) \in Nat
  BY DEF Delayed, One
<1> QED
  BY <1>1, <1>2, <1>3, OccursFinite

LEMMA CountHeld ==
    ASSUME NEW s \in SenderType, NEW m
    PROVE  Count(HeldMessages(s), m)
             = Count(s.pending, m) + Delayed(s.send, m) + Count(Msgs(s.ready), m)
<1> DEFINE p == s.pending
           d == IF s.send.on THEN <<s.send.msg>> ELSE << >>
           r == Msgs(s.ready)
<1>1. p \in Seq(Carried) /\ r \in Seq(Carried)
  <2>1. s.pending \in Seq(Message) /\ s.ready \in Seq(Handler)
    BY DEF SenderType
  <2> QED
    BY <2>1, MsgsType DEF Carried
<1>2. d \in Seq(Carried)
  <2>1. s.send.on => s.send.msg \in Carried
    BY SendTimerOn DEF SenderType, Carried
  <2>2. \A x \in Carried : <<x>> \in Seq(Carried)
    OBVIOUS
  <2>3. << >> \in Seq(Carried)
    OBVIOUS
  <2> QED
    BY <2>1, <2>2, <2>3
<1>3. HeldMessages(s) = p \o d \o r
  BY DEF HeldMessages, Msgs
<1>4. Count(d, m) = Delayed(s.send, m)
  <2>1. CASE s.send.on
    BY <2>1, CountOne DEF Delayed, One
  <2>2. CASE ~s.send.on
    BY <2>2, CountNone DEF Delayed
  <2> QED
    BY <2>1, <2>2
<1> HIDE DEF p, d, r
<1>5. p \o d \in Seq(Carried)
  BY <1>1, <1>2
<1>6. Count(p \o d \o r, m) = Count(p \o d, m) + Count(r, m)
  BY <1>1, <1>5, CountConcat
<1>7. Count(p \o d, m) = Count(p, m) + Count(d, m)
  BY <1>1, <1>2, CountConcat
<1> QED
  BY <1>3, <1>4, <1>6, <1>7 DEF p, r

\* doSendMessage sends the message it is given.
LEMMA DoSendMessageSends ==
    ASSUME NEW s \in SenderType, NEW x \in Message, NEW m
    PROVE  Balance(doSendMessage(s, x), m) = Balance(s, m) + One(x, m)
<1> DEFINE t == doSendMessage(s, x)
<1>1. /\ t.pending = s.pending /\ t.send = s.send /\ t.ready = s.ready /\ t.in = s.in
      /\ t.out = Append(s.out, x)
  BY DEF doSendMessage, scheduleResponseTimeout, SenderType
<1>2. s.out \in Seq(Message)
  BY DEF SenderType
<1>3. Count(Append(s.out, x), m) = Count(s.out, m) + One(x, m)
  BY <1>2, CountAppend DEF One
<1>4. One(x, m) \in Nat
  BY DEF One
<1> HIDE DEF t
<1> QED
  BY SMTT(20), <1>1, <1>3, <1>4, CountTypes DEF Balance, t

\* armSendTimer keeps the message it is given, and the one it displaces.
LEMMA ArmSendTimerKeeps ==
    ASSUME NEW s \in SenderType, NEW x \in Message, NEW m
    PROVE  Balance(armSendTimer(s, x), m) = Balance(s, m) + One(x, m)
<1> DEFINE t == armSendTimer(s, x)
           h == [kind |-> "send", msg |-> s.send.msg]
<1>1. /\ t.pending = s.pending /\ t.in = s.in /\ t.out = s.out
      /\ t.send.on /\ t.send.msg = x
      /\ t.ready = IF s.send.on THEN Append(s.ready, h) ELSE s.ready
  BY DEF armSendTimer, SenderType
<1>2. Delayed(t.send, m) = One(x, m) /\ One(x, m) \in Nat
  BY <1>1 DEF Delayed, One
<1>3. Count(Msgs(t.ready), m) = Count(Msgs(s.ready), m) + Delayed(s.send, m)
  <2>1. CASE s.send.on
    <3>1. s.ready \in Seq(Handler) /\ h \in Handler /\ <<h>> \in Seq(Handler)
      BY <2>1, SendTimerOn DEF Handler, SenderType
    <3>2. t.ready = s.ready \o <<h>>
      BY <1>1, <2>1, <3>1
    <3>3. Msgs(<<h>>) = <<s.send.msg>>
      BY DEF Msgs
    <3> DEFINE u == Msgs(s.ready)
               v == Msgs(<<h>>)
    <3>4. Msgs(t.ready) = u \o v
      BY <3>1, <3>2, MsgsOfConcat
    <3>5. u \in Seq(Carried) /\ v \in Seq(Carried)
      BY <3>1, MsgsType
    <3>6. Count(v, m) = Delayed(s.send, m)
      BY <2>1, <3>3, CountOne DEF Delayed, One
    <3> HIDE DEF u, v, t
    <3>7. Count(u \o v, m) = Count(u, m) + Count(v, m)
      BY <3>5, CountConcat
    <3> QED
      BY <3>4, <3>6, <3>7 DEF u
  <2>2. CASE ~s.send.on
    BY <1>1, <2>2, CountTypes DEF Delayed
  <2> QED
    BY <2>1, <2>2
<1> HIDE DEF t, h
<1> QED
  BY <1>1, <1>2, <1>3, CountTypes DEF Balance, t

LEMMA SendRequestKeeps ==
    ASSUME NEW s \in SenderType, NEW x \in Message, NEW m
    PROVE  Balance(sendRequest(s, x), m) = Balance(s, m) + One(x, m)
BY DoSendMessageSends, ArmSendTimerKeeps DEF sendRequest

LEMMA BalanceType ==
    ASSUME NEW s \in SenderType, NEW m
    PROVE  Balance(s, m) \in Int
BY CountTypes DEF Balance

\* The request that is taken out of m_pending is the one that is sent.
LEMMA ContinueKeeps ==
    ASSUME NEW s \in SenderType, NEW m
    PROVE  Balance(continueWithNextRequest(s), m) = Balance(s, m)
<1> DEFINE t == continueWithNextRequest(s)
<1>1. CASE s.pending = << >>
  <2>1. /\ t.pending = s.pending /\ t.send = s.send /\ t.ready = s.ready
        /\ t.out = s.out /\ t.in = s.in
    BY <1>1 DEF continueWithNextRequest, SenderType
  <2> QED
    BY <2>1 DEF Balance
<1>2. CASE s.pending # << >>
  <2> DEFINE x == Head(s.pending)
             u == [s EXCEPT !.current = x.client, !.pending = Tail(s.pending)]
  <2>1. x \in Message /\ Tail(s.pending) \in Seq(Message) /\ s.pending \in Seq(Message)
    BY <1>2 DEF SenderType
  <2>2. x.client \in Client
    BY <2>1, SenderAssumption
  <2>3. u \in SenderType
    BY <2>1, <2>2 DEF SenderType
  <2>4. t = sendRequest(u, x)
    BY <1>2 DEF continueWithNextRequest
  <2>5. Balance(t, m) = Balance(u, m) + One(x, m)
    BY <2>1, <2>3, <2>4, SendRequestKeeps
  <2>6. /\ u.pending = Tail(s.pending) /\ u.send = s.send /\ u.ready = s.ready
        /\ u.out = s.out /\ u.in = s.in
    BY DEF SenderType
  <2>7. Count(s.pending, m) = Count(Tail(s.pending), m) + One(x, m)
    BY <1>2, <2>1, CountHead DEF One
  <2>8. One(x, m) \in Nat
    BY DEF One
  <2>9. Count(u.pending, m) \in Nat
    BY <2>3, CountTypes
  <2> HIDE DEF x, u, t
  <2>10. Balance(s, m) = Balance(u, m) + One(x, m)
    <3>1. Count(s.pending, m) = Count(u.pending, m) + One(x, m)
      BY <2>6, <2>7
    <3>2. Balance(u, m) = Count(u.pending, m) + Delayed(s.send, m) + Count(Msgs(s.ready), m)
                           + Count(s.out, m) - Count(s.in, m)
      BY <2>6 DEF Balance
    <3>3. Balance(s, m) = Count(s.pending, m) + Delayed(s.send, m) + Count(Msgs(s.ready), m)
                           + Count(s.out, m) - Count(s.in, m)
      BY DEF Balance
    <3>4. /\ Count(Msgs(s.ready), m) \in Nat /\ Delayed(s.send, m) \in Nat
          /\ Count(s.out, m) \in Nat /\ Count(s.in, m) \in Nat
      BY CountTypes
    <3> QED
      BY <2>8, <2>9, <3>1, <3>2, <3>3, <3>4
  <2> QED
    BY <2>5, <2>10 DEF t
<1> QED
  BY <1>1, <1>2

\* What is queued was accepted.
LEMMA EnqueueKeeps ==
    ASSUME NEW s \in SenderType, NEW ms \in Seq(Message), NEW m
    PROVE  Balance(enqueue(s, ms), m) = Balance(s, m)
<1> DEFINE t == enqueue(s, ms)
<1>1. /\ t.pending = s.pending \o ms /\ t.in = s.in \o ms
      /\ t.send = s.send /\ t.ready = s.ready /\ t.out = s.out
  BY DEF enqueue, SenderType
<1>2. s.pending \in Seq(Message) /\ s.in \in Seq(Message)
  BY DEF SenderType
<1>3. Count(s.pending \o ms, m) = Count(s.pending, m) + Count(ms, m)
  BY <1>2, CountConcat
<1>4. Count(s.in \o ms, m) = Count(s.in, m) + Count(ms, m)
  BY <1>2, CountConcat
<1>5. Count(ms, m) \in Nat
  BY OccursFinite
<1>6. Count(t.pending, m) = Count(s.pending, m) + Count(ms, m)
      /\ Count(t.in, m) = Count(s.in, m) + Count(ms, m)
  BY <1>1, <1>3, <1>4
<1> HIDE DEF t
<1>7. Balance(t, m) = Balance(s, m)
  <2>1. Balance(t, m) = Count(t.pending, m) + Delayed(s.send, m) + Count(Msgs(s.ready), m)
                           + Count(s.out, m) - Count(t.in, m)
    BY <1>1 DEF Balance
  <2>2. Balance(s, m) = Count(s.pending, m) + Delayed(s.send, m) + Count(Msgs(s.ready), m)
                           + Count(s.out, m) - Count(s.in, m)
    BY DEF Balance
  <2>3. /\ Count(s.pending, m) \in Nat /\ Count(s.in, m) \in Nat
        /\ Count(Msgs(s.ready), m) \in Nat /\ Delayed(s.send, m) \in Nat
        /\ Count(s.out, m) \in Nat
    BY CountTypes
  <2> QED
    BY <1>5, <1>6, <2>1, <2>2, <2>3
<1> QED
  BY <1>7 DEF t

LEMMA SendMessagesKeeps ==
    ASSUME NEW s \in SenderType, NEW ms \in Seq(Message), NEW m
    PROVE  Balance(sendMessage(s, ms), m) = Balance(s, m)
<1>1. CASE s.current = NoClient /\ ms # << >>
  <2> DEFINE x == Head(ms)
             e == enqueue(s, <<x>>)
             n == continueWithNextRequest(e)
  <2>1. <<x>> \in Seq(Message) /\ Tail(ms) \in Seq(Message)
    BY <1>1
  <2>2. e \in SenderType /\ Balance(e, m) = Balance(s, m)
    BY <2>1, Enqueue, EnqueueKeeps
  <2> HIDE DEF e
  <2>3. n \in SenderType /\ Balance(n, m) = Balance(e, m)
    BY <2>2, ContinueWithNextRequest, ContinueKeeps
  <2>4. sendMessage(s, ms) = enqueue(n, Tail(ms))
    BY <1>1 DEF sendMessage, e
  <2> HIDE DEF n
  <2> QED
    BY ZenonT(60), <2>1, <2>2, <2>3, <2>4, EnqueueKeeps
<1>2. CASE ~(s.current = NoClient /\ ms # << >>)
  BY <1>2, EnqueueKeeps DEF sendMessage
<1> QED
  BY <1>1, <1>2

LEMMA HandlePcMessageKeeps ==
    ASSUME NEW s \in SenderType, NEW source \in Addr, NEW ms \in Seq(Message), NEW m
    PROVE  Balance(handlePcMessage(s, source, ms), m) = Balance(s, m)
<1> DEFINE a == [s.age EXCEPT ![source] = 0]
           u == [s EXCEPT !.age = a, !.resp = NoWait]
           ps == IF s.current = NoClient THEN << >> ELSE ms
           e == enqueue(u, ps)
<1>1. a \in [Addr -> Age] /\ NoWait \in ResponseTimer
  BY SenderAssumption DEF SenderType, Age, NoWait, Ticks, ResponseTimer
<1>2. u \in SenderType
  BY <1>1 DEF SenderType
<1>3. /\ u.pending = s.pending /\ u.send = s.send /\ u.ready = s.ready
      /\ u.out = s.out /\ u.in = s.in
  BY DEF SenderType
<1>4. ps \in Seq(Message)
  OBVIOUS
<1>5. handlePcMessage(s, source, ms) = continueWithNextRequest(e)
  BY DEF handlePcMessage, SenderType
<1> HIDE DEF u, ps
<1>6. Balance(u, m) = Balance(s, m)
  BY <1>3 DEF Balance
<1>7. e \in SenderType /\ Balance(e, m) = Balance(u, m)
  BY <1>2, <1>4, Enqueue, EnqueueKeeps
<1> HIDE DEF e
<1> QED
  BY <1>5, <1>6, <1>7, ContinueKeeps

LEMMA FakeAnswerHandlerKeeps ==
    ASSUME NEW s \in SenderType, NEW ms \in Seq(Message), NEW m
    PROVE  Balance(fakeAnswerHandler(s, ms), m) = Balance(s, m)
<1> DEFINE u == IF s.current = NoClient THEN s ELSE handlePcMessage(s, PC, ms)
<1>1. u \in SenderType /\ Balance(u, m) = Balance(s, m)
  BY HandlePcMessage, HandlePcMessageKeeps, SenderAssumption
<1>2. fakeAnswerHandler(s, ms) = continueWithNextRequest(u)
  BY DEF fakeAnswerHandler
<1> HIDE DEF u
<1> QED
  BY <1>1, <1>2, ContinueKeeps

LEMMA TimeoutHandlerKeeps ==
    ASSUME NEW s \in SenderType, NEW ms \in Seq(Message), NEW m
    PROVE  Balance(timeoutHandler(s, ms), m) = Balance(s, m)
<1> DEFINE ps == IF s.current = NoClient THEN << >> ELSE ms
           e == enqueue(s, ps)
<1>1. ps \in Seq(Message)
  OBVIOUS
<1> HIDE DEF ps
<1>2. e \in SenderType /\ Balance(e, m) = Balance(s, m)
  BY <1>1, Enqueue, EnqueueKeeps
<1>3. timeoutHandler(s, ms) = continueWithNextRequest(e)
  BY DEF timeoutHandler, ps
<1> HIDE DEF e
<1> QED
  BY <1>2, <1>3, ContinueKeeps

\* An event begins with nothing accepted and nothing sent.
LEMMA EventStarts ==
    ASSUME NEW s \in SenderType, NEW m
    PROVE  Balance(event(s), m) = Count(HeldMessages(s), m)
<1> DEFINE t == event(s)
<1>1. /\ t.pending = s.pending /\ t.send = s.send /\ t.ready = s.ready
      /\ t.out = << >> /\ t.in = << >>
  BY DEF event, SenderType
<1>2. Count(t.out, m) = 0 /\ Count(t.in, m) = 0
  BY <1>1, CountNone
<1> HIDE DEF t
<1> QED
  BY SMTT(20), <1>1, <1>2, CountHeld, CountTypes DEF Balance, t

\* A completed wait of m_sendTimer sends the message it carries; the others
\* carry none.
LEMMA RunHandlerKeeps ==
    ASSUME NEW s \in SenderType, s.ready # << >>, NEW ms \in Seq(Message), NEW m \in Message
    PROVE  Balance(runHandler(s, ms), m) = Count(HeldMessages(s), m)
<1> DEFINE h == Head(s.ready)
           e == event(s)
           u == [e EXCEPT !.ready = Tail(s.ready)]
           t == runHandler(s, ms)
<1>1. h \in Handler /\ Tail(s.ready) \in Seq(Handler) /\ s.ready \in Seq(Handler)
  BY DEF SenderType
<1>2. e \in SenderType /\ e.ready = s.ready /\ Balance(e, m) = Count(HeldMessages(s), m)
  BY Event, EventStarts
<1> HIDE DEF e
<1>3. u \in SenderType
  BY <1>1, <1>2 DEF SenderType
<1>4. /\ u.pending = e.pending /\ u.send = e.send /\ u.ready = Tail(s.ready)
      /\ u.out = e.out /\ u.in = e.in
  BY <1>2 DEF SenderType
<1>5. t = CASE h.kind = "send"    -> doSendMessage(u, h.msg)
            [] h.kind = "fake"    -> fakeAnswerHandler(u, ms)
            [] h.kind = "timeout" -> timeoutHandler(u, ms)
  BY DEF runHandler, e
<1> HIDE DEF u, h, t
<1>6. Count(Msgs(s.ready), m) = Count(Msgs(Tail(s.ready)), m) + One(h.msg, m)
  <2> DEFINE q == Tail(s.ready)
             a == Msgs(<<h>>)
             b == Msgs(q)
  <2>1. s.ready = <<h>> \o q /\ <<h>> \in Seq(Handler) /\ q \in Seq(Handler)
    BY <1>1 DEF h
  <2> HIDE DEF q
  <2>2. Msgs(s.ready) = a \o b
    BY <2>1, MsgsOfConcat
  <2>3. a \in Seq(Carried) /\ b \in Seq(Carried)
    BY <2>1, MsgsType
  <2>4. a = <<h.msg>>
    BY DEF Msgs
  <2>5. Count(a, m) = One(h.msg, m) /\ One(h.msg, m) \in Nat
    BY <2>4, CountOne DEF One
  <2> HIDE DEF a, b
  <2>6. Count(a \o b, m) = Count(a, m) + Count(b, m)
    BY <2>3, CountConcat
  <2>7. Count(b, m) \in Nat
    BY <2>3, OccursFinite
  <2> QED
    BY <2>2, <2>5, <2>6, <2>7 DEF b, q
<1>7. Balance(e, m) = Balance(u, m) + One(h.msg, m)
  <2>1. Balance(u, m) = Count(e.pending, m) + Delayed(e.send, m) + Count(Msgs(Tail(s.ready)), m)
                         + Count(e.out, m) - Count(e.in, m)
    BY <1>4 DEF Balance
  <2>2. Balance(e, m) = Count(e.pending, m) + Delayed(e.send, m) + Count(Msgs(s.ready), m)
                         + Count(e.out, m) - Count(e.in, m)
    BY <1>2 DEF Balance
  <2>3. /\ Count(e.pending, m) \in Nat /\ Delayed(e.send, m) \in Nat
        /\ Count(e.out, m) \in Nat /\ Count(e.in, m) \in Nat
    BY <1>2, CountTypes
  <2>4. Count(Msgs(Tail(s.ready)), m) \in Nat /\ One(h.msg, m) \in Nat
    BY <1>3, <1>4, CountTypes DEF One
  <2> QED
    BY <1>6, <2>1, <2>2, <2>3, <2>4
<1>8. CASE h.kind = "send"
  <2>1. h.msg \in Message /\ t = doSendMessage(u, h.msg)
    BY <1>1, <1>5, <1>8 DEF Handler
  <2>2. Balance(t, m) = Balance(u, m) + One(h.msg, m)
    BY <1>3, <2>1, DoSendMessageSends
  <2> QED
    BY <1>2, <1>7, <2>2 DEF t
<1>9. CASE h.kind # "send"
  <2>1. h.msg = NoMessage /\ One(h.msg, m) = 0
    BY <1>1, <1>9, SenderAssumption DEF Handler, One
  <2>2. Balance(u, m) \in Int
    BY <1>3, BalanceType
  <2>3. Balance(e, m) = Balance(u, m)
    BY <1>7, <2>1, <2>2
  <2>4. Balance(t, m) = Balance(u, m)
    <3>1. CASE h.kind = "fake"
      BY <1>3, <1>5, <3>1, FakeAnswerHandlerKeeps
    <3>2. CASE h.kind = "timeout"
      BY <1>3, <1>5, <3>2, TimeoutHandlerKeeps
    <3> QED
      BY <1>1, <1>9, <3>1, <3>2 DEF Handler
  <2> QED
    BY <1>2, <2>3, <2>4 DEF t
<1> QED
  BY <1>8, <1>9

\* What expired waits carry: the message that m_sendTimer delayed.
LEMMA ExpiredWaitsCarry ==
    ASSUME NEW s \in SenderType, NEW hs \in ExpiredWaits(s), NEW m \in Message
    PROVE  Count(Msgs(hs), m) = IF SendDue(s) THEN Delayed(s.send, m) ELSE 0
<1> DEFINE r == [kind |-> IF s.resp.fake THEN "fake" ELSE "timeout", msg |-> NoMessage]
           d == [kind |-> "send", msg |-> s.send.msg]
<1>1. r.msg = NoMessage /\ d.msg = s.send.msg /\ r \in Handler
  BY DEF Handler
<1>2. SendDue(s) => d \in Handler /\ Delayed(s.send, m) = One(d.msg, m)
  BY SendTimerOn DEF Handler, SenderType, SendDue, Delayed
<1>3. hs \in IF ResponseDue(s)
             THEN IF SendDue(s) THEN {<<r, d>>, <<d, r>>} ELSE {<<r>>}
             ELSE IF SendDue(s) THEN {<<d>>} ELSE {}
  BY DEF ExpiredWaits
<1> HIDE DEF r, d
<1>4. ASSUME NEW h \in Handler
      PROVE  /\ Msgs(<<h>>) \in Seq(Carried) /\ <<h>> \in Seq(Handler)
             /\ Count(Msgs(<<h>>), m) = One(h.msg, m)
  <2>1. <<h>> \in Seq(Handler)
    OBVIOUS
  <2>2. Msgs(<<h>>) = <<h.msg>>
    BY DEF Msgs
  <2>3. Msgs(<<h>>) \in Seq(Carried)
    BY <2>1, MsgsType
  <2>4. Count(<<h.msg>>, m) = One(h.msg, m)
    BY CountOne DEF One
  <2> QED
    BY <2>1, <2>2, <2>3, <2>4, Zenon
<1>5. ASSUME NEW h \in Handler, NEW g \in Handler
      PROVE  Count(Msgs(<<h, g>>), m) = One(h.msg, m) + One(g.msg, m)
  <2> DEFINE a == <<h.msg>>
  <2>1. Msgs(<<h, g>>) = <<h.msg, g.msg>>
    BY DEF Msgs
  <2>2. <<h.msg, g.msg>> = Append(a, g.msg)
    OBVIOUS
  <2>3. a \in Seq(Carried) /\ g.msg \in Carried
    <3>1. h.msg \in Carried /\ g.msg \in Carried
      BY DEF Handler, Carried
    <3> QED
      BY <3>1
  <2>4. Count(a, m) = One(h.msg, m)
    BY CountOne DEF One
  <2> HIDE DEF a
  <2>5. Count(Append(a, g.msg), m) = Count(a, m) + One(g.msg, m)
    BY <2>3, CountAppend DEF One
  <2>6. Count(Msgs(<<h, g>>), m) = Count(Append(a, g.msg), m)
    BY <2>1, <2>2, Zenon
  <2> QED
    BY <2>4, <2>5, <2>6
<1>6. One(r.msg, m) = 0
  BY <1>1, SenderAssumption DEF One
<1>7. One(d.msg, m) \in Nat
  BY DEF One
<1>8. CASE SendDue(s)
  <2>1. d \in Handler
    BY <1>2, <1>8
  <2>2. Count(Msgs(<<r, d>>), m) = One(d.msg, m) /\ Count(Msgs(<<d, r>>), m) = One(d.msg, m)
    BY <1>1, <1>5, <1>6, <1>7, <2>1
  <2>3. Count(Msgs(<<d>>), m) = One(d.msg, m)
    BY <1>4, <2>1
  <2>4. hs \in {<<r, d>>, <<d, r>>, <<d>>}
    BY <1>3, <1>8
  <2> QED
    BY <1>2, <1>8, <2>2, <2>3, <2>4
<1>9. CASE ~SendDue(s)
  <2>1. hs = <<r>>
    BY <1>3, <1>9
  <2> QED
    BY <1>1, <1>4, <1>6, <1>9, <2>1
<1> QED
  BY <1>8, <1>9

LEMMA ReactorPassKeeps ==
    ASSUME NEW s \in SenderType, NEW hs \in ExpiredWaits(s), NEW m \in Message
    PROVE  Balance(reactorPass(s, hs), m) = Count(HeldMessages(s), m)
<1> DEFINE e == event(s)
           t == reactorPass(s, hs)
           w == IF SendDue(s) THEN NoSend ELSE s.send
<1>1. /\ e \in SenderType /\ e.send = s.send /\ e.ready = s.ready
      /\ Balance(e, m) = Count(HeldMessages(s), m)
  BY Event, EventStarts
<1> HIDE DEF e
<1>2. /\ t.pending = e.pending /\ t.out = e.out /\ t.in = e.in
      /\ t.send = w /\ t.ready = s.ready \o hs
  BY <1>1 DEF reactorPass, SenderType, e
<1> HIDE DEF t
<1>3. hs \in Seq(Handler) /\ s.ready \in Seq(Handler)
  BY ExpiredWaitsType DEF SenderType
<1>4. Count(Msgs(t.ready), m) = Count(Msgs(s.ready), m) + Count(Msgs(hs), m)
  <2> DEFINE a == Msgs(s.ready)
             b == Msgs(hs)
  <2>1. Msgs(t.ready) = a \o b
    BY <1>2, <1>3, MsgsOfConcat
  <2>2. a \in Seq(Carried) /\ b \in Seq(Carried)
    BY <1>3, MsgsType
  <2> HIDE DEF a, b
  <2>3. Count(a \o b, m) = Count(a, m) + Count(b, m)
    BY <2>2, CountConcat
  <2> QED
    BY <2>1, <2>3 DEF a, b
<1>5. Delayed(w, m) + Count(Msgs(hs), m) = Delayed(s.send, m)
  <2>1. Delayed(s.send, m) \in Nat
    BY CountTypes
  <2>2. Count(Msgs(hs), m) = IF SendDue(s) THEN Delayed(s.send, m) ELSE 0
    BY ExpiredWaitsCarry
  <2>3. CASE SendDue(s)
    BY <2>1, <2>2, <2>3 DEF Delayed, NoSend
  <2>4. CASE ~SendDue(s)
    BY <2>1, <2>2, <2>4
  <2> QED
    BY <2>3, <2>4
<1>6. Balance(t, m) = Balance(e, m)
  <2>1. Balance(t, m) = Count(e.pending, m) + Delayed(w, m)
                         + (Count(Msgs(s.ready), m) + Count(Msgs(hs), m))
                         + Count(e.out, m) - Count(e.in, m)
    BY <1>2, <1>4 DEF Balance
  <2>2. Balance(e, m) = Count(e.pending, m) + Delayed(s.send, m) + Count(Msgs(s.ready), m)
                         + Count(e.out, m) - Count(e.in, m)
    BY <1>1 DEF Balance
  <2>3. /\ Count(e.pending, m) \in Nat /\ Count(Msgs(s.ready), m) \in Nat
        /\ Count(e.out, m) \in Nat /\ Count(e.in, m) \in Nat
    BY <1>1, CountTypes
  <2>4. Delayed(w, m) \in Nat /\ Count(Msgs(hs), m) \in Nat
    <3>1. Msgs(hs) \in Seq(Carried)
      BY <1>3, MsgsType
    <3> QED
      BY <3>1, OccursFinite DEF Delayed, One
  <2> HIDE DEF w
  <2> QED
    BY <1>5, <2>1, <2>2, <2>3, <2>4
<1> QED
  BY <1>1, <1>6 DEF t

LEMMA ElapseKeeps ==
    ASSUME NEW s \in SenderType, NEW m
    PROVE  Balance(elapse(s), m) = Count(HeldMessages(s), m)
<1> DEFINE e == event(s)
           t == elapse(s)
<1>1. e \in SenderType /\ e.send = s.send /\ Balance(e, m) = Count(HeldMessages(s), m)
  BY Event, EventStarts
<1>2. /\ t.pending = e.pending /\ t.ready = e.ready /\ t.out = e.out /\ t.in = e.in
      /\ t.send = [s.send EXCEPT !.left = Less(s.send.left)]
  BY DEF elapse, event, SenderType
<1>3. t.send.on = s.send.on /\ t.send.msg = s.send.msg
  BY <1>2 DEF SenderType, SendTimer
<1> HIDE DEF e, t
<1> QED
  BY <1>1, <1>2, <1>3 DEF Balance, Delayed, t

-----------------------------------------------------------------------------
(* The specification *)

IInv == TypeOK /\ Alive(sender)

\* What a client posts is a sequence of messages.
LEMMA BurstType == \A c : Burst(c) \subseteq Seq(Message)
BY BoundAssumption DEF Burst

LEMMA PostedType == Posted \subseteq Seq(Message)
<1>1. << >> \in Seq(Message)
  OBVIOUS
<1> QED
  BY <1>1, BurstType DEF Posted

\* The inductive invariant holds initially.
LEMMA InitIInv == Init => IInv
<1> SUFFICES ASSUME Init PROVE IInv
  OBVIOUS
<1>1. IdleSender \in SenderType
  <2>1. << >> \in Seq(Message) /\ << >> \in Seq(Handler)
    OBVIOUS
  <2>2. NoWait \in ResponseTimer /\ NoSend \in SendTimer
    BY SenderAssumption DEF NoWait, NoSend, ResponseTimer, SendTimer, Ticks
  <2>3. [a \in Addr |-> LongAgo] \in [Addr -> Age]
    BY SenderAssumption DEF LongAgo, Age
  <2> QED
    BY <2>1, <2>2, <2>3 DEF IdleSender, SenderType
<1> QED
  BY <1>1 DEF Init, IInv, TypeOK, Alive, IdleSender

\* Every action preserves the inductive invariant.
LEMMA NextIInv == IInv /\ [Next]_sender => IInv'
<1> SUFFICES ASSUME IInv, [Next]_sender PROVE IInv'
  OBVIOUS
<1> USE DEF IInv, TypeOK
<1>1. event(sender) \in SenderType /\ Alive(event(sender))
  BY Event DEF Alive, Armed
<1>2. CASE SendMessage
  <2>1. PICK c \in Client : \E ms \in Burst(c) : sender' = sendMessage(event(sender), ms)
    BY <1>2 DEF SendMessage
  <2>2. PICK ms \in Seq(Message) : sender' = sendMessage(event(sender), ms)
    BY <2>1, BurstType
  <2> QED
    BY <1>1, <2>1, <2>2, SendMessages
<1>3. CASE PcMessage
  <2>1. PICK a \in Addr \ WriteAddr, ms \in Posted : sender' = handlePcMessage(event(sender), a, ms)
    BY <1>3 DEF PcMessage
  <2> QED
    BY <1>1, <2>1, PostedType, HandlePcMessage
<1>4. CASE Reactor
  BY <1>4, ReactorPass DEF Reactor
<1>5. CASE RunHandler
  <2>1. PICK ms \in IF HandlerCallsClient(sender) THEN Posted ELSE {<< >>} :
           sender' = runHandler(sender, ms)
    BY <1>5 DEF RunHandler
  <2>2. ms \in Seq(Message)
    <3>1. << >> \in Seq(Message)
      OBVIOUS
    <3> QED
      BY <3>1, PostedType
  <2>3. sender.ready # << >>
    BY <1>5 DEF RunHandler
  <2> QED
    BY <2>1, <2>2, <2>3, RunHandlerLemma
<1>6. CASE Tick
  BY <1>6, Elapse DEF Tick
<1>7. CASE UNCHANGED sender
  BY <1>7 DEF Alive, Armed
<1> QED
  BY <1>2, <1>3, <1>4, <1>5, <1>6, <1>7 DEF Next

\* Whatever clients and bus do, the members of EmsCommandSender keep their
\* types; in particular a queued doSendMessage always has its message.
THEOREM TypeCorrect == Spec => []TypeOK
<1>1. IInv => TypeOK
  BY DEF IInv
<1> QED
  BY <1>1, InitIInv, NextIInv, PTL DEF Spec

\* No request is ever queued behind an idle sender.
THEOREM NeverStranded == Spec => []NoStrandedRequest
<1>1. IInv => NoStrandedRequest
  BY DEF IInv, Alive, NoStrandedRequest
<1> QED
  BY <1>1, InitIInv, NextIInv, PTL DEF Spec

\* The turn of the current client always has something that will end it.
THEOREM AlwaysWakeup == Spec => []CurrentHasWakeup
<1>1. IInv => CurrentHasWakeup
  BY DEF IInv, Alive, Armed, CurrentHasWakeup
<1> QED
  BY <1>1, InitIInv, NextIInv, PTL DEF Spec

\* A step's books balance for every message.
LEMMA NextKeepsBalance ==
    ASSUME IInv, Next, NEW m \in Message
    PROVE  Balance(sender', m) = Count(HeldMessages(sender), m)
<1> USE DEF IInv, TypeOK
<1>1. event(sender) \in SenderType /\ Balance(event(sender), m) = Count(HeldMessages(sender), m)
  BY Event, EventStarts
<1>2. CASE SendMessage
  <2>1. PICK c \in Client : \E ms \in Burst(c) : sender' = sendMessage(event(sender), ms)
    BY <1>2 DEF SendMessage
  <2>2. PICK ms \in Seq(Message) : sender' = sendMessage(event(sender), ms)
    BY <2>1, BurstType
  <2> QED
    BY <1>1, <2>2, SendMessagesKeeps
<1>3. CASE PcMessage
  <2>1. PICK a \in Addr \ WriteAddr, ms \in Posted : sender' = handlePcMessage(event(sender), a, ms)
    BY <1>3 DEF PcMessage
  <2> QED
    BY <1>1, <2>1, PostedType, HandlePcMessageKeeps
<1>4. CASE Reactor
  BY <1>4, ReactorPassKeeps DEF Reactor
<1>5. CASE RunHandler
  <2>1. PICK ms \in IF HandlerCallsClient(sender) THEN Posted ELSE {<< >>} :
           sender' = runHandler(sender, ms)
    BY <1>5 DEF RunHandler
  <2>2. ms \in Seq(Message)
    <3>1. << >> \in Seq(Message)
      OBVIOUS
    <3> QED
      BY <3>1, PostedType
  <2>3. sender.ready # << >>
    BY <1>5 DEF RunHandler
  <2> QED
    BY <2>1, <2>2, <2>3, RunHandlerKeeps
<1>6. CASE Tick
  BY <1>6, ElapseKeeps DEF Tick
<1> QED
  BY <1>2, <1>3, <1>4, <1>5, <1>6 DEF Next

Kept ==
    \A m \in Message :
        Count(HeldMessages(sender'), m) + Count(sender'.out, m)
      = Count(HeldMessages(sender), m) + Count(sender'.in, m)

LEMMA NextSendsOnce == IInv /\ IInv' /\ [Next]_sender => [Kept]_sender
<1> SUFFICES ASSUME IInv, IInv', Next, NEW m \in Message
             PROVE  Count(HeldMessages(sender'), m) + Count(sender'.out, m)
                  = Count(HeldMessages(sender), m) + Count(sender'.in, m)
  BY DEF Kept
<1> DEFINE t == sender'
<1>1. t \in SenderType /\ sender \in SenderType
  BY DEF IInv, TypeOK
<1>2. Balance(t, m) = Count(HeldMessages(sender), m)
  BY NextKeepsBalance
<1> HIDE DEF t
<1>3. Count(HeldMessages(t), m)
        = Count(t.pending, m) + Delayed(t.send, m) + Count(Msgs(t.ready), m)
  BY <1>1, CountHeld
<1>4. Count(HeldMessages(t), m) + Count(t.out, m) = Count(HeldMessages(sender), m) + Count(t.in, m)
  BY <1>1, <1>2, <1>3, CountTypes DEF Balance
<1> QED
  BY <1>4 DEF t

\* Every message accepted is given to sendMessageImpl exactly once, or is still
\* held: aborting the wait of m_sendTimer, and advancing twice after a write,
\* neither lose nor repeat one.
THEOREM SentExactlyOnce == Spec => EachMessageSentOnce
BY InitIInv, NextIInv, NextSendsOnce, PTL DEF Spec, EachMessageSentOnce, Kept
=============================================================================
