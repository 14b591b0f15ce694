# A verification of the EMS collector

The collector reads the bus of a Bosch/Buderus heating system through an
adapter, keeps the readings in a cache and a database, streams them to
subscribers, and sends the commands of API clients to the devices. The adapter
is a microcontroller whose firmware (the framer) turns telegrams of the bus into
frames on a serial line or a TCP connection. These modules model the parts that
keep state or take part in a protocol. Paths below are relative to `src/`.

## The system

| Component | State | Operations | Hard behaviours |
|---|---|---|---|
| Framer, `framer/main.c` | receive buffer, ring buffer, two positions | receive interrupt, main loop | an interrupt between any two steps of the main loop; the ring at its limit |
| Frame parser, `collector/IoHandler.cpp` | state, position, length, checksum, data | `readComplete`, `doClose` | noise, truncated frames, length 0 |
| Telegrams, `collector/EmsMessage.cpp` | none | the two constructors, `getSendData`, `handle` | parts of a page at any offset, two formats, requests heard as telegrams |
| Value cache, `collector/ValueCache.cpp` | map from value to last reading | `handleValue`, `outputValues` | values that come from several telegrams |
| Command scheduler, `collector/CommandScheduler.cpp` | queue, current client, two timers | `sendMessage`, `handlePcMessage`, two timer handlers | late and repeated answers, cancelled waits that run all the same, several clients |
| API parser, `collector/ApiCommandParser.cpp` | the request in progress, retries, test mode timer | `parse`, `onIncomingMessage`, `onTimeout`, `refreshTestMode` | commands of several requests, retries, timers |
| Command connections, `collector/CommandHandler.cpp` | open connections | accept, line, callbacks, close | a client that leaves while its request is queued, of which the sender keeps a plain pointer; overlapping writes |
| Sensor history, `collector/Database.cpp` | last row, last value and last write of each sensor; the tables | `connect`, `createTables`, `handleValue`, `addSensorValue` | each query may fail; restarts; a start that ends half-way |
| Names and formats, `collector/ValueApi.cpp` | none | `getTypeName`, `getSubTypeName`, `formatValue` | names that clients cannot tell apart |
| Connection to the adapter, `collector/TcpHandler.cpp` | socket, watchdog | connect, read, watchdog, `doClose` | a timeout racing with data, an adapter that goes silent |
| Main program, `collector/main.cpp`, `tools/ems-collector.init` | the restart loop, two signal sets, the wait | start, run, wait, end, `stop` | a signal racing with a restart; instances that start and stop around each other |
| Data connections, `collector/DataHandler.cpp` | subscribers | accept, broadcast, close | subscribers that vanish, several failed writes of one connection |
| Pid file, `collector/PidFile.cpp` | descriptor | acquire, write, destroy | a lock that `daemon()` loses; instances that remove each other's file |

Everything in the collector runs in one thread, the `io_service` loop that
`main()` runs: there are no data races, but completed timer waits are queued and
can no longer be recalled by `cancel()`, and every handler runs against whatever
the handlers before it left. The data flows framer -> frame parser ->
`EmsMessage::handle` -> cache, database and subscribers; a message addressed to
the collector goes on to `EmsCommandSender::handlePcMessage`, which calls the
current client back. Commands flow connection -> API parser -> scheduler ->
`sendMessageImpl`. `main()` owns all of this for the length of one connection to
the adapter: it builds the handler, binds the ports, runs the `io_service` until
the connection is closed, waits ten seconds on another `io_service`, and starts
over. The cache, the database and the pid file outlive the connection. Several
instances meet only at the pid file and the ports.

## The modules

| Module | Models | Notes |
|---|---|---|
| `EmsCommandSender` | `EmsCommandSender` | the object as a record, its functions as operators on it, the two timers and the `io_service` |
| `CommandScheduler` | its most general environment | clients may post at any time, a bus message may arrive at any time from any address |
| `ApiCommands` | the command handlers | a table from command to the requests it makes |
| `CommandApi` | API parser, connections, scheduler and bus together | extends `CommandScheduler` and `ApiCommands`; one record `api[c]` for each connection |
| `CommandService` | what a client is promised | abstract: one final line for every command, no line that is not due, also when others hang up |
| `FrameFormat` | the frame of the framer and the parser | |
| `FrameParser` | `IoHandler::readComplete` | one step for each byte |
| `Framer` | the firmware | an interrupt is one step; main loop in three steps |
| `FrameQueue` | a queue that loses nothing | abstract specification of `Framer` |
| `FrameLink` | framer and parser together | every byte written is read |
| `EmsValues` | `EmsMessage` | constructor, encoder, fields of all pages; no state |
| `ValueApi` | the names and formats of values | tables and operators; no state |
| `DatabaseSensors` | which value goes to which sensor | the tables of `Database::handleValue`; no state |
| `ValueCache` | `ValueCache` on a bus of devices | telegrams, requests of others, echoes; what `cache fetch` prints |
| `SensorHistory` | `Database` | each query fails or not, the process stops and starts |
| `PidFile` | the pid file and what the kernel keeps of it | operators on one record; no variables |
| `TcpHandler` | the connection, its watchdog and the `io_service` it is | operators on a record |
| `DataHandler` | a subscriber's connection | operators on a record |
| `Collector` | `main()`, for several instances | composes the three; the init script, signals, crashes and time |
| `CommandSchedulerProofs`, `CommandApiProofs` | | theorems about the scheduler, alone and among clients and devices |
| `FrameFormatProofs`, `FrameParserProofs`, `FramerProofs` | | lemmas about frames and checksums; theorems about the parser, the firmware and the two together |
| `ValueCacheProofs`, `SensorHistoryProofs`, `CollectorProofs` | | theorems about the component of that name |
| `MC*` | | instances for TLC |

How state and actions correspond to the code:

* In `EmsCommandSender` the fields `current`, `pending`, `resp`, `send`, `age`
  are `m_currentClient`, `m_pending`, `m_responseTimeout`, `m_sendTimer` and
  `m_lastCommTimes` (as the ticks since). `ready` is the queue of completed waits.
  A pass of the reactor moves expired waits there and comes only after the
  handlers queued by the pass before; a cancelled wait of `m_sendTimer` goes there
  too, because its handler has no error parameter. `in` and `out` record what the
  last event accepted and transmitted and serve the properties only.
* `CommandApi` keeps one record for each connection: `active` (`m_activeRequest`),
  the destination, type, offset, length and raw flag of the request in progress,
  the bytes received so far, the retries, the test mode timer (`test`) and its
  completed waits (`refresh`). `owed` counts commands minus final lines, and
  `wanted` the last test mode the client asked for; both are only for properties.
  The bus is the sequence of reads whose answer is outstanding. `open` are the
  connections that exist. When a client hangs up, `stopConnection` destroys its
  connection at once (`Leave`), but its requests stay queued with a plain pointer to
  it. What a callback through that pointer does is undefined, so `Outcomes` lets it do
  what it would have done, as long as it prints nothing, or nothing at all, and
  `StaleCallback` lets it end the process. A connection accepted later is one of the
  clients that has not given a command yet.
* In `Framer` the variable `queue` holds what was accepted and not yet sent, and is
  there for the refinement only.
* In `SensorHistory`, `rows[s]` are the rows of a sensor and `lastId[s]` is the index
  of the remembered row. `tables` counts the completed steps of `createTables`.
* In `ValueCache`, `memory` are the pages in the devices and `sent` is what the
  device held in a field when it was last sent. A value carries the C++ type it
  holds (`kind`), which decides how it is printed and what `boost::get` accepts.
* In `Collector`, `pc[p]` is where instance `p` is in `main()`, and `io[p]` the object
  that is both the `TcpHandler` and the `io_service` (while `p` waits, the local one).
  `io[p].ready` is the queue of completed operations; `Connects`, `Arrives`,
  `WatchdogDue` and `WaitTimer` are the reactor noticing one, the actions of
  `RunHandler` are the handlers. `cancel()` of the watchdog recalls nothing from the
  queue. Opening and locking the file are separate steps, as another process can come
  between. `quiet`, `silent`, `asked` and `met` record what the properties speak about:
  how long nothing was read, whether the adapter has gone silent, what became of a
  signal, and who was ever alive beside another instance or started between the kill
  and the rm of a stop. `script` is where `stop` of the init script is: it reads the
  file, signals the pid it read and removes the file in three steps, between which
  everything else may happen.

Operators marked "Mutant" are wrong variants of the definition that follows them.
They are used by no specification; each shows that one property notices one
plausible mistake.

## The runs

| Run | Shows |
|---|---|
| `scheduler` | No request is stranded behind an idle sender, a current client always has something that ends its turn, no message is lost or sent twice, every request is sent. Two clients, three messages. |
| `api_reads` | Two clients with read commands; one with reads, single writes and raw commands that may hang up; and a reader beside one that hangs up. Answers in time or never: no request is forgotten, answers reach the client that asked, a request keeps its distance from what was last exchanged with its address and a read also from a write to its device, and every command of a connection that stays gets exactly one final line (`Refines`, whose safety part refutes a second line and whose fairness a missing one). |
| `api_faults` | With late and lost answers, the test mode running and clients that hang up, the connections, open or destroyed, use the scheduler as `CommandScheduler` assumes (`UsesScheduler`), so its properties carry over. |
| `api_late` (violation) | A late answer takes the turn of the client that is current when it comes. |
| `api_mixed` (violation) | A read queued behind a write is skipped and its client stays busy for good. |
| `api_testmode` (violation) | `testmode off` within a second of `testmode on` switches the test mode on. |
| `frame_parser` | On every sequence of bytes: the data collected is that of the frame being read, and a message is made of a well-formed frame. |
| `frame_link` | The ring implements a queue that loses nothing; every accepted telegram becomes a message, in order and unchanged; nothing is left half-way. |
| `value_cache` | All pages, cut into telegrams in several ways: the cache holds what the devices sent; `cache fetch` with a value's name prints it and nothing else of that name (`FetchFindsIt`); the database reads every value as the type it has (`SensorsFitValues`); requests are encoded the way telegrams are read; numbers are in the range of their field. |
| `sensor_history` | The rows of a sensor never overlap, the remembered row is the last one, and the last stored value is the last row. |
| `sensor_tables` (violation) | An interrupted first start leaves a database without data tables that is taken for complete. |
| `collector` | Two instances around one pid file, one set of ports and an init script, and one instance with a subscriber: at most one serves; a run always has a wakeup; the pid file names a daemon that was always alone and did not start amid a stop; the watchdog closes only connections that were quiet for its time, and does close those; after a lost connection the collector comes back; a signal ends it; a subscriber that is gone is dropped. |

### Bounds

* `MinDistance`, `FakeDelay`, `RequestTimeout` are 1, 1 or 2, and 2 or 3 ticks: the
  real 100 ms, the delay of the made-up answer and 1000 ms in the same order. Only
  the order in which timers expire matters, and every interleaving with bus
  messages occurs.
* `MaxPending` and `MaxReady` bound the queue and the completed waits, and
  `MaxBurst` the messages of one handler. In `scheduler` the queue holds a message of
  each client and more. In `CommandApi` `MaxPending` is `Unbounded`, as no callback may
  be held back; `MaxQueue` bounds the queue when a command or a refresh of the test
  mode comes, `MaxBurst` is the longest table entry, and `MaxBus` bounds the unanswered
  reads. Late answers need no more than two.
* `MaxRequestRetries` is 2 for the 5 of the code: the last retry and one before it is
  all that `onTimeout` tells apart. `Scenarios` says which client gives which commands
  in one behaviour, and whether it may hang up; all behaviours of a run are about one
  of them.
* A byte of the frame runs has few values (`ByteSize`), enough for the sync bytes
  and others (two bits; in `frame_link` with payloads of up to two bytes); the length
  byte scales with it. The framer's ring holds 11 bytes:
  frames of several sizes, wrapped at every position, and a full ring.
* `value_cache` uses the real pages with two or three contents each, and parts that
  begin or end within fields. Pages have no key in common except the two error
  pages, which are looked at together.
* `sensor_history` has a sensor with the rate limit and one without, two values,
  three rows and three points in time: an insert, an extension and a change, each
  of which can fail, with a restart anywhere.
* `collector`: the watchdog's two minutes are 2 ticks, enough for data to come before,
  at and after its expiry; `Casts` are the instances of one behaviour, two without
  subscribers or one with. `MaxFailed` is 2: two failed writes of one connection are
  enough for one to come after the connection was erased. There are four files, so
  that one is free whatever the instances have open. An instance that
  has ended does not start again; the second one is its successor. One `stop` is
  under way at a time; it may begin again as soon as it has ended, and is not fair.

### Fairness

`CommandScheduler` and `CommandApi` assume that time passes, that the reactor
notices expired timers and that completed waits run: the `io_service` runs
everything that is queued. Nothing is assumed of clients, devices or the bus. A
device may never answer. In `Framer` the main loop goes on between interrupts. In
`FrameLink` the bytes written are also read. In `Collector`, `main()` goes on, what
is queued is handled, time passes, a connect ends one way or the other (the kernel
gives it up), and failed writes are noticed; data, signals and crashes come or do not.
`DeadSubscriberDropped` assumes in its statement that values keep coming, as nothing
else makes the collector write. `CommandService` asks for a final
line for every command. `api_testmode` refutes a safety property, `api_mixed` a
liveness property under this fairness.

## What is proved

For every value of the constants that satisfies the assumptions named below. Every
property of the passing runs that is an invariant or an action property is a theorem.

**The scheduler** (`CommandSchedulerProofs`). `TypeCorrect`, `NeverStranded` and
`AlwaysWakeup` by the invariant `TypeOK` and `Alive`: without a current client the
queue is empty, with one a timer is armed or a wait completed. It is shown for one
member function after the other (what `doSendMessage` arms, what
`continueWithNextRequest` leaves); a step of the specification then is a composition
of these lemmas. `SentExactlyOnce` counts: `Balance(s, m)` is how often `m` is held and
sent less how often it was accepted. Each member function keeps it, the aborted wait of
`m_sendTimer` included, which takes the finiteness of the places a message can be in.

**The command interface** (`CommandApiProofs`), in four parts.

1. For any scenarios, late and lost answers, the test mode, and clients that hang up:
   `ApiTypeCorrect` by `ApiIInv`, which says of each parser that its members are those of
   a request the commands of its client lead to (`Started`), that an active request is a
   message of its own with retries left, and that without one no final line is owed.
   From it `SenderUsedAsAssumed`: each step of `CommandApi` is a step of
   `CommandScheduler` or leaves the sender alone, for the callbacks post at most a burst
   of their own client's messages. So `ApiNeverStranded`, `ApiAlwaysWakeup` and
   `ApiSentExactlyOnce` follow from the theorems about the scheduler.
2. For clients that only read and devices that answer in time or not at all
   (`InTimeReads`, a condition on the scenario of the behaviour): `ReadsReachTheAsker`,
   `ReadsNotForgotten` and `ReadsSpaced` by `InTimeIInv`. It says that one thing happens
   at a time (`OneAtATime`: the current client's request waits in `m_sendTimer`, is about
   to be sent, is unanswered, or its timeout is about to be handled, and never two of
   these), that a parser asks for what its request still lacks, and that the active
   request of an open connection is in the queue or keeps the sender busy (`Served`).
   `ReadsSpaced` needs that nothing is written here, so that a device is only ever met at
   the address it answers from (`Rested`). Two of the three scenarios of `api_reads` satisfy `InTimeReads`; in the third there are
   writes, and part 4 is about it.
3. If, besides, commands of clients that may hang up make one request each
   (`OneRequestEach`, which the same two scenarios satisfy, one of them with a client
   that hangs up): `ReadsServedOnce`, the safety of `Refines`. The initial states are those
   of `CommandService`, and every step is one of its steps or a stutter. The service owes a
   client nothing or one line, and a line that is not owed leads to no state of it, so a
   command gets at most one final line, from its own connection, and the process ends only after a client
   hung up on an unanswered command. The invariant is `OnceIInv`: the sender holds at
   most one request of such a client, and only while the client's command is not
   answered, so a callback into a destroyed connection finds an unanswered command.
   It rests on what is queued in all, hence on what each callback posts (`TurnEnds`).
4. For a client on its own that also writes (`LoneClient`: the others give no commands, each
   of its commands makes one call and is finished by what becomes of it, and answers come
   in time or not at all; it and the others may hang up at any time):
   `LoneReachesTheAsker`, `LoneNotForgotten`, `LoneSpaced`, and `LoneServedOnce`, the
   safety of `Refines`. `LoneSpaced` says less of writes than of reads, as the code does:
   a write keeps its distance from what was last exchanged with its own address, a read
   also from the last write to its device. For the latter the invariant says how long ago
   the write was by the time its answer is made up (`Resting`). No device answers a write: the sender makes an answer up, which
   advances the queue once, and the handler then advances it once more. With a request
   in the queue the second advance passes over the one the first has just sent, which is
   what `api_mixed` shows. `LoneIInv` is the invariant that says why it is
   harmless here: the sender is at rest, or busy with the active request of the client
   and with nothing queued behind it (`Busy`); the made-up answer ends a command that
   posts nothing more, so that both advances find an empty queue. That the answer made
   up for a write is not an answer the devices still owe is in `LoneTurn`: after a write
   there is nothing on the bus. This holds in the third scenario of `api_reads`.

**Frames.** `FrameParserProofs`: `TypeCorrect` and `DataIsOfOneFrame`, inductive together,
and `MessagesAreFrames`, whose invariant `RInv` relates the parser's state to the bytes
read last. `FramerProofs`: `TypeCorrect` and `RingIsQueue` (with the main loop writing
only when something is queued; the arithmetic of positions that wrap is in lemmas of its
own), and `SafelyImplementsQueue`: each step of the framer is one of `FrameQueue`. Of the
two programs together, `LinkLeavesNothing` and `LinkDeliversInOrder` by `LInv`: the parser
is at the place of its current frame to which the bytes already transferred take it, so
that it is ready for a new frame whenever the ring is empty. Bytes may be of any size and
the checksum of any operation in place of the exclusive or; that the checksum is a byte
and that reading a frame computes what writing it computed are inductions over the data
(`FrameFormatProofs`).

**Values** (`ValueCacheProofs`), for any contents of the pages and any parts of them.
`OwnRequestsReadBack`: a request is read as what it was made from, in both formats.
`CacheIsFaithful` by `Faithful`, which says of each field in the cache that it has
the value it had when it was last sent and of each field sent that it is there; the
lemmas cut a telegram and a page at the same place, find each field in the part that
covers it (`PartReports`), and show that requests and echoes report nothing.
`TypeCorrect` by `SoundCache`: every value is one its field can have, also of the bytes
behind the end of a telegram that two handlers may read. `SensorsFit`: types agree with
the tables of `Database::handleValue`, and no two values share a sensor.
`ErrorPageShown`: what a whole error page leaves, whatever was there before.
`NamesFindValues` (`FetchFindsIt`): no two types share a name, no type has the word of a
subtype, each enumeration prints its states apart, and what is in the cache was reported
by a page (`SentReported`), hence has a name; so the words printed of a cached value
select it and nothing of another name.

**History** (`SensorHistoryProofs`). `HistoryInOrder`, `MemoryMatchesTables` and
`StoredIsLast`. The invariant adds that no row ends in the future, which is what makes a
new row follow the last one; its first part is `TypeCorrect`.

**Main program** (`CollectorProofs`). `ServesAlone` by `PortHeld` (whoever runs or waits
holds the ports); `NeverHangs` by `Awake` (every handler leaves a connect, an armed
watchdog, a queued handler that will see to it, or a stopped `io_service`); the action
property `KeepsLivelyLinks` by `Lively` (an armed watchdog has as much time left as is
missing to two quiet minutes, an expired one has none missing, since a queued expiry
cannot be recalled and a read may come behind it); `CanBeFound` by `Found` (an instance
that has met no other and did not start amid a removal of the file is the only one, its
file exists from `open()` on and names it from `write()` on, and no stop under way is
about to remove it); and `TypeCorrect`, which joins these invariants.

### Assumptions

`SenderAssumption` and `BoundAssumption` (addresses, clients, natural times and bounds),
`ApiAssumption` (addresses are bytes, sizes fit a byte, the answer to a write is made up
no earlier than `MinDistance` after it, as 200 ms are more than 100 ms,
`collector/CommandScheduler.cpp:52`, `.h:65`; the queue itself is not bounded), `ByteAssumption` (the
exclusive or of two bytes is a byte), `FramerAssumption` (sizes that fit the firmware's
`uint8_t`), `MaxDataAssumption`, `CacheAssumption`, `HistoryAssumption`,
`PidFileAssumption` (there is always a file nobody has open), `WatchdogAssumption`,
`DataAssumption` and `CastAssumption` say what the constants are. Three say more:

* `CommandAssumption`: scenarios consist of commands of the tables, and a read asks for
  at least one byte. `raw read` takes any length, and with 0 `startRequest` sends
  nothing, so that no final line ever comes and the client can go on
  (`collector/ApiCommandParser.cpp:493`, `:1204`).
* `PageAssumption`: a page is of one of the two devices, and its type has no fields on the
  other, as in the code.
* `ErrorPageAssumption`: an error page has whole records, with a code and a number or
  neither.

`InTimeReads`, which admits no writes, and `LoneClient` exclude raw reads that no answer
can match: one whose offset and length go beyond 255 has the offset of its later requests
taken modulo 256, which `onIncomingMessage` compares with the sum that is not, and one
whose target has bit 7 clear is sent to the address with the bit set, which answers never
have in common with the target (`collector/ApiCommandParser.cpp:788`, `:1208`).
That the address of a write is below 256, the other condition in `LoneClient`, is no
restriction: it is a `uint8_t` (`collector/ApiCommandParser.cpp:497`).

TLC evaluates each assumption in the runs.

## What is only model-checked

* Liveness under fairness: `EveryRequestSent`, `TelegramDelivered`,
  `DeadLinkIsLeft`, `KeepsTrying`, `StopsWhenAsked`, `DeadSubscriberDropped`, and the
  liveness of `Refines` and `ImplementsQueue`. The provers do not handle `ENABLED`.
* What the violation runs refute. No theorem speaks of `Refines` for writes among the
  commands of several clients, or in a command of several calls: `api_mixed` is a
  scenario of that kind in which a client is forgotten.
* Inductions over data are in the proofs in the form of a lemma about sets
  (`NatSetInduction`), as the provers cannot instantiate theorems that take an operator;
  it serves functions defined by recursion, not `RECURSIVE` operators, of which there
  are none.

## Where the code and its texts disagree

The four violation runs each check one sentence of the repository, quoted in
`PROJECT.json`. More was met that no text speaks about, or that no run of its own
shows. The handlers of the error page and the boiler monitor read `m_data` at absolute positions and report
wrong values for telegrams that do not start at offset 0
(`collector/EmsMessage.cpp:480`, `:524`), and an error page without records, such as
the request one device sends to another, replaces a reported error by OK
(`collector/EmsMessage.cpp:498`). `EmsValues` models both; `WholeErrorPageShown`
says what holds all the same. `RequestsSpaced` is checked where answers come in time or
not at all: a late answer that races with a timeout already queued makes the sender
arm `m_sendTimer` twice, and the aborted wait sends its message at once
(`collector/CommandScheduler.cpp:95`). It also says nothing of a write after an answer of
the same device: `m_lastCommTimes` is kept by address with bit 7
(`collector/CommandScheduler.cpp:28`, `:86`, `:112`), reads go to the address with the
bit set, which answers come from, and writes to the one without, so that `teststate` after
the answer to `checkmaintenanceneeded` goes out at once. A frame with length 0 keeps the parser in the
state `Data` until the connection is closed (`collector/IoHandler.cpp:88`); the framer
never sends one, and `frame_link` shows that nothing is left half-way then.

On telegrams. `README.md:12-16` describes the meaning of bit 7 the other way round from
what the collector sends: there a set bit stands for an answer or a write, but requests
to read are the ones sent with the bit set, and writes without it
(`collector/EmsMessage.cpp:183`, `:205`). A telegram heard in EMS+ format with bit 7 of its
destination set is taken as such from six bytes on, but the type of such a telegram ends
with the seventh: one of exactly six bytes is read past its end
(`collector/EmsMessage.cpp:160`, `:170`). The bus of `ValueCache` has no such telegram.

On clients that hang up. `Refines` promises a final line to those that stay, unless
the process ended, and that it does not end as long as nobody left with a command
unanswered. The latter holds for commands of one request: `uba unlockfault` and the
`requestdata` commands print their line or return with further requests queued
(`collector/ApiCommandParser.cpp:368`), so that a client that waits for its OK and
then closes the connection still leaves a dangling pointer in the queue. The timer
handler of the test mode captures the parser's `this` and ignores its error code
(`collector/ApiCommandParser.cpp:270`), so destroying the parser makes it run.

On the pid file and several instances. The comment "pidfile has been opened and
locked" (`collector/PidFile.cpp:45`) is not true when the lock was refused: an instance
that fails to start, because of the lock, the database or a port in use, removes the
file, also when it is that of the running daemon. The lock itself is lost in
`daemon()`, which forks after `aquire()`; what keeps two daemons apart is the ports,
both of which default to 0, that is, none (`collector/Options.cpp:38`). `restart` of the
init script starts the new instance as soon as the old one is signalled
(`tools/ems-collector.init:63`): it may find the ports taken and end, and the old
one, on its way out, removes the file of the new one. `stop` itself reads, signals and
removes in three commands (`tools/ems-collector.init:45-51`), the last "remove pidfile
that may be left stale" (`:50`): a daemon that ends at once may be followed by a successor
whose new file the `rm` then removes. `FileNamesTheDaemon` therefore
speaks of daemons that were never in company and did not start between the `kill` and the
`rm` of a stop. A signal that comes when the connection
has just been closed is dropped with the `io_service` (`StopsWhenAsked` names this
window), and while `main()` waits the acceptors of the finished run stay open, so
that clients connect and are not served.

On names. `EmsValue::Stoerung` is twice in the table of names, of which the map keeps
"failure"; "fault" is never printed. `StoerungsCode` and `StoerungsNummer` have no name,
so clients never see what the database stores.

## What is not modelled

* `printDescriptive` and the texts of answers: formatting. Characteristic curves and
  records of errors in `formatValue`: no handler reports one at this commit.
* Rejected command lines and the help texts; raw reads with an offset past 255.
* `Options`: read once.
* `SerialHandler`, `SendingSerialHandler`: the port's settings; bytes go the same way.
* `MqttAdapter`: needs an external library, and calls the constructor of
  `ApiCommandParser` with too few arguments to be built at this commit.
* `webpage/`, and `tools/` but for the init script: they read the database and draw graphs.
* The clock going back: `SensorHistory` stamps rows with a clock that only advances.
* A blocking write in `TcpHandler::sendMessageImpl`.
* Overlapping writes of one connection and the temporary buffer that `respond` hands
  to `async_write` (`collector/CommandHandler.h:82`): a line is printed in one step.
* The copy of the cache in `m_cacheCb` (`collector/IoHandler.cpp:37`): the accessor that
  would read it has no caller whose result is used.
* A collector in the foreground, without ports or with MQTT: `Collector` is the daemon
  with a TCP target and both ports.

## Plan

Done: command scheduler and API with connections that close, frames, values with
their names and sensors, history, the main program with its connection, subscribers
and pid file, and the theorems above. What is left, in this order:

1. The liveness of `Refines` reduced to the fairness of single actions, as far as steps
   without `ENABLED` go: a measure that each tick, pass and handler makes smaller.
2. The composition of `Collector` and `CommandApi`: what a lost connection to the adapter
   does to the commands under way. Today each is modelled for the length of one run
   of the `io_service`, after which all connections are closed.
3. Overlapping writes of a connection, if a socket's send buffer is modelled.
