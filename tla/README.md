# TLA+ verification of GRANIT

GRANIT is a set of C++/Qt programs and libraries for air traffic control
centres.  This directory holds TLA+ models of its protocol and process-control
core, the TLC configurations that check them, and TLAPS proofs.  Everything is
translated from the code under `src/`; `PROJECT.json` names, for every
definition, the lines it stands for.

## 1. Inventory

`src/3rdparty` is vendored.  `src/common` holds the libraries, `src/supervisor`
the process supervisor (server, GUI, monitor) and `src/snmp` the SNMP agents.

| Part | State it keeps | Operations and interactions | What is hard |
|---|---|---|---|
| BATAP session layer (`common/sita/batap/Batap`) | stopped and held flags, serial counter, pending messages with a timer and a retry counter each, serials to acknowledge | `send`, entry timers, grouped IMA acks, hold and resume of the peer, newMessage; on top of Matip | serials wrap, acks carry serials only, timers race acks, failures |
| BATAP producer and Redis queue (`common/sita/batap`) | a request-on-its-way flag, serial to key map; the Redis list | slots on Batap's and the storage's signals; queued calls into the storage thread | wakeups, stale key sets, Redis errors, reconnection |
| MATIP framing and session (`common/sita/matip`) | connection state, bytes of the message still to read, query counter, input queue | open, confirm, refuse, close, data, hold, resume, status query; the TCP socket; a timer | segmentation of the stream, timeouts racing answers, early returns |
| SITA connection (`common/sita/SitaConnection`) | the Matip and Batap objects of one socket | accept, refuse, close, socket loss, session end | who reports the end of a session, and how often |
| Pulsar (`common/pulsar`) | active flag, start time, timers | status broadcasts, activation requests, election by time-out | two active nodes, lost datagrams, clocks |
| PulsReceiver (`common/pulsar`) | the master it follows | status datagrams, master-lost timers | a dead master behind a live slave |
| Supervisor process control (`supervisor/server`) | one controller per process; restart flags, intervals, database checker threads | start, stop, restart, crash of a process, database check, restart back-off, groups, clients | stop racing a restart, threads that come too late |
| Supervisor request log (`RequestThread`) | a stack of requests, two mutexes | event threads push, one thread writes to the database | lost wakeups, stop before run, dropped requests |
| Supervisor client connections | subscriptions, controllers | commands of the GUI, broadcasts | commands while things change |
| Network, folder, SNMP, script controllers | state and a timer each | poll and report | few: sequential polling |
| AFTN client (`common/aftnclient`) | channel state, message numbers, queues, timers | send and receive telegrams, service messages | numbering across reconnects |
| LargeSocket (`common/largesocket`) | parts of the last block; input buffer, parts, a timer | framing of large blocks | partial blocks, disconnects, resent parts |
| TCP datagrams (`common/qttcpdatagramprotocol`) | buffer | framing of datagrams | early returns, header bounds |
| User server (`common/usersystem`) | users, groups, sessions | login, group changes | consistency of users and groups |
| Database connections (`common/dbconnectionsmanager`, `databasesubscriber`) | pool of connections, worker state | connect, fail over, subscribe | fail-over order |
| SNMP subagent, manager, client (`snmp`) | tables | AgentX calls of net-snmp | external library |
| OLDI, ping, qtatimer, settings, scriptrunner | small | one call at a time | sequential |
| Parsers and generated code (AFTN, AFN, ARINC, CPDLC ASN.1, coordinates, geographic engine), GUIs, monitor | none or presentation only | | pure data or display |

The core logic chosen first is the SITA stack: it is layered, stateful at both
ends of a connection, and loses money and messages when it is wrong.

## 2. Plan

Done, in the order in which it was done: the SITA stack (`Batap`,
`BatapMessageProducer`, `Matip`, `SitaConnection`) with the abstract
specifications `StoreAndForward` and `MessageChannel`; the pulsars (`Pulsar`,
`PulsReceiver`); the supervisor's control of processes (`DbConnThread`,
`ProcessController`, `Supervisor`); the AFTN client (`AftnClient`); the
database connections (`DbConnections`); `LargeSocket`; proofs about Batap,
Pulsar, DbConnections and Supervisor; then proofs about the producer, the
MATIP session, the receivers of pulsars, the AFTN client, LargeSocket and the
answers of the databases; last the bounded "eventually" of `PulsReceiver`.

Next, in this order:

1. The end of a `RequestThread` with its client, and its stack cut at 10000.
2. What the AFTN client sends: numbers, the queue of telegrams, `canSend`.
3. TCP datagrams, see section 7.
4. The Windows controllers as variants of `ProcessController`; the FDP, ADP,
   CWP and FMTP handlers above `PulsReceiver`.

The modules that come first are those where several timers, sockets, threads and
actors meet.  The number of runs is kept small on purpose: the properties of
one component share a run where the state space allows it.

## 3. Conventions

* One action per slot, operation or timer, with the name it has in the code.
  An action is one turn of an event loop: Qt runs slots of direct connections
  within the emitting call, so the reaction of a connected object is part of
  the same step.  Queued connections and threads get a sequence of calls.
* `signals` holds what the last step emitted; properties about reports look at
  it.
* Variables marked *history* exist for the properties only and guard nothing,
  except the counters that bound a run (`losses`, `crashes`, `requests`,
  `failovers`, `sessions`, `commands`, `outages`, `connections`, `said`).
* `Faulty...` operators are variants of the definition that follows them, with
  a plausible programming error.  No specification uses them; `PROJECT.json`
  pairs each with the property that must then fail.
* `MC*` modules declare model values and symmetry only.

## 4. Modules

### Batap

One direction of a session: the sending half of `Batap` here, the receiving
half of the peer's `Batap`, and the packets between their two `Matip`.  The
other direction shares no state with it.  `mPendingMessages` maps a serial to
text and retry counter, and counter 0 is an absent entry.  `timerEvent(id)` may
fire at any time while its entry exists: the configured time-outs are not
related to the delays of the network.  Of a text the code only asks whether it
is empty and whether it starts with `IMA`.  The peer's acknowledgements are
grouped in `peerSerialNumbers` until its timer sends an IMA.

`reused` records the serials that were given to a new message while a copy or
an acknowledgement of an earlier one was still around: an IMA names serials
only, so those are the ones whose acknowledgement means nothing, and the
delivery property says that they are the only ones.  `DropOnlyOnWrap` is about the
steps of `Batap` alone, hence over `batapVars`; the producer's reconnection drops a
session on purpose.

### BatapMessageProducer, StoreAndForward

The producer's slots are conjoined with the `Batap` steps that emit their
signals.  The storage runs in its own thread: `calls` is the queue of
invocations to it, `replies` the queue of its signals back, `queue` the Redis
list.  `failRequest` is a Redis command that fails and `expire` a message whose
text is gone from Redis.  `reconnect` replaces all objects of the session while
some of the old calls are still on their way to the storage thread, which
serves a list of the same name to the new producer.

`StoreAndForward` is what an application relies on: an accepted message is
stored until the peer has it, unless it was written off.  `KeepsMessages` is
that specification under the refinement mapping `stored <- ToSet(queue)`,
`got <- peerReceived`, `writtenOff <- expired \cup credited`.  `Without`, the list
after some keys were removed, is a recursive function, so that it can be proved about.

### Matip, MessageChannel

Both ends of the connection.  Bytes are modelled one by one with their role in
the packet (position in the header, or the text they belong to), because the
handler counts bytes and a miscount shows only so; the contents of the bytes
are not modelled.  `arrive` moves any number of bytes to the socket, `onReadyRead`
is one call of the handler, and `reading` keeps it going until it returns without
calling itself, as the code does.  `MessageChannel` is the abstract
specification of one direction.

### SitaConnection

The server's connection object over `Matip`, with the client left as any MATIP
client.  Its slots are part of the steps whose signals they are connected to
(`ServerSlots`).  `Batap` itself is reduced to not made, stopped, started, and to
writing to `Matip` (`batapWrites`).

### Pulsar

A group of hosts with a timed model: `tick` is one second, everything due in a
second happens before the next `tick`, in any order among hosts.  The constants
in the runs are those of the code: status every 2 s, time-out 7 s, 5 s and 20 s
of sleep in the handlers.  Qt serves sockets before timers, so a host that
wakes reads what arrived while it slept before an overdue timer fires: that is
`backlog`.  Within a tick a datagram may arrive before or after a timer of the
same tick.  The branches of `readyRead` are `yield`, `giveWay`, `stayMaster`,
`follow`, `takeOver` and `waitForOther`.

`activeFor` and `vacantFor` measure how long a host has been active and how long
the group has had none; `disturbed` says that an active host was taken from the
group on purpose (a crash, `deactivate`, an activation request), until one is
active again and nothing said before is still on its way.

`sendActivate` may lose its datagram at any host.  Two hosts may start at the
same time only when `DistinctTimes` is FALSE.  With equal start times both hosts
yield and the group stands still for 7 s; the properties do not hold then, and
both theorem and runs name the assumption.

### PulsReceiver

Extends `Pulsar` with the receivers of other machines: known master, its address, the
two timers, and `linkFails`, which changes the address a host is heard from.
`masterPing` grows without limit in the code and is compared with 3 only, so it is
capped at 4.

`silentFor`, `strangerFor` and `astrayFor` count the ticks in which a receiver shows a
master that nobody hears, does not know a single active host, or looks for the
master at an address it has left.  Each starts anew with the event that may cause the
state once more: a crash or request, an activation on request, the failure of a link
(`Disturbed`, `Activated`, `linkFails`).  Otherwise a link that fails
back and forth within a tick would keep `masterPing` from ever reaching its
limit, which the code knows nothing of.  An activation also makes a host
active beside another at any time, while one that takes over by time-out cannot have missed the
other for long.  Still, a host whose wait ends in the tick in which another
says for the first time that it is active may take over in that tick, say so,
and yield.  The receiver then follows the wrong one until the next status: that
is the second status in the bound of `MasterIsFound`.  A single request or link
failure does not bring these cases about, two or three do, which is beyond the bounds of
`receiver_safety`.  The properties were also checked once with two requests and nothing
lost (2.0 million states), a crash and two requests (3.4 million), and three
failures of links (118,287); in general the theorems of section 6 cover these cases.

### DbConnThread, ProcessController, Supervisor

Three layers of the supervisor's server.  `DbConnThread` has the threads that wait
for a database, of which one global mutex lets a single one run (`testing`);
`phase` is the state of the `QThread` and `isStopped` its flag.
`ProcessController` has a process, its restart timers (every end of a process
starts one more, hence a count of them) and the connection to its checker thread.
`Supervisor` adds the databases and processes of the active group and the commands.

An event of the main thread runs to its end before the next one, but `QThread::wait()`
inside it lets the checker threads go on.  `todo` is therefore the rest of the
current event: `start` of all processes is one `startService` after the other,
`stop` a `stopIfRunning` for each, and `finishStop` is what follows the wait
(`Continues`).  `posted` is the queue of calls between threads.  `on_databaseReady` is such
a call and starts the process without looking at `mIsStopped`
(ProcessController.cpp:150): `late` names the controllers for which one was queued
when they were stopped, and `StoppedStaysDown` says that these are the only ones
that come up after a stop.

The request thread has a stack and two mutexes: between finding the stack
empty and `wait()` it is "dozing", and an `add` then wakes nobody (RequestThread.cpp:70).
`missedWake` marks that, `SleepMeansDrained` says that no request waits otherwise.
`stale` marks an answer of an old round of database checks that was still queued
when the databases were checked anew.  Commands are the constant `Request`, a change
of the group is made by the main thread itself.  `Nobody`, the value of
`mActiveConnection` for a null pointer, is no database (`SupervisorAssumption`).

### AftnClient

The client's connection, authorization, reading and two timers, with any server
that keeps to the order of the protocol and may fall silent.  Bytes are modelled
as far as the client counts or searches: one byte of the reply, `InfoSize` of the
information, the text and the end mark of telegrams in two pieces, a ping.  A slot that
calls `disconnectFromHost()` or flushes in vain sees the socket close before it goes on
(aftnclient.cpp:361), so the timer is started on a closed connection: `broken` marks
that until the timer stops or fires, which may end the next connection.

`sent` holds all the server has said after the authorization and `got` all that
`messages()` has passed on, both with the pings.  The client drops a ping only when it
is all there is in the buffer (aftnclient.cpp:406).  One that shares a segment with other bytes is
passed on among them, for the removal in line 412 is commented out, and two pings in one
segment are a message.  So `TelegramsArrive` compares the two but for their pings: `Pingless`,
a recursive function of the property and not of the client, leaves these out on
both sides.  What it says of telegrams is that their bytes come in order, once, and
without bytes of the authorization.  It does not say that a message is free of pings.

What holds by no means, and is no property: a server that never says anything is
never given up, for the timers start with the first bytes; a telegram whose mark
comes in two segments is passed on later but not confirmed.

### DbConnections

The worker with its thread, the manager's default connection in the main
thread, and the subscriber.  `posted` is the queue between them.  `removeDb` closes
the default connection from the worker's thread, while the main thread may still
have an `onConnected` for it.  `onTimer` opens and tests a connection of its own; `succeeds`
and `fails` are its branches.  `overlooked` marks an outage that began and ended
between two looks.  The worker is taken to stop within the 5 s that `stop()` waits.

### LargeSocket

One direction of a connection; `clientSends` says in which role.  The client
keeps its `LargeSocket` when it connects again, with the sender's parts and
the receiver's buffer; the server gets new ones.  Words of four bytes are
modelled: two of signature, four of header, and data; a segment may end after
any word.  A word read as a number at the wrong place is `Huge` when it is part of a
signature, and either 0 or `Huge` when it is data (`NumberOf`).

`leftovers` counts connections that ended with unread bytes in a client's
receiver.  Afterwards the packet that was cut takes its missing words from the next
connection, whatever these are.  The words behind it are then read from the middle
of a packet: data may be taken for a header, a part without data may be glued to
parts of other blocks, and several blocks may be lost or spoilt before
a signature is where the receiver looks for it.  How many depends on the lengths,
not on the number of connections; `DamageEnds` says where the damage ends: a block
nobody wrote comes only after such a connection, only to a client, and not
once a block of the present connection has come through.  Or the
size is read from a signature, and the receiver waits for more bytes than will
ever come; this is why `BlocksArrive` is about connections with nothing left
behind.  `resent` names
the blocks whose first part `onConnected()` sends again: `parts` is emptied by
`sendNextPart()` only past the last part, which the loop of `writeData()` never
asks for.  A block of one part written before a reconnection therefore comes
twice; that is in `InOrder`.

## 5. Runs

| Run | Bounds | What it shows |
|---|---|---|
| `batap` | 2 serials, window 2, 2 messages of which one looks like an IMA, one packet each way, retry limit 2; 82,770 states | acknowledgements never credited to a message the peer has not got; the only silent loss is the wrap; every accepted message is settled |
| `producer_safety` | 2 messages, 2 serials, window 1, Redis errors, one reconnection | the window; one request at a time, no message twice in flight, acks credited to the right key, no lost wakeup but the named ones, refinement of `StoreAndForward` |
| `producer_live` | 3 messages, one that looks like an IMA; one reconnection; holds | the queue drains |
| `matip_framing` | header 2, lengths 0, 1 and 3, two messages, 5 bytes on the wire, one hold command, a query timer | both directions are message channels; a peer that answers is not timed out |
| `sita` | one message each way, the server's query timer, one query allowed, 5 bytes on the wire to an end | ends agree; the end of a session is reported, once; closes and messages get through |
| `pulsar_safety` | 3 hosts, one lost datagram, and one crash, request or deactivation | election |
| `receiver_safety` | 2 hosts, one receiver, one loss, one crash, one changed address | what the receiver reports |
| `supervisor` | 2 processes, one restartable with a database, 2 groups, one crash, one outage, two commands; 253,180 states | what is stopped stays down; requests are taken; databases answer before processes start; a restartable process comes back; the main thread returns |
| `supervisor_groups` | the same, one change of group, no crash or outage | violation, see section 8 |
| `aftn` | 3 connections, 3 telegrams or pings each, information of 2 bytes; 2,180 states | a connection leaves nothing behind; telegrams arrive, but for pings; silence is noticed |
| `dbconnections` | 3 servers, 2 names, 3 outages, 3 calls; 128,129 states | the default connection follows the worker, keeps its subscriptions and is opened again |
| `large_socket` | blocks of 6 and 7 words, packets of 6, so one and two parts; 3 blocks, 2 connections, 2 identifiers; 121,544 states | damage by a disconnection ends; blocks come in order, and do come |

Why the bounds are enough to be of interest.  Serials wrap with 2, which
takes 1000 messages in the code, and then reach one that is still pending; in
`producer_safety` the window of 1 is smaller than the number of serials, so
that it is the window that limits.  A retry limit of 2 covers the first copy, a
retry with PDM and giving up.  `MaxData` and `MaxControl` delay a sender and hide
no order, for the wire is first in, first out.  `MaxBytes` does the same to the
bytes of `Matip`; only the server of `sita` runs its query timer, for two ends that
both answered queries on full wires would wait for each other, which is a
property of the bound and not of a socket with its buffer.  Segments of 5 bytes over a header of 2
and texts up to 3 cut every packet at every place, with the next packet's
header in the same segment.  Three hosts are the least where two may yield to a
third; one lost datagram is the case the time-out of more than three periods is
chosen for.

Two groups of one process each, of which only one needs a database, are the least
in which a change of the group meets a process that waits; two commands allow
a stop and a start or restart in either order, in one stack, with a crash and an
outage around them.  One database means that `startNext()` goes from the first
to none; several in a row are not exercised.  Three outages over three servers
allow a whole round of fail-over that finds every server down once.  In `large_socket` identifiers
repeat after 2 blocks, which takes 2^32 - 1 in the code, and a disconnection may
leave any prefix of a packet.  A packet holds as many words of data as a header has, so
that data of one packet can be read as the header of another; with 2 words a
packet, which were tried first, that never happens and at most one block is spoilt for each
connection that left bytes.  The safety properties hold for blocks of 8 and 9
words over packets of 8, too.

Symmetry is used for interchangeable messages, hosts and addresses, in runs
without liveness properties only.

`CHECK_DEADLOCK FALSE` is said where the system may rightly stop: a connection
that is over (`Matip`, `SitaConnection`, `AftnClient`, `LargeSocket`), processes
that were stopped with no command left (`Supervisor`), or a worker that was stopped
(`DbConnections`).

### Fairness

* Event loops run: the handlers of packets, queued calls and replies are weakly
  fair.  Qt guarantees this for threads that return to their loop, which all of
  these do.
* Timers fire: strong fairness for the entry timers, `onReadyRead` and
  `sendImaMessage`, since a bound on the wire may disable them again and again, which
  the code knows nothing of.
* The network delivers what it does not lose with the connection (`arrive`).
* `SitaConnection`: a socket told to disconnect does so.
* Nothing is assumed of applications, peers' choices, holds, losses of the
  connection or Redis.
* `Drains` is about sessions that stay up and says so, and excludes the two
  events after which the code signals nothing (`missedWake`, `storageFailed`).
  A message without text is excluded as well: the producer takes it for "no
  message" and asks again.

Pulsar and PulsReceiver need no fairness: their "eventually" is bounded by ticks.

* `Supervisor`: the main thread's event loop, the request thread and threads that test a
  database go on (weak); a started process comes up or fails and a killed one ends
  (weak); a restart timer fires and a checker gets the mutex (strong, since commands and
  other threads disable them now and then).  Nothing is assumed of databases,
  crashes or commands.
* `AftnClient`: the answer time-out fires and a closing socket closes.  Nothing is
  assumed of the server or the network.
* `DbConnections`: the worker's timer fires and the main thread takes what is
  posted.  Nothing is assumed of the servers.
* `LargeSocket`: what arrived is read and the receiver's timer fires.  Nobody
  has to connect, write or stay connected.

## 6. Proofs

Every safety property of a passing run is a theorem for every value of the constants.  No
theorem assumes a bound of a run; where an
assumption goes beyond the types of the constants it is in the theorem.  Induction over
sequences is done on the set of lengths for which a fact holds (`LeastNatural`,
`NaturalsFromZero`), since the library's induction theorems are out of reach.

**Batap** (`BatapProof`), for every set of messages, number of serials, window and retry
limit and for wires of any length:

* `TypeCorrect`: `TypeOK`, the only type invariant stated apart, is inductive with `PendingHasMessage`, without which
  the reports would not be typed.
* `WindowHolds`: by the cardinality of `Pending`; every action but `send` shrinks
  or keeps it, and `send` is guarded by `isReadyForTransmission`.  A timer resends
  an entry that is pending already.
* `DeliveryCorrect`: `DeliveryInv` is the inductive strengthening of
  `DeliveredWasReceived`.  An acknowledgement means that the peer has the
  entry's message only because every copy on the wire is that message
  (`CopiesAreCurrent`), which a reused serial breaks, hence `reused`; and a new
  session starts with clean channels (`DownIsSilent`).
* `DropsAreReported`: what leaves `Pending` is acknowledged, reported as failed, or
  overwritten by `send`.  It assumes more than one serial: with a single one `send`
  overwrites its own serial without a wrap being seen.

Assumption: `BatapAssumption` (types of constants, the markers are no messages).

**Producer** (`BatapMessageProducerProof`), with the same generality, any number of
reconnections and Redis failures:

* `ProducerWindow`: every step of the producer is a step of `Batap`, a stutter of it, or a
  reconnection, which starts with nothing pending; the invariants of `Batap` carry over
  (`BatapInv`).
* `RequestsAreSingle`: requests and answers on their way are counted together
  (`Answered`); `mRunning` is up when there is one, and the handlers take one before
  they make one.
* `IdMapCorrect`: the message `Batap` has under a serial is the one the map names
  (`SentAreMapped`), no key is in the map twice, and neither a queued
  call nor an answer on its way is about a key that is in the map (`FreeCalls`,
  `FreeAnswers`), otherwise it could be sent twice.  The second half fails on purpose after a
  reconnection, which inherits calls of the old session (`inherited`).
* `NoMessageForgotten`: `KeepInv` says that every message ever accepted is
  stored, with the peer, or written off, and that the calls that remove keys are
  about those the peer has or that were written off.  Each step then maps to a
  step of `StoreAndForward` or a stutter.
* `NoWakeupLost`: `WakeInv` says of each state, not only of idle ones, what will
  move the producer: a call, an answer or a signal on its way that is not made
  useless by a removal queued behind it.

**MATIP session** (`SitaConnectionProof`), for any header, time-outs, query limits, lengths
of messages and capacities of the wire:

* `MessagesPass`, `SitaMessagesPass`: `IsMessageChannel`, below `SitaConnection` and without it.  A
  *track* of each direction lists all packets ever written with their place in the
  stream; `EndOK` ties an end to it: the bytes on the way are those of the
  packets not read yet (`Framed`), the texts among them are the next ones that
  were written (`Texts`), a message being read is a prefix of one of them
  (`Partial`), and an end that has stopped reading cannot go on (`Rested`).  A
  handler that miscounts a byte breaks `Framed` for good.
* `LivePeerKept`, `NoErrorReported`, `EndsStayAgreed`, `TimeoutsAreSilence`: `Control` counts
  the commands on the tracks.  Which are there depends on the states of both ends
  (`Opening`, `Opened`, `Closing`, `Fresh`), and queries and answers are matched against the
  counter of unanswered ones (`Queried`, `Asked`).
* These six assume `MessagesFit`: no message is as long as the length field can count.
  The code does not check that (Matip.cpp:169), and the theorem would be false
  without it.
* `EndsAreReported`: needs no framing.  `Reported` says how often the end has been
  reported in every state of the connection object and its `Matip`.

Assumption: `MatipAssumption`.

**Pulsar and PulsReceiver** (`PulsarProof`), for any number of hosts, all time constants and bounds:

* `YieldInvHolds`: if start times are distinct, then behind each status "1" on
  its way stands an active host that started no later than it says, unless the
  group is `disturbed`.
* `GroupStaysActive`: with distinct start times, a group with an active host
  keeps one through every step that does not take it away on purpose.  A host
  yields to a datagram of an older host; that host may have yielded itself by
  then, but by the invariant there is still one that started no later, and it is
  not the one that yields, for it started strictly earlier.  The invariant survives
  because whatever the yielding host stood behind is older than the host that
  remains.  The property is false without it: two hosts may yield to each other
  if a datagram speaks for nobody.
* `VacancyIsShort`: while the group is counted vacant, there is a host awake whose
  timer will run out in time (`HeirInv`); a "1" can only stop it if it comes from a host
  that is active or yielded to an active one (`FreshInv`).
* `SplitIsShort`, `UsurpersAreKnown`, `LossesAreReal`: `HearInv` bounds what a host has not heard of
  an active one.  Either the active host has been so for less than
  `Reach`, one period for each datagram lost and one more, or the host has heard it
  within that time, or has the datagram in its socket, be it behind a sleep.
  `NoticeInv` says the same of a receiver's timers.  They assume
  `TimeoutCoversLosses`: the code's 7 s over 2 s cover two losses, and the
  properties are false beyond.

The three that follow bound what a receiver does not know yet, for any number of hosts,
receivers, losses, crashes, requests and failures of links.  `ReceiverInv` collects what
they share.

* `MasterIsKnown`: `FoundInv` says of each active host that the last status "1" on its
  way to the receiver is its own (`Knows`), or its next status comes in time, each loss allowing
  one period more.  A status of somebody else undoes the first.  Then two hosts
  are active; either both have been for a tick, and the count has started
  anew, or one has just taken over.  It did so by time-out, and so (`HearInv`) has not
  heard the first for a time the losses explain: the count is less than
  `Reach` and one more period is enough.  The proof uses `TimeoutCoversLosses`, for otherwise
  `masterLosted` could take a live master away.
* `AddressIsKnown`: `AstrayInv` has two stages.  While `masterPing` is below its limit no
  status of the old address can reset it, for the master is not heard there any more, so
  every period of the timer counts; at the limit the next status of the master is believed,
  and comes within `Reach`.  Statuses of other hosts have other start times
  (`TimesName`, from `DistinctTimes`): they make the receiver change its master, and then it is not
  astray.  The losses need not be covered by the time-out here.
* `SilentMasterIsLeft`: `SilentInv` follows a silence through its stages.  With no host awake
  nothing restarts `masterLost` (`Deserted`); with one awake and none active the silence is
  at most the vacancy and one time-out (`Orphaned`, `VacancyInv`); with one active a status is
  on its way or will come in time (`Told`).  The last stage would be lost when the active host yields
  before it has said anything.  But what it yields to is from this tick
  and leaves an active host that started earlier (`Vouched`), with a whole period to spare.

Assumptions: `PulsarAssumption`, `ReceiverAssumption` for the theorems on receivers,
`DistinctTimes` for the election's theorems, `AddressIsKnown` and `SilentMasterIsLeft`,
`TimeoutCoversLosses` where it is named, and no passive hosts for all of these theorems from `SplitIsShort` on:
a passive master says "3", which restarts `masterLost` of a receiver but names no master.

**Supervisor** (`SupervisorProof`), for any processes, databases, groups and requests:

* `StoppedProcessStaysDown`: `StoppedStaysDown` is inductive with `StoppedIsUnlinked` (a
  stopped controller is disconnected from its checker), `QueueInv` (an answer
  queued for one that is disconnected counts as late), `FinishInv` (what `stop()`
  does after its wait follows at once, with the checker disconnected) and
  `LinkedIsChecked`.  Without `QueueInv` an answer nobody remembers could start the
  process; without `FinishInv` another call could come between the wait
  and the flag.
* `SleeperHasNothingToDo`: `SleepMeansDrained` with `RequestInv`, which says it of a
  worker that has found the stack empty and does not sleep yet, too.
* `ReadyIsAnswered`: no answer tells from which database it is, so the argument is that at any time
  only the database that is waited for is asked and that it answers once (`AnswerInv`).
  A change of the group stops every running database thread before it searches anew
  (`HaltInv`, over the rest of the event in `todo`).

All rest on `TypeInv`, with the calls that may be in `posted` and `todo` by name.
Assumptions: those of the three modules.

**AFTN client** (`AftnClientProof`), for an information of any size, any number of telegrams,
pings and connections, and any segmentation:

* `ConnectionsEndClean`: `EndIsClean` is inductive with the states a connection can be
  in (`StateOK`).
* `TelegramsPassedOn`: what is in the buffer and on the wire is what is due in the present state,
  then bytes that make up, with those passed on and but for pings, all that was sent
  (`Underway`); `Passing` has a case for each thing the server may have said so
  far.  A lone ping may be left out anywhere (`LonePingBetween`).

Assumption: `AftnAssumption`.

**DbConnections** (`DbConnectionsProof`), for any number of servers and names:

* `DefaultAlwaysServes`: `DefaultServes` follows from `WillFollow` (the last
  connection the main thread has opened, or will, is the one the worker found),
  `WillListen` and `Paired` (each opening is followed by the call that subscribes, in the
  same queue).  They make it hold although the worker removes the connection from
  its own thread: what the main thread takes from the queue before the last opening
  may be stale, what it takes last is not.

Assumption: `DbConnectionsAssumption`.

**LargeSocket** (`LargeSocketProof`), for packets and blocks of any length, any number of
identifiers and connections:

* `BlocksComeInOrder`: the parts kept, the buffer and the bytes on their way are one sequence
  of words (`Flow`).  The words of data in it are in the order of their blocks, each block's in its own
  order (`Rising`), whatever was cut out of it by disconnections, signature search
  and packets read at a wrong place.  They are behind the blocks that have come,
  or words of a block whose first part was sent again (`Ahead`).  A block that
  comes is taken from the flow with its first and last word, so it is behind all blocks
  before it and no word of it is left.  Identifiers play no part, which is why their
  starting again does no harm.
* `DamageIsOver`: `PlaceInv` says that the receiver is in its place or has lost it.  In its
  place (`InPlace`), what it has not read is a row of whole packets (`Train`, the last of
  which a broken connection may have cut), and the parts it keeps are those before the
  first of them or do not matter (`Fits`): every block that comes is one that
  was written.  Astray (`Astray`), it has a rest in front of the packets in which no
  block of this connection can begin (`Scrap`), and neither parts nor
  blocks of it yet.  The first word of a block is only the seventh of a packet
  (`StartOfBlock`); so when it takes data that begin with one, it reads at the
  beginning of a packet, and is in its place again (`StrewnStart`).

Assumption: `LargeSocketAssumption`.

**Only model-checked**: all liveness properties (`Settles`, `Drains`, `MessagesArrive`,
`CloseIsNoticed`, `ConnectionCloses`, `KeepsRunning`, `MainReturns`, `SilenceIsNoticed`,
`Reopens`, `BlocksArrive`), since liveness under fairness is out of the prover's reach.
`MasterIsFound` without `TimeoutCoversLosses` is open: the proof needs the condition, but TLC finds
no violation for two hosts with a period of 3, a time-out of 6, one loss and one crash
(4,687,698 states).  No module uses RECURSIVE.

## 7. What the models leave out

* Texts: BATAP trailers, MATIP codes of refusals and codings, the status texts
  and extra information of pulsars, and with them `masterIdentificator` of a
  pulsar, which decides on signals only.
* Pulsars: delays of more than a tick, other than behind a sleep; copies of a
  datagram on several interfaces; masks that do not match; datagrams "0" and "3"
  in the sockets of pulsars, which ignore them.  The runs have no passive hosts:
  a passive host that becomes active by time-out announces "3", nobody yields to
  it, and it is in the model (`Passive`) but not in the runs.
* `activatePulsar` is not told apart from `sendActivate`, whose datagram differs in
  the time, which nobody reads.
* Supervisor: the length of restart intervals (a timer fires at any time), log files,
  statuses and what is sent to clients, the end of a request thread, its stack cut
  at 10000, requests that only read.
* AFTN client: the texts and numbers of telegrams it sends, `canSend()`.
* Database connections: a worker that takes longer than 5 s to stop.
* LargeSocket: the server's receiver after its connection broke (its `LargeSocket`
  lives until the application deletes it); a write while connecting; data words
  that by chance are the size of something; the functions that only forward to the socket.
* TCP datagrams (`common/qttcpdatagramprotocol`), the next component without a
  module, have known behaviour of their own: the header is read once its first 36 bytes are
  there, so that a segment that ends in its last 8 loses data or yields an empty
  datagram, and whole datagrams followed by an incomplete one are announced late
  (qttcpdatagramprotocol.cpp:109).
* The components of the inventory not listed in section 4, with the reasons
  in `PROJECT.json`: parsers, generated and vendored code, GUIs and wrappers, which
  are most of the repository's lines, have no state that a step could spoil.

## 8. Findings

* `supervisor_groups`: a change of the active group stops the processes that are up
  and no other; one that waits for its database or its restart timer is
  launched afterwards, although its group is not active any more.

Seen while modelling, without a run of their own:

* `send()` overwrites the entry of a serial that is still pending (Batap.cpp:143); its message is neither
  delivered nor reported.  `DropOnlyOnWrap` shows that this is the only way to lose one silently.
* `timerEvent()` reports a failure with a text read from the entry it has just removed
  (Batap.cpp:81); the model reports any text.
* `writeMessage()` cuts the length of a long message to 16 bits (Matip.cpp:169).
* `LargeReceiver` may wait for ever after a broken connection, and a reconnected
  `LargeSender` sends the first part of an old block again (section 4).
