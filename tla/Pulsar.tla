------------------------------- MODULE Pulsar -------------------------------
(***************************************************************************)
(* The pulsars of a group of hosts (src/common/pulsar): each broadcasts    *)
(* its status, one of them is active, and the others take over by time-out *)
(* or on request.  Time passes in ticks of a second; within a tick the     *)
(* hosts act in any order.  A datagram reaches a host within the tick it   *)
(* is sent in, before or after a timer of that tick fires, or not at all,  *)
(* and waits in the socket of a host whose thread sleeps.  Datagrams with  *)
(* status "0" and "3" are left out of the sockets of pulsars, which read   *)
(* them and do nothing; of the texts sent along only the start time is     *)
(* kept, and of the signals emitted none, nor masterIdentificator, which   *)
(* decides on signals only.  Of the copies that a host with several        *)
(* interfaces sends one is modelled: a second one changes nothing.         *)
(***************************************************************************)
EXTENDS Integers, Sequences, FiniteSets

CONSTANTS
  Node,             (* the hosts that run a PulsarPrivate                   *)
  Listener,         (* the hosts that run a PulsReceiverPrivate             *)
  Passive,          (* the nodes constructed with passive = true            *)
  Time,             (* start times, what a node is known and ranked by      *)
  NoTime,           (* the null QDateTime                                   *)
  DistinctTimes,    (* TRUE: no two nodes start in the same millisecond     *)
  SendTime,         (* mSendTime, 2 s                                       *)
  ReceiveTime,      (* mReceiveTime, 7 s                                    *)
  ActivateSleep,    (* 5 s                                                  *)
  DeactivateSleep,  (* 20 s                                                 *)
  MaxLosses,        (* bound: datagrams lost, counted per receiver          *)
  MaxCrashes,       (* bound: a crash needs fewer crashes and requests      *)
  MaxRequests       (* bound: an activation request or a deactivation needs *)
                    (* fewer crashes and requests                           *)

ASSUME PulsarAssumption ==
  /\ IsFiniteSet(Node) /\ IsFiniteSet(Listener)
  /\ Node \cap Listener = {}
  /\ Passive \subseteq Node
  /\ Time \subseteq Nat
  /\ NoTime \notin Time
  /\ DistinctTimes \in BOOLEAN
  /\ SendTime \in Nat \ {0}
  /\ ReceiveTime \in Nat
  /\ SendTime < ReceiveTime
  /\ ActivateSleep \in Nat
  /\ DeactivateSleep \in Nat
  /\ MaxLosses \in Nat /\ MaxCrashes \in Nat /\ MaxRequests \in Nat

VARIABLES
  up,                 (* the process of the node runs                       *)
  iam,                (* the node is the master, i.e. active                *)
  dateTime,           (* the node's start time                              *)
  waitTimeout,        (* ticks until becomeMaster(), or Idle                *)
  sendStatusTimeout,  (* ticks until sendStatus()                           *)
  asleep,             (* ticks the node's thread still sleeps               *)
  inbox,              (* datagrams on their way to each host or in its      *)
                      (* socket                                             *)
  backlog,            (* how many of them are there since an earlier tick   *)
  activeFor,          (* history: full ticks the node has been active, up   *)
                      (* to ReceiveTime                                     *)
  vacantFor,          (* history: ticks with a node awake and none active   *)
                      (* since the last crash or request                    *)
  disturbed,          (* history: an active node was crashed, deactivated   *)
                      (* or replaced on request, and what it said may still *)
                      (* be on its way                                      *)
  losses, crashes, requests   (* history: faults and requests so far        *)

timers     == <<waitTimeout, sendStatusTimeout, asleep>>
budgets    == <<losses, crashes, requests>>
nodeVars   == <<up, iam, dateTime, timers>>
pulsarVars == <<nodeVars, inbox, backlog, activeFor, vacantFor, disturbed,
                budgets>>

Host == Node \cup Listener
Idle == -1

Datagram == [status: {"0", "1", "2", "3"}, from: Node, time: Time]

InFlight == UNION {{inbox[h][i] : i \in DOMAIN inbox[h]} : h \in Host}

Active == {n \in Node : up[n] /\ iam[n]}
Awake  == {n \in Node : up[n] /\ asleep[n] = 0}

(* No node runs yet. *)
Init ==
  /\ up = [n \in Node |-> FALSE]
  /\ iam = [n \in Node |-> FALSE]
  /\ dateTime = [n \in Node |-> NoTime]
  /\ waitTimeout = [n \in Node |-> Idle]
  /\ sendStatusTimeout = [n \in Node |-> SendTime]
  /\ asleep = [n \in Node |-> 0]
  /\ inbox = [h \in Host |-> <<>>]
  /\ backlog = [n \in Node |-> 0]
  /\ activeFor = [n \in Node |-> 0]
  /\ vacantFor = 0
  /\ disturbed = FALSE
  /\ losses = 0 /\ crashes = 0 /\ requests = 0

----------------------------------------------------------------------------
(* Broadcasts. *)

Reads(h, datagram) ==
  IF h \in Listener THEN TRUE ELSE up[h] /\ datagram.status \in {"1", "2"}

(* broadcast(): every host that runs gets the datagram, the sender's host  *)
(* included, except those that lose it.                                    *)
broadcast(datagram, lost) ==
  /\ losses + Cardinality(lost) <= MaxLosses
  /\ losses' = losses + Cardinality(lost)
  /\ inbox' = [h \in Host |-> IF Reads(h, datagram) /\ h \notin lost
                                THEN Append(inbox[h], datagram)
                                ELSE inbox[h]]

(* The event loop serves the socket before the timers: what arrived while  *)
(* the thread slept is read before a timer that is overdue fires.          *)
ServesTimers(n) == n \in Awake /\ backlog[n] = 0

Status(n) == IF n \in Passive THEN "3" ELSE IF iam[n] THEN "1" ELSE "0"

sendStatus(n) ==
  /\ ServesTimers(n)
  /\ sendStatusTimeout[n] = 0
  /\ sendStatusTimeout' = [sendStatusTimeout EXCEPT ![n] = SendTime]
  /\ \E lost \in SUBSET (Host \ {n}) :
       broadcast([status |-> Status(n), from |-> n, time |-> dateTime[n]],
                 lost)
  /\ UNCHANGED <<up, iam, dateTime, waitTimeout, asleep,
                 backlog, activeFor, vacantFor, disturbed,
                 crashes, requests>>

(* sendActivate(), and activatePulsar() of a receiver on any host: "2" with *)
(* the address of n, sent to all hosts.  Its time is of no use to them.    *)
sendActivate(n) ==
  /\ crashes + requests < MaxRequests
  /\ dateTime[n] # NoTime
  /\ requests' = requests + 1
  /\ \E lost \in SUBSET Host :
       broadcast([status |-> "2", from |-> n, time |-> dateTime[n]], lost)
  /\ UNCHANGED <<nodeVars, backlog, activeFor, vacantFor, disturbed,
                 crashes>>

----------------------------------------------------------------------------
(* The timers and the life of a node. *)

start(n) ==
  /\ ~ up[n]
  /\ \E t \in Time :
       /\ DistinctTimes => /\ \A m \in Node : dateTime[m] # t
                            /\ \A d \in InFlight : d.time # t
       /\ dateTime' = [dateTime EXCEPT ![n] = t]
  /\ up' = [up EXCEPT ![n] = TRUE]
  /\ iam' = [iam EXCEPT ![n] = FALSE]
  /\ waitTimeout' = [waitTimeout EXCEPT ![n] = ReceiveTime]
  /\ sendStatusTimeout' = [sendStatusTimeout EXCEPT ![n] = SendTime]
  /\ asleep' = [asleep EXCEPT ![n] = 0]
  /\ UNCHANGED <<inbox, backlog, activeFor, vacantFor, disturbed, budgets>>

crash(n) ==
  /\ up[n]
  /\ crashes + requests < MaxCrashes
  /\ crashes' = crashes + 1
  /\ up' = [up EXCEPT ![n] = FALSE]
  /\ iam' = [iam EXCEPT ![n] = FALSE]
  /\ waitTimeout' = [waitTimeout EXCEPT ![n] = Idle]
  /\ sendStatusTimeout' = [sendStatusTimeout EXCEPT ![n] = SendTime]
  /\ asleep' = [asleep EXCEPT ![n] = 0]
  /\ inbox' = [inbox EXCEPT ![n] = <<>>]
  /\ backlog' = [backlog EXCEPT ![n] = 0]
  /\ activeFor' = [activeFor EXCEPT ![n] = 0]
  /\ disturbed' = (disturbed \/ n \in Active)
  /\ vacantFor' = 0
  /\ UNCHANGED <<dateTime, losses, requests>>

becomeMaster(n) ==
  /\ ServesTimers(n)
  /\ waitTimeout[n] = 0
  /\ waitTimeout' = [waitTimeout EXCEPT ![n] = Idle]
  /\ iam' = [iam EXCEPT ![n] = TRUE]
  /\ UNCHANGED <<up, dateTime, sendStatusTimeout, asleep,
                 inbox, backlog, activeFor, vacantFor,
                 disturbed, budgets>>

(* deactivate() starts the timer and then lets the thread sleep. *)
deactivate(n) ==
  /\ n \in Awake
  /\ crashes + requests < MaxRequests
  /\ requests' = requests + 1
  /\ iam' = [iam EXCEPT ![n] = FALSE]
  /\ waitTimeout' = [waitTimeout EXCEPT ![n] = ReceiveTime]
  /\ asleep' = [asleep EXCEPT ![n] = DeactivateSleep]
  /\ activeFor' = [activeFor EXCEPT ![n] = 0]
  /\ disturbed' = (disturbed \/ n \in Active)
  /\ vacantFor' = 0
  /\ UNCHANGED <<up, dateTime, sendStatusTimeout, inbox,
                 backlog, losses, crashes>>

----------------------------------------------------------------------------
(* readyRead(): what a node n does with the datagram d. *)

(* Faulty variant: an active node yields to any other. *)
FaultyOutranks(d, n) == d.from # n

(* Faulty variant: the test for its own datagrams is the wrong way round.  *)
FaultyRank(d, n) == d.from = n /\ d.time < dateTime[n]

(* The datagram is another node's, that started no later. *)
Outranks(d, n) == d.from # n /\ d.time <= dateTime[n]

(* Faulty variant: the timer of the new slave is not started. *)
FaultyYield(n, d) ==
  /\ iam[n] /\ d.status = "1" /\ Outranks(d, n)
  /\ iam' = [iam EXCEPT ![n] = FALSE]
  /\ activeFor' = [activeFor EXCEPT ![n] = 0]
  /\ UNCHANGED <<waitTimeout, asleep, vacantFor,
                 disturbed>>

yield(n, d) ==
  /\ iam[n] /\ d.status = "1" /\ Outranks(d, n)
  /\ iam' = [iam EXCEPT ![n] = FALSE]
  /\ waitTimeout' = [waitTimeout EXCEPT ![n] = ReceiveTime]
  /\ activeFor' = [activeFor EXCEPT ![n] = 0]
  /\ UNCHANGED <<asleep, vacantFor, disturbed>>

(* The active node is replaced on request: it sleeps in the handler, and   *)
(* only then starts its timer.                                             *)
giveWay(n, d) ==
  /\ iam[n] /\ d.status = "2" /\ d.from # n
  /\ iam' = [iam EXCEPT ![n] = FALSE]
  /\ asleep' = [asleep EXCEPT ![n] = ActivateSleep]
  /\ waitTimeout' = [waitTimeout EXCEPT ![n] = ActivateSleep + ReceiveTime]
  /\ activeFor' = [activeFor EXCEPT ![n] = 0]
  /\ disturbed' = TRUE
  /\ vacantFor' = 0

stayMaster(n, d) ==
  /\ iam[n]
  /\ d.status = "1" => ~ Outranks(d, n)
  /\ d.status = "2" => d.from = n
  /\ UNCHANGED <<iam, waitTimeout, asleep, activeFor,
                 vacantFor, disturbed>>

(* Faulty variant: the timer is not restarted. *)
FaultyFollow(n, d) ==
  /\ ~ iam[n] /\ d.status = "1"
  /\ UNCHANGED <<iam, waitTimeout, asleep, activeFor, vacantFor, disturbed>>

follow(n, d) ==
  /\ ~ iam[n] /\ d.status = "1"
  /\ waitTimeout' = [waitTimeout EXCEPT ![n] = ReceiveTime]
  /\ UNCHANGED <<iam, asleep, activeFor, vacantFor, disturbed>>

takeOver(n, d) ==
  /\ ~ iam[n] /\ d.status = "2" /\ d.from = n
  /\ iam' = [iam EXCEPT ![n] = TRUE]
  /\ waitTimeout' = [waitTimeout EXCEPT ![n] = Idle]
  /\ UNCHANGED <<asleep, activeFor, vacantFor, disturbed>>

waitForOther(n, d) ==
  /\ ~ iam[n] /\ d.status = "2" /\ d.from # n
  /\ waitTimeout' = [waitTimeout EXCEPT ![n] = ReceiveTime]
  /\ vacantFor' = 0
  /\ UNCHANGED <<iam, asleep, activeFor, disturbed>>

Less(n) == IF n > 0 THEN n - 1 ELSE n

readyRead(n) ==
  /\ n \in Awake
  /\ inbox[n] # <<>>
  /\ inbox' = [inbox EXCEPT ![n] = Tail(@)]
  /\ backlog' = [backlog EXCEPT ![n] = Less(@)]
  /\ LET d == Head(inbox[n])
     IN \/ yield(n, d) \/ giveWay(n, d) \/ stayMaster(n, d)
        \/ follow(n, d) \/ takeOver(n, d) \/ waitForOther(n, d)
  /\ UNCHANGED <<up, dateTime, sendStatusTimeout, budgets>>

----------------------------------------------------------------------------
(* Time. *)

More(n) == IF n < ReceiveTime THEN n + 1 ELSE n

(* Everything due is done before time goes on. *)
tick ==
  /\ \A n \in Awake : /\ inbox[n] = <<>>
                       /\ sendStatusTimeout[n] > 0
                       /\ waitTimeout[n] # 0
  /\ waitTimeout' = [n \in Node |-> Less(waitTimeout[n])]
  /\ sendStatusTimeout' =
       [n \in Node |-> IF up[n] THEN Less(sendStatusTimeout[n])
                                ELSE sendStatusTimeout[n]]
  /\ asleep' = [n \in Node |-> Less(asleep[n])]
  /\ backlog' = [n \in Node |-> Len(inbox[n])]
  /\ activeFor' =
       [n \in Node |-> IF n \in Active THEN More(activeFor[n]) ELSE 0]
  /\ vacantFor' = IF Active = {} /\ Awake # {} THEN vacantFor + 1 ELSE 0
  /\ disturbed' = (disturbed /\ (Active = {}
                                   \/ \E d \in InFlight : d.status = "1"))
  /\ UNCHANGED <<up, iam, dateTime, inbox, budgets>>

NodeStep(n) ==
  \/ start(n) \/ crash(n)
  \/ sendStatus(n) \/ sendActivate(n)
  \/ becomeMaster(n) \/ deactivate(n) \/ readyRead(n)

Next == tick \/ \E n \in Node : NodeStep(n)

Spec == Init /\ [][Next]_pulsarVars

----------------------------------------------------------------------------
(* Safety. *)

(* A node that yields leaves an active one behind: as long as none that    *)
(* was active crashes, is deactivated or is replaced on request, a group   *)
(* that has an active node keeps having one, however many nodes compete    *)
(* and whatever is still on its way (PulsarPrivate.cpp, the comparison of  *)
(* start times in readyRead).                                              *)
OneStaysActive ==
  [][Active # {} /\ ~ disturbed' => Active' # {}]_pulsarVars

(* Two nodes are not active side by side for ReceiveTime, also when a      *)
(* datagram is lost: one hears of the other and yields.                    *)
SplitHeals ==
  \A m, n \in Node :
    activeFor[m] = ReceiveTime /\ activeFor[n] = ReceiveTime => m = n

(* A group without an active node gets one within ReceiveTime, if no node  *)
(* crashes and no request restarts the timers.                             *)
VacancyEnds == vacantFor <= ReceiveTime

(* A node does not take over from a node that has been active for long     *)
(* enough for it to hear, also with a loss and behind a sleep.             *)
NoUsurper ==
  \A n \in Node :
    ServesTimers(n) /\ waitTimeout[n] = 0 =>
      \A m \in Node \ {n} : activeFor[m] < ReceiveTime

(* The strengthening that is inductive: no two nodes have one start time,  *)
(* nor does a datagram carry that of another node than its sender, and     *)
(* behind every "1" on its way stands an active node that started no       *)
(* later.                                                                  *)
TimesDiffer ==
  /\ \A m, n \in Node :
       m # n /\ dateTime[m] # NoTime => dateTime[m] # dateTime[n]
  /\ \A d \in InFlight : \A n \in Node \ {d.from} : d.time # dateTime[n]

Backed ==
  disturbed \/ \A d \in InFlight : d.status = "1" =>
                 \E n \in Active : dateTime[n] <= d.time

(* Nobody yields to a node that is no longer active.                       *)
YieldInv == DistinctTimes => TimesDiffer /\ Backed
=============================================================================
