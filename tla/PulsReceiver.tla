---------------------------- MODULE PulsReceiver ----------------------------
(***************************************************************************)
(* The receivers of the pulsars' datagrams: each tells its application     *)
(* which host is the master, where it is, and that it is lost.  A node     *)
(* broadcasts on all its interfaces; a receiver hears it from one address  *)
(* at a time, which changes when a link fails.                             *)
(***************************************************************************)
EXTENDS Pulsar

CONSTANTS
  Address,        (* the interfaces of a node                               *)
  NoPeer,         (* the null QHostAddress                                  *)
  MaxFailovers    (* bound: link failures                                   *)

ASSUME ReceiverAssumption ==
  /\ NoPeer \notin Node \X Address
  /\ MaxFailovers \in Nat

VARIABLES
  link,            (* the address a node is heard from                      *)
  knownMaster,     (* masterIdentificator of the receiver                   *)
  lastpeer,        (* the host and address of the last master reported      *)
  masterLost,      (* ticks until masterLosted(), or Idle                   *)
  masterPing,      (* ticks of masterPingTimer without the master           *)
  masterPingTimer, (* ticks until onMasterPingTimer(), or Idle              *)
  failovers,       (* history: link failures so far                         *)
  silentFor,       (* history: ticks that a master is shown and none heard, *)
                   (* since the last crash or request                       *)
  strangerFor,     (* history: ticks that one node is active and another,   *)
                   (* or none, is the known master, since a node was        *)
                   (* activated on request                                  *)
  astrayFor        (* history: ticks that the known master is active and    *)
                   (* heard from another address than lastpeer, since a     *)
                   (* link failed                                           *)

receiverVars == <<knownMaster, lastpeer, masterLost, masterPing,
                  masterPingTimer>>
pathVars     == <<link, failovers>>
watchVars    == <<silentFor, strangerFor, astrayFor>>
vars         == <<pulsarVars, receiverVars, pathVars, watchVars>>

PingLimit == 4    (* masterPing > 3 *)

ReceiverInit ==
  /\ Init
  /\ link \in {[n \in Node |-> x] : x \in Address}
  /\ knownMaster = [l \in Listener |-> NoTime]
  /\ lastpeer = [l \in Listener |-> NoPeer]
  /\ masterLost = [l \in Listener |-> ReceiveTime]
  /\ masterPing = [l \in Listener |-> 0]
  /\ masterPingTimer = [l \in Listener |-> Idle]
  /\ failovers = 0
  /\ silentFor = [l \in Listener |-> 0]
  /\ strangerFor = [l \in Listener |-> 0]
  /\ astrayFor = [l \in Listener |-> 0]

----------------------------------------------------------------------------
(* readyRead(): what a receiver l does with a datagram d from an address.  *)

(* Faulty variant: only the first master is noted. *)
FaultyNewMaster(l, d, peer) ==
  /\ d.status = "1"
  /\ knownMaster[l] # d.time
  /\ knownMaster' =
       [knownMaster EXCEPT ![l] = IF @ = NoTime THEN d.time ELSE @]
  /\ lastpeer' = [lastpeer EXCEPT ![l] = peer]
  /\ masterPing' = [masterPing EXCEPT ![l] = 0]
  /\ masterPingTimer' = [masterPingTimer EXCEPT ![l] = SendTime]

newMaster(l, d, peer) ==
  /\ d.status = "1"
  /\ knownMaster[l] # d.time
  /\ knownMaster' = [knownMaster EXCEPT ![l] = d.time]
  /\ lastpeer' = [lastpeer EXCEPT ![l] = peer]
  /\ masterPing' = [masterPing EXCEPT ![l] = 0]
  /\ masterPingTimer' = [masterPingTimer EXCEPT ![l] = SendTime]

sameAddress(l, d, peer) ==
  /\ d.status = "1"
  /\ knownMaster[l] = d.time
  /\ lastpeer[l] = peer
  /\ masterPing' = [masterPing EXCEPT ![l] = 0]
  /\ UNCHANGED <<knownMaster, lastpeer, masterPingTimer>>

(* Faulty variant: the counter is never large enough. *)
FaultyOtherAddress(l, d, peer) ==
  /\ d.status = "1"
  /\ knownMaster[l] = d.time
  /\ lastpeer[l] # peer
  /\ masterPing' = [masterPing EXCEPT ![l] = 0]
  /\ UNCHANGED <<knownMaster, lastpeer, masterPingTimer>>

(* The master is heard from another address: believed after a while only. *)
otherAddress(l, d, peer) ==
  /\ d.status = "1"
  /\ knownMaster[l] = d.time
  /\ lastpeer[l] # peer
  /\ IF masterPing[l] >= PingLimit
       THEN /\ lastpeer' = [lastpeer EXCEPT ![l] = peer]
            /\ masterPing' = [masterPing EXCEPT ![l] = 0]
       ELSE UNCHANGED <<lastpeer, masterPing>>
  /\ UNCHANGED <<knownMaster, masterPingTimer>>

statusOnly(l, d) ==
  /\ d.status # "1"
  /\ UNCHANGED <<knownMaster, lastpeer, masterPing, masterPingTimer>>

(* Faulty variants: masterLost is stopped and not started again, and it is *)
(* not restarted by a master that is known.                                *)
FaultyStopped(l, d) == IF d.status = "1" THEN Idle ELSE ReceiveTime
FaultyKept(l, d) ==
  IF d.status = "1" /\ knownMaster[l] = d.time THEN masterLost[l]
                                               ELSE ReceiveTime

(* masterLost is restarted by a datagram of any kind. *)
LostTimer(l, d) == ReceiveTime

receive(l) ==
  /\ inbox[l] # <<>>
  /\ inbox' = [inbox EXCEPT ![l] = Tail(@)]
  /\ LET d    == Head(inbox[l])
         peer == <<d.from, link[d.from]>>
     IN /\ \/ newMaster(l, d, peer) \/ sameAddress(l, d, peer)
           \/ otherAddress(l, d, peer) \/ statusOnly(l, d)
        /\ masterLost' = [masterLost EXCEPT ![l] = LostTimer(l, d)]
        /\ silentFor' =
             [silentFor EXCEPT ![l] = IF d.status = "1" THEN 0 ELSE @]
  /\ UNCHANGED <<nodeVars, backlog, activeFor, vacantFor, disturbed, budgets,
                 pathVars, strangerFor, astrayFor>>

masterLosted(l) ==
  /\ masterLost[l] = 0
  /\ masterLost' = [masterLost EXCEPT ![l] = Idle]
  /\ knownMaster' = [knownMaster EXCEPT ![l] = NoTime]
  /\ lastpeer' = [lastpeer EXCEPT ![l] = NoPeer]
  /\ masterPing' = [masterPing EXCEPT ![l] = 0]
  /\ masterPingTimer' = [masterPingTimer EXCEPT ![l] = Idle]
  /\ silentFor' = [silentFor EXCEPT ![l] = 0]
  /\ UNCHANGED <<pulsarVars, pathVars, strangerFor, astrayFor>>

onMasterPingTimer(l) ==
  /\ masterPingTimer[l] = 0
  /\ masterPingTimer' = [masterPingTimer EXCEPT ![l] = SendTime]
  /\ masterPing' =
       [masterPing EXCEPT ![l] = IF @ < PingLimit THEN @ + 1 ELSE @]
  /\ UNCHANGED <<pulsarVars, pathVars, knownMaster, lastpeer, masterLost,
                 watchVars>>

----------------------------------------------------------------------------
Zero == [l \in Listener |-> 0]

linkFails(n) ==
  /\ failovers < MaxFailovers
  /\ failovers' = failovers + 1
  /\ \E x \in Address \ {link[n]} : link' = [link EXCEPT ![n] = x]
  /\ astrayFor' = Zero
  /\ UNCHANGED <<pulsarVars, receiverVars, silentFor, strangerFor>>

(* A step of a node that starts two of the counts anew: it becomes active  *)
(* on request; it crashes, or a request is sent, carried out or read.      *)
Activated(n) == readyRead(n) /\ ~ iam[n] /\ iam'[n]
Disturbed(n) ==
  \/ crashes' + requests' > crashes + requests
  \/ readyRead(n) /\ Head(inbox[n]).status = "2"

nodeStep(n) ==
  /\ NodeStep(n)
  /\ strangerFor' = IF Activated(n) THEN Zero ELSE strangerFor
  /\ silentFor' = IF Disturbed(n) THEN Zero ELSE silentFor
  /\ UNCHANGED <<receiverVars, pathVars, astrayFor>>

Counted(count, f) == [l \in Listener |-> IF count[l] THEN f[l] + 1 ELSE 0]

(* Time passes for nodes and receivers alike. *)
receiverTick ==
  /\ tick
  /\ \A l \in Listener :
       inbox[l] = <<>> /\ masterLost[l] # 0 /\ masterPingTimer[l] # 0
  /\ masterLost' = [l \in Listener |-> Less(masterLost[l])]
  /\ masterPingTimer' = [l \in Listener |-> Less(masterPingTimer[l])]
  /\ silentFor' = Counted([l \in Listener |-> lastpeer[l] # NoPeer], silentFor)
  /\ strangerFor' =
       Counted([l \in Listener |-> \E m \in Node :
                  /\ Active = {m} /\ activeFor[m] > 0
                  /\ knownMaster[l] # dateTime[m]], strangerFor)
  /\ astrayFor' =
       Counted([l \in Listener |-> \E m \in Node :
                  /\ Active = {m} /\ activeFor[m] > 0
                  /\ knownMaster[l] = dateTime[m]
                  /\ lastpeer[l] # <<m, link[m]>>], astrayFor)
  /\ UNCHANGED <<knownMaster, lastpeer, masterPing, pathVars>>

ReceiverNext ==
  \/ receiverTick
  \/ \E l \in Listener : receive(l) \/ masterLosted(l) \/ onMasterPingTimer(l)
  \/ \E n \in Node : linkFails(n) \/ nodeStep(n)

ReceiverSpec == ReceiverInit /\ [][ReceiverNext]_vars

----------------------------------------------------------------------------
(* Safety. *)

(* A single active node becomes the known master within one SendTime and   *)
(* one more for each datagram lost, or one later if another took over at   *)
(* the same time and said so, unless that one was activated on request     *)
(* (PulsReceiverPrivate.cpp, masterIdentificator).                         *)
MasterIsFound ==
  \A l \in Listener : strangerFor[l] < (MaxLosses + 2) * SendTime

(* When the master is heard from another address since a link failed, the  *)
(* receiver follows it there with the next status after a few periods of   *)
(* its timer (PulsReceiverPrivate.cpp, masterPing).                        *)
AddressIsFound ==
  \A l \in Listener :
    astrayFor[l] <= (PingLimit + 1 + MaxLosses) * SendTime

(* A master is not reported lost while a node is active for long enough to *)
(* be heard, also with a loss.                                             *)
NoFalseLoss ==
  \A l \in Listener :
    masterLost[l] = 0 =>
      \A m \in Node : activeFor[m] < ReceiveTime

(* A master that fell silent is not shown for long after the last crash or *)
(* request: it is reported lost within ReceiveTime, or a node that keeps   *)
(* masterLost from firing by its own statuses (PulsReceiverPrivate.cpp,    *)
(* readyRead) takes over within ReceiveTime of its start and says so.      *)
SilentMasterIsReplaced ==
  \A l \in Listener :
    silentFor[l] <= 2 * ReceiveTime + (MaxLosses + 1) * SendTime
=============================================================================
