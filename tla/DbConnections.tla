---------------------------- MODULE DbConnections ----------------------------
(***************************************************************************)
(* The connection of an application to one of several database servers: a  *)
(* worker with a thread of its own looks every few seconds whether the     *)
(* current server answers and goes over to the next one when it does not;  *)
(* the manager in the main thread opens the default connection to the      *)
(* server the worker has found; the subscriber asks it for notifications.  *)
(***************************************************************************)
EXTENDS Integers, SequencesExt

CONSTANTS
  ServerCount,   (* mDbParams.count()                                      *)
  Name,          (* names of notifications                                 *)
  None,          (* no default connection                                  *)
  MaxOutages,    (* bound: how often a server becomes unavailable          *)
  MaxCommands    (* bound: calls of the application                        *)

Server == 0 .. ServerCount - 1

ASSUME DbConnectionsAssumption ==
  /\ ServerCount \in Nat \ {0}
  /\ None \notin Server
  /\ MaxOutages \in Nat
  /\ MaxCommands \in Nat

VARIABLES
  running,           (* the worker's thread and its timer run              *)
  mCurrentIndex,
  isActive,
  isFirstReconnect,
  posted,            (* signals of the worker queued for the main thread   *)
  default,           (* server of the default connection, or None          *)
  open,              (* the default connection is open                     *)
  listening,         (* names its driver is subscribed to                  *)
  notifies,          (* its driver's signal is connected to the subscriber *)
  mSubscribers,
  available,         (* environment: the servers that answer               *)
  outages,           (* bound counter                                      *)
  commands,          (* bound counter                                      *)
  overlooked         (* history: a server was away between two looks of    *)
                     (* the worker                                         *)

workerVars     == <<running, mCurrentIndex, isActive, isFirstReconnect>>
connectionVars == <<default, open, listening, notifies>>
serverVars     == <<available, outages>>
vars == <<workerVars, posted, connectionVars, mSubscribers, serverVars,
          commands, overlooked>>

Init ==
  /\ running = FALSE
  /\ mCurrentIndex = 0
  /\ isActive = FALSE
  /\ isFirstReconnect = TRUE
  /\ posted = <<>>
  /\ default = None
  /\ open = FALSE
  /\ listening = {}
  /\ notifies = FALSE
  /\ mSubscribers = {}
  /\ available \in SUBSET Server
  /\ outages = 0
  /\ commands = 0
  /\ overlooked = FALSE

----------------------------------------------------------------------------
(* The worker. *)

(* removeDb() takes the default connection of the main thread with it.     *)
removeDb ==
  /\ default' = None
  /\ open' = FALSE
  /\ listening' = {}
  /\ notifies' = FALSE

(* connected(): the parameters go to the manager, which connected itself   *)
(* before the subscriber.                                                  *)
connected ==
  posted' = posted \o <<[slot |-> "onConnected", of |-> mCurrentIndex],
                        [slot |-> "onDatabaseConnected", of |-> None]>>

(* db.open() succeeds. *)
succeeds ==
  /\ mCurrentIndex \in available
  /\ isActive' = TRUE
  /\ isFirstReconnect' = TRUE
  /\ IF isActive THEN UNCHANGED posted ELSE connected
  /\ UNCHANGED <<mCurrentIndex, connectionVars, overlooked>>

(* Faulty variant: the failure of an active server is not noted. *)
FaultyFails ==
  /\ mCurrentIndex \notin available
  /\ isFirstReconnect' = ~ isFirstReconnect
  /\ IF isFirstReconnect
       THEN UNCHANGED <<mCurrentIndex, connectionVars>>
       ELSE /\ mCurrentIndex' = (mCurrentIndex + 1) % ServerCount
            /\ removeDb
  /\ UNCHANGED <<isActive, posted>>
  /\ overlooked' = FALSE

(* It fails: the first time the server is tried again, the second time the *)
(* next one is taken, fillDb().                                            *)
fails ==
  /\ mCurrentIndex \notin available
  /\ isActive' = FALSE
  /\ isFirstReconnect' = ~ isFirstReconnect
  /\ IF isFirstReconnect
       THEN UNCHANGED <<mCurrentIndex, connectionVars>>
       ELSE /\ mCurrentIndex' = (mCurrentIndex + 1) % ServerCount
            /\ removeDb
  /\ UNCHANGED posted
  /\ overlooked' = FALSE

onTimer == succeeds \/ fails

timeout ==
  /\ running
  /\ onTimer
  /\ UNCHANGED <<running, mSubscribers, serverVars, commands>>

----------------------------------------------------------------------------
(* The manager and the subscriber, in the main thread. *)

(* start(): the worker's thread looks at the server at once. *)
start ==
  /\ ~ running
  /\ commands < MaxCommands
  /\ commands' = commands + 1
  /\ running' = TRUE
  /\ onTimer
  /\ UNCHANGED <<mSubscribers, serverVars>>

(* stop(): waits for the worker and makes a new one; what the old one has  *)
(* posted is delivered all the same.                                       *)
stop ==
  /\ running
  /\ commands < MaxCommands
  /\ commands' = commands + 1
  /\ running' = FALSE
  /\ mCurrentIndex' = 0
  /\ isActive' = FALSE
  /\ isFirstReconnect' = TRUE
  /\ removeDb
  /\ overlooked' = FALSE
  /\ UNCHANGED <<posted, mSubscribers, serverVars>>

Delivers(slot) == posted # <<>> /\ Head(posted).slot = slot

(* The default connection is replaced, and opened if the server answers.   *)
onConnected ==
  /\ Delivers("onConnected")
  /\ default' = Head(posted).of
  /\ open' = (Head(posted).of \in available)
  /\ listening' = {}
  /\ notifies' = FALSE
  /\ posted' = Tail(posted)
  /\ UNCHANGED <<workerVars, mSubscribers, serverVars, commands, overlooked>>

(* Faulty variant: the subscriptions made before are forgotten. *)
FaultyOnDatabaseConnected ==
  /\ Delivers("onDatabaseConnected")
  /\ notifies' = (default # None)
  /\ posted' = Tail(posted)
  /\ UNCHANGED <<workerVars, default, open, listening, mSubscribers,
                 serverVars, commands, overlooked>>

onDatabaseConnected ==
  /\ Delivers("onDatabaseConnected")
  /\ notifies' = (default # None)
  /\ listening' = IF open THEN listening \cup mSubscribers ELSE listening
  /\ posted' = Tail(posted)
  /\ UNCHANGED <<workerVars, default, open, mSubscribers, serverVars,
                 commands, overlooked>>

subscribe(name) ==
  /\ commands < MaxCommands
  /\ commands' = commands + 1
  /\ name \notin mSubscribers
  /\ mSubscribers' = mSubscribers \cup {name}
  /\ listening' = IF open THEN listening \cup {name} ELSE listening
  /\ UNCHANGED <<workerVars, posted, default, open, notifies, serverVars,
                 overlooked>>

unsubscribe(name) ==
  /\ commands < MaxCommands
  /\ commands' = commands + 1
  /\ name \in mSubscribers
  /\ mSubscribers' = mSubscribers \ {name}
  /\ listening' = listening \ {name}
  /\ UNCHANGED <<workerVars, posted, default, open, notifies, serverVars,
                 overlooked>>

----------------------------------------------------------------------------
(* The servers.  A default connection does not survive its server. *)

serverFails(s) ==
  /\ s \in available
  /\ outages < MaxOutages
  /\ outages' = outages + 1
  /\ available' = available \ {s}
  /\ open' = (open /\ default # s)
  /\ listening' = IF default = s THEN {} ELSE listening
  /\ UNCHANGED <<workerVars, posted, default, notifies, mSubscribers,
                 commands, overlooked>>

(* The worker learns nothing of an outage it has not seen. *)
serverReturns(s) ==
  /\ s \notin available
  /\ available' = available \cup {s}
  /\ overlooked' = \/ overlooked
                   \/ /\ isActive
                      /\ mCurrentIndex = s
                      /\ \A i \in DOMAIN posted : posted[i].slot # "onConnected"
  /\ UNCHANGED <<workerVars, posted, connectionVars, mSubscribers, outages,
                 commands>>

Next ==
  \/ timeout
  \/ start
  \/ stop
  \/ onConnected
  \/ onDatabaseConnected
  \/ \E name \in Name : subscribe(name) \/ unsubscribe(name)
  \/ \E s \in Server : serverFails(s) \/ serverReturns(s)

Spec == Init /\ [][Next]_vars

----------------------------------------------------------------------------
(* When the worker has found a server and the main thread knows of it, the *)
(* default connection is the one to that server, although the worker       *)
(* removes it from its own thread; and an open default connection has all  *)
(* the subscriptions, also those made while there was none.                *)
DefaultServes ==
  posted = <<>> =>
    /\ isActive => default = mCurrentIndex
    /\ open => notifies /\ listening = mSubscribers

----------------------------------------------------------------------------
(* Fairness: the timer fires and the main thread handles what is posted.   *)
(* Nothing is assumed of servers.                                          *)
FairSpec ==
  /\ Spec
  /\ WF_vars(timeout)
  /\ WF_vars(onConnected \/ onDatabaseConnected)

(* The default connection is open again in the end while a server answers  *)
(* (dbconnectionsmanager.h: reconnection to a database that was lost, from *)
(* the list), unless an outage fell between two looks of the worker, which *)
(* tests a connection of its own.                                          *)
Reopens ==
  running /\ available # {} ~>
    open \/ overlooked \/ ~ running \/ available = {}
=============================================================================
