----------------------------- MODULE Supervisor -----------------------------
(***************************************************************************)
(* The supervisor's server: the groups of processes, the databases they    *)
(* wait for, and the commands of a client.  Commands that name a process   *)
(* or all of them pass through the stack of the client's RequestThread;    *)
(* the change of the group is made by the main thread at once.             *)
(***************************************************************************)
EXTENDS ProcessController

CONSTANTS
  mDatabases,       (* the databases, in the order of their identifiers    *)
  Group,            (* the configured groups                               *)
  orderedServices,  (* the processes of a group, in the order of starting  *)
  FirstGroup,       (* the active group of the settings                    *)
  autostart,        (* ready databases start the processes                 *)
  Request,          (* the commands a client sends, as the calls they make *)
  MaxCommands       (* bound: commands and changes of the group            *)

ASSUME SupervisorAssumption ==
  /\ mDatabases \in Seq(Database) /\ ToSet(mDatabases) = Database
  /\ Nobody \notin Database
  /\ FirstGroup \in Group
  /\ orderedServices \in [Group -> Seq(Controller)]
  /\ autostart \in BOOLEAN
  /\ Request \subseteq [slot : {"restart"}, of : Controller]
                      \cup [slot : {"stop", "start"}, of : {Nobody}]
  /\ MaxCommands \in Nat

VARIABLES
  activeGroup,
  mMonitoredConnections,  (* databases of the active group                 *)
  mReadyConnections,      (* those that have answered                      *)
  mActiveConnection,      (* the one being waited for, or Nobody           *)
  mRequests,              (* the stack of the request thread               *)
  worker,                 (* the request thread: has found the stack empty *)
                          (* ("dozing"), sleeps, or has a request to take  *)
  commands,               (* bound counter                                 *)
  missedWake,             (* history: a request came before the worker     *)
                          (* slept and was not taken since                 *)
  answered,               (* history: databases that have accepted a       *)
                          (* connection since the last restart()           *)
  stale                   (* history: an answer of before it was queued    *)
                          (* still                                         *)

databaseCtrlVars == <<activeGroup, mMonitoredConnections, mReadyConnections,
                      mActiveConnection, answered, stale>>
requestVars      == <<mRequests, worker, missedWake>>
vars == <<threadVars, databaseVars, controllerVars, loopVars,
          databaseCtrlVars, requestVars, commands>>

Order == orderedServices[activeGroup]

activeDatabaseList(g) == {databaseOf[c] : c \in ToSet(orderedServices[g]) \cap Checked}

SupervisorInit ==
  /\ ThreadInit
  /\ ControllerInit
  /\ posted = <<>>
  /\ todo = <<Call("startDatabases", FirstGroup)>>
  /\ activeGroup = FirstGroup
  /\ mMonitoredConnections = {}
  /\ mReadyConnections = {}
  /\ mActiveConnection = Nobody
  /\ mRequests = <<>>
  /\ worker = "dozing"
  /\ missedWake = FALSE
  /\ commands = 0
  /\ answered = {}
  /\ stale = FALSE

----------------------------------------------------------------------------
(* DatabaseController.  Its signal ready() starts the processes.           *)

ready == IF autostart THEN <<Call("start", Nobody)>> ELSE <<>>

(* startNext(), with `done` the databases that have answered: without any  *)
(* database ready() is emitted twice.                                      *)
startNext(monitored, done, queue) ==
  /\ mReadyConnections' = done
  /\ IF monitored \subseteq done
       THEN /\ mActiveConnection' = Nobody
            /\ posted' = queue \o ready
                           \o (IF monitored = {} THEN ready ELSE <<>>)
            /\ todo' = <<>>
       ELSE \E d \in monitored \ done :
              /\ mActiveConnection' = d
              /\ todo' = <<Call("startDatabase", d)>>
              /\ posted' = queue

(* The rest of startNext(): the thread's start(). *)
startDatabase ==
  /\ Continues("startDatabase")
  /\ startThread(Head(todo).of)
  /\ todo' = Tail(todo)
  /\ UNCHANGED <<isStopped, databaseVars, controllerVars, posted,
                 databaseCtrlVars, requestVars, commands>>

onDatabaseReady ==
  /\ Delivers("onDatabaseReady")
  /\ startNext(mMonitoredConnections,
               IF mMonitoredConnections = {} \/ mActiveConnection = Nobody
                 THEN mReadyConnections
                 ELSE mReadyConnections \cup {mActiveConnection},
               Tail(posted))
  /\ UNCHANGED <<threadVars, databaseVars, controllerVars, activeGroup,
                 mMonitoredConnections, answered, stale, requestVars,
                 commands>>

(* stop(): each thread is told to stop and waited for. *)
stopDatabase ==
  /\ Continues("stopDatabase")
  /\ isStopped' = [isStopped EXCEPT ![Head(todo).of] = TRUE]
  /\ todo' = <<Call("joinDatabase", Head(todo).of)>> \o Tail(todo)
  /\ UNCHANGED <<phase, databaseVars, controllerVars, posted,
                 databaseCtrlVars, requestVars, commands>>

joinDatabase ==
  /\ Continues("joinDatabase")
  /\ ~ isRunning(Head(todo).of)
  /\ todo' = Tail(todo)
  /\ UNCHANGED <<threadVars, databaseVars, controllerVars, posted,
                 databaseCtrlVars, requestVars, commands>>

(* setMonitoredDatabases() and start() for the processes of a group, after *)
(* stop() has cleared what was ready.                                      *)
startDatabases ==
  /\ Continues("startDatabases")
  /\ activeGroup' = Head(todo).of
  /\ mMonitoredConnections' = activeDatabaseList(Head(todo).of)
  /\ startNext(activeDatabaseList(Head(todo).of), {}, posted)
  /\ answered' = {}
  /\ stale' = (Call("onDatabaseReady", Nobody) \in ToSet(posted))
  /\ UNCHANGED <<threadVars, databaseVars, controllerVars, requestVars,
                 commands>>

----------------------------------------------------------------------------
(* ApplicationController. *)

startAll ==
  /\ Delivers("start")
  /\ todo' = [i \in DOMAIN Order |-> Call("startService", Order[i])]
  /\ posted' = Tail(posted)
  /\ UNCHANGED <<threadVars, databaseVars, controllerVars, databaseCtrlVars,
                 requestVars, commands>>

(* The services in the reverse order they were started. *)
Stopping == [i \in DOMAIN Order |-> Call("stopIfRunning", Reverse(Order)[i])]

stopAll ==
  /\ Delivers("stop")
  /\ todo' = Stopping
  /\ posted' = Tail(posted)
  /\ UNCHANGED <<threadVars, databaseVars, controllerVars, databaseCtrlVars,
                 requestVars, commands>>

restartOne ==
  /\ Delivers("restart")
  /\ restart(Head(posted).of, Tail(posted))
  /\ UNCHANGED <<threadVars, databaseVars, todo, databaseCtrlVars,
                 requestVars, commands>>

----------------------------------------------------------------------------
(* The client's connection and its RequestThread. *)

(* Faulty variant: the sleeping worker is not woken. *)
FaultyAdd(request) ==
  /\ mRequests' = Append(mRequests, request)
  /\ missedWake' = (missedWake \/ worker = "dozing")
  /\ UNCHANGED worker

(* add(): the wakeup is lost on a worker that has seen an empty stack and  *)
(* does not sleep yet, since add() and run() lock different mutexes.       *)
add(request) ==
  /\ mRequests' = Append(mRequests, request)
  /\ worker' = IF worker = "asleep" THEN "busy" ELSE worker
  /\ missedWake' = (missedWake \/ worker = "dozing")

(* A command arrives in the main thread. *)
on_variantReceived(request) ==
  /\ Idle
  /\ commands < MaxCommands
  /\ commands' = commands + 1
  /\ add(request)
  /\ UNCHANGED <<threadVars, databaseVars, controllerVars, loopVars,
                 databaseCtrlVars>>

activateGroup(g) ==
  /\ Idle
  /\ commands < MaxCommands
  /\ commands' = commands + 1
  /\ g # activeGroup
  /\ todo' = Stopping
               \o [i \in DOMAIN mDatabases |->
                     Call("stopDatabase", mDatabases[i])]
               \o <<Call("startDatabases", g)>>
  /\ UNCHANGED <<threadVars, databaseVars, controllerVars, posted,
                 databaseCtrlVars, requestVars>>

(* run(): the latest request is taken from the top of the stack, its slot  *)
(* is called in the main thread, and the stack is looked at again.         *)
processRequest ==
  /\ worker = "busy"
  /\ posted' = Append(posted, Last(mRequests))
  /\ mRequests' = Front(mRequests)
  /\ worker' = IF Len(mRequests) = 1 THEN "dozing" ELSE "busy"
  /\ missedWake' = FALSE
  /\ UNCHANGED <<threadVars, databaseVars, controllerVars, todo,
                 databaseCtrlVars, commands>>

(* QWaitCondition::wait(). *)
sleep ==
  /\ worker = "dozing"
  /\ worker' = "asleep"
  /\ UNCHANGED <<mRequests, missedWake, threadVars, databaseVars,
                 controllerVars, loopVars, databaseCtrlVars, commands>>

----------------------------------------------------------------------------
Rest == <<databaseCtrlVars, requestVars, commands>>

ControllerCall ==
  /\ \/ callWaitConnection
     \/ on_databaseReady
     \/ waitConnection
     \/ startService
     \/ stopIfRunning
     \/ finishStop
  /\ UNCHANGED <<databaseVars, Rest>>

(* What a process or a timer makes of its controller. *)
ProcessEvent(c) ==
  /\ on_started(c) \/ on_error(c) \/ processEnds(c) \/ runProcess(c)
  /\ UNCHANGED <<databaseVars, Rest>>

ThreadRuns(t) ==
  /\ run(t)
  /\ UNCHANGED <<databaseVars, controllerVars, loopVars, Rest>>

(* A thread of the DatabaseController reports to it. *)
databaseLeaves(d) ==
  /\ leave(d)
  /\ posted' = IF isStopped[d]
                 THEN posted
                 ELSE Append(posted, Call("onDatabaseReady", Nobody))
  /\ answered' = answered \cup ({d} \cap available)
  /\ UNCHANGED <<controllerVars, todo, activeGroup, mMonitoredConnections,
                 mReadyConnections, mActiveConnection, stale, requestVars,
                 commands>>

ThreadLeaves(t) ==
  /\ \/ t \in Checked /\ checkerLeaves(t) /\ UNCHANGED Rest
     \/ t \in Database /\ databaseLeaves(t)
  /\ UNCHANGED databaseVars

Outside ==
  /\ \E d \in Database : databaseFails(d) \/ databaseReturns(d)
  /\ UNCHANGED <<threadVars, controllerVars, loopVars, Rest>>

ClientCommand ==
  \/ \E request \in Request : on_variantReceived(request)
  \/ \E g \in Group : activateGroup(g)

(* Queued calls, and what is left of the current one. *)
EventLoop ==
  \/ ControllerCall
  \/ startDatabase
  \/ onDatabaseReady
  \/ stopDatabase
  \/ joinDatabase
  \/ startDatabases
  \/ startAll
  \/ stopAll
  \/ restartOne

RequestWorker == processRequest \/ sleep

Next ==
  \/ EventLoop
  \/ \E c \in Controller : ProcessEvent(c)
  \/ RequestWorker
  \/ ClientCommand
  \/ \E t \in Thread : ThreadRuns(t) \/ ThreadLeaves(t)
  \/ Outside

Spec == SupervisorInit /\ [][Next]_vars

----------------------------------------------------------------------------
(* A process that was stopped stays down: its checker is disconnected, its *)
(* restart timers do nothing, and the one thing that can start it again is *)
(* an answer of the checker that was queued when it was stopped.           *)
StoppedStaysDown ==
  \A c \in Controller :
    mIsStopped[c] => process[c] = "NotRunning" \/ killed[c] \/ c \in late

(* The processes are started only after every database of the group has    *)
(* accepted a connection (SupervisorService.cpp: "After all connections    *)
(* established - run processes/services"), but for an answer that was      *)
(* queued before the group was changed.                                    *)
ReadyMeansAnswered ==
  [][mActiveConnection # Nobody /\ mActiveConnection' = Nobody =>
       stale \/ stale' \/ mMonitoredConnections \subseteq answered
             \/ activeGroup' # activeGroup]_vars

(* The request thread sleeps over a request only if the request was added  *)
(* between its look at the stack and its sleep, and no other came since.   *)
SleepMeansDrained == worker = "asleep" /\ mRequests # <<>> => missedWake

(* Only processes of the active group are launched: the change of the      *)
(* group stops those of the old one (ApplicationController.cpp: "Stop all  *)
(* processes and services in the reverse order they were started").        *)
OldGroupIsStopped ==
  [][\A c \in Controller :
       process[c] = "NotRunning" /\ process'[c] = "Starting" =>
         c \in ToSet(Order)]_vars

----------------------------------------------------------------------------
(* Fairness: the main thread handles its events and goes on with the one   *)
(* it is at, a process that was launched comes up or fails, a killed one   *)
(* ends, timers fire and threads run.  Nothing is assumed of databases.    *)
FairSpec ==
  /\ Spec
  /\ WF_vars(EventLoop)
  /\ \A c \in Controller :
       /\ WF_vars(on_started(c) /\ UNCHANGED <<databaseVars, Rest>>)
       /\ WF_vars(killed[c] /\ processEnds(c) /\ UNCHANGED <<databaseVars, Rest>>)
       /\ SF_vars(runProcess(c) /\ UNCHANGED <<databaseVars, Rest>>)
  /\ \A t \in Thread : SF_vars(ThreadRuns(t)) /\ WF_vars(ThreadLeaves(t))
  /\ WF_vars(RequestWorker)

(* A process that is to run: it was started and not stopped since, and its *)
(* checker can reach it (a process that was not up yet when all processes  *)
(* were stopped comes up unconnected, and restart() of it, while it runs,  *)
(* does not connect the checker again).                                    *)
Wanted(c) == ~ mIsStopped[c] /\ (c \in Checked => linked[c])

(* A process configured with restart comes up in the end, however often it *)
(* crashes, is killed or is restarted, unless it cannot be started or a    *)
(* database is not available.                                              *)
KeepsRunning ==
  \A c \in Restartable :
    Wanted(c) ~> \/ Running(c)
                 \/ ~ Wanted(c)
                 \/ c \in failed
                 \/ available # Database

(* A thread that tests a database in vain and was not told to stop, or was *)
(* told so too early.                                                      *)
InVain(t) ==
  phase[t] = "testing" /\ ~ isStopped[t] /\ HostOf(t) \notin available

(* The main thread, which waits for checker threads, comes back to its     *)
(* event loop, unless it waits behind such a thread.                       *)
MainReturns == ~ Idle ~> Idle \/ \E t \in Thread : InVain(t)
=============================================================================
