-------------------------- MODULE ProcessController --------------------------
(***************************************************************************)
(* The controllers of processes, and the main thread they live in.  An     *)
(* event of the main thread runs to its end before the next one, but its   *)
(* calls to QThread::wait() let the checker threads run meanwhile: `todo`  *)
(* holds what is left of the current event.  Calls queued for the main     *)
(* thread are in `posted`.                                                 *)
(***************************************************************************)
EXTENDS DbConnThread, SequencesExt

CONSTANTS
  Controller,   (* the processes                                           *)
  Restartable,  (* those configured with restart                           *)
  Nobody,       (* no controller and no database                           *)
  MaxCrashes    (* bound: how often a process ends or fails by itself      *)

ASSUME ProcessControllerAssumption ==
  /\ Checked \subseteq Controller
  /\ Restartable \subseteq Controller
  /\ MaxCrashes \in Nat

VARIABLES
  process,    (* state() of the QProcess                                   *)
  killed,     (* kill() was called and the process has not ended yet       *)
  mIsStopped, (* of a controller                                           *)
  linked,     (* on_databaseReady() is connected to the checker            *)
  restarts,   (* restart timers of a controller that have not fired yet    *)
  posted,     (* queued calls to objects of the main thread                *)
  todo,       (* rest of the current event of the main thread              *)
  crashes,    (* environment: how often a process ended or failed          *)
  failed,     (* history: the last start of the process failed             *)
  late        (* history: on_databaseReady() was queued at a stop() since  *)
              (* the last start()                                          *)

controllerVars == <<process, killed, mIsStopped, linked, restarts, crashes,
                    failed, late>>
loopVars       == <<posted, todo>>

Call(slot, of) == [slot |-> slot, of |-> of]

Running(c) == process[c] = "Running"

(* The main thread is back in its event loop. *)
Idle == todo = <<>>

(* The queued call that is delivered now, and the calls behind it. *)
Delivers(slot) == Idle /\ posted # <<>> /\ Head(posted).slot = slot

ControllerInit ==
  /\ process = [c \in Controller |-> "NotRunning"]
  /\ killed = [c \in Controller |-> FALSE]
  /\ mIsStopped = [c \in Controller |-> TRUE]
  /\ linked = [c \in Controller |-> FALSE]
  /\ restarts = [c \in Controller |-> 0]
  /\ crashes = 0
  /\ failed = {}
  /\ late = {}

----------------------------------------------------------------------------
(* What the slots of a controller do, given the calls `queue` in posted.   *)

(* on_databaseReady(): QProcess::start() of a process that is being        *)
(* started does nothing.                                                   *)
launch(c) ==
  process' = [process EXCEPT ![c] = IF @ = "NotRunning" THEN "Starting" ELSE @]

(* runProcess() of a controller that is not stopped: its checker is asked  *)
(* for the database first, if it has one.                                  *)
runUnstopped(c, queue) ==
  /\ failed' = failed \ {c}
  /\ \/ /\ c \in Checked /\ ~ Running(c)
        /\ posted' = Append(queue, Call("waitConnection", c))
        /\ UNCHANGED process
     \/ c \notin Checked /\ ~ Running(c) /\ launch(c) /\ posted' = queue
     \/ Running(c) /\ posted' = queue /\ UNCHANGED process

start(c, queue) ==
  /\ linked' = [linked EXCEPT ![c] = (c \in Checked)]
  /\ mIsStopped' = [mIsStopped EXCEPT ![c] = FALSE]
  /\ late' = late \ {c}
  /\ runUnstopped(c, queue)
  /\ UNCHANGED <<killed, restarts, crashes>>

on_finished(c) ==
  /\ process' = [process EXCEPT ![c] = "NotRunning"]
  /\ killed' = [killed EXCEPT ![c] = FALSE]
  /\ restarts' = IF c \in Restartable
                   THEN [restarts EXCEPT ![c] = @ + 1]
                   ELSE restarts

(* stopProcess(): the process ends while waitForFinished() waits for it,   *)
(* or is killed and its end is noticed later.                              *)
stopProcess(c) ==
  \/ on_finished(c)
  \/ killed' = [killed EXCEPT ![c] = TRUE] /\ UNCHANGED <<process, restarts>>

restart(c, queue) ==
  \/ /\ Running(c)
     /\ mIsStopped' = [mIsStopped EXCEPT ![c] = FALSE]
     /\ stopProcess(c)
     /\ posted' = queue
     /\ UNCHANGED <<linked, crashes, failed, late>>
  \/ ~ Running(c) /\ start(c, queue)

(* Faulty variant: the checker stays connected. *)
FaultyDisconnect(c) ==
  /\ isStopped' = [isStopped EXCEPT ![c] = TRUE]
  /\ UNCHANGED <<linked, late>>

(* The begin of stop(): the checker is disconnected and told to stop. *)
disconnect(c) ==
  /\ linked' = [linked EXCEPT ![c] = FALSE]
  /\ isStopped' = [isStopped EXCEPT ![c] = TRUE]
  /\ late' = IF Call("on_databaseReady", c) \in ToSet(posted)
               THEN late \cup {c}
               ELSE late

----------------------------------------------------------------------------
(* Events of the main thread. *)

(* The queued call waitConnection() of a checker, which waits for its last *)
(* run; see waitConnection below.                                          *)
callWaitConnection ==
  /\ Delivers("waitConnection")
  /\ todo' = <<Head(posted)>>
  /\ posted' = Tail(posted)
  /\ UNCHANGED <<threadVars, controllerVars>>

on_databaseReady ==
  /\ Delivers("on_databaseReady")
  /\ launch(Head(posted).of)
  /\ posted' = Tail(posted)
  /\ failed' = failed \ {Head(posted).of}
  /\ UNCHANGED <<threadVars, killed, mIsStopped, linked, restarts, crashes,
                 late, todo>>

on_started(c) ==
  /\ Idle
  /\ process[c] = "Starting"
  /\ process' = [process EXCEPT ![c] = "Running"]
  /\ UNCHANGED <<threadVars, loopVars, killed, mIsStopped, linked, restarts,
                 crashes, failed, late>>

(* on_error(FailedToStart): finished() is not emitted then. *)
on_error(c) ==
  /\ Idle
  /\ process[c] = "Starting"
  /\ crashes < MaxCrashes
  /\ crashes' = crashes + 1
  /\ process' = [process EXCEPT ![c] = "NotRunning"]
  /\ failed' = failed \cup {c}
  /\ UNCHANGED <<threadVars, loopVars, killed, mIsStopped, linked, restarts,
                 late>>

processEnds(c) ==
  /\ Idle
  /\ Running(c)
  /\ \/ killed[c] /\ UNCHANGED crashes
     \/ ~ killed[c] /\ crashes < MaxCrashes /\ crashes' = crashes + 1
  /\ on_finished(c)
  /\ UNCHANGED <<threadVars, loopVars, mIsStopped, linked, failed, late>>

(* The restart timer fires: runProcess(). *)
runProcess(c) ==
  /\ Idle
  /\ restarts[c] > 0
  /\ restarts' = [restarts EXCEPT ![c] = @ - 1]
  /\ IF mIsStopped[c]
       THEN UNCHANGED <<process, posted, failed>>
       ELSE runUnstopped(c, posted)
  /\ UNCHANGED <<threadVars, killed, mIsStopped, linked, crashes, late,
                 todo>>

----------------------------------------------------------------------------
(* What is left of an event of the main thread, in its order. *)

Continues(slot) == todo # <<>> /\ Head(todo).slot = slot

(* The rest of waitConnection(). *)
waitConnection ==
  /\ Continues("waitConnection")
  /\ startThread(Head(todo).of)
  /\ todo' = Tail(todo)
  /\ UNCHANGED <<isStopped, controllerVars, posted>>

(* A service of the list of start() of all. *)
startService ==
  /\ Continues("startService")
  /\ start(Head(todo).of, posted)
  /\ todo' = Tail(todo)
  /\ UNCHANGED threadVars

(* A service of the list of stop() of all: only a running one is stopped.  *)
stopIfRunning ==
  /\ Continues("stopIfRunning")
  /\ LET c == Head(todo).of IN
     IF Running(c)
       THEN /\ IF c \in Checked
                 THEN disconnect(c)
                 ELSE UNCHANGED <<linked, isStopped, late>>
            /\ todo' = <<Call("finishStop", c)>> \o Tail(todo)
       ELSE /\ todo' = Tail(todo)
            /\ UNCHANGED <<linked, isStopped, late>>
  /\ UNCHANGED <<phase, process, killed, mIsStopped, restarts, crashes,
                 failed, posted>>

(* The rest of stop(), when the checker thread has ended. *)
finishStop ==
  /\ Continues("finishStop")
  /\ LET c == Head(todo).of IN
     /\ c \in Checked => ~ isRunning(c)
     /\ mIsStopped' = [mIsStopped EXCEPT ![c] = TRUE]
     /\ stopProcess(c)
  /\ todo' = Tail(todo)
  /\ UNCHANGED <<threadVars, linked, crashes, failed, late, posted>>

----------------------------------------------------------------------------
(* The checker thread of a controller reports to it. *)
checkerLeaves(t) ==
  /\ leave(t)
  /\ posted' = IF linked[t] /\ ~ isStopped[t]
                 THEN Append(posted, Call("on_databaseReady", t))
                 ELSE posted
  /\ UNCHANGED <<controllerVars, todo>>
=============================================================================
