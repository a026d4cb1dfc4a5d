---------------------------- MODULE DbConnThread ----------------------------
(***************************************************************************)
(* The threads that wait for a database: each controller of a process that *)
(* needs one has its own, a clone of the DatabaseController's thread of    *)
(* that database.  One global mutex lets a single thread run at a time.    *)
(***************************************************************************)
EXTENDS Integers, Sequences, FiniteSets

CONSTANTS
  Database,    (* the configured databases, each with a thread of its own  *)
  Checked,     (* the controllers with a database checker thread           *)
  databaseOf,  (* the database such a controller waits for                 *)
  MaxOutages   (* bound: how often a database becomes unavailable          *)

Thread == Database \cup Checked

ASSUME DbConnThreadAssumption ==
  /\ Database \cap Checked = {}
  /\ databaseOf \in [Checked -> Database]
  /\ MaxOutages \in Nat

VARIABLES
  phase,      (* of the QThread: not running, started, or testing          *)
  isStopped,  (* mIsStopped of a thread                                    *)
  available,  (* environment: the databases that accept connections        *)
  outages     (* environment: how often one has become unavailable         *)

threadVars   == <<phase, isStopped>>
databaseVars == <<available, outages>>

ThreadInit ==
  /\ phase = [t \in Thread |-> "idle"]
  /\ isStopped = [t \in Thread |-> FALSE]
  /\ available = Database
  /\ outages = 0

HostOf(t) == IF t \in Database THEN t ELSE databaseOf[t]

isRunning(t) == phase[t] # "idle"

(* start() and waitConnection(), whose caller has waited for the last run. *)
startThread(t) ==
  /\ ~ isRunning(t)
  /\ phase' = [phase EXCEPT ![t] = "started"]

(* Faulty variant: a stop of the last run is not forgotten. *)
FaultyRun(t) ==
  /\ phase[t] = "started"
  /\ \A u \in Thread : phase[u] # "testing"
  /\ phase' = [phase EXCEPT ![t] = "testing"]
  /\ UNCHANGED isStopped

(* run() once it has the mutex: a stop() since the start is forgotten.     *)
run(t) ==
  /\ phase[t] = "started"
  /\ \A u \in Thread : phase[u] # "testing"
  /\ phase' = [phase EXCEPT ![t] = "testing"]
  /\ isStopped' = [isStopped EXCEPT ![t] = FALSE]

(* Faulty variants: a stop does not end the tests; a refusal ends them. *)
FaultyTestConnection(t) == HostOf(t) \in available
CarelessTestConnection(t) == phase[t] = "testing"

(* What ends the tests, which are repeated every second. *)
testConnection(t) == isStopped[t] \/ HostOf(t) \in available

(* The end of run(): connectionReady() is emitted unless it was stopped.   *)
leave(t) ==
  /\ phase[t] = "testing"
  /\ testConnection(t)
  /\ phase' = [phase EXCEPT ![t] = "idle"]
  /\ UNCHANGED isStopped

databaseFails(d) ==
  /\ d \in available
  /\ outages < MaxOutages
  /\ available' = available \ {d}
  /\ outages' = outages + 1

databaseReturns(d) ==
  /\ d \notin available
  /\ available' = available \cup {d}
  /\ UNCHANGED outages
=============================================================================
