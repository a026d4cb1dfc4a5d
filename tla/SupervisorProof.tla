-------------------------- MODULE SupervisorProof --------------------------
(***************************************************************************)
(* Proofs about Supervisor, for any processes, databases, groups and       *)
(* requests, and every value of the bounds.                                *)
(***************************************************************************)
EXTENDS Supervisor, SequenceTheorems, TLAPS

(* The calls that are queued for the main thread, and those of an event.   *)
PostedCall ==
  [slot : {"waitConnection", "on_databaseReady"}, of : Checked]
    \cup [slot : {"restart"}, of : Controller]
    \cup [slot : {"start", "stop", "onDatabaseReady"}, of : {Nobody}]

TodoCall ==
  [slot : {"waitConnection", "startService", "stopIfRunning", "finishStop"},
   of : Controller]
    \cup [slot : {"startDatabase", "stopDatabase", "joinDatabase"}, of : Database]
    \cup [slot : {"startDatabases"}, of : Group]

(* The types the argument needs. *)
TypeInv ==
  /\ process \in [Controller -> {"NotRunning", "Starting", "Running"}]
  /\ killed \in [Controller -> BOOLEAN]
  /\ mIsStopped \in [Controller -> BOOLEAN]
  /\ linked \in [Controller -> BOOLEAN]
  /\ posted \in Seq(PostedCall)
  /\ todo \in Seq(TodoCall)
  /\ activeGroup \in Group
  /\ mMonitoredConnections \subseteq Database

(* A stopped controller is disconnected from its checker. *)
StoppedIsUnlinked == \A c \in Controller : mIsStopped[c] => ~ linked[c]

(* An answer of a checker that was disconnected since counts as late. *)
QueueInv ==
  \A i \in 1 .. Len(posted) :
    posted[i].slot = "on_databaseReady" =>
      linked[posted[i].of] \/ posted[i].of \in late

(* stop() ends at once what it has begun, with the checker disconnected. *)
FinishInv ==
  /\ \A i \in 2 .. Len(todo) : todo[i].slot # "finishStop"
  /\ todo # <<>> /\ todo[1].slot = "finishStop" => ~ linked[todo[1].of]

(* Only a controller with a checker is connected to it. *)
LinkedIsChecked == \A c \in Controller : linked[c] => c \in Checked

StopInv ==
  /\ StoppedStaysDown
  /\ StoppedIsUnlinked
  /\ LinkedIsChecked
  /\ QueueInv
  /\ FinishInv

(* The request thread has something to take when it is to take it, and     *)
(* finds the stack empty before it dozes, unless a request came meanwhile. *)
RequestInv ==
  /\ mRequests \in Seq(Request)
  /\ worker \in {"dozing", "asleep", "busy"}
  /\ worker = "busy" => mRequests # <<>>
  /\ worker # "busy" /\ mRequests # <<>> => missedWake

IInv == TypeInv /\ StopInv /\ RequestInv

----------------------------------------------------------------------------
(* Queues. *)

(* A queue with the calls of posted and calls other than on_databaseReady. *)
Quiet(queue) ==
  /\ queue \in Seq(PostedCall)
  /\ \A i \in 1 .. Len(queue) :
       queue[i].slot = "on_databaseReady" =>
         \E j \in 1 .. Len(posted) : queue[i] = posted[j]

(* No call of the list ends a stop(). *)
FinishesNothing(list) ==
  /\ list \in Seq(TodoCall)
  /\ \A i \in 1 .. Len(list) : list[i].slot # "finishStop"

(* The queue itself is one. *)
LEMMA PostedIsQuiet ==
  ASSUME TypeInv
  PROVE  Quiet(posted)
BY DEF TypeInv, Quiet

(* A call is taken from the queue. *)
LEMMA TailIsQuiet ==
  ASSUME TypeInv, posted # <<>>
  PROVE  /\ Quiet(Tail(posted))
         /\ Head(posted) = posted[1]
         /\ 1 \in 1 .. Len(posted)
         /\ Head(posted) \in PostedCall
<1>1. posted \in Seq(PostedCall)
  BY DEF TypeInv
<1>2. /\ Tail(posted) \in Seq(PostedCall)
      /\ Len(posted) \in Nat \ {0}
      /\ Len(Tail(posted)) = Len(posted) - 1
      /\ \A i \in 1 .. Len(posted) - 1 : Tail(posted)[i] = posted[i + 1]
  BY <1>1
<1>3. ASSUME NEW i \in 1 .. Len(Tail(posted))
      PROVE  \E j \in 1 .. Len(posted) : Tail(posted)[i] = posted[j]
  <2>1. i + 1 \in 1 .. Len(posted) /\ Tail(posted)[i] = posted[i + 1]
    BY <1>2
  <2> QED
    BY <2>1
<1>4. Head(posted) = posted[1] /\ 1 \in 1 .. Len(posted)
      /\ Head(posted) \in PostedCall
  BY <1>1, <1>2
<1> QED
  BY <1>2, <1>3, <1>4 DEF Quiet

(* A call of another kind is queued. *)
LEMMA AppendIsQuiet ==
  ASSUME NEW queue, Quiet(queue),
         NEW call \in PostedCall, call.slot # "on_databaseReady"
  PROVE  Quiet(Append(queue, call))
<1>1. queue \in Seq(PostedCall)
  BY DEF Quiet
<1>2. /\ Append(queue, call) \in Seq(PostedCall)
      /\ Len(Append(queue, call)) = Len(queue) + 1
      /\ Len(queue) \in Nat
      /\ \A i \in 1 .. Len(queue) : Append(queue, call)[i] = queue[i]
      /\ Append(queue, call)[Len(queue) + 1] = call
  BY <1>1
<1>3. ASSUME NEW i \in 1 .. Len(Append(queue, call)),
             Append(queue, call)[i].slot = "on_databaseReady"
      PROVE  \E j \in 1 .. Len(posted) : Append(queue, call)[i] = posted[j]
  <2>1. i \in 1 .. Len(queue)
    BY <1>2, <1>3
  <2> QED
    BY <1>2, <1>3, <2>1 DEF Quiet
<1> QED
  BY <1>2, <1>3 DEF Quiet

(* What ready() queues is quiet. *)
LEMMA ReadyIsQuiet ==
  ASSUME NEW queue, Quiet(queue)
  PROVE  Quiet(queue \o ready)
<1> DEFINE call == Call("start", Nobody)
<1>1. queue \in Seq(PostedCall)
  BY DEF Quiet
<1>2. call \in PostedCall /\ call.slot = "start"
  BY DEF Call, PostedCall
<1>3. CASE autostart
  <2>1. queue \o ready = Append(queue, call)
    <3> HIDE DEF call
    <3>1. queue \o <<call>> = Append(queue, call)
      BY <1>1, <1>2
    <3> QED
      BY <1>3, <3>1 DEF ready, call
  <2>2. Quiet(Append(queue, call))
    <3> HIDE DEF call
    <3> QED
      BY <1>2, AppendIsQuiet
  <2> QED
    BY <2>1, <2>2
<1>4. CASE ~ autostart
  BY <1>1, <1>4 DEF ready
<1> QED
  BY <1>3, <1>4

(* The rest of an event finishes no stop() that it has not begun. *)
LEMMA TailFinishesNothing ==
  ASSUME TypeInv, FinishInv, todo # <<>>
  PROVE  /\ FinishesNothing(Tail(todo))
         /\ Head(todo) = todo[1]
         /\ Head(todo) \in TodoCall
<1>1. todo \in Seq(TodoCall)
  BY DEF TypeInv
<1>2. /\ Tail(todo) \in Seq(TodoCall)
      /\ Len(todo) \in Nat \ {0}
      /\ Len(Tail(todo)) = Len(todo) - 1
      /\ \A i \in 1 .. Len(todo) - 1 : Tail(todo)[i] = todo[i + 1]
  BY <1>1
<1>3. Head(todo) = todo[1] /\ Head(todo) \in TodoCall
  BY <1>1, <1>2
<1>4. ASSUME NEW i \in 1 .. Len(Tail(todo))
      PROVE  Tail(todo)[i].slot # "finishStop"
  <2>1. i + 1 \in 2 .. Len(todo) /\ Tail(todo)[i] = todo[i + 1]
    BY <1>2
  <2> QED
    BY <2>1 DEF FinishInv
<1> QED
  BY <1>2, <1>3, <1>4 DEF FinishesNothing

(* One more call in front, and its place. *)
LEMMA CallBeforeRest ==
  ASSUME NEW rest, FinishesNothing(rest), NEW call \in TodoCall
  PROVE  /\ <<call>> \o rest \in Seq(TodoCall)
         /\ (<<call>> \o rest)[1] = call
         /\ \A i \in 2 .. Len(<<call>> \o rest) :
              (<<call>> \o rest)[i].slot # "finishStop"
         /\ call.slot # "finishStop" => FinishesNothing(<<call>> \o rest)
<1> DEFINE list == <<call>> \o rest
<1>1. rest \in Seq(TodoCall) /\ <<call>> \in Seq(TodoCall)
      /\ Len(<<call>>) = 1 /\ <<call>>[1] = call
  BY DEF FinishesNothing
<1>2. /\ list \in Seq(TodoCall)
      /\ Len(list) = 1 + Len(rest)
      /\ Len(rest) \in Nat
      /\ list[1] = call
      /\ \A i \in 2 .. Len(list) : list[i] = rest[i - 1]
  BY <1>1, ConcatProperties
<1> HIDE DEF list
<1>3. \A i \in 2 .. Len(list) : list[i].slot # "finishStop"
  BY <1>2 DEF FinishesNothing
<1>4. call.slot # "finishStop" => FinishesNothing(list)
  BY <1>2, <1>3 DEF FinishesNothing
<1> QED
  BY <1>2, <1>3, <1>4 DEF list

(* One list after the other. *)
LEMMA ConcatFinishesNothing ==
  ASSUME NEW s, FinishesNothing(s), NEW t, FinishesNothing(t)
  PROVE  FinishesNothing(s \o t)
<1>1. s \in Seq(TodoCall) /\ t \in Seq(TodoCall)
  BY DEF FinishesNothing
<1>2. /\ s \o t \in Seq(TodoCall)
      /\ Len(s \o t) = Len(s) + Len(t)
      /\ Len(s) \in Nat /\ Len(t) \in Nat
      /\ \A i \in 1 .. Len(s) + Len(t) :
           (s \o t)[i] = IF i <= Len(s) THEN s[i] ELSE t[i - Len(s)]
  BY <1>1, ConcatProperties
<1>3. ASSUME NEW i \in 1 .. Len(s \o t)
      PROVE  (s \o t)[i].slot # "finishStop"
  <2>1. CASE i <= Len(s)
    BY <1>2, <2>1 DEF FinishesNothing
  <2>2. CASE ~ i <= Len(s)
    <3>1. i - Len(s) \in 1 .. Len(t) /\ (s \o t)[i] = t[i - Len(s)]
      BY <1>2, <2>2
    <3> QED
      BY <3>1 DEF FinishesNothing
  <2> QED
    BY <2>1, <2>2
<1> QED
  BY <1>2, <1>3 DEF FinishesNothing

----------------------------------------------------------------------------
(* Steps of the main thread and of the threads. *)

(* The answers in a quiet queue were queued before. *)
LEMMA QuietKeepsQueue ==
  ASSUME TypeInv, QueueInv, Quiet(posted'),
         \A c \in Checked : linked[c] \/ c \in late => linked'[c] \/ c \in late'
  PROVE  QueueInv'
<1> SUFFICES ASSUME NEW i \in 1 .. Len(posted'),
                    posted'[i].slot = "on_databaseReady"
             PROVE  linked'[posted'[i].of] \/ posted'[i].of \in late'
  BY DEF QueueInv
<1>1. PICK j \in 1 .. Len(posted) : posted'[i] = posted[j]
  BY DEF Quiet
<1>2. posted[j] \in PostedCall
  BY DEF TypeInv
<1>3. posted[j].of \in Checked
  BY <1>1, <1>2 DEF PostedCall
<1> QED
  BY <1>1, <1>3 DEF QueueInv

(* What changes no controller. *)
LEMMA CalmStep ==
  ASSUME TypeInv, StopInv,
         UNCHANGED <<process, killed, mIsStopped, linked, late>>,
         Quiet(posted'),
         todo' = todo \/ FinishesNothing(todo'),
         activeGroup' \in Group, mMonitoredConnections' \subseteq Database
  PROVE  TypeInv' /\ StopInv'
<1>1. TypeInv'
  BY DEF TypeInv, Quiet, FinishesNothing
<1>2. StoppedStaysDown' /\ StoppedIsUnlinked' /\ LinkedIsChecked'
  BY DEF StopInv, StoppedStaysDown, StoppedIsUnlinked, LinkedIsChecked
<1>3. QueueInv'
  BY QuietKeepsQueue DEF StopInv
<1>4. FinishInv'
  <2>1. CASE todo' = todo
    BY <2>1 DEF StopInv, FinishInv
  <2>2. CASE FinishesNothing(todo')
    <3>1. todo' \in Seq(TodoCall)
      BY <2>2 DEF FinishesNothing
    <3>2. todo' # <<>> => 1 \in 1 .. Len(todo')
      BY <3>1
    <3>3. \A i \in 2 .. Len(todo') : i \in 1 .. Len(todo')
      BY <3>1
    <3> QED
      BY <2>2, <3>2, <3>3 DEF FinishesNothing, FinishInv
  <2> QED
    BY <2>1, <2>2
<1> QED
  BY <1>1, <1>2, <1>3, <1>4 DEF StopInv

(* What changes a process in the event loop, and no controller else: a     *)
(* stopped one is not launched but by a late answer.                       *)
LEMMA ProcessStep ==
  ASSUME TypeInv, StopInv,
         UNCHANGED <<mIsStopped, linked, late, activeGroup, mMonitoredConnections>>,
         process' \in [Controller -> {"NotRunning", "Starting", "Running"}],
         killed' \in [Controller -> BOOLEAN],
         Quiet(posted'), todo' = todo, todo = <<>>,
         \A c \in Controller :
           mIsStopped[c] => \/ process'[c] = "NotRunning"
                            \/ process'[c] = process[c] /\ killed'[c] = killed[c]
                            \/ c \in late
                            \/ killed[c] /\ killed'[c]
  PROVE  TypeInv' /\ StopInv'
<1>1. TypeInv'
  BY DEF TypeInv, Quiet
<1>2. StoppedStaysDown'
  BY DEF StopInv, StoppedStaysDown
<1>3. StoppedIsUnlinked' /\ LinkedIsChecked'
  BY DEF StopInv, StoppedIsUnlinked, LinkedIsChecked
<1>4. QueueInv'
  BY QuietKeepsQueue DEF StopInv
<1>5. FinishInv'
  BY DEF FinishInv, StopInv
<1> QED
  BY <1>1, <1>2, <1>3, <1>4, <1>5 DEF StopInv

(* What queues the call that asks for the database. *)
LEMMA RunUnstoppedQueues ==
  ASSUME TypeInv, NEW c \in Controller, NEW queue, Quiet(queue),
         runUnstopped(c, queue)
  PROVE  /\ Quiet(posted')
         /\ process' \in [Controller -> {"NotRunning", "Starting", "Running"}]
         /\ \A b \in Controller \ {c} : process'[b] = process[b]
<1>1. Quiet(posted')
  <2>1. CASE c \in Checked /\ posted' = Append(queue, Call("waitConnection", c))
    <3>1. /\ Call("waitConnection", c) \in PostedCall
          /\ Call("waitConnection", c).slot = "waitConnection"
      BY <2>1 DEF Call, PostedCall
    <3>2. Quiet(Append(queue, Call("waitConnection", c)))
      BY <3>1, AppendIsQuiet
    <3> QED
      BY <2>1, <3>2
  <2>2. CASE posted' = queue
    BY <2>2
  <2> QED
    BY <2>1, <2>2 DEF runUnstopped
<1>2. process' = process \/ launch(c)
  BY DEF runUnstopped
<1>3. process' \in [Controller -> {"NotRunning", "Starting", "Running"}]
  BY <1>2 DEF TypeInv, launch
<1>4. \A b \in Controller \ {c} : process'[b] = process[b]
  BY <1>2 DEF TypeInv, launch
<1> QED
  BY <1>1, <1>3, <1>4

(* start() of a controller, from a queued call or within an event. *)
LEMMA StartKeeps ==
  ASSUME TypeInv, StopInv, NEW c \in Controller, NEW queue, Quiet(queue),
         start(c, queue),
         todo' = todo \/ FinishesNothing(todo'),
         todo' = todo => todo = <<>>,
         UNCHANGED <<activeGroup, mMonitoredConnections>>
  PROVE  TypeInv' /\ StopInv'
<1>1. /\ linked' = [linked EXCEPT ![c] = (c \in Checked)]
      /\ mIsStopped' = [mIsStopped EXCEPT ![c] = FALSE]
      /\ late' = late \ {c}
      /\ killed' = killed
      /\ runUnstopped(c, queue)
  BY DEF start
<1>2. /\ Quiet(posted')
      /\ process' \in [Controller -> {"NotRunning", "Starting", "Running"}]
      /\ \A b \in Controller \ {c} : process'[b] = process[b]
  BY <1>1, RunUnstoppedQueues
<1>3. linked' \in [Controller -> BOOLEAN] /\ mIsStopped' \in [Controller -> BOOLEAN]
  BY <1>1 DEF TypeInv
<1>4. TypeInv'
  BY <1>1, <1>2, <1>3 DEF TypeInv, Quiet, FinishesNothing
<1>5. \A b \in Controller \ {c} :
        /\ linked'[b] = linked[b] /\ mIsStopped'[b] = mIsStopped[b]
        /\ b \in late' <=> b \in late
  BY <1>1 DEF TypeInv
<1>6. /\ linked'[c] = (c \in Checked)
      /\ mIsStopped'[c] = FALSE
  BY <1>1 DEF TypeInv
<1>7. StoppedStaysDown'
  BY <1>1, <1>2, <1>5, <1>6 DEF StopInv, StoppedStaysDown
<1>8. StoppedIsUnlinked' /\ LinkedIsChecked'
  BY <1>5, <1>6 DEF StopInv, StoppedIsUnlinked, LinkedIsChecked
<1>9. QueueInv'
  <2>1. Checked \subseteq Controller
    BY ProcessControllerAssumption
  <2>2. \A b \in Checked : linked[b] \/ b \in late => linked'[b] \/ b \in late'
    BY <1>5, <1>6, <2>1
  <2> QED
    BY <1>2, <2>2, QuietKeepsQueue DEF StopInv
<1>10. FinishInv'
  <2>1. CASE todo' = todo
    BY <2>1 DEF FinishInv, StopInv
  <2>2. CASE FinishesNothing(todo')
    <3>1. todo' \in Seq(TodoCall)
      BY <2>2 DEF FinishesNothing
    <3>2. todo' # <<>> => 1 \in 1 .. Len(todo')
      BY <3>1
    <3>3. \A i \in 2 .. Len(todo') : i \in 1 .. Len(todo')
      BY <3>1
    <3> QED
      BY <2>2, <3>2, <3>3 DEF FinishesNothing, FinishInv
  <2> QED
    BY <2>1, <2>2
<1> QED
  BY <1>4, <1>7, <1>8, <1>9, <1>10 DEF StopInv

(* A process is told to end: it has ended, or was killed. *)
LEMMA StopProcessEnds ==
  ASSUME TypeInv, NEW c \in Controller, stopProcess(c)
  PROVE  /\ process' \in [Controller -> {"NotRunning", "Starting", "Running"}]
         /\ killed' \in [Controller -> BOOLEAN]
         /\ process'[c] = "NotRunning" \/ killed'[c]
         /\ \A b \in Controller \ {c} :
              process'[b] = process[b] /\ killed'[b] = killed[b]
BY DEF TypeInv, stopProcess, on_finished

(* restart() of one process. *)
LEMMA RestartKeeps ==
  ASSUME TypeInv, StopInv, NEW c \in Controller, NEW queue, Quiet(queue),
         restart(c, queue), todo = <<>>,
         UNCHANGED <<todo, activeGroup, mMonitoredConnections>>
  PROVE  TypeInv' /\ StopInv'
<1>1. CASE /\ mIsStopped' = [mIsStopped EXCEPT ![c] = FALSE]
           /\ stopProcess(c) /\ posted' = queue
           /\ UNCHANGED <<linked, late>>
  <2>1. /\ process' \in [Controller -> {"NotRunning", "Starting", "Running"}]
        /\ killed' \in [Controller -> BOOLEAN]
        /\ \A b \in Controller \ {c} :
             process'[b] = process[b] /\ killed'[b] = killed[b]
    BY <1>1, StopProcessEnds
  <2>2. /\ mIsStopped' \in [Controller -> BOOLEAN] /\ mIsStopped'[c] = FALSE
        /\ \A b \in Controller \ {c} : mIsStopped'[b] = mIsStopped[b]
    BY <1>1 DEF TypeInv
  <2>3. TypeInv'
    BY <1>1, <2>1, <2>2 DEF TypeInv, Quiet
  <2>4. StoppedStaysDown'
    BY <1>1, <2>1, <2>2 DEF StopInv, StoppedStaysDown
  <2>5. StoppedIsUnlinked' /\ LinkedIsChecked'
    BY <1>1, <2>2 DEF StopInv, StoppedIsUnlinked, LinkedIsChecked
  <2>6. QueueInv'
    BY <1>1, QuietKeepsQueue DEF StopInv
  <2>7. FinishInv'
    BY DEF StopInv, FinishInv
  <2> QED
    BY <2>3, <2>4, <2>5, <2>6, <2>7 DEF StopInv
<1>2. CASE start(c, queue)
  BY <1>2, StartKeeps
<1> QED
  BY <1>1, <1>2 DEF restart

(* The begin of stop() of one process: its checker is disconnected. *)
LEMMA StopIfRunningKeeps ==
  ASSUME TypeInv, StopInv, stopIfRunning,
         UNCHANGED <<activeGroup, mMonitoredConnections>>
  PROVE  TypeInv' /\ StopInv'
<1> DEFINE c == Head(todo).of
<1>1. /\ todo # <<>> /\ Head(todo).slot = "stopIfRunning"
      /\ UNCHANGED <<process, killed, mIsStopped, posted>>
  BY DEF stopIfRunning, Continues
<1>2. /\ FinishesNothing(Tail(todo)) /\ Head(todo) \in TodoCall
  BY <1>1, TailFinishesNothing DEF StopInv
<1>3. c \in Controller
  BY <1>1, <1>2 DEF TodoCall
<1>4. Quiet(posted')
  BY <1>1, PostedIsQuiet
<1>5. CASE Running(c)
  <2> DEFINE call == Call("finishStop", c)
  <2>1. call \in TodoCall /\ call.of = c
    BY <1>3 DEF Call, TodoCall
  <2>2. todo' = <<call>> \o Tail(todo)
    BY <1>5 DEF stopIfRunning
  <2>3. /\ todo' \in Seq(TodoCall) /\ todo'[1] = call
        /\ \A i \in 2 .. Len(todo') : todo'[i].slot # "finishStop"
    <3> HIDE DEF call
    <3> QED
      BY <1>2, <2>1, <2>2, CallBeforeRest
  <2>4. /\ linked' \in [Controller -> BOOLEAN] /\ ~ linked'[c]
        /\ \A b \in Controller \ {c} : linked'[b] = linked[b]
        /\ late \subseteq late'
    <3>1. CASE c \in Checked
      <4>1. disconnect(c)
        BY <1>5, <3>1 DEF stopIfRunning
      <4> QED
        BY <1>3, <4>1 DEF disconnect, TypeInv
    <3>2. CASE c \notin Checked
      <4>1. UNCHANGED <<linked, late>>
        BY <1>5, <3>2 DEF stopIfRunning
      <4> QED
        BY <1>3, <3>2, <4>1 DEF TypeInv, StopInv, LinkedIsChecked
    <3> QED
      BY <3>1, <3>2
  <2>5. QueueInv'
    <3> SUFFICES ASSUME NEW i \in 1 .. Len(posted),
                        posted[i].slot = "on_databaseReady"
                 PROVE  linked'[posted[i].of] \/ posted[i].of \in late'
      BY <1>1 DEF QueueInv
    <3>1. posted[i] \in PostedCall
      BY DEF TypeInv
    <3>2. posted[i].of \in Checked /\ posted[i] = Call("on_databaseReady", posted[i].of)
      BY <3>1 DEF PostedCall, Call
    <3>3. CASE posted[i].of = c
      <4>1. disconnect(c)
        BY <1>5, <3>2, <3>3 DEF stopIfRunning
      <4>2. Call("on_databaseReady", c) \in ToSet(posted)
        <5>1. posted \in Seq(PostedCall)
          BY DEF TypeInv
        <5> QED
          BY <3>2, <3>3, <5>1 DEF ToSet
      <4> QED
        BY <3>3, <4>1, <4>2 DEF disconnect
    <3>4. CASE posted[i].of # c
      <4>1. posted[i].of \in Controller
        BY <3>2, ProcessControllerAssumption
      <4>2. linked[posted[i].of] \/ posted[i].of \in late
        BY DEF StopInv, QueueInv
      <4> QED
        BY <2>4, <3>4, <4>1, <4>2
    <3> QED
      BY <3>3, <3>4
  <2>6. TypeInv'
    BY <1>1, <2>3, <2>4 DEF TypeInv
  <2>7. StoppedStaysDown'
    BY <1>1, <2>4 DEF StopInv, StoppedStaysDown
  <2>8. StoppedIsUnlinked' /\ LinkedIsChecked'
    BY <1>1, <1>3, <2>4 DEF StopInv, StoppedIsUnlinked, LinkedIsChecked
  <2>9. FinishInv'
    BY <2>1, <2>3, <2>4 DEF FinishInv
  <2> QED
    BY <2>5, <2>6, <2>7, <2>8, <2>9 DEF StopInv
<1>6. CASE ~ Running(c)
  <2>1. todo' = Tail(todo) /\ UNCHANGED <<linked, late>>
    BY <1>6 DEF stopIfRunning
  <2> QED
    BY <1>1, <1>2, <1>4, <2>1, CalmStep DEF TypeInv
<1> QED
  BY <1>5, <1>6

(* The rest of stop(). *)
LEMMA FinishStopKeeps ==
  ASSUME TypeInv, StopInv, finishStop,
         UNCHANGED <<activeGroup, mMonitoredConnections>>
  PROVE  TypeInv' /\ StopInv'
<1> DEFINE c == Head(todo).of
<1>1. /\ todo # <<>> /\ Head(todo).slot = "finishStop"
      /\ mIsStopped' = [mIsStopped EXCEPT ![c] = TRUE]
      /\ stopProcess(c)
      /\ todo' = Tail(todo)
      /\ UNCHANGED <<linked, late, posted>>
  BY DEF finishStop, Continues
<1>2. /\ FinishesNothing(Tail(todo)) /\ Head(todo) = todo[1]
      /\ Head(todo) \in TodoCall
  BY <1>1, TailFinishesNothing DEF StopInv
<1>3. c \in Controller
  BY <1>1, <1>2 DEF TodoCall
<1>4. ~ linked[c]
  BY <1>1, <1>2 DEF StopInv, FinishInv
<1> HIDE DEF c
<1>5. /\ process' \in [Controller -> {"NotRunning", "Starting", "Running"}]
      /\ killed' \in [Controller -> BOOLEAN]
      /\ process'[c] = "NotRunning" \/ killed'[c]
      /\ \A b \in Controller \ {c} :
           process'[b] = process[b] /\ killed'[b] = killed[b]
  BY <1>1, <1>3, StopProcessEnds
<1>6. /\ mIsStopped' \in [Controller -> BOOLEAN]
      /\ \A b \in Controller \ {c} : mIsStopped'[b] = mIsStopped[b]
  BY <1>1 DEF TypeInv
<1>7. TypeInv'
  BY <1>1, <1>2, <1>5, <1>6 DEF TypeInv, FinishesNothing
<1>8. StoppedStaysDown'
  BY <1>1, <1>5, <1>6 DEF StopInv, StoppedStaysDown
<1>9. StoppedIsUnlinked' /\ LinkedIsChecked'
  BY <1>1, <1>4, <1>6 DEF StopInv, StoppedIsUnlinked, LinkedIsChecked
<1>10. QueueInv'
  BY <1>1, PostedIsQuiet, QuietKeepsQueue DEF StopInv
<1>11. FinishInv'
  <2>1. Tail(todo) \in Seq(TodoCall)
    BY <1>2 DEF FinishesNothing
  <2>2. Tail(todo) # <<>> => 1 \in 1 .. Len(Tail(todo))
    BY <2>1
  <2>3. \A i \in 2 .. Len(Tail(todo)) : i \in 1 .. Len(Tail(todo))
    BY <2>1
  <2> QED
    BY <1>1, <1>2, <2>2, <2>3 DEF FinishesNothing, FinishInv
<1> QED
  BY <1>7, <1>8, <1>9, <1>10, <1>11 DEF StopInv

(* A checker thread reports to its controller, if it is connected to it. *)
LEMMA CheckerLeavesKeeps ==
  ASSUME TypeInv, StopInv, NEW t \in Checked, checkerLeaves(t),
         UNCHANGED <<activeGroup, mMonitoredConnections>>
  PROVE  TypeInv' /\ StopInv'
<1>1. UNCHANGED <<process, killed, mIsStopped, linked, late, todo>>
  BY DEF checkerLeaves, controllerVars
<1>2. CASE posted' = posted
  BY <1>1, <1>2, PostedIsQuiet, CalmStep DEF TypeInv
<1>3. CASE linked[t] /\ posted' = Append(posted, Call("on_databaseReady", t))
  <2> DEFINE call == Call("on_databaseReady", t)
  <2>1. call \in PostedCall /\ call.of = t
    BY DEF Call, PostedCall
  <2>2. posted \in Seq(PostedCall) /\ posted' = Append(posted, call)
    BY <1>3 DEF TypeInv
  <2> HIDE DEF call
  <2>3. /\ posted' \in Seq(PostedCall)
        /\ Len(posted') = Len(posted) + 1
        /\ Len(posted) \in Nat
        /\ \A i \in 1 .. Len(posted) : posted'[i] = posted[i]
        /\ posted'[Len(posted) + 1] = call
    BY <2>1, <2>2
  <2>4. TypeInv'
    BY <1>1, <2>3 DEF TypeInv
  <2>5. StoppedStaysDown' /\ StoppedIsUnlinked' /\ LinkedIsChecked'
    BY <1>1 DEF StopInv, StoppedStaysDown, StoppedIsUnlinked, LinkedIsChecked
  <2>6. QueueInv'
    <3> SUFFICES ASSUME NEW i \in 1 .. Len(posted'),
                        posted'[i].slot = "on_databaseReady"
                 PROVE  linked[posted'[i].of] \/ posted'[i].of \in late
      BY <1>1 DEF QueueInv
    <3>1. CASE i \in 1 .. Len(posted)
      BY <2>3, <3>1 DEF StopInv, QueueInv
    <3>2. CASE i = Len(posted) + 1
      BY <1>3, <2>1, <2>3, <3>2
    <3> QED
      BY <2>3, <3>1, <3>2
  <2>7. FinishInv'
    BY <1>1 DEF StopInv, FinishInv
  <2> QED
    BY <2>4, <2>5, <2>6, <2>7 DEF StopInv
<1> QED
  BY <1>2, <1>3 DEF checkerLeaves

(* A single call. *)
LEMMA OneCallFinishesNothing ==
  ASSUME NEW call \in TodoCall, call.slot # "finishStop"
  PROVE  FinishesNothing(<<call>>)
<1>1. <<call>> \in Seq(TodoCall) /\ Len(<<call>>) = 1 /\ <<call>>[1] = call
  OBVIOUS
<1> QED
  BY <1>1 DEF FinishesNothing

(* What the event loop calls of controllers and checkers. *)
LEMMA ControllerCallKeeps ==
  ASSUME TypeInv, StopInv, ControllerCall
  PROVE  TypeInv' /\ StopInv'
<1>0. UNCHANGED <<activeGroup, mMonitoredConnections>>
  BY DEF ControllerCall, Rest, databaseCtrlVars
<1>0a. activeGroup' \in Group /\ mMonitoredConnections' \subseteq Database
  BY <1>0 DEF TypeInv
<1>1. CASE callWaitConnection
  <2>1. /\ posted # <<>> /\ Head(posted).slot = "waitConnection"
        /\ todo' = <<Head(posted)>> /\ posted' = Tail(posted)
        /\ UNCHANGED <<process, killed, mIsStopped, linked, late>>
    BY <1>1 DEF callWaitConnection, Delivers, controllerVars
  <2>2. Head(posted) \in PostedCall /\ Quiet(Tail(posted))
    BY <2>1, TailIsQuiet
  <2>3. Head(posted) \in TodoCall
    BY <2>1, <2>2, ProcessControllerAssumption DEF PostedCall, TodoCall
  <2>4. FinishesNothing(<<Head(posted)>>)
    BY <2>1, <2>3, OneCallFinishesNothing
  <2> QED
    BY <1>0a, <2>1, <2>2, <2>4, CalmStep
<1>2. CASE on_databaseReady
  <2> DEFINE c == Head(posted).of
  <2>1. /\ posted # <<>> /\ Head(posted).slot = "on_databaseReady"
        /\ launch(c) /\ posted' = Tail(posted) /\ todo = <<>>
        /\ UNCHANGED <<killed, mIsStopped, linked, late, todo>>
    BY <1>2 DEF on_databaseReady, Delivers, Idle
  <2>2. /\ Head(posted) \in PostedCall /\ Quiet(Tail(posted))
        /\ Head(posted) = posted[1] /\ 1 \in 1 .. Len(posted)
    BY <2>1, TailIsQuiet
  <2>3. c \in Checked /\ c \in Controller
    BY <2>1, <2>2, ProcessControllerAssumption DEF PostedCall
  <2>4. linked[c] \/ c \in late
    BY <2>1, <2>2 DEF StopInv, QueueInv
  <2> HIDE DEF c
  <2>5. mIsStopped[c] => c \in late
    BY <2>3, <2>4 DEF StopInv, StoppedIsUnlinked
  <2>6. /\ process' \in [Controller -> {"NotRunning", "Starting", "Running"}]
        /\ \A b \in Controller \ {c} : process'[b] = process[b]
    BY <2>1 DEF launch, TypeInv
  <2>7. killed' \in [Controller -> BOOLEAN]
    BY <2>1 DEF TypeInv
  <2> QED
    BY <1>0, <2>1, <2>2, <2>5, <2>6, <2>7, ProcessStep
<1>3. CASE waitConnection
  <2>1. /\ todo # <<>> /\ todo' = Tail(todo)
        /\ UNCHANGED <<process, killed, mIsStopped, linked, late, posted>>
    BY <1>3 DEF waitConnection, Continues, controllerVars
  <2> QED
    BY <1>0a, <2>1, TailFinishesNothing, PostedIsQuiet, CalmStep DEF StopInv
<1>4. CASE startService
  <2>1. /\ todo # <<>> /\ Head(todo).slot = "startService"
        /\ start(Head(todo).of, posted) /\ todo' = Tail(todo)
    BY <1>4 DEF startService, Continues
  <2>2. FinishesNothing(Tail(todo)) /\ Head(todo) \in TodoCall
    BY <2>1, TailFinishesNothing DEF StopInv
  <2>3. Head(todo).of \in Controller
    BY <2>1, <2>2 DEF TodoCall
  <2>4. todo' = todo => todo = <<>>
    <3>1. todo \in Seq(TodoCall)
      BY DEF TypeInv
    <3>2. Len(Tail(todo)) # Len(todo)
      BY <2>1, <3>1
    <3> QED
      BY <2>1, <3>2
  <2> QED
    BY <1>0, <2>1, <2>2, <2>3, <2>4, PostedIsQuiet, StartKeeps
<1>5. CASE stopIfRunning
  BY <1>0, <1>5, StopIfRunningKeeps
<1>6. CASE finishStop
  BY <1>0, <1>6, FinishStopKeeps
<1> QED
  BY <1>1, <1>2, <1>3, <1>4, <1>5, <1>6 DEF ControllerCall

(* What happens to a process, and its restart timer. *)
LEMMA ProcessEventKeeps ==
  ASSUME TypeInv, StopInv, NEW c \in Controller, ProcessEvent(c)
  PROVE  TypeInv' /\ StopInv'
<1>0. UNCHANGED <<activeGroup, mMonitoredConnections>>
  BY DEF ProcessEvent, Rest, databaseCtrlVars
<1>1. CASE on_started(c)
  <2>1. /\ todo = <<>> /\ process[c] = "Starting"
        /\ process' = [process EXCEPT ![c] = "Running"]
        /\ UNCHANGED <<todo, posted, killed, mIsStopped, linked, late>>
    BY <1>1 DEF on_started, Idle, loopVars
  <2>2. /\ process' \in [Controller -> {"NotRunning", "Starting", "Running"}]
        /\ killed' \in [Controller -> BOOLEAN]
        /\ \A b \in Controller \ {c} : process'[b] = process[b]
    BY <2>1 DEF TypeInv
  <2>3. mIsStopped[c] => killed[c] \/ c \in late
    BY <2>1 DEF StopInv, StoppedStaysDown
  <2>4. Quiet(posted')
    BY <2>1, PostedIsQuiet
  <2> QED
    BY <1>0, <2>1, <2>2, <2>3, <2>4, ProcessStep
<1>2. CASE on_error(c) \/ processEnds(c)
  <2>1. /\ todo = <<>> /\ process' = [process EXCEPT ![c] = "NotRunning"]
        /\ killed' = killed \/ killed' = [killed EXCEPT ![c] = FALSE]
        /\ UNCHANGED <<todo, posted, mIsStopped, linked, late>>
    BY <1>2 DEF on_error, processEnds, on_finished, Idle, loopVars
  <2>2. /\ process' \in [Controller -> {"NotRunning", "Starting", "Running"}]
        /\ killed' \in [Controller -> BOOLEAN]
        /\ process'[c] = "NotRunning"
        /\ \A b \in Controller \ {c} :
             process'[b] = process[b] /\ killed'[b] = killed[b]
    BY <2>1 DEF TypeInv
  <2>3. Quiet(posted')
    BY <2>1, PostedIsQuiet
  <2> QED
    BY <1>0, <2>1, <2>2, <2>3, ProcessStep
<1>3. CASE runProcess(c)
  <2>1. /\ todo = <<>>
        /\ UNCHANGED <<todo, killed, mIsStopped, linked, late>>
    BY <1>3 DEF runProcess, Idle
  <2>2. CASE mIsStopped[c]
    <3>1. UNCHANGED <<process, posted>>
      BY <1>3, <2>2 DEF runProcess
    <3> QED
      BY <1>0, <2>1, <3>1, PostedIsQuiet, CalmStep DEF TypeInv
  <2>3. CASE ~ mIsStopped[c]
    <3>1. runUnstopped(c, posted)
      BY <1>3, <2>3 DEF runProcess
    <3>2. /\ Quiet(posted')
          /\ process' \in [Controller -> {"NotRunning", "Starting", "Running"}]
          /\ \A b \in Controller \ {c} : process'[b] = process[b]
      BY <3>1, PostedIsQuiet, RunUnstoppedQueues
    <3>3. killed' \in [Controller -> BOOLEAN]
      BY <2>1 DEF TypeInv
    <3> QED
      BY <1>0, <2>1, <2>3, <3>2, <3>3, ProcessStep
  <2> QED
    BY <2>2, <2>3
<1> QED
  BY <1>1, <1>2, <1>3 DEF ProcessEvent

(* The controller of databases goes on: with one to wait for, or ready.    *)
LEMMA StartNextQueues ==
  ASSUME NEW monitored, monitored \subseteq Database, NEW done,
         NEW queue, Quiet(queue), startNext(monitored, done, queue)
  PROVE  Quiet(posted') /\ FinishesNothing(todo')
<1>1. CASE monitored \subseteq done
  <2>1. /\ posted' = queue \o ready \o (IF monitored = {} THEN ready ELSE <<>>)
        /\ todo' = <<>>
    BY <1>1 DEF startNext
  <2>2. Quiet(queue \o ready)
    BY ReadyIsQuiet
  <2>3. Quiet(posted')
    <3>1. CASE monitored = {}
      <4>1. Quiet((queue \o ready) \o ready)
        BY <2>2, ReadyIsQuiet
      <4> QED
        BY <2>1, <3>1, <4>1
    <3>2. CASE monitored # {}
      <4>1. queue \o ready \in Seq(PostedCall)
        BY <2>2 DEF Quiet
      <4>2. (queue \o ready) \o <<>> = queue \o ready
        BY <4>1, ConcatEmptySeq
      <4> QED
        BY <2>1, <2>2, <3>2, <4>2
    <3> QED
      BY <3>1, <3>2
  <2>4. FinishesNothing(todo')
    <3>1. todo' \in Seq(TodoCall) /\ Len(todo') = 0
      BY <2>1
    <3> QED
      BY <3>1 DEF FinishesNothing
  <2> QED
    BY <2>3, <2>4
<1>2. CASE ~ monitored \subseteq done
  <2>1. PICK d \in monitored \ done :
          todo' = <<Call("startDatabase", d)>> /\ posted' = queue
    BY <1>2 DEF startNext
  <2>2. /\ Call("startDatabase", d) \in TodoCall
        /\ Call("startDatabase", d).slot # "finishStop"
    BY DEF Call, TodoCall
  <2>3. FinishesNothing(<<Call("startDatabase", d)>>)
    BY <2>2, OneCallFinishesNothing
  <2> QED
    BY <2>1, <2>3
<1> QED
  BY <1>1, <1>2

(* The services of a group are processes. *)
LEMMA OrderType ==
  ASSUME TypeInv
  PROVE  /\ Order \in Seq(Controller)
         /\ FinishesNothing(Stopping)
         /\ FinishesNothing([i \in DOMAIN Order |-> Call("startService", Order[i])])
         /\ Stopping \in Seq(TodoCall)
         /\ \A i \in 1 .. Len(Stopping) : Stopping[i].slot = "stopIfRunning"
         /\ \A i \in 1 .. Len([j \in DOMAIN Order |-> Call("startService", Order[j])]) :
              [j \in DOMAIN Order |-> Call("startService", Order[j])][i].slot
                = "startService"
<1>1. Order \in Seq(Controller)
  BY SupervisorAssumption DEF Order, TypeInv
<1> HIDE DEF Order
<1>2. Len(Order) \in Nat /\ DOMAIN Order = 1 .. Len(Order)
  BY <1>1
<1> DEFINE starting == [i \in DOMAIN Order |-> Call("startService", Order[i])]
<1>3. \A i \in DOMAIN Order : Order[i] \in Controller /\ Reverse(Order)[i] \in Controller
  <2> SUFFICES ASSUME NEW i \in DOMAIN Order
               PROVE  Order[i] \in Controller /\ Reverse(Order)[i] \in Controller
    OBVIOUS
  <2>1. Len(Order) - i + 1 \in DOMAIN Order
    BY <1>2
  <2>2. Reverse(Order)[i] = Order[Len(Order) - i + 1]
    BY <1>2 DEF Reverse
  <2> QED
    BY <1>1, <2>1, <2>2
<1>4. \A c \in Controller :
        /\ Call("startService", c) \in TodoCall /\ Call("stopIfRunning", c) \in TodoCall
        /\ Call("startService", c).slot = "startService"
        /\ Call("stopIfRunning", c).slot = "stopIfRunning"
  BY DEF Call, TodoCall
<1>5. /\ starting \in Seq(TodoCall) /\ Len(starting) = Len(Order)
      /\ \A i \in 1 .. Len(Order) : starting[i].slot = "startService"
  <2>1. starting \in [1 .. Len(Order) -> TodoCall]
    BY <1>2, <1>3, <1>4
  <2>2. \A i \in 1 .. Len(Order) : starting[i].slot = "startService"
    BY <1>2, <1>3, <1>4
  <2> QED
    BY <1>2, <2>1, <2>2, IsASeq
<1>6. /\ Stopping \in Seq(TodoCall) /\ Len(Stopping) = Len(Order)
      /\ \A i \in 1 .. Len(Order) : Stopping[i].slot = "stopIfRunning"
  <2>1. Stopping \in [1 .. Len(Order) -> TodoCall]
    BY <1>2, <1>3, <1>4 DEF Stopping
  <2>2. \A i \in 1 .. Len(Order) : Stopping[i].slot = "stopIfRunning"
    BY <1>2, <1>3, <1>4 DEF Stopping
  <2> QED
    BY <1>2, <2>1, <2>2, IsASeq
<1>7. FinishesNothing(starting)
  BY <1>5 DEF FinishesNothing
<1>8. FinishesNothing(Stopping)
  BY <1>6 DEF FinishesNothing
<1>9. /\ \A i \in 1 .. Len(Stopping) : Stopping[i].slot = "stopIfRunning"
      /\ \A i \in 1 .. Len(starting) : starting[i].slot = "startService"
  BY <1>5, <1>6
<1> QED
  BY <1>1, <1>6, <1>7, <1>8, <1>9

(* All that the main thread handles. *)
LEMMA EventLoopKeeps ==
  ASSUME TypeInv, StopInv, EventLoop
  PROVE  TypeInv' /\ StopInv'
<1>1. CASE ControllerCall
  BY <1>1, ControllerCallKeeps
<1>2. CASE startDatabase \/ joinDatabase
  <2>1. /\ todo # <<>> /\ todo' = Tail(todo)
        /\ UNCHANGED <<process, killed, mIsStopped, linked, late, posted,
                       activeGroup, mMonitoredConnections>>
    BY <1>2 DEF startDatabase, joinDatabase, Continues, controllerVars,
                databaseCtrlVars
  <2> QED
    BY <2>1, TailFinishesNothing, PostedIsQuiet, CalmStep DEF StopInv, TypeInv
<1>3. CASE onDatabaseReady
  <2>1. /\ posted # <<>>
        /\ UNCHANGED <<process, killed, mIsStopped, linked, late,
                       activeGroup, mMonitoredConnections>>
        /\ \E done : startNext(mMonitoredConnections, done, Tail(posted))
    BY <1>3 DEF onDatabaseReady, Delivers, controllerVars
  <2>2. mMonitoredConnections \subseteq Database
    BY DEF TypeInv
  <2>3. Quiet(posted') /\ FinishesNothing(todo')
    BY <2>1, <2>2, TailIsQuiet, StartNextQueues
  <2> QED
    BY <2>1, <2>3, CalmStep DEF TypeInv
<1>4. CASE stopDatabase
  <2> DEFINE call == Call("joinDatabase", Head(todo).of)
  <2>1. /\ todo # <<>> /\ Head(todo).slot = "stopDatabase"
        /\ todo' = <<call>> \o Tail(todo)
        /\ UNCHANGED <<process, killed, mIsStopped, linked, late, posted,
                       activeGroup, mMonitoredConnections>>
    BY <1>4 DEF stopDatabase, Continues, controllerVars, databaseCtrlVars
  <2>2. FinishesNothing(Tail(todo)) /\ Head(todo) \in TodoCall
    BY <2>1, TailFinishesNothing DEF StopInv
  <2>3. call \in TodoCall /\ call.slot # "finishStop"
    BY <2>1, <2>2 DEF Call, TodoCall
  <2>4. FinishesNothing(todo')
    <3> HIDE DEF call
    <3> QED
      BY <2>1, <2>2, <2>3, CallBeforeRest
  <2> QED
    BY <2>1, <2>4, PostedIsQuiet, CalmStep DEF TypeInv
<1>5. CASE startDatabases
  <2> DEFINE g == Head(todo).of
  <2>1. /\ todo # <<>> /\ Head(todo).slot = "startDatabases"
        /\ activeGroup' = g
        /\ mMonitoredConnections' = activeDatabaseList(g)
        /\ startNext(activeDatabaseList(g), {}, posted)
        /\ UNCHANGED <<process, killed, mIsStopped, linked, late>>
    BY <1>5 DEF startDatabases, Continues, controllerVars
  <2>2. g \in Group
    <3>1. Head(todo) \in TodoCall
      BY <2>1, TailFinishesNothing DEF StopInv
    <3> QED
      BY <2>1, <3>1 DEF TodoCall
  <2> HIDE DEF g
  <2>3. activeDatabaseList(g) \subseteq Database
    BY DbConnThreadAssumption DEF activeDatabaseList
  <2>4. Quiet(posted') /\ FinishesNothing(todo')
    BY <2>1, <2>3, PostedIsQuiet, StartNextQueues
  <2> QED
    BY <2>1, <2>2, <2>3, <2>4, CalmStep
<1>6. CASE startAll \/ stopAll
  <2>1. /\ posted # <<>> /\ posted' = Tail(posted)
        /\ \/ todo' = [i \in DOMAIN Order |-> Call("startService", Order[i])]
           \/ todo' = Stopping
        /\ UNCHANGED <<process, killed, mIsStopped, linked, late,
                       activeGroup, mMonitoredConnections>>
    BY <1>6 DEF startAll, stopAll, Delivers, controllerVars, databaseCtrlVars
  <2>2. FinishesNothing(todo')
    BY <2>1, OrderType
  <2> QED
    BY <2>1, <2>2, TailIsQuiet, CalmStep DEF TypeInv
<1>7. CASE restartOne
  <2>1. /\ posted # <<>> /\ Head(posted).slot = "restart" /\ todo = <<>>
        /\ restart(Head(posted).of, Tail(posted))
        /\ UNCHANGED <<todo, activeGroup, mMonitoredConnections>>
    BY <1>7 DEF restartOne, Delivers, Idle, databaseCtrlVars
  <2>2. Quiet(Tail(posted)) /\ Head(posted) \in PostedCall
    BY <2>1, TailIsQuiet
  <2>3. Head(posted).of \in Controller
    BY <2>1, <2>2 DEF PostedCall
  <2> QED
    BY <2>1, <2>2, <2>3, RestartKeeps
<1> QED
  BY <1>1, <1>2, <1>3, <1>4, <1>5, <1>6, <1>7 DEF EventLoop

(* The threads, the request thread, the client and the databases. *)
LEMMA OthersKeep ==
  ASSUME TypeInv, StopInv, RequestInv,
         \/ RequestWorker
         \/ ClientCommand
         \/ \E t \in Thread : ThreadRuns(t) \/ ThreadLeaves(t)
         \/ Outside
         \/ UNCHANGED vars
  PROVE  TypeInv' /\ StopInv'
<1>1. CASE processRequest
  <2>1. /\ worker = "busy" /\ posted' = Append(posted, Last(mRequests))
        /\ UNCHANGED <<process, killed, mIsStopped, linked, late, todo,
                       activeGroup, mMonitoredConnections>>
    BY <1>1 DEF processRequest, controllerVars, databaseCtrlVars
  <2>2. Last(mRequests) \in Request
    <3>1. mRequests \in Seq(Request) /\ mRequests # <<>>
      BY <2>1 DEF RequestInv
    <3> QED
      BY <3>1 DEF Last
  <2>3. Last(mRequests) \in PostedCall /\ Last(mRequests).slot # "on_databaseReady"
    BY <2>2, SupervisorAssumption DEF PostedCall
  <2>4. Quiet(posted')
    BY <2>1, <2>3, PostedIsQuiet, AppendIsQuiet
  <2> QED
    BY <2>1, <2>4, CalmStep DEF TypeInv
<1>2. ASSUME NEW g \in Group, activateGroup(g)
      PROVE  TypeInv' /\ StopInv'
  <2> DEFINE stopping == [i \in DOMAIN mDatabases |-> Call("stopDatabase", mDatabases[i])]
             call == Call("startDatabases", g)
  <2>1. /\ todo' = Stopping \o stopping \o <<call>>
        /\ UNCHANGED <<process, killed, mIsStopped, linked, late, posted,
                       activeGroup, mMonitoredConnections>>
    BY <1>2 DEF activateGroup, controllerVars, databaseCtrlVars
  <2>2. FinishesNothing(stopping)
    <3>1. mDatabases \in Seq(Database)
      BY SupervisorAssumption
    <3>2. Len(mDatabases) \in Nat /\ DOMAIN mDatabases = 1 .. Len(mDatabases)
      BY <3>1
    <3>3. \A d \in Database : Call("stopDatabase", d) \in TodoCall
                             /\ Call("stopDatabase", d).slot = "stopDatabase"
      BY DEF Call, TodoCall
    <3>4. \A i \in 1 .. Len(mDatabases) : mDatabases[i] \in Database
      BY <3>1
    <3>5. stopping \in [1 .. Len(mDatabases) -> TodoCall]
      BY <3>2, <3>3, <3>4
    <3>6. \A i \in 1 .. Len(mDatabases) : stopping[i].slot = "stopDatabase"
      BY <3>2, <3>3, <3>4
    <3>7. stopping \in Seq(TodoCall) /\ Len(stopping) = Len(mDatabases)
      BY <3>2, <3>5, IsASeq
    <3> QED
      BY <3>6, <3>7 DEF FinishesNothing
  <2>3. FinishesNothing(<<call>>)
    <3>1. call \in TodoCall /\ call.slot # "finishStop"
      BY DEF Call, TodoCall
    <3> HIDE DEF call
    <3> QED
      BY <3>1, OneCallFinishesNothing
  <2> HIDE DEF stopping, call
  <2>4. FinishesNothing(Stopping \o stopping)
    BY <2>2, OrderType, ConcatFinishesNothing
  <2>5. FinishesNothing(todo')
    BY <2>1, <2>3, <2>4, ConcatFinishesNothing
  <2> QED
    BY <2>1, <2>5, PostedIsQuiet, CalmStep DEF TypeInv
<1>3. CASE UNCHANGED <<process, killed, mIsStopped, linked, late, todo,
                       posted, activeGroup, mMonitoredConnections>>
  BY <1>3, PostedIsQuiet, CalmStep DEF TypeInv
<1>4. ASSUME NEW t \in Checked, checkerLeaves(t), UNCHANGED Rest
      PROVE  TypeInv' /\ StopInv'
  BY <1>4, CheckerLeavesKeeps DEF Rest, databaseCtrlVars
<1>5. ASSUME NEW d \in Database, databaseLeaves(d)
      PROVE  TypeInv' /\ StopInv'
  <2> DEFINE call == Call("onDatabaseReady", Nobody)
  <2>1. /\ posted' \in {posted, Append(posted, call)}
        /\ UNCHANGED <<process, killed, mIsStopped, linked, late, todo,
                       activeGroup, mMonitoredConnections>>
    BY <1>5 DEF databaseLeaves, controllerVars
  <2>2. call \in PostedCall /\ call.slot # "on_databaseReady"
    BY DEF Call, PostedCall
  <2> HIDE DEF call
  <2>3. Quiet(posted')
    BY <2>1, <2>2, PostedIsQuiet, AppendIsQuiet
  <2> QED
    BY <2>1, <2>3, CalmStep DEF TypeInv
<1>6. CASE sleep
  BY <1>3, <1>6 DEF sleep, controllerVars, loopVars, databaseCtrlVars
<1>7. ASSUME NEW request, on_variantReceived(request)
      PROVE  TypeInv' /\ StopInv'
  BY <1>3, <1>7 DEF on_variantReceived, controllerVars, loopVars, databaseCtrlVars
<1>8. ASSUME NEW t, ThreadRuns(t)
      PROVE  TypeInv' /\ StopInv'
  BY <1>3, <1>8 DEF ThreadRuns, Rest, controllerVars, loopVars, databaseCtrlVars
<1>9. CASE Outside
  BY <1>3, <1>9 DEF Outside, Rest, controllerVars, loopVars, databaseCtrlVars
<1>10. CASE UNCHANGED vars
  BY <1>3, <1>10 DEF vars, controllerVars, loopVars, databaseCtrlVars
<1>11. CASE RequestWorker
  BY <1>1, <1>6, <1>11 DEF RequestWorker
<1>12. CASE ClientCommand
  BY <1>2, <1>7, <1>12 DEF ClientCommand
<1>13. CASE \E t \in Thread : ThreadLeaves(t)
  BY <1>4, <1>5, <1>13 DEF ThreadLeaves
<1> QED
  BY <1>8, <1>9, <1>10, <1>11, <1>12, <1>13

(* Only the client and the request thread touch the stack. *)
LEMMA RequestStep ==
  ASSUME RequestInv, [Next]_vars
  PROVE  RequestInv'
<1>1. CASE processRequest
  <2>1. /\ mRequests \in Seq(Request) /\ mRequests # <<>>
        /\ mRequests' = Front(mRequests)
        /\ worker' = IF Len(mRequests) = 1 THEN "dozing" ELSE "busy"
    BY <1>1 DEF processRequest, RequestInv
  <2>2. /\ mRequests' \in Seq(Request)
        /\ Len(mRequests') = Len(mRequests) - 1
        /\ Len(mRequests) \in Nat \ {0}
    <3>1. Len(mRequests) \in Nat \ {0} /\ DOMAIN mRequests = 1 .. Len(mRequests)
      BY <2>1
    <3>2. Front(mRequests) = SubSeq(mRequests, 1, Len(mRequests) - 1)
      BY DEF Front
    <3>3. /\ SubSeq(mRequests, 1, Len(mRequests) - 1) \in Seq(Request)
          /\ Len(SubSeq(mRequests, 1, Len(mRequests) - 1)) = Len(mRequests) - 1
      BY <2>1, <3>1, SubSeqProperties
    <3> QED
      BY <2>1, <3>1, <3>2, <3>3
  <2>3. mRequests' = <<>> <=> Len(mRequests) = 1
    BY <2>2
  <2> QED
    BY <2>1, <2>2, <2>3 DEF RequestInv
<1>2. CASE sleep
  BY <1>2 DEF sleep, RequestInv
<1>3. ASSUME NEW request \in Request, on_variantReceived(request)
      PROVE  RequestInv'
  <2>1. /\ mRequests \in Seq(Request)
        /\ mRequests' = Append(mRequests, request)
        /\ worker' = IF worker = "asleep" THEN "busy" ELSE worker
        /\ missedWake' = (missedWake \/ worker = "dozing")
    BY <1>3 DEF on_variantReceived, add, RequestInv
  <2>2. mRequests' \in Seq(Request) /\ mRequests' # <<>>
    BY <2>1, AppendProperties
  <2> QED
    BY <2>1, <2>2 DEF RequestInv
<1>4. CASE UNCHANGED requestVars
  BY <1>4 DEF RequestInv, requestVars
<1>5. EventLoop => UNCHANGED requestVars
  BY DEF EventLoop, ControllerCall, Rest, startDatabase, onDatabaseReady,
         stopDatabase, joinDatabase, startDatabases, startAll, stopAll, restartOne
<1>6. ASSUME NEW c, ProcessEvent(c) PROVE UNCHANGED requestVars
  BY <1>6 DEF ProcessEvent, Rest
<1>7. ASSUME NEW g, activateGroup(g) PROVE UNCHANGED requestVars
  BY <1>7 DEF activateGroup
<1>8. ASSUME NEW t, ThreadRuns(t) \/ ThreadLeaves(t) PROVE UNCHANGED requestVars
  BY <1>8 DEF ThreadRuns, ThreadLeaves, databaseLeaves, Rest
<1>9. Outside \/ UNCHANGED vars => UNCHANGED requestVars
  BY DEF Outside, Rest, vars
<1> QED
  BY <1>1, <1>2, <1>3, <1>4, <1>5, <1>6, <1>7, <1>8, <1>9
  DEF Next, RequestWorker, ClientCommand

(* The invariant is inductive. *)
LEMMA InitIInv == SupervisorInit => IInv
<1> SUFFICES ASSUME SupervisorInit PROVE IInv
  OBVIOUS
<1>1. /\ posted = <<>> /\ Len(posted) = 0 /\ posted \in Seq(PostedCall)
      /\ mRequests = <<>> /\ mRequests \in Seq(Request)
  BY DEF SupervisorInit
<1> DEFINE call == Call("startDatabases", FirstGroup)
<1>2. call \in TodoCall /\ call.slot = "startDatabases"
  BY SupervisorAssumption DEF Call, TodoCall
<1>3. todo = <<call>>
  BY DEF SupervisorInit
<1> HIDE DEF call
<1>4. todo \in Seq(TodoCall) /\ Len(todo) = 1 /\ todo[1] = call
  BY <1>2, <1>3
<1>5. TypeInv
  BY <1>1, <1>4, SupervisorAssumption DEF SupervisorInit, ControllerInit, TypeInv
<1>6. StoppedStaysDown /\ StoppedIsUnlinked /\ LinkedIsChecked
  BY DEF SupervisorInit, ControllerInit, StoppedStaysDown, StoppedIsUnlinked,
         LinkedIsChecked
<1>7. QueueInv
  BY <1>1 DEF QueueInv
<1>8. FinishInv
  BY <1>2, <1>4 DEF FinishInv
<1>9. RequestInv
  BY <1>1 DEF SupervisorInit, RequestInv
<1> QED
  BY <1>5, <1>6, <1>7, <1>8, <1>9 DEF IInv, StopInv

LEMMA NextIInv == IInv /\ [Next]_vars => IInv'
<1> SUFFICES ASSUME TypeInv, StopInv, RequestInv, [Next]_vars
             PROVE  IInv'
  BY DEF IInv
<1>1. CASE EventLoop
  BY <1>1, EventLoopKeeps, RequestStep DEF IInv
<1>2. CASE \E c \in Controller : ProcessEvent(c)
  BY <1>2, ProcessEventKeeps, RequestStep DEF IInv
<1>3. CASE \/ RequestWorker
           \/ ClientCommand
           \/ \E t \in Thread : ThreadRuns(t) \/ ThreadLeaves(t)
           \/ Outside
           \/ UNCHANGED vars
  BY <1>3, OthersKeep, RequestStep DEF IInv
<1> QED
  BY <1>1, <1>2, <1>3 DEF Next

LEMMA AlwaysIInv == Spec => []IInv
  BY InitIInv, NextIInv, PTL DEF Spec


----------------------------------------------------------------------------
(* The answers of the databases. *)

(* What is queued of them. *)
NoReport(queue) == \A i \in 1 .. Len(queue) : queue[i].slot # "onDatabaseReady"

OneReport(queue) ==
  \A i, j \in 1 .. Len(queue) :
    queue[i].slot = "onDatabaseReady" /\ queue[j].slot = "onDatabaseReady" => i = j

(* The types this needs. *)
ThreadTypes ==
  /\ phase \in [Thread -> {"idle", "started", "testing"}]
  /\ isStopped \in [Thread -> BOOLEAN]

(* A thread of the DatabaseController is started at the end of an event,   *)
(* and so is the search of the databases, which is that of another group   *)
(* or the first one.  Only a checker is asked to wait for a database.      *)
TodoInv ==
  \A i \in 1 .. Len(todo) :
    /\ todo[i].slot = "startDatabase" => Len(todo) = 1
    /\ todo[i].slot = "startDatabases" =>
         /\ i = Len(todo)
         /\ todo[i].of # activeGroup \/ mActiveConnection = Nobody
    /\ todo[i].slot = "waitConnection" => todo[i].of \in Checked

(* Each of these threads is stopped before the databases are searched.     *)
Halts(d) ==
  \E i \in 1 .. Len(todo) :
    todo[i].slot \in {"stopDatabase", "joinDatabase"} /\ todo[i].of = d

Searches == \E i \in 1 .. Len(todo) : todo[i].slot = "startDatabases"

HaltInv == Searches => \A d \in Database : isRunning(d) => Halts(d)

Starts(d) ==
  \E i \in 1 .. Len(todo) : todo[i].slot = "startDatabase" /\ todo[i].of = d

(* A thread that is not at work, nor about to be. *)
Rests(d) == ~ isRunning(d) /\ ~ Starts(d)

(* Unless an answer of before is on its way, only the database waited for  *)
(* is asked, and it answers once, when it has accepted a connection and is *)
(* not asked any more; those that are ready have answered.                 *)
AskInv ==
  \A d \in Database : ~ Rests(d) =>
    d = mActiveConnection /\ ~ (isRunning(d) /\ Starts(d))

ReportInv ==
  NoReport(posted) \/ /\ mActiveConnection \in answered
                      /\ mActiveConnection # Nobody
                      /\ \A d \in Database : Rests(d)

AnswerInv ==
  ~ stale => /\ mReadyConnections \subseteq answered
             /\ OneReport(posted)
             /\ AskInv
             /\ ReportInv

ReadyInv == ThreadTypes /\ TodoInv /\ HaltInv /\ AnswerInv

(* A queue with no more of the answers. *)
Calm(queue) ==
  /\ NoReport(posted) => NoReport(queue)
  /\ OneReport(posted) => OneReport(queue)

LEMMA CalmTail ==
  ASSUME TypeInv, posted # <<>>
  PROVE  /\ Calm(Tail(posted))
         /\ Head(posted).slot = "onDatabaseReady" /\ OneReport(posted) =>
              NoReport(Tail(posted)) /\ ~ NoReport(posted)
<1>1. posted \in Seq(PostedCall)
  BY DEF TypeInv
<1>2. /\ Len(posted) \in Nat \ {0}
      /\ Len(Tail(posted)) = Len(posted) - 1
      /\ \A i \in 1 .. Len(posted) - 1 : Tail(posted)[i] = posted[i + 1]
      /\ Head(posted) = posted[1]
  BY <1>1
<1>3. NoReport(posted) => NoReport(Tail(posted))
  <2> SUFFICES ASSUME NoReport(posted), NEW i \in 1 .. Len(Tail(posted))
               PROVE  Tail(posted)[i].slot # "onDatabaseReady"
    BY DEF NoReport
  <2>1. i + 1 \in 1 .. Len(posted) /\ Tail(posted)[i] = posted[i + 1]
    BY <1>2
  <2> QED
    BY <2>1 DEF NoReport
<1>4. OneReport(posted) => OneReport(Tail(posted))
  <2> SUFFICES ASSUME OneReport(posted), NEW i \in 1 .. Len(Tail(posted)),
                      NEW j \in 1 .. Len(Tail(posted)),
                      Tail(posted)[i].slot = "onDatabaseReady",
                      Tail(posted)[j].slot = "onDatabaseReady"
               PROVE  i = j
    BY DEF OneReport
  <2>1. /\ i + 1 \in 1 .. Len(posted) /\ Tail(posted)[i] = posted[i + 1]
        /\ j + 1 \in 1 .. Len(posted) /\ Tail(posted)[j] = posted[j + 1]
    BY <1>2
  <2>2. i + 1 = j + 1
    BY <2>1 DEF OneReport
  <2> QED
    BY <2>2
<1>5. ASSUME Head(posted).slot = "onDatabaseReady", OneReport(posted)
      PROVE  NoReport(Tail(posted)) /\ ~ NoReport(posted)
  <2>1. 1 \in 1 .. Len(posted) /\ posted[1].slot = "onDatabaseReady"
    BY <1>2, <1>5
  <2>2. ASSUME NEW i \in 1 .. Len(Tail(posted)), Tail(posted)[i].slot = "onDatabaseReady"
        PROVE  FALSE
    <3>1. i + 1 \in 1 .. Len(posted) /\ Tail(posted)[i] = posted[i + 1]
      BY <1>2
    <3>2. i + 1 = 1
      BY <1>5, <2>1, <2>2, <3>1 DEF OneReport
    <3> QED
      BY <3>2
  <2> QED
    BY <2>1, <2>2 DEF NoReport
<1> QED
  BY <1>3, <1>4, <1>5 DEF Calm

(* A call is queued. *)
LEMMA ReportsAppend ==
  ASSUME NEW queue \in Seq(PostedCall), NEW call \in PostedCall
  PROVE  /\ call.slot # "onDatabaseReady" =>
              /\ NoReport(queue) => NoReport(Append(queue, call))
              /\ OneReport(queue) => OneReport(Append(queue, call))
         /\ NoReport(queue) => OneReport(Append(queue, call))
<1> DEFINE longer == Append(queue, call)
<1>1. /\ longer \in Seq(PostedCall)
      /\ Len(longer) = Len(queue) + 1 /\ Len(queue) \in Nat
      /\ \A i \in 1 .. Len(queue) : longer[i] = queue[i]
      /\ longer[Len(queue) + 1] = call
  OBVIOUS
<1> HIDE DEF longer
<1>2. ASSUME call.slot # "onDatabaseReady", NEW i \in 1 .. Len(longer),
             longer[i].slot = "onDatabaseReady"
      PROVE  i \in 1 .. Len(queue) /\ queue[i].slot = "onDatabaseReady"
  BY <1>1, <1>2
<1>3. call.slot # "onDatabaseReady" =>
        /\ NoReport(queue) => NoReport(longer)
        /\ OneReport(queue) => OneReport(longer)
  BY <1>2 DEF NoReport, OneReport
<1>4. ASSUME NoReport(queue), NEW i \in 1 .. Len(longer),
             longer[i].slot = "onDatabaseReady"
      PROVE  i = Len(queue) + 1
  BY <1>1, <1>4 DEF NoReport
<1>5. NoReport(queue) => OneReport(longer)
  BY <1>4 DEF OneReport
<1> QED
  BY <1>3, <1>5 DEF longer

LEMMA CalmAppend ==
  ASSUME NEW queue \in Seq(PostedCall), Calm(queue),
         NEW call \in PostedCall, call.slot # "onDatabaseReady"
  PROVE  Calm(Append(queue, call))
BY ReportsAppend DEF Calm

LEMMA ReportsReady ==
  ASSUME NEW queue \in Seq(PostedCall), NoReport(queue)
  PROVE  queue \o ready \in Seq(PostedCall) /\ NoReport(queue \o ready)
<1> DEFINE call == Call("start", Nobody)
<1>1. call \in PostedCall /\ call.slot # "onDatabaseReady"
  BY DEF Call, PostedCall
<1>2. CASE autostart
  <2>1. queue \o ready = Append(queue, call)
    <3> HIDE DEF call
    <3>1. queue \o <<call>> = Append(queue, call)
      BY <1>1
    <3> QED
      BY <1>2, <3>1 DEF ready, call
  <2> HIDE DEF call
  <2>2. NoReport(Append(queue, call)) /\ Append(queue, call) \in Seq(PostedCall)
    BY <1>1, ReportsAppend
  <2> QED
    BY <2>1, <2>2
<1>3. CASE ~ autostart
  BY <1>3 DEF ready
<1> QED
  BY <1>2, <1>3

(* The rest of an event, and the same with a call in front.                *)
LEMMA TodoRest ==
  ASSUME TypeInv, todo # <<>>
  PROVE  /\ Len(todo) \in Nat \ {0} /\ Head(todo) = todo[1]
         /\ Head(todo) \in TodoCall
         /\ Len(Tail(todo)) = Len(todo) - 1
         /\ \A i \in 1 .. Len(todo) - 1 : Tail(todo)[i] = todo[i + 1]
         /\ \A call \in TodoCall :
              /\ Len(<<call>> \o Tail(todo)) = Len(todo)
              /\ (<<call>> \o Tail(todo))[1] = call
              /\ \A i \in 2 .. Len(todo) : (<<call>> \o Tail(todo))[i] = todo[i]
<1>1. todo \in Seq(TodoCall)
  BY DEF TypeInv
<1>2. /\ Tail(todo) \in Seq(TodoCall)
      /\ Len(todo) \in Nat \ {0} /\ Head(todo) = todo[1]
      /\ Head(todo) \in TodoCall
      /\ Len(Tail(todo)) = Len(todo) - 1
      /\ \A i \in 1 .. Len(todo) - 1 : Tail(todo)[i] = todo[i + 1]
  BY <1>1
<1>3. ASSUME NEW call \in TodoCall
      PROVE  /\ Len(<<call>> \o Tail(todo)) = Len(todo)
             /\ (<<call>> \o Tail(todo))[1] = call
             /\ \A i \in 2 .. Len(todo) : (<<call>> \o Tail(todo))[i] = todo[i]
  <2> DEFINE rest == Tail(todo)
             list == <<call>> \o rest
  <2>1. rest \in Seq(TodoCall) /\ <<call>> \in Seq(TodoCall)
        /\ Len(<<call>>) = 1 /\ <<call>>[1] = call
    BY <1>2
  <2> HIDE DEF rest
  <2>2. /\ Len(list) = 1 + Len(rest) /\ Len(rest) \in Nat
        /\ list[1] = call
        /\ \A i \in 2 .. Len(list) : list[i] = rest[i - 1]
    BY <2>1, ConcatProperties
  <2> HIDE DEF list
  <2>3. ASSUME NEW i \in 2 .. Len(todo) PROVE list[i] = todo[i]
    <3>1. i \in 2 .. Len(list) /\ i - 1 \in 1 .. Len(todo) - 1 /\ (i - 1) + 1 = i
      BY <1>2, <2>2 DEF rest
    <3>2. list[i] = rest[i - 1] /\ rest[i - 1] = todo[(i - 1) + 1]
      BY <1>2, <2>2, <3>1 DEF rest
    <3> QED
      BY <3>1, <3>2
  <2>4. Len(list) = Len(todo)
    BY <1>2, <2>2 DEF rest
  <2> QED
    BY <2>2, <2>3, <2>4 DEF list, rest
<1> QED
  BY <1>2, <1>3

----------------------------------------------------------------------------
(* What a step of the main thread leaves to do. *)

(* The event goes on: what it has begun is done next, and no thread is     *)
(* started but at its end.                                                 *)
LEMMA TodoGoesOn ==
  ASSUME TypeInv, TodoInv, HaltInv, todo # <<>>, NEW call,
         UNCHANGED <<activeGroup, mActiveConnection>>,
         \/ todo' = Tail(todo)
         \/ /\ todo' = <<call>> \o Tail(todo)
            /\ call \in TodoCall /\ call.slot \in {"finishStop", "joinDatabase"},
         \A d \in Database : isRunning(d)' => isRunning(d),
         \A d \in Database :
           Head(todo).slot \in {"stopDatabase", "joinDatabase"} /\ Head(todo).of = d =>
             \/ ~ isRunning(d)'
             \/ /\ todo' = <<call>> \o Tail(todo)
                /\ call \in TodoCall /\ call.slot = "joinDatabase" /\ call.of = d
  PROVE  TodoInv' /\ HaltInv' /\ \A d \in Database : ~ Starts(d)'
<1> DEFINE rest == Tail(todo)
           list == <<call>> \o Tail(todo)
<1>0. /\ todo' = rest \/ /\ todo' = list
                          /\ call \in TodoCall
                          /\ call.slot \in {"finishStop", "joinDatabase"}
      /\ \A d \in Database :
           Head(todo).slot \in {"stopDatabase", "joinDatabase"} /\ Head(todo).of = d =>
             \/ ~ isRunning(d)'
             \/ /\ todo' = list
                /\ call \in TodoCall /\ call.slot = "joinDatabase" /\ call.of = d
  OBVIOUS
<1>1. /\ Len(todo) \in Nat \ {0} /\ Head(todo) = todo[1]
      /\ Len(rest) = Len(todo) - 1
      /\ \A i \in 1 .. Len(todo) - 1 : rest[i] = todo[i + 1]
      /\ call \in TodoCall =>
           /\ Len(list) = Len(todo)
           /\ list[1] = call
           /\ \A i \in 2 .. Len(todo) : list[i] = todo[i]
  BY TodoRest
<1> HIDE DEF rest, list
(* A call in the list that follows is the new one or was behind the first. *)
<1>2. ASSUME NEW i \in 1 .. Len(todo')
      PROVE  \/ i = 1 /\ todo'[i] = call /\ call.slot \in {"finishStop", "joinDatabase"}
             \/ \E j \in 2 .. Len(todo) :
                  /\ todo'[i] = todo[j]
                  /\ j = Len(todo) => i = Len(todo')
  <2>1. CASE todo' = rest
    <3>1. i + 1 \in 2 .. Len(todo) /\ todo'[i] = todo[i + 1]
          /\ (i + 1 = Len(todo) => i = Len(todo'))
      BY <1>1, <2>1
    <3> QED
      BY <3>1
  <2>2. CASE /\ todo' = list
             /\ call \in TodoCall /\ call.slot \in {"finishStop", "joinDatabase"}
    <3>1. Len(todo') = Len(todo) /\ todo'[1] = call
          /\ \A k \in 2 .. Len(todo) : todo'[k] = todo[k]
      BY <1>1, <2>2
    <3>2. i = 1 \/ i \in 2 .. Len(todo)
      BY <3>1
    <3> QED
      BY <2>2, <3>1, <3>2
  <2> QED
    BY <1>0, <2>1, <2>2
<1>3. \A j \in 2 .. Len(todo) : j \in 1 .. Len(todo) /\ Len(todo) # 1
  BY <1>1
<1>4. TodoInv'
  <2> SUFFICES ASSUME NEW i \in 1 .. Len(todo')
               PROVE  /\ todo'[i].slot = "startDatabase" => Len(todo') = 1
                      /\ todo'[i].slot = "startDatabases" =>
                           /\ i = Len(todo')
                           /\ todo'[i].of # activeGroup' \/ mActiveConnection' = Nobody
                      /\ todo'[i].slot = "waitConnection" => todo'[i].of \in Checked
    BY DEF TodoInv
  <2>1. CASE todo'[i] = call /\ call.slot \in {"finishStop", "joinDatabase"}
    BY <2>1
  <2>2. CASE \E j \in 2 .. Len(todo) :
               todo'[i] = todo[j] /\ (j = Len(todo) => i = Len(todo'))
    <3>1. PICK j \in 2 .. Len(todo) :
            todo'[i] = todo[j] /\ (j = Len(todo) => i = Len(todo'))
      BY <2>2
    <3> QED
      BY <1>3, <3>1 DEF TodoInv
  <2> QED
    BY <1>2, <2>1, <2>2
<1>5. \A d \in Database : ~ Starts(d)'
  <2> SUFFICES ASSUME NEW i \in 1 .. Len(todo'), todo'[i].slot = "startDatabase"
               PROVE  FALSE
    BY DEF Starts
  <2>1. PICK j \in 2 .. Len(todo) : todo'[i] = todo[j]
    BY <1>2
  <2> QED
    BY <1>3, <2>1 DEF TodoInv
<1>6. HaltInv'
  <2> SUFFICES ASSUME Searches', NEW d \in Database, isRunning(d)'
               PROVE  Halts(d)'
    BY DEF HaltInv
  <2>1. Searches
    <3>1. PICK i \in 1 .. Len(todo') : todo'[i].slot = "startDatabases"
      BY DEF Searches
    <3>2. PICK j \in 2 .. Len(todo) : todo'[i] = todo[j]
      BY <1>2, <3>1
    <3> QED
      BY <1>3, <3>1, <3>2 DEF Searches
  <2>2. PICK i \in 1 .. Len(todo) :
          todo[i].slot \in {"stopDatabase", "joinDatabase"} /\ todo[i].of = d
    BY <2>1 DEF HaltInv, Halts
  <2>3. CASE i = 1
    <3>1. /\ todo' = list
          /\ call.slot = "joinDatabase" /\ call.of = d /\ call \in TodoCall
      <4>1. todo[1].slot \in {"stopDatabase", "joinDatabase"} /\ todo[1].of = d
        BY <2>2, <2>3
      <4> QED
        BY <1>1, <1>0, <4>1
    <3>2. Len(todo') = Len(todo) /\ todo'[1] = call
      BY <1>1, <3>1
    <3>3. 1 \in 1 .. Len(todo')
      BY <1>1, <3>2
    <3> QED
      BY <3>1, <3>2, <3>3 DEF Halts
  <2>4. CASE i # 1
    <3>1. PICK k \in 1 .. Len(todo') : todo'[k] = todo[i]
      <4>1. CASE todo' = rest
        <5>1. i - 1 \in 1 .. Len(todo') /\ i - 1 \in 1 .. Len(todo) - 1 /\ (i - 1) + 1 = i
          BY <1>1, <2>4, <4>1
        <5>2. todo'[i - 1] = todo[i]
          BY <1>1, <4>1, <5>1
        <5> QED
          BY <5>1, <5>2
      <4>2. CASE todo' = list /\ call \in TodoCall
        <5>1. i \in 2 .. Len(todo) /\ i \in 1 .. Len(todo')
          BY <1>1, <2>4, <4>2
        <5> QED
          BY <1>1, <4>2, <5>1
      <4> QED
        BY <1>0, <4>1, <4>2
    <3> QED
      BY <2>2, <3>1 DEF Halts
  <2> QED
    BY <2>3, <2>4
<1> QED
  BY <1>4, <1>5, <1>6

(* A list of calls none of which is about a thread. *)
LEMMA TodoOfOthers ==
  ASSUME \A i \in 1 .. Len(todo') :
           todo'[i].slot \notin {"startDatabase", "startDatabases", "waitConnection"}
  PROVE  TodoInv' /\ HaltInv' /\ \A d \in Database : ~ Starts(d)'
BY DEF TodoInv, HaltInv, Searches, Starts

(* A list of one call. *)
LEMMA TodoOfOne ==
  ASSUME NEW call \in TodoCall, todo' = <<call>>,
         \/ call.slot = "startDatabase"
         \/ call.slot = "waitConnection" /\ call.of \in Checked
  PROVE  /\ TodoInv' /\ HaltInv'
         /\ \A d \in Database : Starts(d)' => call = Call("startDatabase", d)
<1>1. Len(todo') = 1 /\ todo'[1] = call /\ \A i \in 1 .. Len(todo') : todo'[i] = call
  OBVIOUS
<1>2. TodoInv' /\ HaltInv'
  BY <1>1 DEF TodoInv, HaltInv, Searches
<1>3. ASSUME NEW d \in Database, Starts(d)'
      PROVE  call = Call("startDatabase", d)
  <2>1. call.slot = "startDatabase" /\ call.of = d
    BY <1>1, <1>3 DEF Starts
  <2> QED
    BY <2>1 DEF TodoCall, Call
<1> QED
  BY <1>2, <1>3

(* The answers stay in order where nothing is started or reported.         *)
LEMMA AnswersStay ==
  ASSUME AnswerInv, Calm(posted'),
         UNCHANGED <<mReadyConnections, mActiveConnection, answered, stale>>,
         \A d \in Database : isRunning(d)' => isRunning(d),
         \A d \in Database : Starts(d)' => Starts(d)
  PROVE  AnswerInv'
<1> SUFFICES ASSUME ~ stale
             PROVE  /\ mReadyConnections \subseteq answered
                    /\ OneReport(posted')
                    /\ AskInv'
                    /\ ReportInv'
  BY DEF AnswerInv
<1>1. mReadyConnections \subseteq answered /\ OneReport(posted) /\ AskInv /\ ReportInv
  BY DEF AnswerInv
<1>2. OneReport(posted')
  BY <1>1 DEF Calm
<1>3. \A d \in Database : Rests(d) => Rests(d)'
  BY DEF Rests
<1>4. AskInv'
  BY <1>1, <1>3 DEF AskInv
<1>5. ReportInv'
  BY <1>1, <1>3 DEF ReportInv, Calm
<1> QED
  BY <1>1, <1>2, <1>4, <1>5

LEMMA TodoStays ==
  ASSUME TodoInv, HaltInv, UNCHANGED <<todo, activeGroup, mActiveConnection>>,
         \A d \in Database : isRunning(d)' => isRunning(d)
  PROVE  TodoInv' /\ HaltInv' /\ \A d \in Database : Starts(d)' => Starts(d)
BY DEF TodoInv, HaltInv, Searches, Halts, Starts

LEMMA RunUnstoppedIsCalm ==
  ASSUME NEW c \in Controller, NEW queue \in Seq(PostedCall), Calm(queue),
         runUnstopped(c, queue)
  PROVE  Calm(posted')
<1>1. CASE c \in Checked /\ posted' = Append(queue, Call("waitConnection", c))
  <2> DEFINE call == Call("waitConnection", c)
  <2>1. call \in PostedCall /\ call.slot # "onDatabaseReady"
    BY <1>1 DEF Call, PostedCall
  <2>2. posted' = Append(queue, call)
    BY <1>1
  <2> HIDE DEF call
  <2> QED
    BY <2>1, <2>2, CalmAppend
<1>2. CASE posted' = queue
  BY <1>2
<1> QED
  BY <1>1, <1>2, Zenon DEF runUnstopped

----------------------------------------------------------------------------
(* The steps. *)

(* What an event does of controllers and checkers asks no database and     *)
(* reports of none.                                                        *)
LEMMA ControllerCallReady ==
  ASSUME TypeInv, ReadyInv, ControllerCall
  PROVE  ReadyInv'
<1>1. /\ TodoInv /\ HaltInv /\ AnswerInv /\ ThreadTypes
      /\ posted \in Seq(PostedCall) /\ Calm(posted)
  BY DEF ReadyInv, TypeInv, Calm
<1>2. /\ UNCHANGED <<activeGroup, mReadyConnections, mActiveConnection, answered, stale>>
      /\ UNCHANGED databaseCtrlVars
  BY DEF ControllerCall, Rest, databaseCtrlVars
(* It is enough to know what happens to the lists and to the threads. *)
<1>3. ASSUME ThreadTypes', Calm(posted'),
             \A d \in Database : isRunning(d)' => isRunning(d),
             TodoInv' /\ HaltInv' /\ \A d \in Database : Starts(d)' => Starts(d)
      PROVE  ReadyInv'
  BY <1>1, <1>2, <1>3, AnswersStay DEF ReadyInv
<1>4. ASSUME UNCHANGED phase, UNCHANGED isStopped
      PROVE  ThreadTypes' /\ \A d \in Database : isRunning(d)' => isRunning(d)
  BY <1>1, <1>4 DEF ThreadTypes, isRunning
<1>5. CASE callWaitConnection
  <2>1. /\ posted # <<>> /\ Head(posted).slot = "waitConnection"
        /\ todo' = <<Head(posted)>> /\ posted' = Tail(posted)
        /\ UNCHANGED <<phase, isStopped>>
    BY <1>5 DEF callWaitConnection, Delivers, threadVars
  <2>2. Head(posted) \in TodoCall /\ Head(posted).of \in Checked
    <3>1. Head(posted) \in PostedCall
      BY <2>1, TailIsQuiet
    <3>2. Head(posted).of \in Checked /\ Head(posted) = Call("waitConnection", Head(posted).of)
      BY <2>1, <3>1 DEF PostedCall, Call
    <3>3. Head(posted).of \in Controller
      BY <3>2, ProcessControllerAssumption
    <3> QED
      BY <2>1, <3>2, <3>3 DEF TodoCall, Call
  <2>3. /\ TodoInv' /\ HaltInv'
        /\ \A d \in Database : Starts(d)' => Head(posted) = Call("startDatabase", d)
    <3> DEFINE call == Head(posted)
    <3>1. call \in TodoCall /\ todo' = <<call>> /\ call.slot = "waitConnection"
          /\ call.of \in Checked
      BY <2>1, <2>2
    <3> HIDE DEF call
    <3>2. /\ TodoInv' /\ HaltInv'
          /\ \A d \in Database : Starts(d)' => call = Call("startDatabase", d)
      BY <3>1, TodoOfOne
    <3> QED
      BY <3>2 DEF call
  <2>4. \A d \in Database : ~ Starts(d)'
    BY <2>1, <2>3 DEF Call
  <2>5. Calm(posted')
    BY <2>1, CalmTail
  <2> QED
    BY <1>3, <1>4, <2>1, <2>3, <2>4, <2>5
<1>6. CASE on_databaseReady
  <2>1. /\ posted # <<>> /\ posted' = Tail(posted)
        /\ UNCHANGED <<phase, isStopped, todo>>
    BY <1>6 DEF on_databaseReady, Delivers, threadVars
  <2>2. Calm(posted')
    BY <2>1, CalmTail
  <2> QED
    BY <1>1, <1>2, <1>3, <1>4, <2>1, <2>2, TodoStays
<1>7. CASE waitConnection
  <2>1. /\ todo # <<>> /\ Head(todo).slot = "waitConnection"
        /\ todo' = Tail(todo) /\ UNCHANGED <<isStopped, posted>>
        /\ phase' = [phase EXCEPT ![Head(todo).of] = "started"]
    BY <1>7 DEF waitConnection, Continues, startThread
  <2>2. Head(todo).of \in Checked
    <3>1. Head(todo) = todo[1] /\ 1 \in 1 .. Len(todo)
      BY <2>1, TodoRest
    <3> QED
      BY <1>1, <2>1, <3>1 DEF TodoInv
  <2>3. ThreadTypes' /\ \A d \in Database : isRunning(d)' => isRunning(d)
    BY <1>1, <2>1, <2>2, DbConnThreadAssumption DEF ThreadTypes, isRunning, Thread
  <2>4. TodoInv' /\ HaltInv' /\ \A d \in Database : ~ Starts(d)'
    BY <1>1, <1>2, <2>1, <2>3, TodoGoesOn
  <2> QED
    BY <1>1, <1>3, <2>1, <2>3, <2>4
<1>8. CASE startService
  <2>1. /\ todo # <<>> /\ Head(todo).slot = "startService"
        /\ todo' = Tail(todo) /\ UNCHANGED <<phase, isStopped>>
        /\ runUnstopped(Head(todo).of, posted)
    BY <1>8 DEF startService, Continues, threadVars, start
  <2>2. Head(todo).of \in Controller
    <3>1. Head(todo) \in TodoCall
      BY <2>1, TodoRest
    <3> QED
      BY <2>1, <3>1 DEF TodoCall
  <2>3. Calm(posted')
    BY <1>1, <2>1, <2>2, RunUnstoppedIsCalm
  <2>4. TodoInv' /\ HaltInv' /\ \A d \in Database : ~ Starts(d)'
    BY <1>1, <1>2, <1>4, <2>1, TodoGoesOn
  <2> QED
    BY <1>3, <1>4, <2>1, <2>3, <2>4
<1>9. CASE stopIfRunning
  <2> DEFINE c == Head(todo).of
             call == Call("finishStop", c)
  <2>1. /\ todo # <<>> /\ Head(todo).slot = "stopIfRunning"
        /\ todo' = <<call>> \o Tail(todo) \/ todo' = Tail(todo)
        /\ UNCHANGED <<phase, posted>>
    BY <1>9 DEF stopIfRunning, Continues
  <2>2. isStopped' = isStopped \/ isStopped' = [isStopped EXCEPT ![c] = TRUE]
    BY <1>9 DEF stopIfRunning, disconnect
  <2>3. call \in TodoCall /\ call.slot = "finishStop"
    <3>1. Head(todo) \in TodoCall
      BY <2>1, TodoRest
    <3>2. c \in Controller
      BY <2>1, <3>1 DEF TodoCall
    <3> QED
      BY <3>2 DEF Call, TodoCall
  <2>4. ThreadTypes' /\ \A d \in Database : isRunning(d)' => isRunning(d)
    BY <1>1, <2>1, <2>2 DEF ThreadTypes, isRunning
  <2>5. TodoInv' /\ HaltInv' /\ \A d \in Database : ~ Starts(d)'
    <3> HIDE DEF call
    <3> QED
      BY <1>1, <1>2, <2>1, <2>3, <2>4, TodoGoesOn
  <2> QED
    BY <1>1, <1>3, <2>1, <2>4, <2>5
<1>10. CASE finishStop
  <2>1. /\ todo # <<>> /\ Head(todo).slot = "finishStop"
        /\ todo' = Tail(todo) /\ UNCHANGED <<phase, isStopped, posted>>
    BY <1>10 DEF finishStop, Continues, threadVars
  <2>2. TodoInv' /\ HaltInv' /\ \A d \in Database : ~ Starts(d)'
    BY <1>1, <1>2, <1>4, <2>1, TodoGoesOn
  <2> QED
    BY <1>1, <1>3, <1>4, <2>1, <2>2
<1> QED
  BY <1>5, <1>6, <1>7, <1>8, <1>9, <1>10 DEF ControllerCall

(* What a process or a timer does, a request, a checker and the rest of    *)
(* the world: the queue gets no answer of a database.                      *)
LEMMA CalmReady ==
  ASSUME ReadyInv, Calm(posted'), ThreadTypes',
         UNCHANGED <<todo, databaseCtrlVars>>,
         \A d \in Database : isRunning(d)' => isRunning(d)
  PROVE  ReadyInv'
<1>1. TodoInv' /\ HaltInv' /\ \A d \in Database : Starts(d)' => Starts(d)
  BY TodoStays DEF ReadyInv, databaseCtrlVars
<1>2. AnswerInv'
  BY <1>1, AnswersStay DEF ReadyInv, databaseCtrlVars
<1> QED
  BY <1>1, <1>2 DEF ReadyInv

LEMMA PostedIsCalm == TypeInv => posted \in Seq(PostedCall) /\ Calm(posted)
BY DEF TypeInv, Calm

LEMMA ProcessEventReady ==
  ASSUME TypeInv, ReadyInv, NEW c \in Controller, ProcessEvent(c)
  PROVE  ReadyInv'
<1>1. UNCHANGED <<todo, databaseCtrlVars, phase, isStopped>>
  BY DEF ProcessEvent, Rest, on_started, on_error, processEnds, runProcess,
         threadVars, loopVars
<1>2. Calm(posted')
  <2>1. CASE posted' = posted
    BY <2>1, PostedIsCalm
  <2>2. CASE runUnstopped(c, posted)
    BY <2>2, PostedIsCalm, RunUnstoppedIsCalm
  <2>3. CASE runProcess(c)
    BY <2>1, <2>2, <2>3 DEF runProcess
  <2>4. CASE on_started(c) \/ on_error(c) \/ processEnds(c)
    BY <2>1, <2>4 DEF on_started, on_error, processEnds, loopVars
  <2> QED
    BY <2>3, <2>4 DEF ProcessEvent
<1>3. ThreadTypes' /\ \A d \in Database : isRunning(d)' => isRunning(d)
  BY <1>1 DEF ReadyInv, ThreadTypes, isRunning
<1> QED
  BY <1>1, <1>2, <1>3, CalmReady

LEMMA RestartReady ==
  ASSUME TypeInv, ReadyInv, restartOne
  PROVE  ReadyInv'
<1>1. /\ posted # <<>> /\ Head(posted).slot = "restart"
      /\ restart(Head(posted).of, Tail(posted))
      /\ UNCHANGED <<todo, databaseCtrlVars, phase, isStopped>>
  BY DEF restartOne, Delivers, threadVars
<1> DEFINE queue == Tail(posted)
           c == Head(posted).of
<1>2. Calm(queue) /\ queue \in Seq(PostedCall)
  BY <1>1, CalmTail, TailIsQuiet DEF Quiet
<1>3. c \in Controller
  <2>1. Head(posted) \in PostedCall
    BY <1>1, TailIsQuiet
  <2> QED
    BY <1>1, <2>1 DEF PostedCall
<1>4. posted' = queue \/ runUnstopped(c, queue)
  BY <1>1 DEF restart, start
<1> HIDE DEF queue, c
<1>5. Calm(posted')
  BY <1>2, <1>3, <1>4, RunUnstoppedIsCalm
<1>6. ThreadTypes' /\ \A d \in Database : isRunning(d)' => isRunning(d)
  BY <1>1 DEF ReadyInv, ThreadTypes, isRunning
<1> QED
  BY <1>1, <1>5, <1>6, CalmReady

LEMMA RequestWorkerReady ==
  ASSUME TypeInv, RequestInv, ReadyInv, RequestWorker
  PROVE  ReadyInv'
<1>1. UNCHANGED <<todo, databaseCtrlVars, phase, isStopped>>
  BY DEF RequestWorker, processRequest, sleep, threadVars, loopVars
<1>2. Calm(posted')
  <2>1. CASE processRequest
    <3> DEFINE call == Last(mRequests)
    <3>1. mRequests \in Seq(Request) /\ mRequests # <<>> /\ posted' = Append(posted, call)
      BY <2>1 DEF processRequest, RequestInv
    <3>2. call \in Request
      BY <3>1 DEF Last
    <3> HIDE DEF call
    <3>3. call \in PostedCall /\ call.slot # "onDatabaseReady"
      BY <3>2, SupervisorAssumption DEF PostedCall
    <3> QED
      BY <3>1, <3>3, PostedIsCalm, CalmAppend
  <2>2. CASE sleep
    BY <2>2, PostedIsCalm DEF sleep, loopVars
  <2> QED
    BY <2>1, <2>2 DEF RequestWorker
<1>3. ThreadTypes' /\ \A d \in Database : isRunning(d)' => isRunning(d)
  BY <1>1 DEF ReadyInv, ThreadTypes, isRunning
<1> QED
  BY <1>1, <1>2, <1>3, CalmReady

LEMMA ThreadRunsReady ==
  ASSUME TypeInv, ReadyInv, NEW t \in Thread, ThreadRuns(t)
  PROVE  ReadyInv'
<1>1. /\ UNCHANGED <<todo, databaseCtrlVars, posted>>
      /\ phase[t] = "started"
      /\ phase' = [phase EXCEPT ![t] = "testing"]
      /\ isStopped' = [isStopped EXCEPT ![t] = FALSE]
  BY DEF ThreadRuns, run, Rest, loopVars
<1>2. ThreadTypes' /\ \A d \in Database : isRunning(d)' => isRunning(d)
  BY <1>1 DEF ReadyInv, ThreadTypes, isRunning, Thread
<1>3. Calm(posted')
  BY <1>1, PostedIsCalm
<1> QED
  BY <1>1, <1>2, <1>3, CalmReady

LEMMA CheckerLeavesReady ==
  ASSUME TypeInv, ReadyInv, NEW t \in Checked, checkerLeaves(t), UNCHANGED Rest
  PROVE  ReadyInv'
<1> DEFINE call == Call("on_databaseReady", t)
<1>1. /\ UNCHANGED <<todo, databaseCtrlVars>>
      /\ phase' = [phase EXCEPT ![t] = "idle"] /\ isStopped' = isStopped
      /\ posted' = posted \/ posted' = Append(posted, call)
  BY DEF checkerLeaves, leave, Rest
<1>2. ThreadTypes' /\ \A d \in Database : isRunning(d)' => isRunning(d)
  BY <1>1 DEF ReadyInv, ThreadTypes, isRunning, Thread
<1>3. call \in PostedCall /\ call.slot # "onDatabaseReady"
  BY DEF Call, PostedCall
<1> HIDE DEF call
<1>4. Calm(posted')
  BY <1>1, <1>3, PostedIsCalm, CalmAppend
<1> QED
  BY <1>1, <1>2, <1>4, CalmReady

(* The thread asked is the one waited for; when it leaves and was not told *)
(* to stop, its database has answered.                                     *)
LEMMA DatabaseLeavesReady ==
  ASSUME TypeInv, ReadyInv, NEW t \in Database, databaseLeaves(t)
  PROVE  ReadyInv'
<1> DEFINE call == Call("onDatabaseReady", Nobody)
<1>1. /\ UNCHANGED <<todo, activeGroup, mReadyConnections, mActiveConnection, stale>>
      /\ phase[t] = "testing" /\ (isStopped[t] \/ HostOf(t) \in available)
      /\ phase' = [phase EXCEPT ![t] = "idle"] /\ isStopped' = isStopped
      /\ answered' = answered \cup ({t} \cap available)
      /\ \/ isStopped[t] /\ posted' = posted
         \/ ~ isStopped[t] /\ posted' = Append(posted, call)
  BY DEF databaseLeaves, leave, testConnection
<1>2. /\ TodoInv /\ HaltInv /\ AnswerInv /\ ThreadTypes
      /\ posted \in Seq(PostedCall)
  BY DEF ReadyInv, TypeInv
<1>3. /\ ThreadTypes' /\ ~ isRunning(t)' /\ isRunning(t)
      /\ \A d \in Database : isRunning(d)' => isRunning(d)
  BY <1>1, <1>2 DEF ThreadTypes, isRunning, Thread
<1>4. TodoInv' /\ HaltInv' /\ \A d \in Database : Starts(d)' => Starts(d)
  BY <1>1, <1>2, <1>3, TodoStays
<1>5. ASSUME ~ stale
      PROVE  /\ mReadyConnections \subseteq answered'
             /\ OneReport(posted')
             /\ AskInv'
             /\ ReportInv'
  <2>1. mReadyConnections \subseteq answered /\ OneReport(posted) /\ AskInv /\ ReportInv
    BY <1>2, <1>5 DEF AnswerInv
  <2>2. answered \subseteq answered' /\ mReadyConnections \subseteq answered'
    BY <1>1, <2>1
  <2>3. t = mActiveConnection /\ ~ Starts(t) /\ t # Nobody
    BY <1>3, <2>1, SupervisorAssumption DEF AskInv, Rests
  <2>4. \A d \in Database : Rests(d)'
    <3> SUFFICES ASSUME NEW d \in Database PROVE Rests(d)'
      OBVIOUS
    <3>1. CASE d = t
      BY <1>3, <1>4, <2>3, <3>1 DEF Rests
    <3>2. CASE d # t
      BY <1>3, <1>4, <2>1, <2>3, <3>2 DEF AskInv, Rests
    <3> QED
      BY <3>1, <3>2
  <2>5. NoReport(posted)
    BY <1>3, <2>1 DEF ReportInv, Rests
  <2>6. AskInv'
    BY <2>4 DEF AskInv
  <2>7. CASE isStopped[t] /\ posted' = posted
    BY <2>1, <2>2, <2>5, <2>6, <2>7 DEF ReportInv
  <2>8. CASE ~ isStopped[t] /\ posted' = Append(posted, call)
    <3>1. call \in PostedCall
      BY DEF Call, PostedCall
    <3> HIDE DEF call
    <3>2. OneReport(posted')
      BY <1>2, <2>5, <2>8, <3>1, ReportsAppend
    <3>3. t \in answered'
      BY <1>1, <2>8 DEF HostOf
    <3>4. ReportInv'
      BY <1>1, <2>3, <2>4, <3>3 DEF ReportInv
    <3> QED
      BY <2>2, <2>6, <3>2, <3>4
  <2> QED
    BY <1>1, <2>7, <2>8
<1>6. AnswerInv'
  BY <1>1, <1>5 DEF AnswerInv
<1> QED
  BY <1>3, <1>4, <1>6 DEF ReadyInv


(* A thread of the DatabaseController is started: it is that of the        *)
(* database waited for, and nothing else is to be done.                    *)
LEMMA StartDatabaseReady ==
  ASSUME TypeInv, ReadyInv, startDatabase
  PROVE  ReadyInv'
<1> DEFINE d == Head(todo).of
<1>1. /\ todo # <<>> /\ Head(todo).slot = "startDatabase"
      /\ todo' = Tail(todo) /\ ~ isRunning(d)
      /\ phase' = [phase EXCEPT ![d] = "started"] /\ isStopped' = isStopped
      /\ UNCHANGED <<posted, mReadyConnections, mActiveConnection, answered, stale>>
  BY DEF startDatabase, Continues, startThread, databaseCtrlVars
<1>2. /\ TodoInv /\ AnswerInv /\ ThreadTypes
  BY DEF ReadyInv
<1>3. /\ Head(todo) = todo[1] /\ 1 \in 1 .. Len(todo) /\ Head(todo) \in TodoCall
      /\ Len(Tail(todo)) = Len(todo) - 1
  BY <1>1, TodoRest
<1>4. d \in Database
  BY <1>1, <1>3 DEF TodoCall
<1>5. Starts(d)
  BY <1>1, <1>3 DEF Starts
<1>6. Len(todo') = 0
  <2>1. Len(todo) = 1
    BY <1>1, <1>2, <1>3 DEF TodoInv
  <2> QED
    BY <1>1, <1>3, <2>1
<1> HIDE DEF d
<1>7. TodoInv' /\ HaltInv' /\ \A e \in Database : ~ Starts(e)'
  BY <1>6, TodoOfOthers
<1>8. ThreadTypes' /\ \A e \in Database \ {d} : isRunning(e)' => isRunning(e)
  BY <1>1, <1>2, <1>4 DEF ThreadTypes, isRunning, Thread
<1>9. ASSUME ~ stale
      PROVE  /\ mReadyConnections \subseteq answered
             /\ OneReport(posted)
             /\ AskInv'
             /\ NoReport(posted)
  <2>1. mReadyConnections \subseteq answered /\ OneReport(posted) /\ AskInv /\ ReportInv
    BY <1>2, <1>9 DEF AnswerInv
  <2>2. ~ Rests(d)
    BY <1>5 DEF Rests
  <2>3. d = mActiveConnection /\ NoReport(posted)
    BY <1>4, <2>1, <2>2 DEF AskInv, ReportInv
  <2>4. \A e \in Database \ {d} : Rests(e)'
    BY <1>7, <1>8, <2>1, <2>3 DEF AskInv, Rests
  <2>5. AskInv'
    BY <1>1, <1>7, <2>3, <2>4 DEF AskInv
  <2> QED
    BY <2>1, <2>3, <2>5
<1>10. AnswerInv'
  BY <1>1, <1>9 DEF AnswerInv, ReportInv
<1> QED
  BY <1>7, <1>8, <1>10 DEF ReadyInv

(* startNext(), while no thread runs and no answer is on its way. *)
LEMMA StartNextReady ==
  ASSUME NEW monitored, monitored \subseteq Database, NEW done,
         NEW queue \in Seq(PostedCall), startNext(monitored, done, queue),
         UNCHANGED phase
  PROVE  /\ TodoInv' /\ HaltInv'
         /\ mReadyConnections' = done
         /\ mActiveConnection' = Nobody => monitored \subseteq done
         /\ NoReport(queue) /\ (\A d \in Database : ~ isRunning(d)) =>
              NoReport(posted') /\ OneReport(posted') /\ AskInv'
<1>1. mReadyConnections' = done
  BY DEF startNext
<1>2. \A q : NoReport(q) => OneReport(q)
  BY DEF NoReport, OneReport
<1>3. CASE monitored \subseteq done
  <2>1. /\ mActiveConnection' = Nobody /\ todo' = <<>>
        /\ posted' = queue \o ready \o (IF monitored = {} THEN ready ELSE <<>>)
    BY <1>3 DEF startNext
  <2>2. TodoInv' /\ HaltInv' /\ \A d \in Database : ~ Starts(d)'
    <3>1. Len(todo') = 0
      BY <2>1
    <3> QED
      BY <3>1, TodoOfOthers
  <2>3. ASSUME NoReport(queue), \A d \in Database : ~ isRunning(d)
        PROVE  NoReport(posted') /\ OneReport(posted') /\ AskInv'
    <3>1. queue \o ready \in Seq(PostedCall) /\ NoReport(queue \o ready)
      BY <2>3, ReportsReady
    <3>2. NoReport(posted')
      <4>1. CASE monitored = {}
        <5>1. NoReport((queue \o ready) \o ready)
          BY <3>1, ReportsReady
        <5> QED
          BY <2>1, <4>1, <5>1
      <4>2. CASE monitored # {}
        <5>1. (queue \o ready) \o <<>> = queue \o ready
          BY <3>1, ConcatEmptySeq
        <5> QED
          BY <2>1, <3>1, <4>2, <5>1
      <4> QED
        BY <4>1, <4>2
    <3>3. AskInv'
      BY <2>2, <2>3 DEF AskInv, Rests, isRunning
    <3> QED
      BY <1>2, <3>2, <3>3
  <2> QED
    BY <1>1, <1>3, <2>2, <2>3
<1>4. CASE ~ monitored \subseteq done
  <2>1. PICK d \in monitored \ done :
          /\ mActiveConnection' = d /\ posted' = queue
          /\ todo' = <<Call("startDatabase", d)>>
    BY <1>4 DEF startNext
  <2> DEFINE call == Call("startDatabase", d)
  <2>2. d \in Database /\ mActiveConnection' # Nobody
    BY <2>1, SupervisorAssumption
  <2>3. call \in TodoCall /\ call.slot = "startDatabase" /\ call.of = d
        /\ todo' = <<call>>
    BY <2>1, <2>2 DEF Call, TodoCall
  <2> HIDE DEF call
  <2>4. /\ TodoInv' /\ HaltInv'
        /\ \A e \in Database : Starts(e)' => call = Call("startDatabase", e)
    BY <2>3, TodoOfOne
  <2>5. \A e \in Database : Starts(e)' => e = d
    BY <2>3, <2>4 DEF Call
  <2>6. ASSUME NoReport(queue), \A e \in Database : ~ isRunning(e)
        PROVE  NoReport(posted') /\ OneReport(posted') /\ AskInv'
    <3>1. AskInv'
      BY <2>1, <2>5, <2>6 DEF AskInv, Rests, isRunning
    <3> QED
      BY <1>2, <2>1, <2>6, <3>1
  <2> QED
    BY <1>1, <2>2, <2>4, <2>6
<1> QED
  BY <1>3, <1>4

(* The database waited for is ready, and has answered. *)
LEMMA OnDatabaseReadyReady ==
  ASSUME TypeInv, ReadyInv, onDatabaseReady
  PROVE  /\ ReadyInv'
         /\ mActiveConnection' = Nobody =>
              stale \/ mMonitoredConnections \subseteq answered
<1> DEFINE done == IF mMonitoredConnections = {} \/ mActiveConnection = Nobody
                     THEN mReadyConnections
                     ELSE mReadyConnections \cup {mActiveConnection}
           queue == Tail(posted)
<1>1. /\ posted # <<>> /\ Head(posted).slot = "onDatabaseReady"
      /\ startNext(mMonitoredConnections, done, queue)
      /\ UNCHANGED <<phase, isStopped, answered, stale>>
  BY DEF onDatabaseReady, Delivers, threadVars
<1>2. /\ AnswerInv /\ ThreadTypes /\ mMonitoredConnections \subseteq Database
  BY DEF ReadyInv, TypeInv
<1>3. queue \in Seq(PostedCall)
  BY <1>1, TailIsQuiet DEF Quiet
<1>4. ASSUME ~ stale
      PROVE  /\ done \subseteq answered /\ NoReport(queue)
             /\ \A d \in Database : ~ isRunning(d)
  <2>1. mReadyConnections \subseteq answered /\ OneReport(posted) /\ ReportInv
    BY <1>2, <1>4 DEF AnswerInv
  <2>2. NoReport(queue) /\ ~ NoReport(posted)
    BY <1>1, <2>1, CalmTail
  <2>3. mActiveConnection \in answered /\ \A d \in Database : Rests(d)
    BY <2>1, <2>2 DEF ReportInv
  <2> QED
    BY <2>1, <2>2, <2>3 DEF Rests
<1> HIDE DEF done, queue
<1>5. /\ TodoInv' /\ HaltInv'
      /\ mReadyConnections' = done
      /\ mActiveConnection' = Nobody => mMonitoredConnections \subseteq done
      /\ NoReport(queue) /\ (\A d \in Database : ~ isRunning(d)) =>
           NoReport(posted') /\ OneReport(posted') /\ AskInv'
  BY <1>1, <1>2, <1>3, StartNextReady
<1>6. ThreadTypes'
  BY <1>1, <1>2 DEF ThreadTypes
<1>7. AnswerInv'
  BY <1>1, <1>4, <1>5 DEF AnswerInv, ReportInv
<1> QED
  BY <1>4, <1>5, <1>6, <1>7 DEF ReadyInv

(* The databases of a group are searched: the threads have ended, and an   *)
(* answer that is on its way counts as stale.                              *)
LEMMA StartDatabasesReady ==
  ASSUME TypeInv, ReadyInv, startDatabases
  PROVE  /\ ReadyInv'
         /\ activeGroup' # activeGroup \/ mActiveConnection = Nobody
<1> DEFINE g == Head(todo).of
           monitored == activeDatabaseList(g)
<1>1. /\ todo # <<>> /\ Head(todo).slot = "startDatabases"
      /\ activeGroup' = g /\ startNext(monitored, {}, posted)
      /\ answered' = {} /\ stale' = (Call("onDatabaseReady", Nobody) \in ToSet(posted))
      /\ UNCHANGED <<phase, isStopped>>
  BY DEF startDatabases, Continues, threadVars
<1>2. TodoInv /\ HaltInv /\ ThreadTypes /\ posted \in Seq(PostedCall)
  BY DEF ReadyInv, TypeInv
<1>3. Head(todo) = todo[1] /\ 1 \in 1 .. Len(todo)
  BY <1>1, TodoRest
<1>4. 1 = Len(todo) /\ (g # activeGroup \/ mActiveConnection = Nobody)
  BY <1>1, <1>2, <1>3 DEF TodoInv
<1>5. \A d \in Database : ~ isRunning(d)
  <2> SUFFICES ASSUME NEW d \in Database, isRunning(d) PROVE FALSE
    OBVIOUS
  <2>1. Searches
    BY <1>1, <1>3 DEF Searches
  <2>2. PICK i \in 1 .. Len(todo) : todo[i].slot \in {"stopDatabase", "joinDatabase"}
    BY <1>2, <2>1 DEF HaltInv, Halts
  <2>3. i = 1
    <3>1. \A n : n = 1 => \A j \in 1 .. n : j = 1
      OBVIOUS
    <3> QED
      BY <1>4, <3>1
  <2> QED
    BY <1>1, <1>3, <2>2, <2>3
<1>6. monitored \subseteq Database
  BY DbConnThreadAssumption DEF activeDatabaseList
<1>7. ~ stale' => NoReport(posted)
  <2> SUFFICES ASSUME NEW i \in 1 .. Len(posted), posted[i].slot = "onDatabaseReady"
               PROVE  stale'
    BY DEF NoReport
  <2>1. posted[i] \in PostedCall
    BY <1>2
  <2>2. posted[i] = Call("onDatabaseReady", Nobody)
    BY <2>1 DEF PostedCall, Call
  <2>3. posted[i] \in ToSet(posted)
    BY <1>2 DEF ToSet
  <2> QED
    BY <1>1, <2>2, <2>3
<1> HIDE DEF monitored, g
<1>8. /\ TodoInv' /\ HaltInv'
      /\ mReadyConnections' = {}
      /\ NoReport(posted) /\ (\A d \in Database : ~ isRunning(d)) =>
           NoReport(posted') /\ OneReport(posted') /\ AskInv'
  BY <1>1, <1>2, <1>6, StartNextReady
<1>9. ThreadTypes'
  BY <1>1, <1>2 DEF ThreadTypes
<1>10. AnswerInv'
  BY <1>5, <1>7, <1>8 DEF AnswerInv, ReportInv
<1> QED
  BY <1>1, <1>4, <1>8, <1>9, <1>10 DEF ReadyInv

(* The threads are stopped one by one. *)
LEMMA StopDatabasesReady ==
  ASSUME TypeInv, ReadyInv, stopDatabase \/ joinDatabase
  PROVE  ReadyInv'
<1> DEFINE d == Head(todo).of
           call == Call("joinDatabase", d)
<1>1. /\ todo # <<>> /\ Head(todo).slot \in {"stopDatabase", "joinDatabase"}
      /\ UNCHANGED <<databaseCtrlVars, posted, phase>>
      /\ \/ todo' = Tail(todo) /\ ~ isRunning(d) /\ isStopped' = isStopped
         \/ /\ todo' = <<call>> \o Tail(todo)
            /\ isStopped' = [isStopped EXCEPT ![d] = TRUE]
  BY DEF stopDatabase, joinDatabase, Continues, threadVars
<1>2. TodoInv /\ HaltInv /\ AnswerInv /\ ThreadTypes
  BY DEF ReadyInv
<1>3. Head(todo) \in TodoCall
  BY <1>1, TodoRest
<1>4. d \in Database
  BY <1>1, <1>3 DEF TodoCall
<1>5. call \in TodoCall /\ call.slot = "joinDatabase" /\ call.of = d
  BY <1>4 DEF Call, TodoCall
<1>6. ThreadTypes' /\ \A e \in Database : isRunning(e)' => isRunning(e)
  BY <1>1, <1>2 DEF ThreadTypes, isRunning
<1>7. \A e \in Database :
        Head(todo).slot \in {"stopDatabase", "joinDatabase"} /\ Head(todo).of = e =>
          \/ ~ isRunning(e)'
          \/ /\ todo' = <<call>> \o Tail(todo)
             /\ call \in TodoCall /\ call.slot = "joinDatabase" /\ call.of = e
  <2> HIDE DEF call
  <2> QED
    BY <1>1, <1>5, <1>6, Zenon
<1>8. \/ todo' = Tail(todo)
      \/ /\ todo' = <<call>> \o Tail(todo)
         /\ call \in TodoCall /\ call.slot \in {"finishStop", "joinDatabase"}
  <2> HIDE DEF call
  <2> QED
    BY <1>1, <1>5, Zenon
<1> HIDE DEF call, d
<1>9. TodoInv' /\ HaltInv' /\ \A e \in Database : ~ Starts(e)'
  BY <1>1, <1>2, <1>6, <1>7, <1>8, TodoGoesOn, Zenon DEF databaseCtrlVars
<1>10. AnswerInv'
  BY <1>1, <1>2, <1>6, <1>9, PostedIsCalm, AnswersStay DEF databaseCtrlVars
<1> QED
  BY <1>6, <1>9, <1>10 DEF ReadyInv

(* All processes are started or stopped. *)
LEMMA AllReady ==
  ASSUME TypeInv, ReadyInv, startAll \/ stopAll
  PROVE  ReadyInv'
<1>1. /\ posted # <<>> /\ posted' = Tail(posted)
      /\ \/ todo' = [i \in DOMAIN Order |-> Call("startService", Order[i])]
         \/ todo' = Stopping
      /\ UNCHANGED <<phase, isStopped, databaseCtrlVars>>
  BY DEF startAll, stopAll, Delivers, threadVars
<1>2. \A i \in 1 .. Len(todo') : todo'[i].slot \in {"startService", "stopIfRunning"}
  BY <1>1, OrderType, Zenon
<1>3. TodoInv' /\ HaltInv' /\ \A d \in Database : ~ Starts(d)'
  BY <1>2, TodoOfOthers
<1>4. ThreadTypes' /\ \A d \in Database : isRunning(d)' => isRunning(d)
  BY <1>1 DEF ReadyInv, ThreadTypes, isRunning
<1>5. Calm(posted')
  BY <1>1, CalmTail
<1>6. AnswerInv'
  BY <1>1, <1>3, <1>4, <1>5, AnswersStay DEF ReadyInv, databaseCtrlVars
<1> QED
  BY <1>3, <1>4, <1>6 DEF ReadyInv

(* The change of the group: the threads are stopped, then the databases of *)
(* another group are searched.                                             *)
LEMMA ActivateGroupReady ==
  ASSUME TypeInv, ReadyInv, NEW g \in Group, activateGroup(g)
  PROVE  ReadyInv'
<1> DEFINE stopping == [i \in DOMAIN mDatabases |-> Call("stopDatabase", mDatabases[i])]
           call == Call("startDatabases", g)
           m == Len(Stopping)
           n == Len(mDatabases)
<1>1. /\ todo' = Stopping \o stopping \o <<call>>
      /\ g # activeGroup
      /\ UNCHANGED <<posted, phase, isStopped, databaseCtrlVars>>
  BY DEF activateGroup, threadVars
<1>2. mDatabases \in Seq(Database) /\ ToSet(mDatabases) = Database
  BY SupervisorAssumption
<1>3. n \in Nat /\ DOMAIN mDatabases = 1 .. n
  BY <1>2
<1>4. /\ stopping \in Seq(TodoCall) /\ Len(stopping) = n
      /\ \A i \in 1 .. n :
           stopping[i].slot = "stopDatabase" /\ stopping[i].of = mDatabases[i]
  <2>1. \A d \in Database : Call("stopDatabase", d) \in TodoCall
                           /\ Call("stopDatabase", d).slot = "stopDatabase"
                           /\ Call("stopDatabase", d).of = d
    BY DEF Call, TodoCall
  <2>2. \A i \in 1 .. n : mDatabases[i] \in Database
    BY <1>2
  <2>3. stopping \in [1 .. n -> TodoCall]
    BY <1>3, <2>1, <2>2
  <2>4. \A i \in 1 .. n : stopping[i].slot = "stopDatabase" /\ stopping[i].of = mDatabases[i]
    BY <1>3, <2>1, <2>2
  <2> QED
    BY <1>3, <2>3, <2>4, IsASeq
<1>5. /\ Stopping \in Seq(TodoCall) /\ m \in Nat
      /\ \A i \in 1 .. m : Stopping[i].slot = "stopIfRunning"
  BY OrderType
<1>6. call \in TodoCall /\ call.slot = "startDatabases" /\ call.of = g
  BY DEF Call, TodoCall
<1> DEFINE front == Stopping \o stopping
<1> HIDE DEF stopping, call
<1>7. /\ front \in Seq(TodoCall) /\ Len(front) = m + n
      /\ \A i \in 1 .. m + n :
           front[i] = IF i <= m THEN Stopping[i] ELSE stopping[i - m]
  <2>1. /\ front \in Seq(TodoCall) /\ Len(front) = Len(Stopping) + Len(stopping)
        /\ \A i \in 1 .. Len(Stopping) + Len(stopping) :
             front[i] = IF i <= Len(Stopping) THEN Stopping[i]
                        ELSE stopping[i - Len(Stopping)]
    <3>1. \A s, t \in Seq(TodoCall) :
            /\ s \o t \in Seq(TodoCall) /\ Len(s \o t) = Len(s) + Len(t)
            /\ \A i \in 1 .. Len(s) + Len(t) :
                 (s \o t)[i] = IF i <= Len(s) THEN s[i] ELSE t[i - Len(s)]
      BY ConcatProperties
    <3>2. Stopping \in Seq(TodoCall) /\ stopping \in Seq(TodoCall)
      BY <1>4, <1>5
    <3> QED
      BY <3>1, <3>2, Zenon
  <2> HIDE DEF front, n
  <2> QED
    BY <1>4, <2>1
<1>8. todo' = front \o <<call>>
  BY <1>1
<1> HIDE DEF front
<1> DEFINE last == m + n + 1
<1>9. /\ Len(todo') = last
      /\ todo'[last] = call
      /\ \A i \in 1 .. m + n : todo'[i] = front[i]
  <2>1. front \o <<call>> = Append(front, call)
    BY <1>6, <1>7
  <2>2. /\ Len(Append(front, call)) = Len(front) + 1
        /\ Append(front, call)[Len(front) + 1] = call
        /\ \A i \in 1 .. Len(front) : Append(front, call)[i] = front[i]
    BY <1>6, <1>7, AppendProperties
  <2> QED
    BY <1>7, <1>8, <2>1, <2>2
<1> HIDE DEF m, n
<1>10. ASSUME NEW i \in 1 .. m + n
       PROVE  front[i].slot \in {"stopIfRunning", "stopDatabase"}
  <2>1. CASE i <= m
    BY <1>3, <1>5, <1>7, <2>1
  <2>2. CASE ~ i <= m
    <3>1. i - m \in 1 .. n /\ front[i] = stopping[i - m]
      BY <1>3, <1>5, <1>7, <2>2
    <3> QED
      BY <1>4, <3>1
  <2> QED
    BY <2>1, <2>2
<1>11. ASSUME NEW i \in 1 .. Len(todo')
       PROVE  \/ i = last /\ todo'[i] = call
              \/ todo'[i].slot \in {"stopIfRunning", "stopDatabase"}
  <2>1. i = last \/ i \in 1 .. m + n
    BY <1>3, <1>5, <1>9
  <2> QED
    BY <1>9, <1>10, <2>1
<1>12. TodoInv'
  <2> SUFFICES ASSUME NEW i \in 1 .. Len(todo')
               PROVE  /\ todo'[i].slot = "startDatabase" => Len(todo') = 1
                      /\ todo'[i].slot = "startDatabases" =>
                           /\ i = Len(todo')
                           /\ todo'[i].of # activeGroup' \/ mActiveConnection' = Nobody
                      /\ todo'[i].slot = "waitConnection" => todo'[i].of \in Checked
    BY DEF TodoInv
  <2>1. activeGroup' = activeGroup
    BY <1>1 DEF databaseCtrlVars
  <2>2. CASE i = last /\ todo'[i] = call
    <3> HIDE DEF last
    <3> QED
      BY <1>1, <1>6, <1>9, <2>1, <2>2
  <2>3. CASE todo'[i].slot \in {"stopIfRunning", "stopDatabase"}
    BY <2>3
  <2> QED
    BY <1>11, <2>2, <2>3
<1>13. \A d \in Database : Halts(d)'
  <2> SUFFICES ASSUME NEW d \in Database PROVE Halts(d)'
    OBVIOUS
  <2>1. PICK j \in 1 .. n : mDatabases[j] = d
    BY <1>2, <1>3 DEF ToSet
  <2>2. m + j \in 1 .. m + n /\ m + j \in 1 .. last /\ ~ m + j <= m /\ (m + j) - m = j
    BY <1>3, <1>5
  <2>3. todo'[m + j] = stopping[j]
    BY <1>7, <1>9, <2>2
  <2>4. stopping[j].slot = "stopDatabase" /\ stopping[j].of = d
    BY <1>4, <2>1
  <2> DEFINE k == m + j
  <2>5. k \in 1 .. Len(todo') /\ todo'[k].slot = "stopDatabase" /\ todo'[k].of = d
    BY <1>9, <2>2, <2>3, <2>4
  <2> HIDE DEF k
  <2> QED
    BY <2>5 DEF Halts
<1>14. HaltInv'
  BY <1>13 DEF HaltInv
<1>15. \A d \in Database : ~ Starts(d)'
  <2> SUFFICES ASSUME NEW i \in 1 .. Len(todo'), todo'[i].slot = "startDatabase"
               PROVE  FALSE
    BY DEF Starts
  <2> QED
    BY <1>6, <1>11
<1>16. ThreadTypes' /\ \A d \in Database : isRunning(d)' => isRunning(d)
  BY <1>1 DEF ReadyInv, ThreadTypes, isRunning
<1>17. AnswerInv'
  BY <1>1, <1>15, <1>16, PostedIsCalm, AnswersStay DEF ReadyInv, databaseCtrlVars
<1> QED
  BY <1>12, <1>14, <1>16, <1>17 DEF ReadyInv

LEMMA InitReady == SupervisorInit => ReadyInv
<1> SUFFICES ASSUME SupervisorInit PROVE ReadyInv
  OBVIOUS
<1> DEFINE call == Call("startDatabases", FirstGroup)
<1>1. /\ posted = <<>> /\ mReadyConnections = {} /\ mActiveConnection = Nobody
      /\ todo = <<call>> /\ call.slot = "startDatabases"
      /\ phase = [t \in Thread |-> "idle"] /\ isStopped = [t \in Thread |-> FALSE]
  BY DEF SupervisorInit, ThreadInit, Call
<1> HIDE DEF call
<1>2. Len(todo) = 1 /\ \A i \in 1 .. Len(todo) : i = 1 /\ todo[i] = call
  BY <1>1
<1>3. ThreadTypes /\ \A d \in Database : ~ isRunning(d)
  BY <1>1 DEF ThreadTypes, isRunning, Thread
<1>4. TodoInv /\ \A d \in Database : ~ Starts(d)
  BY <1>1, <1>2 DEF TodoInv, Starts
<1>5. HaltInv
  BY <1>3 DEF HaltInv
<1>6. Len(posted) = 0
  BY <1>1
<1>7. NoReport(posted) /\ OneReport(posted)
  BY <1>6 DEF NoReport, OneReport
<1>8. AnswerInv
  BY <1>1, <1>3, <1>4, <1>7 DEF AnswerInv, AskInv, ReportInv, Rests
<1> QED
  BY <1>3, <1>4, <1>5, <1>8 DEF ReadyInv

LEMMA NextReady == IInv /\ ReadyInv /\ [Next]_vars => ReadyInv'
<1> SUFFICES ASSUME TypeInv, RequestInv, ReadyInv, [Next]_vars
             PROVE  ReadyInv'
  BY DEF IInv
<1>1. ASSUME NEW c \in Controller, ProcessEvent(c) PROVE ReadyInv'
  BY <1>1, ProcessEventReady
<1>2. ASSUME NEW t \in Thread, ThreadRuns(t) PROVE ReadyInv'
  BY <1>2, ThreadRunsReady
<1>3. ASSUME NEW t \in Thread, ThreadLeaves(t) PROVE ReadyInv'
  BY <1>3, CheckerLeavesReady, DatabaseLeavesReady DEF ThreadLeaves
<1>4. CASE EventLoop
  BY <1>4, ControllerCallReady, StartDatabaseReady, OnDatabaseReadyReady,
     StopDatabasesReady, StartDatabasesReady, AllReady, RestartReady
  DEF EventLoop
<1>5. CASE RequestWorker
  BY <1>5, RequestWorkerReady
<1>6. ASSUME UNCHANGED <<todo, posted, databaseCtrlVars, phase, isStopped>>
      PROVE  ReadyInv'
  <2>1. ThreadTypes' /\ \A d \in Database : isRunning(d)' => isRunning(d)
    BY <1>6 DEF ReadyInv, ThreadTypes, isRunning
  <2> QED
    BY <1>6, <2>1, PostedIsCalm, CalmReady
<1>7. CASE ClientCommand
  <2>1. ASSUME NEW request, on_variantReceived(request) PROVE ReadyInv'
    BY <1>6, <2>1 DEF on_variantReceived, loopVars, threadVars
  <2> QED
    BY <1>7, <2>1, ActivateGroupReady DEF ClientCommand
<1>8. CASE Outside \/ UNCHANGED vars
  BY <1>6, <1>8 DEF Outside, Rest, vars, loopVars, threadVars
<1> QED
  BY <1>1, <1>2, <1>3, <1>4, <1>5, <1>7, <1>8 DEF Next

LEMMA AlwaysReadyInv == Spec => [](IInv /\ ReadyInv)
<1>1. SupervisorInit => IInv /\ ReadyInv
  BY InitIInv, InitReady
<1>2. (IInv /\ ReadyInv) /\ [Next]_vars => (IInv /\ ReadyInv)'
  BY NextIInv, NextReady
<1> QED
  BY <1>1, <1>2, PTL DEF Spec

(* Only an answer and the search of the databases end the wait for one. *)
LEMMA WaitEnds ==
  ASSUME [Next]_vars, ~ onDatabaseReady, ~ startDatabases,
         mActiveConnection' = Nobody
  PROVE  mActiveConnection = Nobody
<1>1. \/ UNCHANGED databaseCtrlVars
      \/ UNCHANGED mActiveConnection
  BY DEF Next, EventLoop, ControllerCall, ProcessEvent, Rest, RequestWorker,
         processRequest, sleep, ClientCommand, on_variantReceived, activateGroup,
         ThreadRuns, ThreadLeaves, databaseLeaves, Outside, vars, startDatabase,
         stopDatabase, joinDatabase, startAll, stopAll, restartOne
<1> QED
  BY <1>1 DEF databaseCtrlVars
----------------------------------------------------------------------------
(* A process that was stopped stays down but for an answer of its checker  *)
(* that was queued before (ProcessController::stop, on_databaseReady), for *)
(* every instance.                                                         *)
THEOREM StoppedProcessStaysDown == Spec => []StoppedStaysDown
<1>1. IInv => StoppedStaysDown
  BY DEF IInv, StopInv
<1> QED
  BY <1>1, AlwaysIInv, PTL

(* The request thread sleeps over a request only when its wakeup was lost  *)
(* (RequestThread::add, RequestThread::run), for every instance.           *)
THEOREM SleeperHasNothingToDo == Spec => []SleepMeansDrained
<1>1. IInv => SleepMeansDrained
  BY DEF IInv, RequestInv, SleepMeansDrained
<1> QED
  BY <1>1, AlwaysIInv, PTL

(* The processes are started after every database of the group has         *)
(* accepted a connection (DatabaseController::startNext, stop), but for an *)
(* answer queued before the group was changed, for every instance.         *)
THEOREM ReadyIsAnswered == Spec => ReadyMeansAnswered
<1>1. ASSUME IInv, ReadyInv, [Next]_vars,
             mActiveConnection # Nobody, mActiveConnection' = Nobody
      PROVE  stale \/ stale' \/ mMonitoredConnections \subseteq answered
                   \/ activeGroup' # activeGroup
  <2>1. TypeInv
    BY <1>1 DEF IInv
  <2>2. CASE onDatabaseReady
    BY <1>1, <2>1, <2>2, OnDatabaseReadyReady
  <2>3. CASE startDatabases
    BY <1>1, <2>1, <2>3, StartDatabasesReady
  <2> QED
    BY <1>1, <2>2, <2>3, WaitEnds
<1>2. IInv /\ ReadyInv /\ [Next]_vars =>
        [mActiveConnection # Nobody /\ mActiveConnection' = Nobody =>
           stale \/ stale' \/ mMonitoredConnections \subseteq answered
                 \/ activeGroup' # activeGroup]_vars
  BY <1>1
<1> QED
  BY <1>2, AlwaysReadyInv, PTL DEF Spec, ReadyMeansAnswered
=============================================================================
