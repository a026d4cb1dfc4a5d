---------------------------- MODULE PulsarProof ----------------------------
(***************************************************************************)
(* Proofs about Pulsar and PulsReceiver, for any number of nodes and       *)
(* receivers and every value of the bounds: first what a yield leaves      *)
(* behind, then the time bounds, which name the time constants they need.  *)
(***************************************************************************)
EXTENDS PulsReceiver, SequenceTheorems, FiniteSetTheorems, TLAPS

(* The types the argument needs. *)
TypeInv ==
  /\ up \in [Node -> BOOLEAN]
  /\ iam \in [Node -> BOOLEAN]
  /\ dateTime \in [Node -> Time \cup {NoTime}]
  /\ inbox \in [Host -> Seq(Datagram)]
  /\ disturbed \in BOOLEAN
  /\ \A n \in Node : up[n] => dateTime[n] \in Time

IInv == TypeInv /\ YieldInv

(* What is in flight is somewhere in a sequence. *)
LEMMA InFlightDef ==
  ASSUME NEW d
  PROVE  d \in InFlight <=>
           \E h \in Host : \E i \in DOMAIN inbox[h] : d = inbox[h][i]
BY DEF InFlight

LEMMA InFlightDefNext ==
  ASSUME NEW d
  PROVE  d \in InFlight' <=>
           \E h \in Host : \E i \in DOMAIN inbox'[h] : d = inbox'[h][i]
BY DEF InFlight

(* A datagram in flight is a datagram. *)
LEMMA InFlightType ==
  ASSUME TypeInv
  PROVE  InFlight \subseteq Datagram
<1> SUFFICES ASSUME NEW h \in Host, NEW i \in DOMAIN inbox[h]
             PROVE  inbox[h][i] \in Datagram
  BY InFlightDef
<1>1. inbox[h] \in Seq(Datagram)
  BY DEF TypeInv
<1> QED
  BY <1>1

(* A broadcast adds one datagram at most to what is in flight. *)
LEMMA BroadcastAdds ==
  ASSUME TypeInv, NEW d \in Datagram, NEW lost, broadcast(d, lost)
  PROVE  /\ inbox' \in [Host -> Seq(Datagram)]
         /\ InFlight' \subseteq InFlight \cup {d}
<1>1. \A h \in Host : inbox[h] \in Seq(Datagram)
  BY DEF TypeInv
<1>2. \A h \in Host : inbox'[h] \in {inbox[h], Append(inbox[h], d)}
  BY DEF broadcast
<1>3. inbox' \in [Host -> Seq(Datagram)]
  <2>1. \A h \in Host : Append(inbox[h], d) \in Seq(Datagram)
    BY <1>1
  <2> QED
    BY <1>1, <2>1 DEF broadcast
<1>4. ASSUME NEW h \in Host, NEW i \in DOMAIN inbox'[h]
      PROVE  inbox'[h][i] \in InFlight \cup {d}
  <2>1. CASE inbox'[h] = inbox[h]
    BY <2>1, InFlightDef
  <2>2. CASE inbox'[h] = Append(inbox[h], d)
    <3>1. i \in 1 .. Len(inbox[h]) \/ i = Len(inbox[h]) + 1
      BY <1>1, <2>2
    <3>2. CASE i \in 1 .. Len(inbox[h])
      <4>1. inbox'[h][i] = inbox[h][i] /\ i \in DOMAIN inbox[h]
        BY <1>1, <2>2, <3>2
      <4> QED
        BY <4>1, InFlightDef
    <3>3. CASE i = Len(inbox[h]) + 1
      BY <1>1, <2>2, <3>3
    <3> QED
      BY <3>1, <3>2, <3>3
  <2> QED
    BY <1>2, <2>1, <2>2
<1> QED
  BY <1>3, <1>4, InFlightDefNext

(* Reading a datagram leaves a part of what was in flight. *)
LEMMA ReadTakes ==
  ASSUME TypeInv, NEW n \in Host, inbox[n] # <<>>,
         inbox' = [inbox EXCEPT ![n] = Tail(@)]
  PROVE  /\ inbox' \in [Host -> Seq(Datagram)]
         /\ InFlight' \subseteq InFlight
         /\ Head(inbox[n]) \in InFlight
<1>1. \A h \in Host : inbox[h] \in Seq(Datagram)
  BY DEF TypeInv
<1>2. /\ Tail(inbox[n]) \in Seq(Datagram)
      /\ Len(Tail(inbox[n])) = Len(inbox[n]) - 1
      /\ \A i \in 1 .. Len(inbox[n]) - 1 : Tail(inbox[n])[i] = inbox[n][i + 1]
      /\ Len(inbox[n]) \in Nat \ {0}
  BY <1>1
<1>3. inbox' \in [Host -> Seq(Datagram)]
  BY <1>2 DEF TypeInv
<1>4. Head(inbox[n]) \in InFlight
  <2>1. 1 \in DOMAIN inbox[n] /\ Head(inbox[n]) = inbox[n][1]
    BY <1>1, <1>2
  <2> QED
    BY <2>1, InFlightDef
<1>5. ASSUME NEW h \in Host, NEW i \in DOMAIN inbox'[h]
      PROVE  inbox'[h][i] \in InFlight
  <2>1. CASE h # n
    <3>1. inbox'[h] = inbox[h]
      BY <2>1 DEF TypeInv
    <3> QED
      BY <3>1, InFlightDef
  <2>2. CASE h = n
    <3>1. inbox'[n] = Tail(inbox[n])
      BY DEF TypeInv
    <3>2. i \in DOMAIN Tail(inbox[n]) /\ inbox'[h][i] = Tail(inbox[n])[i]
      BY <2>2, <3>1
    <3>3. i \in 1 .. Len(inbox[n]) - 1
      BY <1>2, <3>2
    <3>4. inbox'[h][i] = inbox[n][i + 1] /\ i + 1 \in DOMAIN inbox[n]
      BY <1>1, <1>2, <3>2, <3>3
    <3> QED
      BY <3>4, InFlightDef
  <2> QED
    BY <2>1, <2>2
<1> QED
  BY <1>3, <1>4, <1>5, InFlightDefNext

(* A step that keeps the times and the active nodes, and sends nothing     *)
(* new, keeps the invariant.                                               *)
LEMMA KeepsYieldInv ==
  ASSUME IInv, InFlight' \subseteq InFlight, dateTime' = dateTime,
         Active \subseteq Active', disturbed => disturbed'
  PROVE  YieldInv'
<1> SUFFICES ASSUME DistinctTimes PROVE TimesDiffer' /\ Backed'
  BY DEF YieldInv
<1>1. TimesDiffer /\ Backed
  BY DEF IInv, YieldInv
<1>2. TimesDiffer'
  BY <1>1 DEF TimesDiffer
<1>3. Backed'
  BY <1>1 DEF Backed
<1> QED
  BY <1>2, <1>3

(* The same for a step that takes a node out of the active ones and says   *)
(* so in disturbed.                                                        *)
LEMMA DisturbKeepsYieldInv ==
  ASSUME IInv, InFlight' \subseteq InFlight, dateTime' = dateTime, disturbed'
  PROVE  YieldInv'
<1> SUFFICES ASSUME DistinctTimes PROVE TimesDiffer' /\ Backed'
  BY DEF YieldInv
<1>1. TimesDiffer
  BY DEF IInv, YieldInv
<1> QED
  BY <1>1 DEF TimesDiffer, Backed

----------------------------------------------------------------------------
(* Each action keeps the types and the invariant. *)

LEMMA StartKeeps ==
  ASSUME IInv, NEW n \in Node, start(n)
  PROVE  IInv'
<1>1. PICK t \in Time :
        /\ DistinctTimes => /\ \A m \in Node : dateTime[m] # t
                            /\ \A d \in InFlight : d.time # t
        /\ dateTime' = [dateTime EXCEPT ![n] = t]
  BY DEF start
<1>2. TypeInv'
  BY <1>1 DEF IInv, TypeInv, start
<1>3. inbox' = inbox /\ InFlight' = InFlight
  BY DEF start, InFlight
<1>4. \A m \in Node : dateTime'[m] = IF m = n THEN t ELSE dateTime[m]
  BY <1>1 DEF IInv, TypeInv
<1>5. Active' = Active /\ n \notin Active
  BY DEF start, Active, IInv, TypeInv
<1> SUFFICES ASSUME DistinctTimes PROVE TimesDiffer' /\ Backed'
  BY <1>2 DEF IInv, YieldInv
<1>6. TimesDiffer /\ Backed
  BY DEF IInv, YieldInv
<1>7. TimesDiffer'
  BY <1>1, <1>3, <1>4, <1>6 DEF TimesDiffer
<1>8. Backed'
  <2>1. disturbed' = disturbed
    BY DEF start
  <2>2. \A a \in Active : dateTime'[a] = dateTime[a]
    BY <1>4, <1>5 DEF Active
  <2> QED
    BY <1>3, <1>5, <1>6, <2>1, <2>2 DEF Backed
<1> QED
  BY <1>7, <1>8

(* What is known of the active nodes when one of them may stop being so.   *)
LEMMA OneLeaves ==
  ASSUME TypeInv, NEW n \in Node,
         iam' = [iam EXCEPT ![n] = FALSE],
         up' = up \/ up' = [up EXCEPT ![n] = FALSE]
  PROVE  Active' = Active \ {n}
BY DEF Active, TypeInv

LEMMA CrashKeeps ==
  ASSUME IInv, NEW n \in Node, crash(n)
  PROVE  IInv'
<1>0. n \in Host
  BY DEF Host
<1>1. TypeInv'
  BY <1>0 DEF IInv, TypeInv, crash
<1>2. InFlight' \subseteq InFlight
  <2> SUFFICES ASSUME NEW h \in Host, NEW i \in DOMAIN inbox'[h]
               PROVE  inbox'[h][i] \in InFlight
    BY InFlightDefNext
  <2>1. inbox' = [inbox EXCEPT ![n] = <<>>] /\ inbox \in [Host -> Seq(Datagram)]
    BY DEF crash, IInv, TypeInv
  <2>2. CASE h = n
    BY <1>0, <2>1, <2>2
  <2>3. CASE h # n
    <3>1. inbox'[h] = inbox[h]
      BY <2>1, <2>3
    <3> QED
      BY <3>1, InFlightDef
  <2> QED
    BY <2>2, <2>3
<1>3. Active' = Active \ {n}
  BY OneLeaves DEF crash, IInv
<1>4. dateTime' = dateTime /\ disturbed' = (disturbed \/ n \in Active)
  BY DEF crash
<1>5. YieldInv'
  <2>1. CASE n \in Active
    <3>1. disturbed'
      BY <1>4, <2>1
    <3> QED
      BY <1>2, <1>4, <3>1, DisturbKeepsYieldInv
  <2>2. CASE n \notin Active
    <3>1. Active \subseteq Active' /\ (disturbed => disturbed')
      BY <1>3, <1>4, <2>2
    <3> QED
      BY <1>2, <1>4, <3>1, KeepsYieldInv
  <2> QED
    BY <2>1, <2>2
<1> QED
  BY <1>1, <1>5 DEF IInv

LEMMA DeactivateKeeps ==
  ASSUME IInv, NEW n \in Node, deactivate(n)
  PROVE  IInv'
<1>1. TypeInv'
  BY DEF IInv, TypeInv, deactivate
<1>2. InFlight' = InFlight
  BY DEF deactivate, InFlight
<1>3. Active' = Active \ {n}
  BY OneLeaves DEF deactivate, IInv
<1>4. dateTime' = dateTime /\ disturbed' = (disturbed \/ n \in Active)
  BY DEF deactivate
<1>5. YieldInv'
  <2>1. CASE n \in Active
    <3>1. disturbed'
      BY <1>4, <2>1
    <3> QED
      BY <1>2, <1>4, <3>1, DisturbKeepsYieldInv
  <2>2. CASE n \notin Active
    <3>1. Active \subseteq Active' /\ (disturbed => disturbed')
      BY <1>3, <1>4, <2>2
    <3> QED
      BY <1>2, <1>4, <3>1, KeepsYieldInv
  <2> QED
    BY <2>1, <2>2
<1> QED
  BY <1>1, <1>5 DEF IInv

(* A node that sends "1" stands behind it itself.                          *)
LEMMA SendStatusKeeps ==
  ASSUME IInv, NEW n \in Node, sendStatus(n)
  PROVE  IInv'
<1> DEFINE d == [status |-> Status(n), from |-> n, time |-> dateTime[n]]
<1>1. PICK lost : broadcast(d, lost)
  BY DEF sendStatus
<1>2. up[n] /\ dateTime[n] \in Time
  BY DEF sendStatus, ServesTimers, Awake, IInv, TypeInv
<1>3. d \in Datagram
  BY <1>2 DEF Datagram, Status
<1> HIDE DEF d
<1>4. inbox' \in [Host -> Seq(Datagram)] /\ InFlight' \subseteq InFlight \cup {d}
  BY <1>1, <1>3, BroadcastAdds DEF IInv
<1>5. up' = up /\ iam' = iam /\ dateTime' = dateTime /\ disturbed' = disturbed
  BY DEF sendStatus
<1>6. TypeInv'
  BY <1>4, <1>5 DEF IInv, TypeInv
<1> SUFFICES ASSUME DistinctTimes PROVE TimesDiffer' /\ Backed'
  BY <1>6 DEF IInv, YieldInv
<1>7. TimesDiffer /\ Backed
  BY DEF IInv, YieldInv
<1>8. d.from = n /\ d.time = dateTime[n] /\ d.status = Status(n)
  BY DEF d
<1>9. TimesDiffer'
  <2>1. \A m \in Node \ {n} : dateTime[n] # dateTime[m]
    BY <1>2, <1>7, PulsarAssumption DEF TimesDiffer
  <2> QED
    BY <1>4, <1>5, <1>7, <1>8, <2>1 DEF TimesDiffer
<1>10. Backed'
  <2>1. Active' = Active
    BY <1>5 DEF Active
  <2>2. d.status = "1" => n \in Active /\ dateTime[n] <= d.time
    <3>1. d.status = "1" => iam[n]
      BY <1>8 DEF Status, IInv, TypeInv
    <3>2. dateTime[n] <= d.time
      <4>1. dateTime[n] \in Nat
        BY <1>2, PulsarAssumption
      <4> QED
        BY <1>8, <4>1
    <3> QED
      BY <1>2, <3>1, <3>2 DEF Active
  <2> QED
    BY <1>4, <1>5, <1>7, <2>1, <2>2 DEF Backed
<1> QED
  BY <1>9, <1>10

LEMMA SendActivateKeeps ==
  ASSUME IInv, NEW n \in Node, sendActivate(n)
  PROVE  IInv'
<1> DEFINE d == [status |-> "2", from |-> n, time |-> dateTime[n]]
<1>1. PICK lost : broadcast(d, lost)
  BY DEF sendActivate
<1>2. dateTime[n] \in Time /\ dateTime[n] # NoTime
  BY DEF sendActivate, IInv, TypeInv
<1>3. d \in Datagram
  BY <1>2 DEF Datagram
<1> HIDE DEF d
<1>4. inbox' \in [Host -> Seq(Datagram)] /\ InFlight' \subseteq InFlight \cup {d}
  BY <1>1, <1>3, BroadcastAdds DEF IInv
<1>5. up' = up /\ iam' = iam /\ dateTime' = dateTime /\ disturbed' = disturbed
  BY DEF sendActivate, nodeVars
<1>6. TypeInv'
  BY <1>4, <1>5 DEF IInv, TypeInv
<1> SUFFICES ASSUME DistinctTimes PROVE TimesDiffer' /\ Backed'
  BY <1>6 DEF IInv, YieldInv
<1>7. TimesDiffer /\ Backed
  BY DEF IInv, YieldInv
<1>8. d.from = n /\ d.time = dateTime[n] /\ d.status = "2"
  BY DEF d
<1>9. TimesDiffer'
  <2>1. \A m \in Node \ {n} : dateTime[n] # dateTime[m]
    BY <1>2, <1>7 DEF TimesDiffer
  <2> QED
    BY <1>4, <1>5, <1>7, <1>8, <2>1 DEF TimesDiffer
<1>10. Backed'
  <2>1. Active' = Active
    BY <1>5 DEF Active
  <2> QED
    BY <1>4, <1>5, <1>7, <1>8, <2>1 DEF Backed
<1> QED
  BY <1>9, <1>10

LEMMA BecomeMasterKeeps ==
  ASSUME IInv, NEW n \in Node, becomeMaster(n)
  PROVE  IInv'
<1>1. TypeInv'
  BY DEF IInv, TypeInv, becomeMaster
<1>2. InFlight' = InFlight
  BY DEF becomeMaster, InFlight
<1>3. Active \subseteq Active'
  BY DEF becomeMaster, Active, IInv, TypeInv
<1>4. dateTime' = dateTime /\ disturbed' = disturbed
  BY DEF becomeMaster
<1> QED
  BY <1>1, <1>2, <1>3, <1>4, KeepsYieldInv DEF IInv

(* The heart of the argument: the node it yields to, or one that started   *)
(* before that, is active and another node than itself, and stands behind  *)
(* whatever the one that yields stood behind.                              *)
LEMMA YieldLeavesOne ==
  ASSUME IInv, DistinctTimes, ~ disturbed, NEW n \in Node,
         NEW d \in InFlight, up[n], yield(n, d)
  PROVE  \E a \in Active \ {n} : dateTime[a] < dateTime[n]
<1>1. TimesDiffer /\ Backed
  BY DEF IInv, YieldInv
<1>2. d.from # n /\ d.time <= dateTime[n] /\ d.status = "1"
  BY DEF yield, Outranks
<1>3. PICK a \in Active : dateTime[a] <= d.time
  BY <1>1, <1>2 DEF Backed
<1>4. d.time # dateTime[n]
  BY <1>1, <1>2 DEF TimesDiffer
<1>5. d.time \in Nat /\ dateTime[a] \in Nat /\ dateTime[n] \in Nat
  <2>1. d.time \in Time
    BY InFlightType DEF IInv, Datagram
  <2>2. dateTime[a] \in Time /\ dateTime[n] \in Time
    BY DEF Active, IInv, TypeInv
  <2> QED
    BY <2>1, <2>2, PulsarAssumption
<1>6. dateTime[a] < dateTime[n]
  BY <1>2, <1>3, <1>4, <1>5
<1> QED
  BY <1>3, <1>5, <1>6

(* Reading: a yield hands the datagrams over to the node that stays        *)
(* active, a request is noted in disturbed, and the rest keeps the active  *)
(* nodes.                                                                  *)
LEMMA ReadKeeps ==
  ASSUME IInv, NEW n \in Node, readyRead(n)
  PROVE  IInv'
<1> DEFINE d == Head(inbox[n])
<1>1. /\ inbox' \in [Host -> Seq(Datagram)]
      /\ InFlight' \subseteq InFlight
      /\ d \in InFlight
  BY ReadTakes DEF readyRead, IInv, Host
<1>2. up[n] /\ up' = up /\ dateTime' = dateTime
  BY DEF readyRead, Awake
<1>3. \/ yield(n, d) \/ giveWay(n, d) \/ stayMaster(n, d)
      \/ follow(n, d) \/ takeOver(n, d) \/ waitForOther(n, d)
  BY DEF readyRead
<1> HIDE DEF d
<1>4. TypeInv'
  <2>1. iam' \in [Node -> BOOLEAN] /\ disturbed' \in BOOLEAN
    BY <1>3 DEF IInv, TypeInv, yield, giveWay, stayMaster, follow, takeOver,
                waitForOther
  <2> QED
    BY <1>1, <1>2, <2>1 DEF IInv, TypeInv
<1>5. CASE yield(n, d)
  <2> SUFFICES YieldInv'
    BY <1>4 DEF IInv
  <2>1. Active' = Active \ {n}
    BY <1>2, <1>5, OneLeaves DEF yield, IInv
  <2>2. disturbed' = disturbed
    BY <1>5 DEF yield
  <2>3. CASE disturbed
    BY <1>1, <1>2, <2>2, <2>3, DisturbKeepsYieldInv
  <2>4. CASE ~ disturbed
    <3> SUFFICES ASSUME DistinctTimes PROVE TimesDiffer' /\ Backed'
      BY DEF YieldInv
    <3>1. TimesDiffer /\ Backed
      BY DEF IInv, YieldInv
    <3>2. TimesDiffer'
      BY <1>1, <1>2, <3>1 DEF TimesDiffer
    <3>3. PICK a \in Active \ {n} : dateTime[a] < dateTime[n]
      BY <1>1, <1>2, <1>5, <2>4, YieldLeavesOne
    <3>4. ASSUME NEW e \in InFlight', e.status = "1"
          PROVE  \E b \in Active' : dateTime'[b] <= e.time
      <4>1. PICK b \in Active : dateTime[b] <= e.time
        BY <1>1, <2>4, <3>1, <3>4 DEF Backed
      <4>2. CASE b # n
        BY <1>2, <2>1, <4>1, <4>2
      <4>3. CASE b = n
        <5>1. dateTime[a] \in Nat /\ dateTime[n] \in Nat /\ e.time \in Nat
          <6>1. e.time \in Time
            BY <1>1, InFlightType DEF IInv, Datagram
          <6>2. dateTime[a] \in Time /\ dateTime[n] \in Time
            BY <1>2 DEF Active, IInv, TypeInv
          <6> QED
            BY <6>1, <6>2, PulsarAssumption
        <5>2. dateTime[a] <= e.time
          BY <3>3, <4>1, <4>3, <5>1
        <5> QED
          BY <1>2, <2>1, <3>3, <5>2
      <4> QED
        BY <4>2, <4>3
    <3> QED
      BY <3>2, <3>4 DEF Backed
  <2> QED
    BY <2>3, <2>4
<1>6. CASE giveWay(n, d)
  <2>1. disturbed'
    BY <1>6 DEF giveWay
  <2> QED
    BY <1>1, <1>2, <1>4, <2>1, DisturbKeepsYieldInv DEF IInv
<1>7. CASE \/ stayMaster(n, d) \/ follow(n, d)
           \/ takeOver(n, d) \/ waitForOther(n, d)
  <2>1. disturbed' = disturbed /\ (iam' = iam \/ iam' = [iam EXCEPT ![n] = TRUE])
    BY <1>7 DEF stayMaster, follow, takeOver, waitForOther
  <2>2. Active \subseteq Active'
    BY <1>2, <2>1 DEF Active, IInv, TypeInv
  <2> QED
    BY <1>1, <1>2, <1>4, <2>1, <2>2, KeepsYieldInv DEF IInv
<1> QED
  BY <1>3, <1>5, <1>6, <1>7

(* Time forgets a disturbance once a node is active and no "1" is on its   *)
(* way.                                                                    *)
LEMMA TickKeeps ==
  ASSUME IInv, tick
  PROVE  IInv'
<1>1. /\ up' = up /\ iam' = iam /\ dateTime' = dateTime /\ inbox' = inbox
      /\ disturbed' = (disturbed /\ (Active = {}
                         \/ \E d \in InFlight : d.status = "1"))
  BY DEF tick
<1>2. TypeInv'
  BY <1>1 DEF IInv, TypeInv
<1>3. InFlight' = InFlight /\ Active' = Active
  BY <1>1 DEF InFlight, Active
<1> SUFFICES ASSUME DistinctTimes PROVE TimesDiffer' /\ Backed'
  BY <1>2 DEF IInv, YieldInv
<1>4. TimesDiffer /\ Backed
  BY DEF IInv, YieldInv
<1>5. TimesDiffer'
  BY <1>1, <1>3, <1>4 DEF TimesDiffer
<1>6. Backed'
  <2>1. CASE disturbed /\ ~ disturbed'
    <3>1. ~ \E d \in InFlight : d.status = "1"
      BY <1>1, <2>1
    <3> QED
      BY <1>3, <3>1 DEF Backed
  <2>2. CASE disturbed' \/ ~ disturbed
    BY <1>1, <1>3, <1>4, <2>2 DEF Backed
  <2> QED
    BY <2>1, <2>2
<1> QED
  BY <1>5, <1>6

----------------------------------------------------------------------------
(* The theorems. *)

LEMMA InitIInv == Init => IInv
<1> SUFFICES ASSUME Init PROVE IInv
  OBVIOUS
<1>1. TypeInv
  <2>1. <<>> \in Seq(Datagram)
    OBVIOUS
  <2>2. inbox \in [Host -> Seq(Datagram)]
    BY <2>1 DEF Init
  <2> QED
    BY <2>2 DEF Init, TypeInv
<1>2. InFlight = {}
  BY DEF Init, InFlight
<1>3. TimesDiffer /\ Backed
  BY <1>2 DEF Init, TimesDiffer, Backed
<1> QED
  BY <1>1, <1>3 DEF IInv, YieldInv

LEMMA NextKeeps == IInv /\ [Next]_pulsarVars => IInv'
<1> SUFFICES ASSUME IInv, [Next]_pulsarVars PROVE IInv'
  OBVIOUS
<1>1. CASE tick
  BY <1>1, TickKeeps
<1>2. ASSUME NEW n \in Node, NodeStep(n) PROVE IInv'
  BY <1>2, StartKeeps, CrashKeeps, SendStatusKeeps, SendActivateKeeps,
     BecomeMasterKeeps, DeactivateKeeps, ReadKeeps DEF NodeStep
<1>3. CASE UNCHANGED pulsarVars
  <2>1. /\ up' = up /\ iam' = iam /\ dateTime' = dateTime /\ inbox' = inbox
        /\ disturbed' = disturbed
    BY <1>3 DEF pulsarVars, nodeVars
  <2>2. InFlight' = InFlight /\ Active' = Active
    BY <2>1 DEF InFlight, Active
  <2>3. TypeInv'
    BY <2>1 DEF IInv, TypeInv
  <2> QED
    BY <2>1, <2>2, <2>3, KeepsYieldInv DEF IInv
<1> QED
  BY <1>1, <1>2, <1>3 DEF Next

(* Nobody yields to a node that is no longer active: with distinct start   *)
(* times a "1" on its way always has an active node behind it that started *)
(* no later than it says (readyRead, sendStatus).                          *)
THEOREM YieldInvHolds == Spec => []YieldInv
<1>1. IInv => YieldInv
  BY DEF IInv
<1>2. Spec => []IInv
  BY InitIInv, NextKeeps, PTL DEF Spec
<1> QED
  BY <1>1, <1>2, PTL

(* A group keeps an active node through every competition, loss, delay and *)
(* sleep, unless the active one is crashed, deactivated or replaced on     *)
(* request: a node that yields leaves another active (readyRead).          *)
THEOREM GroupStaysActive ==
  ASSUME DistinctTimes
  PROVE  Spec => OneStaysActive
<1>1. ASSUME IInv, [Next]_pulsarVars
      PROVE  [Active # {} /\ ~ disturbed' => Active' # {}]_pulsarVars
  <2> SUFFICES ASSUME Next, Active # {}, ~ disturbed' PROVE Active' # {}
    BY <1>1
  <2>1. CASE tick
    BY <2>1 DEF tick, Active
  <2>2. ASSUME NEW n \in Node, NodeStep(n) PROVE Active' # {}
    <3>1. CASE start(n)
      BY <1>1, <3>1 DEF start, Active, IInv, TypeInv
    <3>2. CASE crash(n)
      <4>1. Active' = Active \ {n} /\ n \notin Active
        BY <1>1, <3>2, OneLeaves DEF crash, IInv
      <4> QED
        BY <4>1
    <3>3. CASE sendStatus(n) \/ sendActivate(n)
      BY <3>3 DEF sendStatus, sendActivate, nodeVars, Active
    <3>4. CASE becomeMaster(n)
      BY <1>1, <3>4 DEF becomeMaster, Active, IInv, TypeInv
    <3>5. CASE deactivate(n)
      <4>1. Active' = Active \ {n} /\ n \notin Active
        BY <1>1, <3>5, OneLeaves DEF deactivate, IInv
      <4> QED
        BY <4>1
    <3>6. CASE readyRead(n)
      <4> DEFINE d == Head(inbox[n])
      <4>1. d \in InFlight /\ up[n] /\ up' = up
        BY <1>1, <3>6, ReadTakes DEF readyRead, Awake, IInv, Host
      <4>2. \/ yield(n, d) \/ giveWay(n, d) \/ stayMaster(n, d)
            \/ follow(n, d) \/ takeOver(n, d) \/ waitForOther(n, d)
        BY <3>6 DEF readyRead
      <4> HIDE DEF d
      <4>3. CASE yield(n, d)
        <5>1. ~ disturbed
          BY <4>3 DEF yield
        <5>2. Active' = Active \ {n}
          BY <1>1, <4>1, <4>3, OneLeaves DEF yield, IInv
        <5>3. \E a \in Active \ {n} : dateTime[a] < dateTime[n]
          BY <1>1, <4>1, <4>3, <5>1, YieldLeavesOne
        <5> QED
          BY <5>2, <5>3
      <4>4. CASE giveWay(n, d)
        BY <4>4 DEF giveWay
      <4>5. CASE \/ stayMaster(n, d) \/ follow(n, d)
                 \/ takeOver(n, d) \/ waitForOther(n, d)
        <5>1. iam' = iam \/ iam' = [iam EXCEPT ![n] = TRUE]
          BY <4>5 DEF stayMaster, follow, takeOver, waitForOther
        <5> QED
          BY <1>1, <4>1, <5>1 DEF Active, IInv, TypeInv
      <4> QED
        BY <4>2, <4>3, <4>4, <4>5
    <3> QED
      BY <2>2, <3>1, <3>2, <3>3, <3>4, <3>5, <3>6 DEF NodeStep
  <2> QED
    BY <2>1, <2>2 DEF Next
<1>2. Spec => []IInv
  BY InitIInv, NextKeeps, PTL DEF Spec
<1> QED
  BY <1>1, <1>2, PTL DEF Spec, OneStaysActive

----------------------------------------------------------------------------
(* The time bounds.  The types of the timers and histories they count      *)
(* with.                                                                   *)
TimeInv ==
  /\ waitTimeout \in [Node -> Nat \cup {Idle}]
  /\ sendStatusTimeout \in [Node -> 0 .. SendTime]
  /\ asleep \in [Node -> Nat]
  /\ backlog \in [Node -> Nat]
  /\ activeFor \in [Node -> Nat]
  /\ vacantFor \in Nat
  /\ losses \in 0 .. MaxLosses

(* An active node is awake and waits for nobody, one that runs and is not  *)
(* active has its timer started, and its wait is longer than ReceiveTime   *)
(* only by what it still sleeps.                                           *)
LifeInv ==
  \A n \in Node :
    /\ iam[n] => up[n] /\ asleep[n] = 0 /\ waitTimeout[n] = Idle
    /\ ~ iam[n] => activeFor[n] = 0
    /\ up[n] /\ ~ iam[n] => waitTimeout[n] \in 0 .. ReceiveTime + asleep[n]
    /\ backlog[n] <= Len(inbox[n])

(* The ticks in which a node has taken notice of no active node.           *)
Unheard(n) == IF iam[n] THEN activeFor[n] ELSE ReceiveTime - waitTimeout[n]

(* The time in which an active node is heard in spite of the losses so far.*)
Reach == (losses + 1) * SendTime

(* Since m is active or n took notice, x more ticks are within reach.      *)
Near(m, n, x) == activeFor[m] + x <= Reach \/ Unheard(n) + x <= Reach

(* What makes n start its timer when it is read.                           *)
Heeds(n, d) == d.status = "1" /\ (iam[n] => Outranks(d, n))

Waiting(n) == \E i \in DOMAIN inbox[n] : Heeds(n, inbox[n][i])

(* It waits behind the sleep of n: n reads it before its timer fires.      *)
Overslept(n) ==
  ~ iam[n] /\ \E i \in 1 .. backlog[n] : inbox[n][i].status = "1"

(* The active m has been heard by n, or is about to be, within reach.      *)
HearInv ==
  \A m, n \in Node :
    m # n /\ iam[m] /\ up[n] /\ (iam[n] => dateTime[m] <= dateTime[n]) =>
      \/ Overslept(n)
      \/ /\ Near(m, n, 0)
         /\ Near(m, n, sendStatusTimeout[m]) \/ Waiting(n)

(* The active nodes with nothing left to read from before this tick.       *)
Settled == {s \in Active : backlog[s] = 0}

(* While the vacancy is counted, each "1" of this tick is from an active   *)
(* node or one that yielded to an active node.                             *)
FreshInv ==
  vacantFor > 0 =>
    \A n \in Node : \A i \in DOMAIN inbox[n] :
      inbox[n][i].status = "1" /\ i > backlog[n] =>
        \E s \in Settled : dateTime[s] <= inbox[n][i].time

(* A node that is awake will be active before the vacancy is too long.     *)
HeirInv ==
  vacantFor > 0 /\ Settled = {} =>
    \E p \in Awake : /\ ~ iam[p]
                     /\ backlog[p] = 0
                     /\ vacantFor + waitTimeout[p] <= ReceiveTime

VacancyInv == FreshInv /\ HeirInv /\ VacancyEnds

(* A receiver takes a datagram out of its socket. *)
Listens ==
  /\ \E l \in Listener :
       inbox[l] # <<>> /\ inbox' = [inbox EXCEPT ![l] = Tail(@)]
  /\ UNCHANGED <<nodeVars, backlog, activeFor, vacantFor, disturbed, budgets>>

----------------------------------------------------------------------------
(* Broadcasts and readings, as the time bounds see them.                   *)

LEMMA HostsAreFinite == \A lost \in SUBSET Host : Cardinality(lost) \in Nat
<1>1. IsFiniteSet(Host)
  BY PulsarAssumption, FS_Union DEF Host
<1> QED
  BY <1>1, FS_Subset, FS_CardinalityType

(* A broadcast appends to the sockets that it reaches, and counts the      *)
(* hosts that lose it.                                                     *)
LEMMA BroadcastLoses ==
  ASSUME TypeInv, TimeInv, NEW d \in Datagram, NEW lost \in SUBSET Host,
         broadcast(d, lost)
  PROVE  /\ losses' \in losses .. MaxLosses
         /\ lost # {} => losses' >= losses + 1
         /\ \A h \in Host : inbox'[h] = inbox[h] \/ inbox'[h] = Append(inbox[h], d)
         /\ \A h \in Host \ lost : Reads(h, d) => inbox'[h] = Append(inbox[h], d)
<1>1. Cardinality(lost) \in Nat
  BY HostsAreFinite
<1>2. lost # {} => Cardinality(lost) # 0
  <2>1. IsFiniteSet(lost)
    BY PulsarAssumption, FS_Union, FS_Subset DEF Host
  <2> QED
    BY <2>1, FS_EmptySet
<1>3. losses' = losses + Cardinality(lost) /\ losses' <= MaxLosses
  BY DEF broadcast
<1>4. losses \in Nat /\ MaxLosses \in Nat
  BY PulsarAssumption DEF TimeInv
<1>5. losses' \in losses .. MaxLosses /\ (lost # {} => losses' >= losses + 1)
  BY <1>1, <1>2, <1>3, <1>4
<1> QED
  BY <1>5 DEF broadcast

(* What was in a socket is still in it, at the same place.                 *)
LEMMA AppendKeeps ==
  ASSUME NEW s \in Seq(Datagram), NEW d \in Datagram
  PROVE  /\ Append(s, d) \in Seq(Datagram)
         /\ Len(Append(s, d)) = Len(s) + 1
         /\ \A i \in DOMAIN s : i \in DOMAIN Append(s, d) /\ Append(s, d)[i] = s[i]
         /\ Append(s, d)[Len(s) + 1] = d
         /\ \A i \in DOMAIN Append(s, d) : i \in DOMAIN s \/ i = Len(s) + 1
OBVIOUS

LEMMA TailShifts ==
  ASSUME NEW s \in Seq(Datagram), s # <<>>
  PROVE  /\ Tail(s) \in Seq(Datagram)
         /\ Len(Tail(s)) = Len(s) - 1
         /\ Head(s) = s[1] /\ Head(s) \in Datagram
         /\ \A i \in DOMAIN s : i # 1 => i - 1 \in DOMAIN Tail(s)
                                           /\ Tail(s)[i - 1] = s[i]
         /\ \A i \in DOMAIN Tail(s) : i + 1 \in DOMAIN s /\ Tail(s)[i] = s[i + 1]
OBVIOUS

(* A node that runs stays with what it has, except what its own steps and  *)
(* time change: the types.                                                 *)
LEMMA TimeInvStep ==
  ASSUME TypeInv, TimeInv, [Next \/ Listens]_pulsarVars
  PROVE  TimeInv'
<1> USE PulsarAssumption
<1>1. CASE tick
  <2>1. \A n \in Node : /\ Less(waitTimeout[n]) \in Nat \cup {Idle}
                        /\ Less(sendStatusTimeout[n]) \in 0 .. SendTime
                        /\ Less(asleep[n]) \in Nat
                        /\ Len(inbox[n]) \in Nat
                        /\ More(activeFor[n]) \in Nat
    <3> SUFFICES ASSUME NEW n \in Node
                 PROVE  /\ Less(waitTimeout[n]) \in Nat \cup {Idle}
                        /\ Less(sendStatusTimeout[n]) \in 0 .. SendTime
                        /\ Less(asleep[n]) \in Nat
                        /\ Len(inbox[n]) \in Nat
                        /\ More(activeFor[n]) \in Nat
      OBVIOUS
    <3>1. waitTimeout[n] \in Nat \cup {Idle} /\ asleep[n] \in Nat
      BY DEF TimeInv
    <3>2. sendStatusTimeout[n] \in 0 .. SendTime /\ activeFor[n] \in Nat
      BY DEF TimeInv
    <3>3. inbox[n] \in Seq(Datagram)
      BY DEF TypeInv, Host
    <3>4. Less(waitTimeout[n]) \in Nat \cup {Idle} /\ Less(asleep[n]) \in Nat
      BY <3>1 DEF Less, Idle
    <3>5. Less(sendStatusTimeout[n]) \in 0 .. SendTime /\ More(activeFor[n]) \in Nat
      BY <3>2 DEF Less, More
    <3> QED
      BY <3>3, <3>4, <3>5
  <2>2. vacantFor' \in Nat
    BY <1>1 DEF tick, TimeInv
  <2>3. losses' = losses
    BY <1>1 DEF tick, budgets
  <2>4. waitTimeout' \in [Node -> Nat \cup {Idle}] /\ asleep' \in [Node -> Nat]
    BY <1>1, <2>1 DEF tick
  <2>5. sendStatusTimeout' \in [Node -> 0 .. SendTime]
    <3>1. \A n \in Node : sendStatusTimeout[n] \in 0 .. SendTime
      BY DEF TimeInv
    <3> QED
      BY <1>1, <2>1, <3>1 DEF tick
  <2>6. backlog' \in [Node -> Nat] /\ activeFor' \in [Node -> Nat]
    BY <1>1, <2>1 DEF tick
  <2> QED
    BY <2>2, <2>3, <2>4, <2>5, <2>6 DEF TimeInv
<1>2. ASSUME NEW n \in Node, start(n) PROVE TimeInv'
  BY <1>2 DEF start, budgets, TimeInv
<1>3. ASSUME NEW n \in Node, crash(n) PROVE TimeInv'
  BY <1>3 DEF crash, TimeInv
<1>4. ASSUME NEW n \in Node, sendStatus(n) PROVE TimeInv'
  <2> DEFINE d == [status |-> Status(n), from |-> n, time |-> dateTime[n]]
  <2>1. PICK lost \in SUBSET (Host \ {n}) : broadcast(d, lost)
    BY <1>4 DEF sendStatus
  <2>2. losses' = losses + Cardinality(lost) /\ losses' <= MaxLosses
    BY <2>1 DEF broadcast
  <2>3. losses' \in 0 .. MaxLosses
    BY <2>2, HostsAreFinite DEF TimeInv
  <2> QED
    BY <1>4, <2>3 DEF sendStatus, TimeInv
<1>5. ASSUME NEW n \in Node, sendActivate(n) PROVE TimeInv'
  <2> DEFINE d == [status |-> "2", from |-> n, time |-> dateTime[n]]
  <2>1. PICK lost \in SUBSET Host : broadcast(d, lost)
    BY <1>5 DEF sendActivate
  <2>2. losses' = losses + Cardinality(lost) /\ losses' <= MaxLosses
    BY <2>1 DEF broadcast
  <2>3. losses' \in 0 .. MaxLosses
    BY <2>2, HostsAreFinite DEF TimeInv
  <2> QED
    BY <1>5, <2>3 DEF sendActivate, nodeVars, timers, TimeInv
<1>6. ASSUME NEW n \in Node, becomeMaster(n) PROVE TimeInv'
  BY <1>6 DEF becomeMaster, budgets, TimeInv
<1>7. ASSUME NEW n \in Node, deactivate(n) PROVE TimeInv'
  BY <1>7 DEF deactivate, TimeInv
<1>8. ASSUME NEW n \in Node, readyRead(n) PROVE TimeInv'
  <2> DEFINE d == Head(inbox[n])
  <2>1. \/ yield(n, d) \/ giveWay(n, d) \/ stayMaster(n, d)
        \/ follow(n, d) \/ takeOver(n, d) \/ waitForOther(n, d)
    BY <1>8 DEF readyRead
  <2> HIDE DEF d
  <2>2. /\ waitTimeout' \in [Node -> Nat \cup {Idle}]
        /\ asleep' \in [Node -> Nat]
        /\ activeFor' \in [Node -> Nat]
        /\ vacantFor' \in Nat
    BY <2>1 DEF yield, giveWay, stayMaster, follow, takeOver, waitForOther, TimeInv
  <2>3. backlog' \in [Node -> Nat]
    <3>1. Less(backlog[n]) \in Nat
      BY DEF Less, TimeInv
    <3> QED
      BY <1>8, <3>1 DEF readyRead, TimeInv
  <2> QED
    BY <1>8, <2>2, <2>3 DEF readyRead, budgets, TimeInv
<1>9. CASE Listens \/ UNCHANGED pulsarVars
  BY <1>9 DEF Listens, pulsarVars, nodeVars, timers, budgets, TimeInv
<1> QED
  BY <1>1, <1>2, <1>3, <1>4, <1>5, <1>6, <1>7, <1>8, <1>9 DEF Next, NodeStep

(* A receiver that reads changes nothing for the nodes.                    *)
LEMMA ListensKeeps ==
  ASSUME IInv, Listens
  PROVE  IInv'
<1>1. PICK l \in Listener :
        inbox[l] # <<>> /\ inbox' = [inbox EXCEPT ![l] = Tail(@)]
  BY DEF Listens
<1>2. /\ up' = up /\ iam' = iam /\ dateTime' = dateTime
      /\ disturbed' = disturbed
  BY DEF Listens, nodeVars
<1>3. inbox' \in [Host -> Seq(Datagram)] /\ InFlight' \subseteq InFlight
  BY <1>1, ReadTakes DEF IInv, Host
<1>4. TypeInv'
  BY <1>2, <1>3 DEF IInv, TypeInv
<1>5. Active' = Active
  BY <1>2 DEF Active
<1> QED
  BY <1>2, <1>3, <1>4, <1>5, KeepsYieldInv DEF IInv

LEMMA ListensLeavesNodes ==
  ASSUME TypeInv, Listens
  PROVE  \A n \in Node : inbox'[n] = inbox[n]
<1>1. PICK l \in Listener : inbox' = [inbox EXCEPT ![l] = Tail(@)]
  BY DEF Listens
<1>2. \A n \in Node : n # l
  BY PulsarAssumption
<1> QED
  BY <1>1, <1>2 DEF TypeInv, Host

(* A broadcast does not shorten a socket.                                  *)
LEMMA BroadcastKeeps ==
  ASSUME TypeInv, TimeInv, NEW d \in Datagram, NEW lost \in SUBSET Host,
         broadcast(d, lost)
  PROVE  \A n \in Node :
           /\ Len(inbox'[n]) >= Len(inbox[n])
           /\ \A i \in DOMAIN inbox[n] : i \in DOMAIN inbox'[n]
                                           /\ inbox'[n][i] = inbox[n][i]
           /\ \A i \in DOMAIN inbox'[n] :
                \/ i \in DOMAIN inbox[n] /\ inbox'[n][i] = inbox[n][i]
                \/ inbox'[n][i] = d
<1> SUFFICES ASSUME NEW n \in Node
             PROVE  /\ Len(inbox'[n]) >= Len(inbox[n])
                    /\ \A i \in DOMAIN inbox[n] :
                         i \in DOMAIN inbox'[n] /\ inbox'[n][i] = inbox[n][i]
                    /\ \A i \in DOMAIN inbox'[n] :
                         \/ i \in DOMAIN inbox[n] /\ inbox'[n][i] = inbox[n][i]
                         \/ inbox'[n][i] = d
  OBVIOUS
<1>1. inbox[n] \in Seq(Datagram) /\ n \in Host
  BY DEF TypeInv, Host
<1>2. CASE inbox'[n] = inbox[n]
  BY <1>1, <1>2
<1>3. CASE inbox'[n] = Append(inbox[n], d)
  BY <1>1, <1>3, AppendKeeps
<1> QED
  BY <1>1, <1>2, <1>3, BroadcastLoses

(* What LifeInv says of one node.                                          *)
Life(n) ==
  /\ iam[n] => up[n] /\ asleep[n] = 0 /\ waitTimeout[n] = Idle
  /\ ~ iam[n] => activeFor[n] = 0
  /\ up[n] /\ ~ iam[n] => waitTimeout[n] \in 0 .. ReceiveTime + asleep[n]
  /\ backlog[n] <= Len(inbox[n])

LEMMA LifeOfEach == LifeInv <=> \A n \in Node : Life(n)
BY DEF LifeInv, Life

LEMMA LifeKept ==
  ASSUME NEW n \in Node, Life(n),
         /\ up'[n] = up[n] /\ iam'[n] = iam[n] /\ asleep'[n] = asleep[n]
         /\ waitTimeout'[n] = waitTimeout[n] /\ activeFor'[n] = activeFor[n]
         /\ backlog'[n] = backlog[n],
         inbox'[n] = inbox[n]
  PROVE  Life(n)'
BY DEF Life

(* What a node sends is a datagram.                                        *)
LEMMA SendsBroadcast ==
  ASSUME TypeInv, NEW n \in Node, sendStatus(n) \/ sendActivate(n)
  PROVE  \E d \in Datagram : \E lost \in SUBSET Host :
           /\ broadcast(d, lost)
           /\ d.from = n /\ d.time = dateTime[n] /\ dateTime[n] \in Time
           /\ sendStatus(n) => d.status = Status(n) /\ n \notin lost
           /\ ~ sendStatus(n) => d.status = "2"
<1>1. CASE sendStatus(n)
  <2> DEFINE d == [status |-> Status(n), from |-> n, time |-> dateTime[n]]
  <2>1. PICK lost \in SUBSET (Host \ {n}) : broadcast(d, lost)
    BY <1>1 DEF sendStatus
  <2>2. d \in Datagram /\ dateTime[n] \in Time
    BY <1>1 DEF sendStatus, ServesTimers, Awake, TypeInv, Datagram, Status
  <2>3. d.from = n /\ d.time = dateTime[n] /\ d.status = Status(n)
    OBVIOUS
  <2> HIDE DEF d
  <2> QED
    BY <1>1, <2>1, <2>2, <2>3
<1>2. CASE ~ sendStatus(n)
  <2> DEFINE d == [status |-> "2", from |-> n, time |-> dateTime[n]]
  <2>1. PICK lost \in SUBSET Host : broadcast(d, lost)
    BY <1>2 DEF sendActivate
  <2>2. d \in Datagram /\ dateTime[n] \in Time
    BY <1>2 DEF sendActivate, TypeInv, Datagram
  <2>3. d.from = n /\ d.time = dateTime[n] /\ d.status = "2"
    OBVIOUS
  <2> HIDE DEF d
  <2> QED
    BY <1>2, <2>1, <2>2, <2>3
<1> QED
  BY <1>1, <1>2

(* Each step of a node keeps what is said of the node.                     *)
LEMMA LifeOfActor ==
  ASSUME TypeInv, TimeInv, NEW n \in Node, Life(n), NodeStep(n)
  PROVE  Life(n)'
<1> USE PulsarAssumption
<1>0. /\ inbox[n] \in Seq(Datagram) /\ Len(inbox[n]) \in Nat
      /\ backlog[n] \in Nat /\ n \in Host
  BY DEF TypeInv, TimeInv, Host
<1>1. CASE start(n)
  <2>1. up'[n] /\ ~ iam'[n] /\ waitTimeout'[n] = ReceiveTime /\ asleep'[n] = 0
    BY <1>1 DEF start, TypeInv, TimeInv
  <2>2. /\ activeFor' = activeFor /\ backlog' = backlog /\ inbox' = inbox
    BY <1>1 DEF start
  <2>3. ~ iam[n]
    BY <1>1 DEF start, Life
  <2> QED
    BY <2>1, <2>2, <2>3 DEF Life
<1>2. CASE crash(n)
  <2>1. /\ ~ up'[n] /\ ~ iam'[n] /\ activeFor'[n] = 0 /\ backlog'[n] = 0
        /\ inbox'[n] = <<>>
    BY <1>0, <1>2 DEF crash, TypeInv, TimeInv
  <2> QED
    BY <2>1 DEF Life
<1>3. CASE sendStatus(n) \/ sendActivate(n)
  <2>1. PICK d \in Datagram, lost \in SUBSET Host : broadcast(d, lost)
    BY <1>3, SendsBroadcast
  <2>2. Len(inbox'[n]) \in Nat /\ Len(inbox'[n]) >= Len(inbox[n])
    <3>1. CASE inbox'[n] = inbox[n]
      BY <1>0, <3>1
    <3>2. CASE inbox'[n] = Append(inbox[n], d)
      BY <1>0, <3>2, AppendKeeps
    <3> QED
      BY <1>0, <2>1, <3>1, <3>2, BroadcastLoses
  <2>3. /\ up' = up /\ iam' = iam /\ asleep' = asleep
        /\ waitTimeout' = waitTimeout /\ activeFor' = activeFor
        /\ backlog' = backlog
    BY <1>3 DEF sendStatus, sendActivate, nodeVars, timers
  <2> QED
    BY <1>0, <2>2, <2>3 DEF Life
<1>4. CASE becomeMaster(n)
  <2>1. /\ iam'[n] /\ waitTimeout'[n] = Idle
        /\ up' = up /\ asleep' = asleep /\ backlog' = backlog /\ inbox' = inbox
    BY <1>4 DEF becomeMaster, TypeInv, TimeInv
  <2>2. up[n] /\ asleep[n] = 0
    BY <1>4 DEF becomeMaster, ServesTimers, Awake
  <2> QED
    BY <2>1, <2>2 DEF Life
<1>5. CASE deactivate(n)
  <2>1. /\ ~ iam'[n] /\ waitTimeout'[n] = ReceiveTime
        /\ asleep'[n] = DeactivateSleep /\ activeFor'[n] = 0
        /\ backlog' = backlog /\ inbox' = inbox
    BY <1>5 DEF deactivate, TypeInv, TimeInv
  <2> QED
    BY <2>1 DEF Life
<1>6. CASE readyRead(n)
  <2> DEFINE d == Head(inbox[n])
  <2>0. up[n] /\ asleep[n] = 0 /\ up' = up
    BY <1>6 DEF readyRead, Awake
  <2>1. \/ yield(n, d) \/ giveWay(n, d) \/ stayMaster(n, d)
        \/ follow(n, d) \/ takeOver(n, d) \/ waitForOther(n, d)
    BY <1>6 DEF readyRead
  <2>2. backlog'[n] <= Len(inbox'[n])
    <3>1. inbox'[n] = Tail(inbox[n]) /\ backlog'[n] = Less(backlog[n])
      BY <1>0, <1>6 DEF readyRead, TypeInv, TimeInv
    <3>2. Len(inbox'[n]) = Len(inbox[n]) - 1
      BY <1>0, <1>6, <3>1, TailShifts DEF readyRead
    <3>3. backlog[n] <= Len(inbox[n]) /\ Len(inbox[n]) # 0
      BY <1>0, <1>6 DEF readyRead, Life
    <3> QED
      BY <1>0, <3>1, <3>2, <3>3 DEF Less
  <2> HIDE DEF d
  <2>3. CASE yield(n, d)
    <3>1. ~ iam'[n] /\ waitTimeout'[n] = ReceiveTime /\ activeFor'[n] = 0
          /\ asleep' = asleep
      BY <2>3 DEF yield, TypeInv, TimeInv
    <3> QED
      BY <2>0, <2>2, <3>1 DEF Life
  <2>4. CASE giveWay(n, d)
    <3>1. /\ ~ iam'[n] /\ waitTimeout'[n] = ActivateSleep + ReceiveTime
          /\ activeFor'[n] = 0 /\ asleep'[n] = ActivateSleep
      BY <2>4 DEF giveWay, TypeInv, TimeInv
    <3> QED
      BY <2>0, <2>2, <3>1 DEF Life
  <2>5. CASE stayMaster(n, d)
    BY <2>0, <2>2, <2>5 DEF stayMaster, Life
  <2>6. CASE follow(n, d) \/ waitForOther(n, d)
    <3>1. /\ iam' = iam /\ waitTimeout'[n] = ReceiveTime /\ ~ iam[n]
          /\ activeFor' = activeFor /\ asleep' = asleep
      BY <2>6 DEF follow, waitForOther, TypeInv, TimeInv
    <3> QED
      BY <2>0, <2>2, <3>1 DEF Life
  <2>7. CASE takeOver(n, d)
    <3>1. iam'[n] /\ waitTimeout'[n] = Idle /\ asleep' = asleep
      BY <2>7 DEF takeOver, TypeInv, TimeInv
    <3> QED
      BY <2>0, <2>2, <3>1 DEF Life
  <2> QED
    BY <2>1, <2>3, <2>4, <2>5, <2>6, <2>7
<1> QED
  BY <1>1, <1>2, <1>3, <1>4, <1>5, <1>6 DEF NodeStep

(* The other nodes keep what they have; their sockets may get longer.      *)
LEMMA StepOfOther ==
  ASSUME TypeInv, TimeInv, NEW n \in Node, NodeStep(n), NEW k \in Node, k # n
  PROVE  /\ up'[k] = up[k] /\ iam'[k] = iam[k] /\ asleep'[k] = asleep[k]
         /\ dateTime'[k] = dateTime[k]
         /\ waitTimeout'[k] = waitTimeout[k] /\ activeFor'[k] = activeFor[k]
         /\ sendStatusTimeout'[k] = sendStatusTimeout[k]
         /\ backlog'[k] = backlog[k]
<1>1. CASE start(n)
  BY <1>1 DEF start, TypeInv, TimeInv
<1>2. CASE crash(n)
  BY <1>2 DEF crash, TypeInv, TimeInv
<1>3. CASE sendStatus(n) \/ sendActivate(n)
  BY <1>3 DEF sendStatus, sendActivate, nodeVars, timers, TypeInv, TimeInv
<1>4. CASE becomeMaster(n)
  BY <1>4 DEF becomeMaster, TypeInv, TimeInv
<1>5. CASE deactivate(n)
  BY <1>5 DEF deactivate, TypeInv, TimeInv
<1>6. CASE readyRead(n)
  <2> DEFINE d == Head(inbox[n])
  <2>1. \/ yield(n, d) \/ giveWay(n, d) \/ stayMaster(n, d)
        \/ follow(n, d) \/ takeOver(n, d) \/ waitForOther(n, d)
    BY <1>6 DEF readyRead
  <2>2. /\ up' = up /\ dateTime' = dateTime
        /\ sendStatusTimeout' = sendStatusTimeout
        /\ backlog'[k] = backlog[k]
    BY <1>6 DEF readyRead, TimeInv
  <2> HIDE DEF d
  <2>3. /\ iam'[k] = iam[k] /\ asleep'[k] = asleep[k]
        /\ waitTimeout'[k] = waitTimeout[k] /\ activeFor'[k] = activeFor[k]
    BY <2>1 DEF yield, giveWay, stayMaster, follow, takeOver, waitForOther,
                TypeInv, TimeInv
  <2> QED
    BY <2>2, <2>3
<1> QED
  BY <1>1, <1>2, <1>3, <1>4, <1>5, <1>6 DEF NodeStep

(* What a step of a node does to the sockets of the others, and to what it *)
(* counts as lost.                                                         *)
LEMMA SocketOfOther ==
  ASSUME TypeInv, TimeInv, NEW n \in Node, NodeStep(n), NEW k \in Node, k # n
  PROVE  /\ Len(inbox'[k]) \in Nat /\ Len(inbox'[k]) >= Len(inbox[k])
         /\ losses' \in losses .. MaxLosses
         /\ \A i \in DOMAIN inbox[k] : i \in DOMAIN inbox'[k]
                                         /\ inbox'[k][i] = inbox[k][i]
         /\ ~ sendStatus(n) /\ ~ sendActivate(n) => inbox'[k] = inbox[k]
<1>1. inbox[k] \in Seq(Datagram) /\ Len(inbox[k]) \in Nat /\ k \in Host
  BY DEF TypeInv, Host
<1>2. losses \in 0 .. MaxLosses /\ MaxLosses \in Nat
  BY PulsarAssumption DEF TimeInv
<1>3. CASE sendStatus(n) \/ sendActivate(n)
  <2>1. PICK d \in Datagram, lost \in SUBSET Host : broadcast(d, lost)
    BY <1>3, SendsBroadcast
  <2>2. losses' \in losses .. MaxLosses
    BY <2>1, BroadcastLoses
  <2>3. CASE inbox'[k] = inbox[k]
    BY <1>1, <1>3, <2>2, <2>3
  <2>4. CASE inbox'[k] = Append(inbox[k], d)
    <3>1. /\ Len(Append(inbox[k], d)) = Len(inbox[k]) + 1
          /\ \A i \in DOMAIN inbox[k] : i \in DOMAIN Append(inbox[k], d)
                                          /\ Append(inbox[k], d)[i] = inbox[k][i]
      BY <1>1, AppendKeeps
    <3> QED
      BY <1>1, <1>3, <2>2, <2>4, <3>1
  <2> QED
    BY <1>1, <2>1, <2>3, <2>4, BroadcastLoses
<1>4. CASE ~ (sendStatus(n) \/ sendActivate(n))
  <2>1. inbox'[k] = inbox[k] /\ losses' = losses
    BY <1>4 DEF NodeStep, start, crash, becomeMaster, deactivate, readyRead,
                budgets, TypeInv, Host
  <2> QED
    BY <1>1, <1>2, <2>1
<1> QED
  BY <1>3, <1>4

LEMMA LifeInvStep ==
  ASSUME TypeInv, TimeInv, LifeInv, [Next \/ Listens]_pulsarVars
  PROVE  LifeInv'
<1> USE PulsarAssumption
<1> SUFFICES ASSUME NEW k \in Node, Life(k) PROVE Life(k)'
  BY LifeOfEach DEF LifeInv, Life
<1>0. /\ inbox[k] \in Seq(Datagram) /\ Len(inbox[k]) \in Nat
      /\ backlog[k] \in Nat /\ asleep[k] \in Nat
      /\ waitTimeout[k] \in Nat \cup {Idle} /\ activeFor[k] \in Nat
  BY DEF TypeInv, TimeInv, Host
<1>1. CASE tick
  <2>1. /\ up' = up /\ iam' = iam /\ inbox' = inbox
        /\ waitTimeout'[k] = Less(waitTimeout[k])
        /\ asleep'[k] = Less(asleep[k])
        /\ backlog'[k] = Len(inbox[k])
        /\ activeFor'[k] = IF k \in Active THEN More(activeFor[k]) ELSE 0
    BY <1>1 DEF tick
  <2>2. CASE iam[k]
    <3>1. up[k] /\ asleep[k] = 0 /\ waitTimeout[k] = Idle
      BY <2>2 DEF Life
    <3> QED
      BY <1>0, <2>1, <2>2, <3>1 DEF Life, Less, Idle
  <2>3. CASE ~ iam[k]
    <3>1. activeFor'[k] = 0
      BY <2>1, <2>3 DEF Active
    <3>2. ASSUME up[k]
          PROVE  waitTimeout'[k] \in 0 .. ReceiveTime + asleep'[k]
      <4>1. waitTimeout[k] \in 0 .. ReceiveTime + asleep[k]
        BY <2>3, <3>2 DEF Life
      <4>2. CASE asleep[k] = 0
        BY <1>0, <2>1, <4>1, <4>2 DEF Less
      <4>3. CASE asleep[k] # 0
        BY <1>0, <2>1, <4>1, <4>3 DEF Less
      <4> QED
        BY <4>2, <4>3
    <3> QED
      BY <1>0, <2>1, <2>3, <3>1, <3>2 DEF Life
  <2> QED
    BY <2>2, <2>3
<1>2. ASSUME NEW n \in Node, NodeStep(n) PROVE Life(k)'
  <2>1. CASE n = k
    BY <1>2, <2>1, LifeOfActor
  <2>2. CASE n # k
    <3>1. /\ up'[k] = up[k] /\ iam'[k] = iam[k] /\ asleep'[k] = asleep[k]
          /\ waitTimeout'[k] = waitTimeout[k] /\ activeFor'[k] = activeFor[k]
          /\ backlog'[k] = backlog[k]
      BY <1>2, <2>2, StepOfOther
    <3>2. Len(inbox'[k]) \in Nat /\ Len(inbox'[k]) >= Len(inbox[k])
      BY <1>2, <2>2, SocketOfOther
    <3> QED
      BY <1>0, <3>1, <3>2 DEF Life
  <2> QED
    BY <2>1, <2>2
<1>3. CASE Listens
  <2>1. inbox'[k] = inbox[k]
    BY <1>3, ListensLeavesNodes
  <2> QED
    BY <1>3, <2>1, LifeKept DEF Listens, nodeVars, timers
<1>4. CASE UNCHANGED pulsarVars
  BY <1>4, LifeKept DEF pulsarVars, nodeVars, timers
<1> QED
  BY <1>1, <1>2, <1>3, <1>4 DEF Next

----------------------------------------------------------------------------
(* The active nodes are heard.                                             *)

LEMMA ReachType ==
  ASSUME TimeInv
  PROVE  Reach \in Nat /\ SendTime <= Reach /\ Reach <= (MaxLosses + 1) * SendTime
<1>1. losses \in Nat /\ MaxLosses \in Nat /\ losses <= MaxLosses /\ SendTime \in Nat
  BY PulsarAssumption DEF TimeInv
<1>2. \A a, b, s \in Nat : a <= b => /\ (a + 1) * s \in Nat
                                     /\ s <= (a + 1) * s
                                     /\ (a + 1) * s <= (b + 1) * s
  <2> SUFFICES ASSUME NEW a \in Nat, NEW b \in Nat, NEW s \in Nat, a <= b
               PROVE  /\ (a + 1) * s \in Nat
                      /\ s <= (a + 1) * s
                      /\ (a + 1) * s <= (b + 1) * s
    OBVIOUS
  <2>1. PICK c \in Nat : b = a + c
    <3>1. b - a \in Nat /\ b = a + (b - a)
      OBVIOUS
    <3> QED
      BY <3>1
  <2>2. a * s \in Nat /\ c * s \in Nat
    OBVIOUS
  <2>3. (a + 1) * s = a * s + s
    OBVIOUS
  <2>4. (b + 1) * s = a * s + c * s + s
    BY <2>1
  <2> QED
    BY <2>2, <2>3, <2>4
<1> QED
  BY <1>1, <1>2 DEF Reach

LEMMA ReachGrows ==
  ASSUME TimeInv, losses' \in losses .. MaxLosses
  PROVE  /\ Reach' \in Nat /\ Reach' >= Reach
         /\ losses' >= losses + 1 => Reach' >= Reach + SendTime
<1>1. /\ losses \in Nat /\ losses' \in Nat /\ losses <= losses'
      /\ SendTime \in Nat
  BY PulsarAssumption DEF TimeInv
<1>2. \A a, b, s \in Nat : a <= b => /\ (b + 1) * s \in Nat
                                     /\ (b + 1) * s >= (a + 1) * s
                                     /\ b >= a + 1 => (b + 1) * s >= (a + 1) * s + s
  <2> SUFFICES ASSUME NEW a \in Nat, NEW b \in Nat, NEW s \in Nat, a <= b
               PROVE  /\ (b + 1) * s \in Nat
                      /\ (b + 1) * s >= (a + 1) * s
                      /\ b >= a + 1 => (b + 1) * s >= (a + 1) * s + s
    OBVIOUS
  <2>1. PICK c \in Nat : b = a + c
    <3>1. b - a \in Nat /\ b = a + (b - a)
      OBVIOUS
    <3> QED
      BY <3>1
  <2>2. a * s \in Nat /\ c * s \in Nat
    OBVIOUS
  <2>3. (a + 1) * s = a * s + s
    OBVIOUS
  <2>4. (b + 1) * s = a * s + c * s + s
    BY <2>1
  <2>5. b >= a + 1 => c * s >= s
    <3> SUFFICES ASSUME c >= 1 PROVE c * s >= s
      BY <2>1
    <3>1. PICK e \in Nat : c = e + 1
      <4>1. c - 1 \in Nat /\ c = (c - 1) + 1
        OBVIOUS
      <4> QED
        BY <4>1
    <3>2. e * s \in Nat /\ c * s = e * s + s
      BY <3>1
    <3> QED
      BY <3>2
  <2> QED
    BY <2>2, <2>3, <2>4, <2>5
<1>3. Reach' = (losses' + 1) * SendTime
  BY DEF Reach
<1> QED
  BY <1>1, <1>2, <1>3 DEF Reach

LEMMA NearTypes ==
  ASSUME TimeInv, NEW m \in Node, NEW n \in Node
  PROVE  /\ activeFor[m] \in Nat
         /\ Unheard(n) \in Int
         /\ sendStatusTimeout[m] \in 0 .. SendTime
         /\ SendTime \in Nat /\ ReceiveTime \in Nat
<1>1. waitTimeout[n] \in Nat \cup {Idle} /\ activeFor[n] \in Nat
  BY DEF TimeInv
<1> QED
  BY <1>1, PulsarAssumption DEF TimeInv, Unheard, Idle

(* What HearInv says of a pair of nodes.                                   *)
Hearing(m, n) ==
  \/ Overslept(n)
  \/ /\ Near(m, n, 0)
     /\ Near(m, n, sendStatusTimeout[m]) \/ Waiting(n)

Rivals(m, n) ==
  m # n /\ iam[m] /\ up[n] /\ (iam[n] => dateTime[m] <= dateTime[n])

LEMMA HearOfEach ==
  HearInv <=> \A m, n \in Node : Rivals(m, n) => Hearing(m, n)
BY DEF HearInv, Hearing, Rivals

(* One that has just become active, or has just taken notice, is near.     *)
LEMMA NewsIsNear ==
  ASSUME TimeInv, TimeInv', NEW m \in Node, NEW n \in Node,
         activeFor'[m] = 0 \/ Unheard(n)' <= 0
  PROVE  Hearing(m, n)'
<1>1. /\ activeFor'[m] \in Nat /\ Unheard(n)' \in Int
      /\ sendStatusTimeout'[m] \in 0 .. SendTime /\ SendTime \in Nat
  <2>1. activeFor'[m] \in Nat /\ sendStatusTimeout'[m] \in 0 .. SendTime
    BY DEF TimeInv
  <2>2. waitTimeout'[n] \in Nat \cup {Idle} /\ activeFor'[n] \in Nat
    BY DEF TimeInv
  <2>3. Unheard(n)' \in Int
    BY <2>2, PulsarAssumption DEF Unheard, Idle
  <2> QED
    BY <2>1, <2>3, PulsarAssumption
<1>2. Reach' \in Nat /\ SendTime <= Reach'
  <2>1. losses' \in Nat /\ SendTime \in Nat
    BY PulsarAssumption DEF TimeInv
  <2>2. \A a, s \in Nat : (a + 1) * s \in Nat /\ s <= (a + 1) * s
    <3> SUFFICES ASSUME NEW a \in Nat, NEW s \in Nat
                 PROVE  (a + 1) * s \in Nat /\ s <= (a + 1) * s
      OBVIOUS
    <3>1. a * s \in Nat /\ (a + 1) * s = a * s + s
      OBVIOUS
    <3> QED
      BY <3>1
  <2>3. Reach' = (losses' + 1) * SendTime
    BY DEF Reach
  <2> QED
    BY <2>1, <2>2, <2>3
<1>3. \A x \in 0 .. SendTime : Near(m, n, x)'
  <2> SUFFICES ASSUME NEW x \in 0 .. SendTime
               PROVE  activeFor'[m] + x <= Reach' \/ Unheard(n)' + x <= Reach'
    BY DEF Near
  <2>1. CASE activeFor'[m] = 0
    BY <1>1, <1>2, <2>1
  <2>2. CASE Unheard(n)' <= 0
    BY <1>1, <1>2, <2>2
  <2> QED
    BY <2>1, <2>2
<1>4. Near(m, n, 0)' /\ Near(m, n, sendStatusTimeout[m])'
  <2>1. 0 \in 0 .. SendTime
    BY <1>1
  <2>2. Near(m, n, 0)'
    BY <1>3, <2>1
  <2>3. Near(m, n, sendStatusTimeout[m])'
    BY <1>1, <1>3 DEF Near
  <2> QED
    BY <2>2, <2>3
<1> QED
  BY <1>4 DEF Hearing

(* Without time passing, what is near stays near.                          *)
LEMMA NearKept ==
  ASSUME TimeInv, losses' \in losses .. MaxLosses,
         NEW m \in Node, NEW n \in Node, NEW x \in Nat,
         activeFor'[m] = activeFor[m], Unheard(n)' = Unheard(n), Near(m, n, x)
  PROVE  Near(m, n, x)'
<1>1. /\ Reach' \in Nat /\ Reach \in Nat /\ Reach' >= Reach
  BY ReachGrows, ReachType
<1>2. activeFor[m] \in Nat /\ Unheard(n) \in Int
  BY NearTypes
<1>3. activeFor[m] + x <= Reach' \/ Unheard(n) + x <= Reach'
  BY <1>1, <1>2 DEF Near
<1> QED
  BY <1>3 DEF Near

(* What is in the socket of n stays there, and so does what n makes of it. *)
LEMMA HearingKept ==
  ASSUME TypeInv, TimeInv, LifeInv, losses' \in losses .. MaxLosses,
         NEW m \in Node, NEW n \in Node, Hearing(m, n),
         /\ activeFor'[m] = activeFor[m]
         /\ sendStatusTimeout'[m] = sendStatusTimeout[m],
         /\ iam'[n] = iam[n] /\ dateTime'[n] = dateTime[n]
         /\ activeFor'[n] = activeFor[n] /\ waitTimeout'[n] = waitTimeout[n]
         /\ backlog'[n] = backlog[n],
         \A i \in DOMAIN inbox[n] : i \in DOMAIN inbox'[n]
                                      /\ inbox'[n][i] = inbox[n][i]
  PROVE  Hearing(m, n)'
<1>1. Unheard(n)' = Unheard(n)
  BY DEF Unheard
<1>2. CASE Overslept(n)
  <2>1. PICK i \in 1 .. backlog[n] : inbox[n][i].status = "1"
    BY <1>2 DEF Overslept
  <2>2. i \in DOMAIN inbox[n]
    <3>1. backlog[n] <= Len(inbox[n]) /\ backlog[n] \in Nat
      BY DEF LifeInv, TimeInv
    <3>2. inbox[n] \in Seq(Datagram)
      BY DEF TypeInv, Host
    <3> QED
      BY <3>1, <3>2
  <2>3. Overslept(n)'
    BY <1>2, <2>1, <2>2 DEF Overslept
  <2> QED
    BY <2>3 DEF Hearing
<1>3. CASE Near(m, n, 0) /\ (Near(m, n, sendStatusTimeout[m]) \/ Waiting(n))
  <2>1. Near(m, n, 0)'
    BY <1>1, <1>3, NearKept
  <2>2. CASE Near(m, n, sendStatusTimeout[m])
    <3>1. sendStatusTimeout[m] \in Nat
      BY NearTypes
    <3>2. activeFor'[m] + sendStatusTimeout[m] <= Reach'
            \/ Unheard(n)' + sendStatusTimeout[m] <= Reach'
      <4>1. /\ Reach' \in Nat /\ Reach \in Nat /\ Reach' >= Reach
        BY ReachGrows, ReachType
      <4>2. activeFor[m] \in Nat /\ Unheard(n) \in Int
        BY NearTypes
      <4> QED
        BY <1>1, <2>2, <3>1, <4>1, <4>2 DEF Near
    <3>3. Near(m, n, sendStatusTimeout[m])'
      BY <3>2 DEF Near
    <3> QED
      BY <2>1, <3>3 DEF Hearing
  <2>3. CASE Waiting(n)
    <3>1. Waiting(n)'
      BY <2>3 DEF Waiting, Heeds, Outranks
    <3> QED
      BY <2>1, <3>1 DEF Hearing
  <2> QED
    BY <1>3, <2>2, <2>3
<1> QED
  BY <1>2, <1>3 DEF Hearing

(* In a tick both counts grow, and the next status of m is nearer; what n  *)
(* sleeps through is older when it wakes.                                  *)
LEMMA TickHears ==
  ASSUME TypeInv, TimeInv, TimeInv', LifeInv, tick,
         NEW m \in Node, NEW n \in Node, Rivals(m, n), Hearing(m, n)
  PROVE  Hearing(m, n)'
<1> USE PulsarAssumption
<1>0. inbox[n] \in Seq(Datagram) /\ backlog[n] \in Nat
      /\ backlog[n] <= Len(inbox[n])
  BY DEF TypeInv, TimeInv, LifeInv, Host
<1>1. /\ up' = up /\ iam' = iam /\ inbox' = inbox /\ dateTime' = dateTime
      /\ backlog'[n] = Len(inbox[n]) /\ losses' = losses
      /\ waitTimeout'[n] = Less(waitTimeout[n])
  BY DEF tick, budgets
<1>2. sendStatusTimeout[m] > 0 /\ sendStatusTimeout'[m] = sendStatusTimeout[m] - 1
  <2>1. m \in Awake /\ up[m]
    BY DEF Awake, LifeInv, Rivals
  <2>2. sendStatusTimeout[m] \in Nat
    BY NearTypes
  <2>3. sendStatusTimeout[m] > 0 /\ sendStatusTimeout'[m] = Less(sendStatusTimeout[m])
    BY <2>1 DEF tick
  <2> QED
    BY <2>2, <2>3 DEF Less
<1>3. activeFor'[m] \in Nat /\ activeFor'[m] <= activeFor[m] + 1
  <2>1. m \in Active /\ activeFor'[m] = More(activeFor[m])
    BY DEF Active, LifeInv, Rivals, tick
  <2> QED
    BY <2>1, NearTypes DEF More
<1>4. Unheard(n)' \in Int /\ Unheard(n)' <= Unheard(n) + 1
  <2>1. CASE iam[n]
    <3>1. n \in Active
      BY <2>1 DEF Active, Rivals
    <3>2. activeFor[n] \in Nat /\ activeFor'[n] = More(activeFor[n])
      BY <3>1 DEF tick, TimeInv
    <3> QED
      BY <1>1, <2>1, <3>2 DEF Unheard, More
  <2>2. CASE ~ iam[n]
    <3>1. waitTimeout[n] \in Nat \cup {Idle}
      BY DEF TimeInv
    <3>2. Less(waitTimeout[n]) \in Int /\ Less(waitTimeout[n]) >= waitTimeout[n] - 1
      BY <3>1 DEF Less, Idle
    <3>3. Unheard(n)' = ReceiveTime - Less(waitTimeout[n])
          /\ Unheard(n) = ReceiveTime - waitTimeout[n]
      BY <1>1, <2>2 DEF Unheard
    <3> QED
      BY <3>1, <3>2, <3>3 DEF Idle
  <2> QED
    BY <2>1, <2>2
<1>5. Reach' = Reach /\ Reach \in Nat
  BY <1>1, ReachType DEF Reach
<1>6. CASE \E i \in DOMAIN inbox[n] : ~ iam[n] /\ inbox[n][i].status = "1"
  <2>1. Overslept(n)'
    BY <1>0, <1>1, <1>6 DEF Overslept
  <2> QED
    BY <2>1 DEF Hearing
<1>7. CASE ~ \E i \in DOMAIN inbox[n] : ~ iam[n] /\ inbox[n][i].status = "1"
  <2>1. ~ Overslept(n)
    BY <1>0, <1>7 DEF Overslept
  <2>2. ~ Waiting(n)
    <3>1. CASE iam[n]
      <4>1. inbox[n] = <<>>
        BY <3>1 DEF tick, Awake, LifeInv
      <4> QED
        BY <4>1 DEF Waiting
    <3>2. CASE ~ iam[n]
      BY <1>7, <3>2 DEF Waiting, Heeds
    <3> QED
      BY <3>1, <3>2
  <2>3. activeFor[m] + sendStatusTimeout[m] <= Reach
          \/ Unheard(n) + sendStatusTimeout[m] <= Reach
    BY <2>1, <2>2 DEF Hearing, Near
  <2>4. /\ activeFor'[m] + sendStatusTimeout'[m] <= Reach'
             \/ Unheard(n)' + sendStatusTimeout'[m] <= Reach'
        /\ activeFor'[m] + 0 <= Reach' \/ Unheard(n)' + 0 <= Reach'
    <3>1. activeFor[m] \in Nat /\ Unheard(n) \in Int
          /\ sendStatusTimeout[m] \in Nat
      BY NearTypes
    <3> QED
      BY <1>2, <1>3, <1>4, <1>5, <2>3, <3>1
  <2>5. Near(m, n, 0)' /\ Near(m, n, sendStatusTimeout[m])'
    BY <2>4 DEF Near
  <2> QED
    BY <2>5 DEF Hearing
<1> QED
  BY <1>6, <1>7

(* The status of an active node reaches n, or is counted as lost.          *)
LEMMA StatusHears ==
  ASSUME TypeInv, TimeInv, LifeInv, NEW m \in Node, NEW n \in Node,
         sendStatus(m), m \notin Passive, Rivals(m, n), Hearing(m, n)
  PROVE  Hearing(m, n)'
<1>1. PICK d \in Datagram, lost \in SUBSET Host :
        /\ broadcast(d, lost)
        /\ d.from = m /\ d.time = dateTime[m] /\ d.status = Status(m)
  BY SendsBroadcast
<1>2. d.status = "1"
  BY <1>1 DEF Status, Rivals
<1>3. /\ iam' = iam /\ dateTime' = dateTime /\ waitTimeout' = waitTimeout
      /\ activeFor' = activeFor /\ backlog' = backlog
      /\ sendStatusTimeout'[m] = SendTime
  BY DEF sendStatus, TimeInv
<1>4. losses' \in losses .. MaxLosses
  BY <1>1, BroadcastLoses
<1>5. inbox[n] \in Seq(Datagram) /\ n \in Host
  BY DEF TypeInv, Host
<1>6. Unheard(n)' = Unheard(n)
  BY <1>3 DEF Unheard
<1>7. CASE Overslept(n)
  <2>1. PICK i \in 1 .. backlog[n] : inbox[n][i].status = "1"
    BY <1>7 DEF Overslept
  <2>2. i \in DOMAIN inbox[n]
    <3>1. backlog[n] <= Len(inbox[n]) /\ backlog[n] \in Nat
      BY DEF LifeInv, TimeInv
    <3> QED
      BY <1>5, <3>1
  <2>3. inbox'[n][i] = inbox[n][i]
    BY <1>1, <2>2, BroadcastKeeps
  <2>4. Overslept(n)'
    BY <1>3, <1>7, <2>1, <2>3 DEF Overslept
  <2> QED
    BY <2>4 DEF Hearing
<1>8. CASE Near(m, n, 0)
  <2>1. Near(m, n, 0)'
    BY <1>3, <1>4, <1>6, <1>8, NearKept
  <2>2. CASE n \in lost
    <3>1. losses' >= losses + 1
      BY <1>1, <2>2, BroadcastLoses
    <3>2. Reach' >= Reach + SendTime /\ Reach \in Nat /\ Reach' \in Nat
      BY <1>4, <3>1, ReachGrows, ReachType
    <3>3. activeFor[m] <= Reach \/ Unheard(n) <= Reach
      BY <1>8, NearTypes DEF Near
    <3>4. activeFor'[m] + SendTime <= Reach' \/ Unheard(n)' + SendTime <= Reach'
      BY <1>3, <1>6, <3>2, <3>3, NearTypes
    <3>5. Near(m, n, sendStatusTimeout[m])'
      BY <1>3, <3>4 DEF Near
    <3> QED
      BY <2>1, <3>5 DEF Hearing
  <2>3. CASE n \notin lost
    <3>1. Reads(n, d)
      BY <1>2 DEF Reads, Rivals
    <3>2. inbox'[n] = Append(inbox[n], d)
      BY <1>1, <1>5, <2>3, <3>1, BroadcastLoses
    <3>3. /\ Len(inbox[n]) + 1 \in DOMAIN inbox'[n]
          /\ inbox'[n][Len(inbox[n]) + 1] = d
      BY <1>5, <3>2
    <3>4. Heeds(n, d)'
      BY <1>1, <1>2, <1>3 DEF Heeds, Outranks, Rivals
    <3>5. Waiting(n)'
      BY <3>3, <3>4 DEF Waiting
    <3> QED
      BY <2>1, <3>5 DEF Hearing
  <2> QED
    BY <2>2, <2>3
<1> QED
  BY <1>7, <1>8 DEF Hearing

(* Reading: n takes notice, becomes active, or heeds nothing of the        *)
(* datagram.                                                               *)
LEMMA ReadHears ==
  ASSUME TypeInv, TimeInv, TimeInv', LifeInv, NEW m \in Node, NEW n \in Node,
         readyRead(n), m # n, Rivals(m, n), Hearing(m, n)
  PROVE  Hearing(m, n)'
<1> USE PulsarAssumption
<1> DEFINE d == Head(inbox[n])
<1>1. \/ yield(n, d) \/ giveWay(n, d) \/ stayMaster(n, d)
      \/ follow(n, d) \/ takeOver(n, d) \/ waitForOther(n, d)
  BY DEF readyRead
<1>2. /\ inbox[n] \in Seq(Datagram) /\ inbox[n] # <<>> /\ n \in Host
      /\ inbox'[n] = Tail(inbox[n]) /\ dateTime' = dateTime
      /\ sendStatusTimeout' = sendStatusTimeout /\ losses' = losses
  BY DEF readyRead, TypeInv, Host, budgets
<1>3. d = inbox[n][1] /\ d \in Datagram
  BY <1>2, TailShifts
<1> HIDE DEF d
<1>4. CASE yield(n, d) \/ follow(n, d) \/ waitForOther(n, d)
  <2>1. ~ iam'[n] /\ waitTimeout'[n] = ReceiveTime
    BY <1>4 DEF yield, follow, waitForOther, TypeInv, TimeInv
  <2>2. Unheard(n)' <= 0
    BY <2>1 DEF Unheard
  <2> QED
    BY <2>2, NewsIsNear
<1>5. CASE giveWay(n, d)
  <2>1. ~ iam'[n] /\ waitTimeout'[n] = ActivateSleep + ReceiveTime
    BY <1>5 DEF giveWay, TypeInv, TimeInv
  <2>2. Unheard(n)' <= 0
    BY <2>1 DEF Unheard
  <2> QED
    BY <2>2, NewsIsNear
<1>6. CASE takeOver(n, d)
  <2>1. iam'[n] /\ activeFor'[n] = activeFor[n] /\ ~ iam[n]
    BY <1>6 DEF takeOver, TypeInv
  <2>2. activeFor[n] = 0
    BY <2>1 DEF LifeInv
  <2>3. Unheard(n)' <= 0
    BY <2>1, <2>2 DEF Unheard
  <2> QED
    BY <2>3, NewsIsNear
<1>7. CASE stayMaster(n, d)
  <2>1. /\ iam[n] /\ iam' = iam /\ waitTimeout' = waitTimeout
        /\ activeFor' = activeFor
        /\ d.status = "1" => ~ Outranks(d, n)
    BY <1>7 DEF stayMaster
  <2>2. ~ Overslept(n) /\ ~ Heeds(n, d)
    BY <2>1 DEF Overslept, Heeds
  <2>3. Near(m, n, 0) /\ (Near(m, n, sendStatusTimeout[m]) \/ Waiting(n))
    BY <2>2 DEF Hearing
  <2>5. Near(m, n, 0)'
    BY <1>2, <2>1, <2>3 DEF Near, Unheard, Reach
  <2>6. CASE Near(m, n, sendStatusTimeout[m])
    <3>1. Near(m, n, sendStatusTimeout[m])'
      BY <1>2, <2>1, <2>6 DEF Near, Unheard, Reach
    <3> QED
      BY <2>5, <3>1 DEF Hearing
  <2>7. CASE Waiting(n)
    <3>1. PICK i \in DOMAIN inbox[n] : Heeds(n, inbox[n][i])
      BY <2>7 DEF Waiting
    <3>2. i # 1
      BY <1>3, <2>2, <3>1
    <3>3. i - 1 \in DOMAIN inbox'[n] /\ inbox'[n][i - 1] = inbox[n][i]
      BY <1>2, <3>2, TailShifts
    <3>4. Waiting(n)'
      BY <1>2, <2>1, <3>1, <3>3 DEF Waiting, Heeds, Outranks
    <3> QED
      BY <2>5, <3>4 DEF Hearing
  <2> QED
    BY <2>3, <2>6, <2>7
<1> QED
  BY <1>1, <1>4, <1>5, <1>6, <1>7

(* The steps of a node m itself that is active afterwards: it has sent,    *)
(* has just become active, or has changed nothing that counts.             *)
LEMMA ActiveHears ==
  ASSUME TypeInv, TimeInv, TimeInv', LifeInv, Passive = {},
         NEW m \in Node, NEW n \in Node,
         NodeStep(m), Rivals(m, n)', Rivals(m, n) => Hearing(m, n)
  PROVE  Hearing(m, n)'
<1> USE PulsarAssumption
<1>0. m # n /\ iam'[m] /\ up'[n]
  BY DEF Rivals
<1>1. /\ up'[n] = up[n] /\ iam'[n] = iam[n] /\ dateTime'[n] = dateTime[n]
      /\ waitTimeout'[n] = waitTimeout[n] /\ activeFor'[n] = activeFor[n]
      /\ backlog'[n] = backlog[n]
  BY <1>0, StepOfOther
<1>2. /\ losses' \in losses .. MaxLosses
      /\ \A i \in DOMAIN inbox[n] : i \in DOMAIN inbox'[n]
                                      /\ inbox'[n][i] = inbox[n][i]
  BY <1>0, SocketOfOther
<1>3. CASE ~ iam[m]
  <2>1. activeFor[m] = 0
    BY <1>3 DEF LifeInv
  <2>2. activeFor'[m] = 0
    <3>1. CASE start(m) \/ sendStatus(m) \/ sendActivate(m) \/ becomeMaster(m)
      BY <2>1, <3>1 DEF start, sendStatus, sendActivate, becomeMaster
    <3>2. CASE crash(m) \/ deactivate(m)
      BY <3>2 DEF crash, deactivate, TimeInv
    <3>3. CASE readyRead(m)
      BY <2>1, <3>3 DEF readyRead, yield, giveWay, stayMaster, follow,
                        takeOver, waitForOther, TimeInv
    <3> QED
      BY <3>1, <3>2, <3>3 DEF NodeStep
  <2> QED
    BY <2>2, NewsIsNear
<1>4. CASE iam[m]
  <2>1. CASE sendStatus(m)
    <3>1. Rivals(m, n)
      BY <1>0, <1>1, <1>4, <2>1 DEF Rivals, sendStatus
    <3> QED
      BY <2>1, <3>1, StatusHears
  <2>2. CASE sendActivate(m)
    <3>1. /\ dateTime' = dateTime /\ activeFor' = activeFor
          /\ sendStatusTimeout' = sendStatusTimeout
      BY <2>2 DEF sendActivate, nodeVars, timers
    <3>2. Rivals(m, n)
      BY <1>0, <1>1, <1>4, <3>1 DEF Rivals
    <3> QED
      BY <1>1, <1>2, <3>1, <3>2, HearingKept
  <2>3. CASE readyRead(m)
    <3> DEFINE d == Head(inbox[m])
    <3>1. \/ yield(m, d) \/ giveWay(m, d) \/ stayMaster(m, d)
          \/ follow(m, d) \/ takeOver(m, d) \/ waitForOther(m, d)
      BY <2>3 DEF readyRead
    <3> HIDE DEF d
    <3>2. stayMaster(m, d)
      BY <1>0, <1>4, <3>1 DEF yield, giveWay, follow, takeOver, waitForOther, TypeInv
    <3>3. /\ dateTime' = dateTime /\ activeFor' = activeFor
          /\ sendStatusTimeout' = sendStatusTimeout
      BY <2>3, <3>2 DEF readyRead, stayMaster
    <3>4. Rivals(m, n)
      BY <1>0, <1>1, <1>4, <3>3 DEF Rivals
    <3> QED
      BY <1>1, <1>2, <3>3, <3>4, HearingKept
  <2>4. ~ start(m) /\ ~ crash(m) /\ ~ deactivate(m) /\ ~ becomeMaster(m)
    <3>1. up[m] /\ waitTimeout[m] = Idle
      BY <1>4 DEF LifeInv
    <3>2. ~ start(m) /\ ~ becomeMaster(m)
      BY <3>1 DEF start, becomeMaster, Idle
    <3>3. ~ crash(m) /\ ~ deactivate(m)
      BY <1>0 DEF crash, deactivate, TypeInv
    <3> QED
      BY <3>2, <3>3
  <2> QED
    BY <2>1, <2>2, <2>3, <2>4 DEF NodeStep
<1> QED
  BY <1>3, <1>4

(* The steps of n.                                                         *)
LEMMA HearerHears ==
  ASSUME TypeInv, TimeInv, TimeInv', LifeInv,
         NEW m \in Node, NEW n \in Node,
         NodeStep(n), Rivals(m, n)', Rivals(m, n) => Hearing(m, n)
  PROVE  Hearing(m, n)'
<1> USE PulsarAssumption
<1>0. m # n /\ iam'[m] /\ up'[n] /\ n \in Host
  BY DEF Rivals, Host
<1>1. /\ iam'[m] = iam[m] /\ dateTime'[m] = dateTime[m]
      /\ activeFor'[m] = activeFor[m]
      /\ sendStatusTimeout'[m] = sendStatusTimeout[m]
  BY <1>0, StepOfOther
<1>2. CASE start(n) \/ deactivate(n)
  <2>1. ~ iam'[n] /\ waitTimeout'[n] = ReceiveTime
    BY <1>2 DEF start, deactivate, TypeInv, TimeInv
  <2>2. Unheard(n)' <= 0
    BY <2>1 DEF Unheard
  <2> QED
    BY <2>2, NewsIsNear
<1>3. CASE becomeMaster(n)
  <2>1. ~ iam[n]
    BY <1>3 DEF becomeMaster, LifeInv, Idle
  <2>2. activeFor'[n] = 0 /\ iam'[n]
    BY <1>3, <2>1 DEF becomeMaster, LifeInv, TypeInv
  <2>3. Unheard(n)' <= 0
    BY <2>2 DEF Unheard
  <2> QED
    BY <2>3, NewsIsNear
<1>4. CASE crash(n)
  BY <1>0, <1>4 DEF crash, TypeInv
<1>5. CASE sendStatus(n) \/ sendActivate(n)
  <2>1. /\ up' = up /\ iam' = iam /\ dateTime' = dateTime
        /\ waitTimeout' = waitTimeout /\ activeFor' = activeFor
        /\ backlog' = backlog
    BY <1>5 DEF sendStatus, sendActivate, nodeVars, timers
  <2>2. Rivals(m, n)
    BY <2>1 DEF Rivals
  <2>3. PICK d \in Datagram, lost \in SUBSET Host : broadcast(d, lost)
    BY <1>5, SendsBroadcast
  <2>4. losses' \in losses .. MaxLosses
    BY <2>3, BroadcastLoses
  <2>5. \A i \in DOMAIN inbox[n] : i \in DOMAIN inbox'[n]
                                     /\ inbox'[n][i] = inbox[n][i]
    BY <2>3, BroadcastKeeps
  <2> QED
    BY <1>1, <2>1, <2>2, <2>4, <2>5, HearingKept
<1>6. CASE readyRead(n)
  <2> DEFINE d == Head(inbox[n])
  <2>0. dateTime' = dateTime /\ up' = up
    BY <1>6 DEF readyRead
  <2>1. CASE Rivals(m, n)
    BY <1>0, <1>6, <2>1, ReadHears
  <2>2. CASE ~ Rivals(m, n)
    <3>1. iam[n] /\ ~ (dateTime[m] <= dateTime[n]) /\ ~ iam'[n]
      BY <1>0, <1>1, <2>0, <2>2 DEF Rivals
    <3>2. \/ yield(n, d) \/ giveWay(n, d) \/ stayMaster(n, d)
          \/ follow(n, d) \/ takeOver(n, d) \/ waitForOther(n, d)
      BY <1>6 DEF readyRead
    <3> HIDE DEF d
    <3>3. yield(n, d) \/ giveWay(n, d)
      BY <3>1, <3>2 DEF stayMaster, follow, takeOver, waitForOther
    <3>4. waitTimeout'[n] \in {ReceiveTime, ActivateSleep + ReceiveTime}
      BY <3>3 DEF yield, giveWay, TimeInv
    <3>5. Unheard(n)' <= 0
      BY <3>1, <3>4 DEF Unheard
    <3> QED
      BY <3>5, NewsIsNear
  <2> QED
    BY <2>1, <2>2
<1> QED
  BY <1>2, <1>3, <1>4, <1>5, <1>6 DEF NodeStep

LEMMA HearInvStep ==
  ASSUME TypeInv, TimeInv, TimeInv', LifeInv, HearInv, Passive = {},
         [Next]_pulsarVars
  PROVE  HearInv'
<1> SUFFICES ASSUME NEW m \in Node, NEW n \in Node, Rivals(m, n)'
             PROVE  Hearing(m, n)'
  BY HearOfEach DEF HearInv, Hearing, Rivals
<1>0. Rivals(m, n) => Hearing(m, n)
  BY HearOfEach
<1>1. CASE tick
  <2>1. Rivals(m, n)
    BY <1>1 DEF tick, Rivals
  <2> QED
    BY <1>0, <1>1, <2>1, TickHears
<1>2. ASSUME NEW k \in Node, NodeStep(k) PROVE Hearing(m, n)'
  <2>1. CASE k = m
    BY <1>0, <1>2, <2>1, ActiveHears
  <2>2. CASE k = n
    BY <1>0, <1>2, <2>2, HearerHears
  <2>3. CASE k # m /\ k # n
    <3>1. /\ up'[n] = up[n] /\ iam'[n] = iam[n] /\ dateTime'[n] = dateTime[n]
          /\ waitTimeout'[n] = waitTimeout[n] /\ activeFor'[n] = activeFor[n]
          /\ backlog'[n] = backlog[n]
      BY <1>2, <2>3, StepOfOther
    <3>2. /\ iam'[m] = iam[m] /\ dateTime'[m] = dateTime[m]
          /\ activeFor'[m] = activeFor[m]
          /\ sendStatusTimeout'[m] = sendStatusTimeout[m]
      BY <1>2, <2>3, StepOfOther
    <3>3. /\ losses' \in losses .. MaxLosses
          /\ \A i \in DOMAIN inbox[n] : i \in DOMAIN inbox'[n]
                                          /\ inbox'[n][i] = inbox[n][i]
      BY <1>2, <2>3, SocketOfOther
    <3>4. Rivals(m, n)
      BY <3>1, <3>2 DEF Rivals
    <3> QED
      BY <1>0, <3>1, <3>2, <3>3, <3>4, HearingKept
  <2> QED
    BY <2>1, <2>2, <2>3
<1>3. CASE UNCHANGED pulsarVars
  <2>1. /\ up' = up /\ iam' = iam /\ dateTime' = dateTime /\ inbox' = inbox
        /\ waitTimeout' = waitTimeout /\ activeFor' = activeFor
        /\ sendStatusTimeout' = sendStatusTimeout
        /\ backlog' = backlog /\ losses' = losses
    BY <1>3 DEF pulsarVars, nodeVars, timers, budgets
  <2>2. losses' \in losses .. MaxLosses
    BY <2>1, PulsarAssumption DEF TimeInv
  <2>3. Rivals(m, n)
    BY <2>1 DEF Rivals
  <2> QED
    BY <1>0, <2>1, <2>2, <2>3, HearingKept
<1> QED
  BY <1>1, <1>2, <1>3 DEF Next

----------------------------------------------------------------------------
(* A vacancy ends.                                                         *)

(* What VacancyInv says while no vacancy is counted.                       *)
LEMMA NoVacancy ==
  ASSUME vacantFor' = 0
  PROVE  VacancyInv'
BY PulsarAssumption DEF VacancyInv, FreshInv, HeirInv, VacancyEnds

(* A datagram counts as backed when a settled node stands behind it.       *)
BackedFresh(n) ==
  \A i \in DOMAIN inbox[n] :
    inbox[n][i].status = "1" /\ i > backlog[n] =>
      \E s \in Settled : dateTime[s] <= inbox[n][i].time

LEMMA FreshOfEach ==
  FreshInv <=> (vacantFor > 0 => \A n \in Node : BackedFresh(n))
BY DEF FreshInv, BackedFresh

Heir(p) ==
  /\ p \in Awake /\ ~ iam[p] /\ backlog[p] = 0
  /\ vacantFor + waitTimeout[p] <= ReceiveTime

LEMMA HeirOfSome ==
  HeirInv <=> (vacantFor > 0 /\ Settled = {} => \E p \in Node : Heir(p))
BY DEF HeirInv, Heir, Awake

(* A tick makes everything in the sockets old, and brings the heir nearer. *)
LEMMA TickVacancy ==
  ASSUME TypeInv, TimeInv, LifeInv, VacancyInv, tick
  PROVE  VacancyInv'
<1> USE PulsarAssumption
<1>1. /\ up' = up /\ iam' = iam /\ inbox' = inbox
      /\ \A n \in Node : /\ backlog'[n] = Len(inbox[n])
                         /\ waitTimeout'[n] = Less(waitTimeout[n])
                         /\ asleep'[n] = Less(asleep[n])
      /\ vacantFor' = IF Active = {} /\ Awake # {} THEN vacantFor + 1 ELSE 0
  BY DEF tick
<1>2. CASE ~ (Active = {} /\ Awake # {})
  BY <1>1, <1>2, NoVacancy
<1>3. CASE Active = {} /\ Awake # {}
  <2>1. PICK p \in Awake : /\ ~ iam[p]
                           /\ vacantFor + waitTimeout[p] <= ReceiveTime
    <3>1. Settled = {}
      BY <1>3 DEF Settled
    <3>2. CASE vacantFor > 0
      BY <3>1, <3>2, HeirOfSome DEF VacancyInv, Heir
    <3>3. CASE ~ (vacantFor > 0)
      <4>1. PICK p \in Awake : TRUE
        BY <1>3
      <4>2. p \in Node /\ up[p] /\ asleep[p] = 0 /\ ~ iam[p]
        BY <1>3, <4>1 DEF Awake, Active
      <4>3. waitTimeout[p] \in 0 .. ReceiveTime + asleep[p]
        BY <4>2 DEF LifeInv
      <4>4. vacantFor = 0
        BY <3>3 DEF TimeInv
      <4> QED
        BY <4>1, <4>2, <4>3, <4>4
    <3> QED
      BY <3>2, <3>3
  <2>2. p \in Node /\ up[p] /\ asleep[p] = 0
    BY DEF Awake
  <2>3. waitTimeout[p] \in Nat \ {0}
    <3>1. waitTimeout[p] \in 0 .. ReceiveTime + asleep[p]
      BY <2>1, <2>2 DEF LifeInv
    <3>2. waitTimeout[p] # 0
      BY DEF tick
    <3> QED
      BY <2>2, <3>1, <3>2
  <2>4. vacantFor \in Nat /\ vacantFor' = vacantFor + 1
    BY <1>1, <1>3 DEF TimeInv
  <2>5. Heir(p)'
    <3>1. asleep'[p] = 0 /\ waitTimeout'[p] = waitTimeout[p] - 1
      BY <1>1, <2>2, <2>3 DEF Less
    <3>2. inbox[p] = <<>> /\ backlog'[p] = 0
      BY <1>1, <2>2 DEF tick
    <3>3. vacantFor' + waitTimeout'[p] <= ReceiveTime
      BY <2>1, <2>3, <2>4, <3>1
    <3>4. p \in Awake'
      BY <1>1, <2>2, <3>1 DEF Awake
    <3> QED
      BY <1>1, <2>1, <3>2, <3>3, <3>4 DEF Heir
  <2>6. HeirInv'
    BY <2>2, <2>5, HeirOfSome DEF HeirInv, Heir
  <2>7. VacancyEnds'
    BY <2>1, <2>3, <2>4 DEF VacancyEnds
  <2>8. FreshInv'
    <3> SUFFICES ASSUME NEW n \in Node, NEW i \in DOMAIN inbox'[n]
                 PROVE  ~ (i > backlog'[n])
      BY DEF FreshInv
    <3>1. inbox[n] \in Seq(Datagram)
      BY DEF TypeInv, Host
    <3> QED
      BY <1>1, <3>1
  <2> QED
    BY <2>6, <2>7, <2>8 DEF VacancyInv
<1> QED
  BY <1>2, <1>3

(* A step that keeps the settled nodes and their start times, adds to the  *)
(* sockets only what a settled node stands behind, and keeps an heir, if   *)
(* nobody is settled.                                                      *)
LEMMA VacancyKept ==
  ASSUME VacancyInv, vacantFor' = vacantFor,
         \A s \in Settled : s \in Settled' /\ dateTime'[s] = dateTime[s],
         \A n \in Node : \A i \in DOMAIN inbox'[n] :
           \/ \E j \in DOMAIN inbox[n] :
                /\ inbox'[n][i] = inbox[n][j]
                /\ i > backlog'[n] => j > backlog[n]
           \/ inbox'[n][i].status = "1" =>
                \E s \in Settled' : dateTime'[s] <= inbox'[n][i].time,
         \A p \in Node : Heir(p) => Heir(p)' \/ Settled' # {}
  PROVE  VacancyInv'
<1>1. VacancyEnds'
  BY DEF VacancyInv, VacancyEnds
<1>2. HeirInv'
  <2> SUFFICES ASSUME vacantFor' > 0, Settled' = {}
               PROVE  \E p \in Node : Heir(p)'
    BY DEF HeirInv, Heir, Awake
  <2>1. \E p \in Node : Heir(p)
    BY HeirOfSome DEF VacancyInv
  <2> QED
    BY <2>1
<1>3. FreshInv'
  <2> SUFFICES ASSUME vacantFor' > 0, NEW n \in Node,
                      NEW i \in DOMAIN inbox'[n],
                      inbox'[n][i].status = "1", i > backlog'[n]
               PROVE  \E s \in Settled' : dateTime'[s] <= inbox'[n][i].time
    BY DEF FreshInv
  <2>1. CASE \E j \in DOMAIN inbox[n] :
               /\ inbox'[n][i] = inbox[n][j]
               /\ i > backlog'[n] => j > backlog[n]
    <3>1. PICK j \in DOMAIN inbox[n] :
            inbox'[n][i] = inbox[n][j] /\ j > backlog[n]
      BY <2>1
    <3>2. PICK s \in Settled : dateTime[s] <= inbox[n][j].time
      BY <3>1 DEF VacancyInv, FreshInv
    <3> QED
      BY <3>1, <3>2
  <2>2. CASE \E s \in Settled' : dateTime'[s] <= inbox'[n][i].time
    BY <2>2
  <2> QED
    BY <2>1, <2>2
<1> QED
  BY <1>1, <1>2, <1>3 DEF VacancyInv

(* The node that yields to a datagram of this tick leaves a settled one    *)
(* that started before it.                                                 *)
LEMMA YieldLeavesSettled ==
  ASSUME IInv, DistinctTimes, VacancyInv, vacantFor > 0,
         NEW n \in Node, up[n], inbox[n] # <<>>, backlog[n] = 0,
         yield(n, Head(inbox[n]))
  PROVE  \E s \in Settled \ {n} : dateTime[s] < dateTime[n]
<1> DEFINE d == Head(inbox[n])
<1>0. inbox[n] \in Seq(Datagram) /\ n \in Host
  BY DEF IInv, TypeInv, Host
<1>1. d = inbox[n][1] /\ 1 \in DOMAIN inbox[n] /\ d \in Datagram
  BY <1>0, TailShifts
<1>2. d \in InFlight
  BY <1>0, <1>1, InFlightDef
<1>3. d.from # n /\ d.time <= dateTime[n] /\ d.status = "1"
  BY DEF yield, Outranks
<1> HIDE DEF d
<1>4. PICK s \in Settled : dateTime[s] <= d.time
  <2>1. 1 > backlog[n]
    OBVIOUS
  <2> QED
    BY <1>1, <1>3, <2>1 DEF VacancyInv, FreshInv
<1>5. d.time # dateTime[n]
  BY <1>2, <1>3 DEF IInv, YieldInv, TimesDiffer
<1>6. d.time \in Nat /\ dateTime[s] \in Nat /\ dateTime[n] \in Nat
  <2>1. d.time \in Time
    BY <1>1 DEF Datagram
  <2>2. dateTime[s] \in Time /\ dateTime[n] \in Time
    BY DEF Settled, Active, IInv, TypeInv
  <2> QED
    BY <2>1, <2>2, PulsarAssumption
<1>7. dateTime[s] < dateTime[n]
  BY <1>3, <1>4, <1>5, <1>6
<1> QED
  BY <1>6, <1>7

LEMMA ReadVacancy ==
  ASSUME IInv, TimeInv, LifeInv, VacancyInv, DistinctTimes,
         NEW n \in Node, readyRead(n)
  PROVE  VacancyInv'
<1> USE PulsarAssumption
<1> DEFINE d == Head(inbox[n])
<1>1. \/ yield(n, d) \/ giveWay(n, d) \/ stayMaster(n, d)
      \/ follow(n, d) \/ takeOver(n, d) \/ waitForOther(n, d)
  BY DEF readyRead
<1>2. /\ n \in Host /\ inbox[n] \in Seq(Datagram) /\ inbox[n] # <<>>
      /\ inbox'[n] = Tail(inbox[n]) /\ backlog'[n] = Less(backlog[n])
      /\ \A k \in Node \ {n} : inbox'[k] = inbox[k] /\ backlog'[k] = backlog[k]
      /\ dateTime' = dateTime /\ up' = up /\ up[n] /\ n \in Awake
  BY DEF readyRead, IInv, TypeInv, TimeInv, Host, Awake
<1>3. d = inbox[n][1] /\ 1 \in DOMAIN inbox[n] /\ d \in Datagram
  BY <1>2, TailShifts
<1>4. backlog[n] \in Nat
  BY DEF TimeInv
<1> HIDE DEF d
<1>5. \A k \in Node : \A i \in DOMAIN inbox'[k] :
        \E j \in DOMAIN inbox[k] : /\ inbox'[k][i] = inbox[k][j]
                                   /\ i > backlog'[k] => j > backlog[k]
  <2> SUFFICES ASSUME NEW k \in Node, NEW i \in DOMAIN inbox'[k]
               PROVE  \E j \in DOMAIN inbox[k] :
                        /\ inbox'[k][i] = inbox[k][j]
                        /\ i > backlog'[k] => j > backlog[k]
    OBVIOUS
  <2>1. CASE k # n
    BY <1>2, <2>1
  <2>2. CASE k = n
    <3>0. i \in DOMAIN Tail(inbox[n]) /\ inbox'[n][i] = Tail(inbox[n])[i]
      BY <1>2, <2>2
    <3>1. i + 1 \in DOMAIN inbox[n] /\ inbox'[n][i] = inbox[n][i + 1]
      BY <1>2, <3>0, TailShifts
    <3>2. i \in Nat
      BY <1>2, <3>0, TailShifts
    <3>3. i > backlog'[n] => i + 1 > backlog[n]
      BY <1>2, <1>4, <3>2 DEF Less
    <3> QED
      BY <2>2, <3>1, <3>3
  <2> QED
    BY <2>1, <2>2
<1>6. CASE giveWay(n, d) \/ waitForOther(n, d)
  BY <1>6, NoVacancy DEF giveWay, waitForOther
<1>7. \A s \in Settled \ {n} : iam'[s] = iam[s] => s \in Settled'
  BY <1>2 DEF Settled, Active
<1>8. \A p \in Node \ {n} :
        waitTimeout'[p] = waitTimeout[p] /\ iam'[p] = iam[p]
          /\ asleep'[p] = asleep[p]
  <2>1. NodeStep(n)
    BY DEF NodeStep
  <2> QED
    BY <2>1, StepOfOther DEF IInv
<1>9. CASE stayMaster(n, d)
  <2>1. /\ iam[n] /\ iam' = iam /\ waitTimeout' = waitTimeout
        /\ vacantFor' = vacantFor /\ asleep' = asleep
    BY <1>9 DEF stayMaster
  <2>2. \A s \in Settled : s \in Settled'
    BY <1>2, <1>4, <2>1 DEF Settled, Active, Less
  <2>3. \A p \in Node : Heir(p) => Heir(p)'
    BY <1>2, <2>1 DEF Heir, Awake
  <2> QED
    BY <1>2, <1>5, <2>1, <2>2, <2>3, VacancyKept
<1>10. CASE takeOver(n, d)
  <2>1. ~ iam[n] /\ iam'[n] /\ vacantFor' = vacantFor /\ asleep' = asleep
    BY <1>10 DEF takeOver, IInv, TypeInv
  <2>2. \A s \in Settled : s \in Settled'
    BY <1>7, <1>8, <2>1 DEF Settled, Active
  <2>3. \A p \in Node : Heir(p) => Heir(p)' \/ Settled' # {}
    <3> SUFFICES ASSUME NEW p \in Node, Heir(p) PROVE Heir(p)' \/ Settled' # {}
      OBVIOUS
    <3>1. CASE p = n
      <4>1. backlog'[n] = 0
        BY <1>2, <3>1 DEF Heir, Less
      <4>2. n \in Settled'
        BY <1>2, <2>1, <4>1 DEF Settled, Active
      <4> QED
        BY <4>2
    <3>2. CASE p # n
      BY <1>2, <1>8, <2>1, <3>2 DEF Heir, Awake
    <3> QED
      BY <3>1, <3>2
  <2> QED
    BY <1>2, <1>5, <2>1, <2>2, <2>3, VacancyKept
<1>11. CASE follow(n, d)
  <2>1. /\ ~ iam[n] /\ d.status = "1" /\ iam' = iam
        /\ vacantFor' = vacantFor /\ asleep' = asleep
    BY <1>11 DEF follow
  <2>2. \A s \in Settled : s \in Settled'
    BY <1>7, <2>1 DEF Settled, Active
  <2>3. CASE vacantFor > 0
    <3>1. \A p \in Node : Heir(p) => Heir(p)' \/ Settled' # {}
      <4> SUFFICES ASSUME NEW p \in Node, Heir(p) PROVE Heir(p)' \/ Settled' # {}
        OBVIOUS
      <4>1. CASE p = n
        <5>1. 1 > backlog[n]
          BY <4>1 DEF Heir
        <5>2. \E s \in Settled : dateTime[s] <= d.time
          BY <1>3, <2>1, <2>3, <5>1 DEF VacancyInv, FreshInv
        <5> QED
          BY <2>2, <5>2
      <4>2. CASE p # n
        BY <1>2, <1>8, <2>1, <4>2 DEF Heir, Awake
      <4> QED
        BY <4>1, <4>2
    <3> QED
      BY <1>2, <1>5, <2>1, <2>2, <3>1, VacancyKept
  <2>4. CASE ~ (vacantFor > 0)
    <3>1. vacantFor' = 0
      BY <2>1, <2>4 DEF TimeInv
    <3> QED
      BY <3>1, NoVacancy
  <2> QED
    BY <2>3, <2>4
<1>12. CASE yield(n, d)
  <2>1. /\ iam[n] /\ ~ iam'[n] /\ d.status = "1" /\ vacantFor' = vacantFor
        /\ asleep' = asleep
    BY <1>12 DEF yield, IInv, TypeInv
  <2>2. CASE vacantFor > 0 /\ backlog[n] = 0
    <3>1. PICK s \in Settled \ {n} : dateTime[s] < dateTime[n]
      BY <1>2, <1>12, <2>2, YieldLeavesSettled DEF d
    <3>2. s \in Settled' /\ s \in Node
      BY <1>7, <1>8, <3>1 DEF Settled, Active
    <3>3. VacancyEnds'
      BY <2>1 DEF VacancyInv, VacancyEnds
    <3>4. HeirInv'
      BY <3>2 DEF HeirInv
    <3>5. FreshInv'
      <4> SUFFICES ASSUME NEW k \in Node, NEW i \in DOMAIN inbox'[k],
                          inbox'[k][i].status = "1", i > backlog'[k]
                   PROVE  \E e \in Settled' : dateTime'[e] <= inbox'[k][i].time
        BY DEF FreshInv
      <4>1. PICK j \in DOMAIN inbox[k] :
              inbox'[k][i] = inbox[k][j] /\ j > backlog[k]
        BY <1>5
      <4>2. PICK e \in Settled : dateTime[e] <= inbox[k][j].time
        BY <2>2, <4>1 DEF VacancyInv, FreshInv
      <4>3. CASE e # n
        <5>1. e \in Settled'
          BY <1>7, <1>8, <4>2, <4>3 DEF Settled, Active
        <5> QED
          BY <1>2, <4>1, <4>2, <5>1
      <4>4. CASE e = n
        <5>1. inbox[k][j].time \in Nat
          <6>1. inbox[k] \in Seq(Datagram)
            BY DEF IInv, TypeInv, Host
          <6>2. inbox[k][j] \in Datagram
            BY <6>1
          <6> QED
            BY <6>2 DEF Datagram
        <5>2. dateTime[s] \in Nat /\ dateTime[n] \in Nat
          <6>1. dateTime[s] \in Time /\ dateTime[n] \in Time
            BY <1>2 DEF Settled, Active, IInv, TypeInv
          <6> QED
            BY <6>1
        <5>3. dateTime[s] <= inbox[k][j].time
          BY <3>1, <4>2, <4>4, <5>1, <5>2
        <5> QED
          BY <1>2, <3>2, <4>1, <5>3
      <4> QED
        BY <4>3, <4>4
    <3> QED
      BY <3>3, <3>4, <3>5 DEF VacancyInv
  <2>3. CASE vacantFor > 0 /\ backlog[n] # 0
    <3>1. \A s \in Settled : s \in Settled'
      <4>1. n \notin Settled
        BY <2>3 DEF Settled
      <4> QED
        BY <1>7, <1>8, <4>1 DEF Settled, Active
    <3>2. \A p \in Node : Heir(p) => Heir(p)'
      <4> SUFFICES ASSUME NEW p \in Node, Heir(p) PROVE Heir(p)'
        OBVIOUS
      <4>1. p # n
        BY <2>1 DEF Heir
      <4> QED
        BY <1>2, <1>8, <2>1, <4>1 DEF Heir, Awake
    <3> QED
      BY <1>2, <1>5, <2>1, <3>1, <3>2, VacancyKept
  <2>4. CASE ~ (vacantFor > 0)
    <3>1. vacantFor' = 0
      BY <2>1, <2>4 DEF TimeInv
    <3> QED
      BY <3>1, NoVacancy
  <2> QED
    BY <2>2, <2>3, <2>4
<1> QED
  BY <1>1, <1>6, <1>9, <1>10, <1>11, <1>12

LEMMA SendVacancy ==
  ASSUME IInv, TimeInv, LifeInv, VacancyInv,
         NEW n \in Node, sendStatus(n) \/ sendActivate(n)
  PROVE  VacancyInv'
<1>1. PICK d \in Datagram, lost \in SUBSET Host :
        /\ broadcast(d, lost)
        /\ d.from = n /\ d.time = dateTime[n] /\ dateTime[n] \in Time
        /\ sendStatus(n) => d.status = Status(n)
        /\ ~ sendStatus(n) => d.status = "2"
  BY SendsBroadcast DEF IInv
<1>2. /\ up' = up /\ iam' = iam /\ dateTime' = dateTime
      /\ waitTimeout' = waitTimeout /\ asleep' = asleep
      /\ backlog' = backlog /\ vacantFor' = vacantFor
  BY DEF sendStatus, sendActivate, nodeVars, timers
<1>3. Settled' = Settled
  BY <1>2 DEF Settled, Active
<1>4. \A p \in Node : Heir(p) => Heir(p)'
  BY <1>2 DEF Heir, Awake
<1>5. d.status = "1" => n \in Settled /\ dateTime[n] <= d.time
  <2>1. d.status = "1" => sendStatus(n) /\ iam[n]
    BY <1>1 DEF Status
  <2>2. sendStatus(n) => up[n] /\ backlog[n] = 0
    BY DEF sendStatus, ServesTimers, Awake
  <2>3. dateTime[n] \in Nat
    BY <1>1, PulsarAssumption
  <2> QED
    BY <1>1, <2>1, <2>2, <2>3 DEF Settled, Active
<1>6. ASSUME NEW k \in Node, NEW i \in DOMAIN inbox'[k]
      PROVE  \/ \E j \in DOMAIN inbox[k] :
                  /\ inbox'[k][i] = inbox[k][j]
                  /\ i > backlog'[k] => j > backlog[k]
             \/ inbox'[k][i].status = "1" =>
                  \E s \in Settled' : dateTime'[s] <= inbox'[k][i].time
  <2>1. CASE i \in DOMAIN inbox[k] /\ inbox'[k][i] = inbox[k][i]
    BY <1>2, <2>1
  <2>2. CASE inbox'[k][i] = d
    BY <1>2, <1>3, <1>5, <2>2
  <2> QED
    BY <1>1, <2>1, <2>2, BroadcastKeeps DEF IInv
<1> QED
  BY <1>2, <1>3, <1>4, <1>6, VacancyKept

LEMMA VacancyInvStep ==
  ASSUME IInv, TimeInv, LifeInv, VacancyInv, DistinctTimes, [Next]_pulsarVars
  PROVE  VacancyInv'
<1>1. CASE tick
  BY <1>1, TickVacancy DEF IInv
<1>2. ASSUME NEW n \in Node, start(n) PROVE VacancyInv'
  <2>1. /\ inbox' = inbox /\ backlog' = backlog /\ vacantFor' = vacantFor
        /\ ~ up[n]
        /\ \A k \in Node \ {n} : /\ up'[k] = up[k] /\ iam'[k] = iam[k]
                                 /\ dateTime'[k] = dateTime[k]
                                 /\ asleep'[k] = asleep[k]
                                 /\ waitTimeout'[k] = waitTimeout[k]
    BY <1>2 DEF start, IInv, TypeInv, TimeInv
  <2>2. \A s \in Settled : s \in Settled' /\ dateTime'[s] = dateTime[s]
    BY <2>1 DEF Settled, Active
  <2>3. \A p \in Node : Heir(p) => Heir(p)'
    BY <2>1 DEF Heir, Awake
  <2> QED
    BY <2>1, <2>2, <2>3, VacancyKept
<1>3. ASSUME NEW n \in Node, crash(n) \/ deactivate(n) PROVE VacancyInv'
  BY <1>3, NoVacancy DEF crash, deactivate
<1>4. ASSUME NEW n \in Node, sendStatus(n) \/ sendActivate(n) PROVE VacancyInv'
  BY <1>4, SendVacancy
<1>5. ASSUME NEW n \in Node, becomeMaster(n) PROVE VacancyInv'
  <2>1. /\ up' = up /\ dateTime' = dateTime /\ inbox' = inbox
        /\ backlog' = backlog /\ vacantFor' = vacantFor
        /\ up[n] /\ backlog[n] = 0 /\ iam'[n]
        /\ \A k \in Node \ {n} : iam'[k] = iam[k]
    BY <1>5 DEF becomeMaster, ServesTimers, Awake, IInv, TypeInv
  <2>2. n \in Settled' /\ \A s \in Settled : s \in Settled'
    BY <2>1 DEF Settled, Active
  <2> QED
    BY <2>1, <2>2, VacancyKept
<1>6. ASSUME NEW n \in Node, readyRead(n) PROVE VacancyInv'
  BY <1>6, ReadVacancy
<1>7. CASE UNCHANGED pulsarVars
  <2>1. /\ up' = up /\ iam' = iam /\ dateTime' = dateTime /\ inbox' = inbox
        /\ waitTimeout' = waitTimeout /\ asleep' = asleep
        /\ backlog' = backlog /\ vacantFor' = vacantFor
    BY <1>7 DEF pulsarVars, nodeVars, timers
  <2>2. Settled' = Settled
    BY <2>1 DEF Settled, Active
  <2>3. \A p \in Node : Heir(p) => Heir(p)'
    BY <2>1 DEF Heir, Awake
  <2> QED
    BY <2>1, <2>2, <2>3, VacancyKept
<1> QED
  BY <1>1, <1>2, <1>3, <1>4, <1>5, <1>6, <1>7 DEF Next, NodeStep

----------------------------------------------------------------------------
(* The theorems about time.                                                *)

LEMMA InitTimes == Init => TimeInv /\ LifeInv /\ HearInv /\ VacancyInv
<1> USE PulsarAssumption
<1> SUFFICES ASSUME Init PROVE TimeInv /\ LifeInv /\ HearInv /\ VacancyInv
  OBVIOUS
<1>1. TimeInv
  BY DEF Init, TimeInv
<1>2. LifeInv
  <2> SUFFICES ASSUME NEW n \in Node PROVE Life(n)
    BY LifeOfEach
  <2>1. /\ ~ iam[n] /\ ~ up[n] /\ activeFor[n] = 0 /\ backlog[n] = 0
        /\ inbox[n] = <<>>
    BY DEF Init, Host
  <2> QED
    BY <2>1 DEF Life
<1>3. HearInv
  BY DEF Init, HearInv
<1>4. VacancyInv
  BY DEF Init, VacancyInv, FreshInv, HeirInv, VacancyEnds
<1> QED
  BY <1>1, <1>2, <1>3, <1>4

TimesInv == IInv /\ TimeInv /\ LifeInv

LEMMA TimesInvStep ==
  ASSUME TimesInv, [Next \/ Listens]_pulsarVars
  PROVE  TimesInv'
<1>1. IInv'
  <2>1. CASE Listens
    BY <2>1, ListensKeeps DEF TimesInv
  <2>2. CASE ~ Listens
    BY <2>2, NextKeeps DEF TimesInv
  <2> QED
    BY <2>1, <2>2
<1>2. TimeInv'
  BY TimeInvStep DEF TimesInv, IInv
<1>3. LifeInv'
  BY LifeInvStep DEF TimesInv, IInv
<1> QED
  BY <1>1, <1>2, <1>3 DEF TimesInv

LEMMA TimesInvHolds == Spec => []TimesInv
<1>1. Init => TimesInv
  BY InitIInv, InitTimes DEF TimesInv
<1>2. TimesInv /\ [Next]_pulsarVars => TimesInv'
  BY TimesInvStep
<1> QED
  BY <1>1, <1>2, PTL DEF Spec

(* The time-out is longer than it takes to send one status more than may  *)
(* be lost, as 7 s are for up to two losses and a status every 2 s.        *)
TimeoutCoversLosses == (MaxLosses + 1) * SendTime < ReceiveTime

(* The group gets an active node within ReceiveTime, counted from the last *)
(* crash or request, with a node awake: the one whose timer runs out first *)
(* may be stopped by the "1" of another, but not by that of a node that    *)
(* has yielded, unless a third one is active (readyRead, waitTimeout).     *)
THEOREM VacancyIsShort ==
  ASSUME DistinctTimes
  PROVE  Spec => []VacancyEnds
<1>1. Init => VacancyInv
  BY InitTimes
<1>2. TimesInv /\ VacancyInv /\ [Next]_pulsarVars => VacancyInv'
  BY VacancyInvStep DEF TimesInv
<1>3. VacancyInv => VacancyEnds
  BY DEF VacancyInv
<1> QED
  BY <1>1, <1>2, <1>3, TimesInvHolds, PTL DEF Spec

LEMMA HearInvHolds ==
  ASSUME Passive = {}
  PROVE  Spec => []HearInv
<1>1. Init => HearInv
  BY InitTimes
<1>2. TimesInv /\ TimesInv' /\ HearInv /\ [Next]_pulsarVars => HearInv'
  BY HearInvStep DEF TimesInv, IInv
<1> QED
  BY <1>1, <1>2, TimesInvHolds, PTL DEF Spec

LEMMA ReachIsShort ==
  ASSUME TimeInv, TimeoutCoversLosses
  PROVE  Reach \in Nat /\ Reach < ReceiveTime
<1>1. /\ Reach \in Nat /\ Reach <= (MaxLosses + 1) * SendTime
  BY ReachType
<1>2. (MaxLosses + 1) * SendTime \in Nat /\ ReceiveTime \in Nat
  BY PulsarAssumption
<1> QED
  BY <1>1, <1>2 DEF TimeoutCoversLosses

(* Two nodes are not active side by side for ReceiveTime, however many     *)
(* datagrams are lost, as long as the time-out covers them: the younger    *)
(* reads a status of the older and yields (readyRead, sendStatus).         *)
THEOREM SplitIsShort ==
  ASSUME Passive = {}, TimeoutCoversLosses
  PROVE  Spec => []SplitHeals
<1>1. TimesInv /\ HearInv => SplitHeals
  <2> SUFFICES ASSUME TimesInv, HearInv, NEW m \in Node, NEW n \in Node,
                      activeFor[m] = ReceiveTime, activeFor[n] = ReceiveTime,
                      m # n
               PROVE  FALSE
    BY DEF SplitHeals
  <2>0. TypeInv /\ TimeInv /\ LifeInv
    BY DEF TimesInv, IInv
  <2>1. Reach \in Nat /\ Reach < ReceiveTime /\ ReceiveTime \in Nat
    BY <2>0, ReachIsShort, PulsarAssumption
  <2>2. iam[m] /\ iam[n] /\ up[m] /\ up[n]
    BY <2>0, <2>1 DEF LifeInv
  <2>3. dateTime[m] \in Nat /\ dateTime[n] \in Nat
    BY <2>0, <2>2, PulsarAssumption DEF TypeInv
  <2>4. Rivals(m, n) \/ Rivals(n, m)
    BY <2>2, <2>3 DEF Rivals
  <2>5. ~ Near(m, n, 0) /\ ~ Near(n, m, 0)
    BY <2>1, <2>2 DEF Near, Unheard
  <2>6. ~ Overslept(m) /\ ~ Overslept(n)
    BY <2>2 DEF Overslept
  <2> QED
    BY <2>4, <2>5, <2>6, HearOfEach DEF Hearing
<1> QED
  BY <1>1, TimesInvHolds, HearInvHolds, PTL

(* No node takes over by time-out from one that has been active for        *)
(* ReceiveTime, whatever is lost within what the time-out covers, and      *)
(* however long it slept: what it missed is read first (becomeMaster).     *)
THEOREM UsurpersAreKnown ==
  ASSUME Passive = {}, TimeoutCoversLosses
  PROVE  Spec => []NoUsurper
<1>1. TimesInv /\ HearInv => NoUsurper
  <2> SUFFICES ASSUME TimesInv, HearInv, NEW n \in Node, NEW m \in Node \ {n},
                      ServesTimers(n), waitTimeout[n] = 0
               PROVE  activeFor[m] < ReceiveTime
    BY DEF NoUsurper
  <2>0. TypeInv /\ TimeInv /\ LifeInv
    BY DEF TimesInv, IInv
  <2>1. Reach \in Nat /\ Reach < ReceiveTime /\ ReceiveTime \in Nat
    BY <2>0, ReachIsShort, PulsarAssumption
  <2>2. activeFor[m] \in Nat
    BY <2>0 DEF TimeInv
  <2>3. CASE ~ iam[m]
    BY <2>0, <2>1, <2>3 DEF LifeInv
  <2>4. CASE iam[m]
    <3>1. up[n] /\ backlog[n] = 0
      BY DEF ServesTimers, Awake
    <3>2. ~ iam[n]
      BY <2>0 DEF LifeInv, Idle
    <3>3. ~ Overslept(n)
      BY <3>1 DEF Overslept
    <3>4. Near(m, n, 0)
      BY <2>4, <3>1, <3>2, <3>3, HearOfEach DEF Rivals, Hearing
    <3>5. Unheard(n) = ReceiveTime
      BY <2>1, <3>2 DEF Unheard
    <3> QED
      BY <2>1, <2>2, <3>4, <3>5 DEF Near
  <2> QED
    BY <2>3, <2>4
<1> QED
  BY <1>1, TimesInvHolds, HearInvHolds, PTL

----------------------------------------------------------------------------
(* The receivers: an active node is heard by each.                         *)

ReceiverTypes ==
  masterLost \in [Listener -> Nat \cup {Idle}]

(* The ticks since a receiver started its timer.                           *)
Unnoticed(l) == ReceiveTime - masterLost[l]

Close(m, l, x) == activeFor[m] + x <= Reach \/ Unnoticed(l) + x <= Reach

(* Since m is active, or l read a datagram, its statuses were in reach.    *)
Noticing(m, l) ==
  /\ Close(m, l, 0)
  /\ Close(m, l, sendStatusTimeout[m]) \/ inbox[l] # <<>>

NoticeInv ==
  \A m \in Node : \A l \in Listener :
    iam[m] /\ masterLost[l] # Idle => Noticing(m, l)

LEMMA ReceiverStep ==
  ASSUME [ReceiverNext]_vars
  PROVE  [Next \/ Listens]_pulsarVars
<1>1. CASE receiverTick
  BY <1>1 DEF receiverTick, Next
<1>2. ASSUME NEW l \in Listener, receive(l) PROVE Listens
  BY <1>2 DEF receive, Listens
<1>3. CASE UNCHANGED pulsarVars
  BY <1>3
<1>4. ASSUME NEW n \in Node, nodeStep(n) PROVE Next
  BY <1>4 DEF Next, nodeStep
<1>5. ASSUME NEW l \in Listener, masterLosted(l) \/ onMasterPingTimer(l)
      PROVE  UNCHANGED pulsarVars
  BY <1>5 DEF masterLosted, onMasterPingTimer
<1>6. ASSUME NEW n \in Node, linkFails(n) PROVE UNCHANGED pulsarVars
  BY <1>6 DEF linkFails
<1>7. CASE UNCHANGED vars
  BY <1>7 DEF vars
<1> QED
  BY <1>1, <1>2, <1>3, <1>4, <1>5, <1>6, <1>7 DEF ReceiverNext

LEMMA ReceiverTypesStep ==
  ASSUME ReceiverTypes, [ReceiverNext]_vars
  PROVE  ReceiverTypes'
<1> USE PulsarAssumption
<1>1. CASE receiverTick
  <2>1. \A l \in Listener : Less(masterLost[l]) \in Nat \cup {Idle}
    <3> SUFFICES ASSUME NEW l \in Listener
                 PROVE  Less(masterLost[l]) \in Nat \cup {Idle}
      OBVIOUS
    <3>1. masterLost[l] \in Nat \cup {Idle}
      BY DEF ReceiverTypes
    <3> QED
      BY <3>1 DEF Less, Idle
  <2> QED
    BY <1>1, <2>1 DEF receiverTick, ReceiverTypes
<1>2. ASSUME NEW l \in Listener, receive(l) \/ masterLosted(l)
      PROVE  ReceiverTypes'
  <2>1. CASE receive(l)
    <3>1. masterLost' = [masterLost EXCEPT ![l] = ReceiveTime]
      BY <2>1 DEF receive, LostTimer
    <3> QED
      BY <3>1 DEF ReceiverTypes
  <2>2. CASE masterLosted(l)
    BY <2>2 DEF masterLosted, ReceiverTypes
  <2> QED
    BY <1>2, <2>1, <2>2
<1>3. ASSUME NEW l \in Listener, onMasterPingTimer(l) PROVE ReceiverTypes'
  BY <1>3 DEF onMasterPingTimer, ReceiverTypes
<1>4. ASSUME NEW n \in Node, linkFails(n) PROVE ReceiverTypes'
  BY <1>4 DEF linkFails, receiverVars, ReceiverTypes
<1>5. ASSUME NEW n \in Node, nodeStep(n) PROVE ReceiverTypes'
  BY <1>5 DEF nodeStep, receiverVars, ReceiverTypes
<1>6. CASE UNCHANGED vars
  BY <1>6 DEF vars, receiverVars, ReceiverTypes
<1> QED
  BY <1>1, <1>2, <1>3, <1>4, <1>5, <1>6 DEF ReceiverNext

(* A node that becomes active, and a receiver that reads, are close.       *)
LEMMA NewsIsClose ==
  ASSUME TimeInv', ReceiverTypes', NEW m \in Node, NEW l \in Listener,
         activeFor'[m] = 0 \/ masterLost'[l] = ReceiveTime
  PROVE  Noticing(m, l)'
<1> USE PulsarAssumption
<1>1. activeFor'[m] \in Nat /\ sendStatusTimeout'[m] \in 0 .. SendTime
  BY DEF TimeInv
<1>2. masterLost'[l] \in Int
  BY DEF ReceiverTypes, Idle
<1>3. Reach' \in Nat /\ SendTime <= Reach'
  <2>1. losses' \in Nat /\ SendTime \in Nat
    BY DEF TimeInv
  <2>2. \A a, s \in Nat : (a + 1) * s \in Nat /\ s <= (a + 1) * s
    <3> SUFFICES ASSUME NEW a \in Nat, NEW s \in Nat
                 PROVE  (a + 1) * s \in Nat /\ s <= (a + 1) * s
      OBVIOUS
    <3>1. a * s \in Nat /\ (a + 1) * s = a * s + s
      OBVIOUS
    <3> QED
      BY <3>1
  <2>3. Reach' = (losses' + 1) * SendTime
    BY DEF Reach
  <2> QED
    BY <2>1, <2>2, <2>3
<1>4. ReceiveTime - masterLost'[l] \in Int
  BY <1>2
<1>5. /\ activeFor'[m] + 0 <= Reach' \/ (ReceiveTime - masterLost'[l]) + 0 <= Reach'
      /\ activeFor'[m] + sendStatusTimeout'[m] <= Reach'
           \/ (ReceiveTime - masterLost'[l]) + sendStatusTimeout'[m] <= Reach'
  BY <1>1, <1>2, <1>3
<1>6. Close(m, l, 0)' /\ Close(m, l, sendStatusTimeout[m])'
  BY <1>5 DEF Close, Unnoticed
<1> QED
  BY <1>6 DEF Noticing

LEMMA NoticeKept ==
  ASSUME TimeInv, ReceiverTypes, losses' \in losses .. MaxLosses,
         NEW m \in Node, NEW l \in Listener, Noticing(m, l),
         activeFor'[m] = activeFor[m], masterLost'[l] = masterLost[l],
         sendStatusTimeout'[m] = sendStatusTimeout[m],
         inbox[l] # <<>> => inbox'[l] # <<>>
  PROVE  Noticing(m, l)'
<1>1. Reach' \in Nat /\ Reach \in Nat /\ Reach' >= Reach
  BY ReachGrows, ReachType
<1>2. /\ activeFor[m] \in Nat /\ sendStatusTimeout[m] \in Nat
      /\ masterLost[l] \in Int /\ ReceiveTime \in Nat
  BY PulsarAssumption DEF TimeInv, ReceiverTypes, Idle
<1>3. Unnoticed(l) \in Int /\ Unnoticed(l)' = Unnoticed(l)
  BY <1>2 DEF Unnoticed
<1>4. Close(m, l, 0)'
  <2>1. activeFor'[m] + 0 <= Reach' \/ Unnoticed(l)' + 0 <= Reach'
    BY <1>1, <1>2, <1>3 DEF Noticing, Close
  <2> QED
    BY <2>1 DEF Close
<1>5. CASE Close(m, l, sendStatusTimeout[m])
  <2>1. activeFor'[m] + sendStatusTimeout'[m] <= Reach'
          \/ Unnoticed(l)' + sendStatusTimeout'[m] <= Reach'
    BY <1>1, <1>2, <1>3, <1>5 DEF Close
  <2>2. Close(m, l, sendStatusTimeout[m])'
    BY <2>1 DEF Close
  <2> QED
    BY <1>4, <2>2 DEF Noticing
<1>6. CASE inbox[l] # <<>>
  BY <1>4, <1>6 DEF Noticing
<1> QED
  BY <1>5, <1>6 DEF Noticing

LEMMA TickNotices ==
  ASSUME TypeInv, TimeInv, LifeInv, ReceiverTypes, receiverTick,
         NEW m \in Node, NEW l \in Listener, iam[m], masterLost[l] # Idle,
         Noticing(m, l)
  PROVE  Noticing(m, l)'
<1> USE PulsarAssumption
<1>1. inbox[l] = <<>> /\ masterLost'[l] = Less(masterLost[l])
  BY DEF receiverTick
<1>2. sendStatusTimeout[m] > 0 /\ sendStatusTimeout'[m] = sendStatusTimeout[m] - 1
  <2>1. m \in Awake /\ up[m]
    BY DEF Awake, LifeInv
  <2>2. sendStatusTimeout[m] \in Nat
    BY NearTypes
  <2>3. sendStatusTimeout[m] > 0 /\ sendStatusTimeout'[m] = Less(sendStatusTimeout[m])
    BY <2>1 DEF receiverTick, tick
  <2> QED
    BY <2>2, <2>3 DEF Less
<1>3. activeFor'[m] \in Nat /\ activeFor'[m] <= activeFor[m] + 1
  <2>1. m \in Active /\ activeFor'[m] = More(activeFor[m])
    BY DEF Active, LifeInv, receiverTick, tick
  <2> QED
    BY <2>1, NearTypes DEF More
<1>4. /\ masterLost[l] \in Int /\ masterLost'[l] \in Int
      /\ masterLost'[l] >= masterLost[l] - 1
  <2>1. masterLost[l] \in Nat \cup {Idle}
    BY DEF ReceiverTypes
  <2> QED
    BY <1>1, <2>1 DEF Less, Idle
<1>5. Reach' = Reach /\ Reach \in Nat
  BY ReachType DEF Reach, receiverTick, tick, budgets
<1>6. activeFor[m] + sendStatusTimeout[m] <= Reach
        \/ (ReceiveTime - masterLost[l]) + sendStatusTimeout[m] <= Reach
  BY <1>1 DEF Noticing, Close, Unnoticed
<1>7. /\ activeFor'[m] + sendStatusTimeout'[m] <= Reach'
           \/ (ReceiveTime - masterLost'[l]) + sendStatusTimeout'[m] <= Reach'
      /\ activeFor'[m] + 0 <= Reach' \/ (ReceiveTime - masterLost'[l]) + 0 <= Reach'
  <2>1. activeFor[m] \in Nat /\ sendStatusTimeout[m] \in Nat
    BY NearTypes
  <2> QED
    BY <1>2, <1>3, <1>4, <1>5, <1>6, <2>1
<1>8. Close(m, l, 0)' /\ Close(m, l, sendStatusTimeout[m])'
  BY <1>7 DEF Close, Unnoticed
<1> QED
  BY <1>8 DEF Noticing

LEMMA NodeNotices ==
  ASSUME TypeInv, TimeInv, TimeInv', LifeInv, ReceiverTypes, ReceiverTypes',
         Passive = {}, NEW n \in Node, NodeStep(n), masterLost' = masterLost,
         NEW m \in Node, NEW l \in Listener,
         iam'[m], iam[m] => Noticing(m, l)
  PROVE  Noticing(m, l)'
<1> USE PulsarAssumption
<1>0. l \in Host /\ inbox[l] \in Seq(Datagram) /\ l # n
  BY DEF TypeInv, Host
<1>1. /\ losses' \in losses .. MaxLosses
      /\ inbox'[l] # inbox[l] => inbox'[l] # <<>>
  <2>1. CASE sendStatus(n) \/ sendActivate(n)
    <3>1. PICK d \in Datagram, lost \in SUBSET Host : broadcast(d, lost)
      BY <2>1, SendsBroadcast
    <3>2. /\ losses' \in losses .. MaxLosses
          /\ inbox'[l] = inbox[l] \/ inbox'[l] = Append(inbox[l], d)
      BY <1>0, <3>1, BroadcastLoses
    <3>3. Append(inbox[l], d) # <<>>
      BY <1>0
    <3> QED
      BY <3>2, <3>3
  <2>2. CASE ~ (sendStatus(n) \/ sendActivate(n))
    <3>1. inbox'[l] = inbox[l] /\ losses' = losses
      BY <1>0, <2>2 DEF NodeStep, start, crash, becomeMaster, deactivate,
                        readyRead, budgets, TypeInv
    <3>2. losses \in 0 .. MaxLosses
      BY DEF TimeInv
    <3> QED
      BY <3>1, <3>2
  <2> QED
    BY <2>1, <2>2
<1>2. CASE ~ iam[m]
  <2>1. m = n
    BY <1>2, StepOfOther
  <2>2. activeFor[m] = 0
    BY <1>2 DEF LifeInv
  <2>3. activeFor'[m] = 0
    <3>1. CASE start(m) \/ sendStatus(m) \/ sendActivate(m) \/ becomeMaster(m)
      BY <2>2, <3>1 DEF start, sendStatus, sendActivate, becomeMaster
    <3>2. CASE crash(m) \/ deactivate(m)
      BY <3>2 DEF crash, deactivate, TimeInv
    <3>3. CASE readyRead(m)
      BY <2>2, <3>3 DEF readyRead, yield, giveWay, stayMaster, follow,
                        takeOver, waitForOther, TimeInv
    <3> QED
      BY <2>1, <3>1, <3>2, <3>3 DEF NodeStep
  <2> QED
    BY <2>3, NewsIsClose
<1>3. CASE iam[m] /\ ~ (m = n /\ sendStatus(n))
  <2>1. activeFor'[m] = activeFor[m] /\ sendStatusTimeout'[m] = sendStatusTimeout[m]
    <3>1. CASE m # n
      BY <3>1, StepOfOther
    <3>2. CASE m = n
      <4>1. up[m] /\ waitTimeout[m] = Idle
        BY <1>3 DEF LifeInv
      <4>2. ~ start(m) /\ ~ becomeMaster(m)
        BY <4>1 DEF start, becomeMaster, Idle
      <4>3. ~ crash(m) /\ ~ deactivate(m)
        BY DEF crash, deactivate, TypeInv
      <4>4. CASE sendActivate(m)
        BY <4>4 DEF sendActivate, nodeVars, timers
      <4>5. CASE readyRead(m)
        <5> DEFINE d == Head(inbox[m])
        <5>1. \/ yield(m, d) \/ giveWay(m, d) \/ stayMaster(m, d)
              \/ follow(m, d) \/ takeOver(m, d) \/ waitForOther(m, d)
          BY <4>5 DEF readyRead
        <5> HIDE DEF d
        <5>2. stayMaster(m, d)
          BY <1>3, <5>1 DEF yield, giveWay, follow, takeOver, waitForOther, TypeInv
        <5> QED
          BY <4>5, <5>2 DEF readyRead, stayMaster
      <4> QED
        BY <1>3, <3>2, <4>2, <4>3, <4>4, <4>5 DEF NodeStep
    <3> QED
      BY <3>1, <3>2
  <2> QED
    BY <1>1, <1>3, <2>1, NoticeKept
<1>4. CASE iam[m] /\ m = n /\ sendStatus(n)
  <2>1. PICK d \in Datagram, lost \in SUBSET Host : broadcast(d, lost)
    BY <1>4, SendsBroadcast
  <2>2. activeFor' = activeFor /\ sendStatusTimeout'[m] = SendTime
    BY <1>4 DEF sendStatus, TimeInv
  <2>3. Noticing(m, l)
    BY <1>4
  <2>4. /\ activeFor[m] \in Nat /\ masterLost[l] \in Int
        /\ ReceiveTime \in Nat /\ SendTime \in Nat
    BY DEF TimeInv, ReceiverTypes, Idle
  <2>5. activeFor[m] <= Reach \/ ReceiveTime - masterLost[l] <= Reach
    BY <2>3, <2>4 DEF Noticing, Close, Unnoticed
  <2>6. Reach' \in Nat /\ Reach \in Nat /\ Reach' >= Reach
    BY <1>1, ReachGrows, ReachType
  <2>7. Close(m, l, 0)'
    <3>1. activeFor'[m] + 0 <= Reach' \/ (ReceiveTime - masterLost'[l]) + 0 <= Reach'
      BY <2>2, <2>4, <2>5, <2>6
    <3> QED
      BY <3>1 DEF Close, Unnoticed
  <2>8. CASE l \in lost
    <3>1. losses' >= losses + 1
      BY <2>1, <2>8, BroadcastLoses
    <3>2. Reach' >= Reach + SendTime
      BY <1>1, <3>1, ReachGrows
    <3>3. activeFor'[m] + SendTime <= Reach'
            \/ (ReceiveTime - masterLost'[l]) + SendTime <= Reach'
      BY <2>2, <2>4, <2>5, <2>6, <3>2
    <3>4. Close(m, l, sendStatusTimeout[m])'
      BY <2>2, <3>3 DEF Close, Unnoticed
    <3> QED
      BY <2>7, <3>4 DEF Noticing
  <2>9. CASE l \notin lost
    <3>1. Reads(l, d)
      BY DEF Reads
    <3>2. inbox'[l] = Append(inbox[l], d)
      BY <1>0, <2>1, <2>9, <3>1, BroadcastLoses
    <3>3. inbox'[l] # <<>>
      BY <1>0, <3>2
    <3> QED
      BY <2>7, <3>3 DEF Noticing
  <2> QED
    BY <2>8, <2>9
<1> QED
  BY <1>2, <1>3, <1>4

LEMMA NoticeInvStep ==
  ASSUME TimesInv, TimesInv', ReceiverTypes, ReceiverTypes', NoticeInv,
         Passive = {}, [ReceiverNext]_vars
  PROVE  NoticeInv'
<1> SUFFICES ASSUME NEW m \in Node, NEW l \in Listener,
                    iam'[m], masterLost'[l] # Idle
             PROVE  Noticing(m, l)'
  BY DEF NoticeInv, Noticing, Close, Unnoticed
<1>0. /\ TypeInv /\ TimeInv /\ TimeInv' /\ LifeInv
      /\ iam[m] /\ masterLost[l] # Idle => Noticing(m, l)
  BY DEF TimesInv, IInv, NoticeInv
<1>1. CASE receiverTick
  <2>1. iam' = iam /\ masterLost'[l] = Less(masterLost[l])
    BY <1>1 DEF receiverTick, tick
  <2>2. masterLost[l] # Idle
    BY <2>1 DEF Less, Idle
  <2> QED
    BY <1>0, <1>1, <2>1, <2>2, TickNotices
<1>2. ASSUME NEW k \in Listener, receive(k) PROVE Noticing(m, l)'
  <2>1. /\ iam' = iam /\ activeFor' = activeFor /\ losses' = losses
        /\ sendStatusTimeout' = sendStatusTimeout
        /\ masterLost' = [masterLost EXCEPT ![k] = ReceiveTime]
        /\ inbox' = [inbox EXCEPT ![k] = Tail(@)]
    BY <1>2 DEF receive, LostTimer, nodeVars, timers, budgets
  <2>2. CASE k = l
    <3>1. masterLost'[l] = ReceiveTime
      BY <2>1, <2>2 DEF ReceiverTypes
    <3> QED
      BY <1>0, <3>1, NewsIsClose
  <2>3. CASE k # l
    <3>1. masterLost'[l] = masterLost[l] /\ inbox'[l] = inbox[l]
      BY <1>0, <2>1, <2>3 DEF ReceiverTypes, TypeInv, Host
    <3>2. losses' \in losses .. MaxLosses
      BY <1>0, <2>1 DEF TimeInv
    <3> QED
      BY <1>0, <2>1, <3>1, <3>2, NoticeKept
  <2> QED
    BY <2>2, <2>3
<1>3. ASSUME NEW k \in Listener, masterLosted(k) PROVE Noticing(m, l)'
  <2>1. /\ iam' = iam /\ activeFor' = activeFor /\ losses' = losses
        /\ sendStatusTimeout' = sendStatusTimeout /\ inbox' = inbox
        /\ masterLost' = [masterLost EXCEPT ![k] = Idle]
    BY <1>3 DEF masterLosted, pulsarVars, nodeVars, timers, budgets
  <2>2. masterLost'[l] = masterLost[l]
    BY <2>1 DEF ReceiverTypes
  <2>3. losses' \in losses .. MaxLosses
    BY <1>0, <2>1 DEF TimeInv
  <2> QED
    BY <1>0, <2>1, <2>2, <2>3, NoticeKept
<1>4. ASSUME UNCHANGED pulsarVars, masterLost' = masterLost
      PROVE  Noticing(m, l)'
  <2>1. /\ iam' = iam /\ activeFor' = activeFor /\ losses' = losses
        /\ sendStatusTimeout' = sendStatusTimeout /\ inbox' = inbox
    BY <1>4 DEF pulsarVars, nodeVars, timers, budgets
  <2>2. losses' \in losses .. MaxLosses
    BY <1>0, <2>1 DEF TimeInv
  <2> QED
    BY <1>0, <1>4, <2>1, <2>2, NoticeKept
<1>5. ASSUME NEW n \in Node, nodeStep(n)
      PROVE  Noticing(m, l)'
  <2>1. masterLost' = masterLost /\ NodeStep(n)
    BY <1>5 DEF nodeStep, receiverVars
  <2> QED
    BY <1>0, <1>5, <2>1, NodeNotices
<1>6. ASSUME NEW k \in Listener, onMasterPingTimer(k)
      PROVE  UNCHANGED pulsarVars /\ masterLost' = masterLost
  BY <1>6 DEF onMasterPingTimer
<1>7. ASSUME NEW n \in Node, linkFails(n)
      PROVE  UNCHANGED pulsarVars /\ masterLost' = masterLost
  BY <1>7 DEF linkFails, receiverVars
<1>8. CASE UNCHANGED vars
  BY <1>4, <1>8 DEF vars, receiverVars
<1> QED
  BY <1>1, <1>2, <1>3, <1>4, <1>5, <1>6, <1>7, <1>8 DEF ReceiverNext

LEMMA ReceiverTimes == ReceiverSpec => [](TimesInv /\ ReceiverTypes)
<1>1. ReceiverInit => TimesInv /\ ReceiverTypes
  <2>1. ReceiverInit => TimesInv
    BY InitIInv, InitTimes DEF ReceiverInit, TimesInv
  <2>2. ReceiverInit => ReceiverTypes
    BY PulsarAssumption DEF ReceiverInit, ReceiverTypes
  <2> QED
    BY <2>1, <2>2
<1>2. TimesInv /\ ReceiverTypes /\ [ReceiverNext]_vars => TimesInv' /\ ReceiverTypes'
  BY ReceiverStep, TimesInvStep, ReceiverTypesStep
<1> QED
  BY <1>1, <1>2, PTL DEF ReceiverSpec

(* A receiver does not report the master lost while a node is active that  *)
(* has been so for ReceiveTime, whatever is lost of its statuses within    *)
(* what the time-out covers (PulsReceiverPrivate.cpp, masterLost).         *)
THEOREM LossesAreReal ==
  ASSUME Passive = {}, TimeoutCoversLosses
  PROVE  ReceiverSpec => []NoFalseLoss
<1>1. ReceiverInit => NoticeInv
  <2>1. Init => \A m \in Node : ~ iam[m]
    BY DEF Init
  <2> QED
    BY <2>1 DEF ReceiverInit, NoticeInv
<1>2. /\ TimesInv /\ TimesInv' /\ ReceiverTypes /\ ReceiverTypes' /\ NoticeInv
      /\ [ReceiverNext]_vars
      => NoticeInv'
  BY NoticeInvStep
<1>3. TimesInv /\ ReceiverTypes /\ NoticeInv => NoFalseLoss
  <2> SUFFICES ASSUME TimesInv, ReceiverTypes, NoticeInv, NEW l \in Listener,
                      NEW m \in Node, masterLost[l] = 0
               PROVE  activeFor[m] < ReceiveTime
    BY DEF NoFalseLoss
  <2>0. TimeInv /\ LifeInv /\ activeFor[m] \in Nat
    BY DEF TimesInv, TimeInv
  <2>1. Reach \in Nat /\ Reach < ReceiveTime /\ ReceiveTime \in Nat
    BY <2>0, ReachIsShort, PulsarAssumption
  <2>2. CASE ~ iam[m]
    BY <2>0, <2>1, <2>2 DEF LifeInv
  <2>3. CASE iam[m]
    <3>1. Close(m, l, 0)
      BY <2>3 DEF NoticeInv, Noticing, Idle
    <3> QED
      BY <2>0, <2>1, <3>1 DEF Close, Unnoticed
  <2> QED
    BY <2>2, <2>3
<1> QED
  BY <1>1, <1>2, <1>3, ReceiverTimes, PTL DEF ReceiverSpec

----------------------------------------------------------------------------
(* What a receiver shows, and for how long.  The types.                    *)

ReceiverState ==
  /\ link \in [Node -> Address]
  /\ knownMaster \in [Listener -> Time \cup {NoTime}]
  /\ lastpeer \in [Listener -> (Node \X Address) \cup {NoPeer}]
  /\ masterLost \in [Listener -> (0 .. ReceiveTime) \cup {Idle}]
  /\ masterPing \in [Listener -> 0 .. PingLimit]
  /\ masterPingTimer \in [Listener -> (0 .. SendTime) \cup {Idle}]
  /\ silentFor \in [Listener -> Nat]
  /\ strangerFor \in [Listener -> Nat]
  /\ astrayFor \in [Listener -> Nat]

(* The timer of a receiver that knows a master runs, and so does the one   *)
(* that reports it lost.                                                   *)
Watching(l) ==
  /\ knownMaster[l] # NoTime => masterPingTimer[l] # Idle
  /\ lastpeer[l] # NoPeer => masterLost[l] # Idle
  /\ lastpeer[l] = NoPeer => silentFor[l] = 0

WatchInv == \A l \in Listener : Watching(l)

(* The head of a socket is a datagram, sent by a node at one of its times. *)
LEMMA HeadType ==
  ASSUME TypeInv, NEW h \in Host, inbox[h] # <<>>
  PROVE  /\ Head(inbox[h]) = inbox[h][1] /\ 1 \in DOMAIN inbox[h]
         /\ Head(inbox[h]).from \in Node /\ Head(inbox[h]).time \in Time
         /\ Head(inbox[h]) \in Datagram
<1>1. inbox[h] \in Seq(Datagram)
  BY DEF TypeInv
<1>2. Head(inbox[h]) = inbox[h][1] /\ 1 \in DOMAIN inbox[h] /\ inbox[h][1] \in Datagram
  BY <1>1
<1> QED
  BY <1>2 DEF Datagram

(* A history that is counted or starts anew.                               *)
LEMMA CountedType ==
  ASSUME NEW f \in [Listener -> Nat], NEW c
  PROVE  /\ Counted(c, f) \in [Listener -> Nat]
         /\ \A l \in Listener : Counted(c, f)[l] = IF c[l] THEN f[l] + 1 ELSE 0
BY DEF Counted

(* What one receiver makes of the datagram it reads.                       *)
LEMMA ReadEffect ==
  ASSUME TypeInv, ReceiverState, NEW l \in Listener, receive(l)
  PROVE  LET d    == Head(inbox[l])
             peer == <<d.from, link[d.from]>>
         IN /\ peer \in Node \X Address
            /\ masterLost' = [masterLost EXCEPT ![l] = ReceiveTime]
            /\ silentFor' = [silentFor EXCEPT ![l] = IF d.status = "1" THEN 0 ELSE @]
            /\ inbox' = [inbox EXCEPT ![l] = Tail(@)]
            /\ \/ newMaster(l, d, peer) \/ sameAddress(l, d, peer)
               \/ otherAddress(l, d, peer) \/ statusOnly(l, d)
            /\ UNCHANGED <<nodeVars, backlog, activeFor, vacantFor, disturbed,
                           budgets, pathVars, strangerFor, astrayFor>>
<1>1. Head(inbox[l]).from \in Node
  BY HeadType DEF receive, Host
<1>2. <<Head(inbox[l]).from, link[Head(inbox[l]).from]>> \in Node \X Address
  BY <1>1 DEF ReceiverState
<1> QED
  BY <1>2 DEF receive, LostTimer

LEMMA ReceiverStateStep ==
  ASSUME TypeInv, ReceiverState, WatchInv, [ReceiverNext]_vars
  PROVE  ReceiverState' /\ WatchInv'
<1> USE PulsarAssumption, ReceiverAssumption DEF PingLimit
<1>1. CASE receiverTick
  <2>1. \A l \in Listener :
          /\ Less(masterLost[l]) \in (0 .. ReceiveTime) \cup {Idle}
          /\ Less(masterPingTimer[l]) \in (0 .. SendTime) \cup {Idle}
          /\ masterLost[l] # Idle => Less(masterLost[l]) # Idle
          /\ masterPingTimer[l] # Idle => Less(masterPingTimer[l]) # Idle
    <3> SUFFICES ASSUME NEW l \in Listener
                 PROVE  /\ Less(masterLost[l]) \in (0 .. ReceiveTime) \cup {Idle}
                        /\ Less(masterPingTimer[l]) \in (0 .. SendTime) \cup {Idle}
                        /\ masterLost[l] # Idle => Less(masterLost[l]) # Idle
                        /\ masterPingTimer[l] # Idle => Less(masterPingTimer[l]) # Idle
      OBVIOUS
    <3>1. /\ masterLost[l] \in (0 .. ReceiveTime) \cup {Idle}
          /\ masterPingTimer[l] \in (0 .. SendTime) \cup {Idle}
      BY DEF ReceiverState
    <3> QED
      BY <3>1 DEF Less, Idle
  <2>2. /\ masterLost' = [l \in Listener |-> Less(masterLost[l])]
        /\ masterPingTimer' = [l \in Listener |-> Less(masterPingTimer[l])]
        /\ UNCHANGED <<knownMaster, lastpeer, masterPing, link>>
    BY <1>1 DEF receiverTick, pathVars
  <2>3. /\ silentFor' \in [Listener -> Nat]
        /\ strangerFor' \in [Listener -> Nat]
        /\ astrayFor' \in [Listener -> Nat]
        /\ \A l \in Listener : lastpeer[l] = NoPeer => silentFor'[l] = 0
    BY <1>1, CountedType DEF receiverTick, ReceiverState
  <2>4. ReceiverState'
    BY <2>1, <2>2, <2>3 DEF ReceiverState
  <2>5. WatchInv'
    BY <2>1, <2>2, <2>3 DEF WatchInv, Watching
  <2> QED
    BY <2>4, <2>5
<1>2. ASSUME NEW l \in Listener, receive(l) PROVE ReceiverState' /\ WatchInv'
  <2> DEFINE d == Head(inbox[l])
             peer == <<d.from, link[d.from]>>
  <2>1. /\ peer \in Node \X Address
        /\ masterLost' = [masterLost EXCEPT ![l] = ReceiveTime]
        /\ silentFor' = [silentFor EXCEPT ![l] = IF d.status = "1" THEN 0 ELSE @]
        /\ \/ newMaster(l, d, peer) \/ sameAddress(l, d, peer)
           \/ otherAddress(l, d, peer) \/ statusOnly(l, d)
        /\ UNCHANGED <<pathVars, strangerFor, astrayFor>>
    BY <1>2, ReadEffect
  <2>2. d.time \in Time /\ NoPeer \notin Node \X Address
    BY <1>2, HeadType DEF receive, Host
  <2> HIDE DEF d, peer
  <2>3. /\ link' = link /\ strangerFor' = strangerFor /\ astrayFor' = astrayFor
        /\ masterLost' \in [Listener -> (0 .. ReceiveTime) \cup {Idle}]
        /\ silentFor' \in [Listener -> Nat]
        /\ \A k \in Listener : masterLost[k] # Idle => masterLost'[k] # Idle
        /\ masterLost'[l] # Idle
        /\ \A k \in Listener : silentFor'[k] = silentFor[k] \/ silentFor'[k] = 0
    BY <2>1 DEF pathVars, ReceiverState, Idle
  <2>4. CASE newMaster(l, d, peer)
    <3>1. /\ knownMaster' = [knownMaster EXCEPT ![l] = d.time]
          /\ lastpeer' = [lastpeer EXCEPT ![l] = peer]
          /\ masterPing' = [masterPing EXCEPT ![l] = 0]
          /\ masterPingTimer' = [masterPingTimer EXCEPT ![l] = SendTime]
      BY <2>4 DEF newMaster
    <3>2. ReceiverState'
      BY <2>1, <2>2, <2>3, <3>1 DEF ReceiverState
    <3>3. WatchInv'
      BY <2>1, <2>2, <2>3, <3>1 DEF WatchInv, Watching, ReceiverState, Idle
    <3> QED
      BY <3>2, <3>3
  <2>5. CASE sameAddress(l, d, peer) \/ otherAddress(l, d, peer) \/ statusOnly(l, d)
    <3>1. /\ knownMaster' = knownMaster /\ masterPingTimer' = masterPingTimer
          /\ \/ lastpeer' = lastpeer
             \/ lastpeer' = [lastpeer EXCEPT ![l] = peer] /\ d.status = "1"
          /\ masterPing' = masterPing \/ masterPing' = [masterPing EXCEPT ![l] = 0]
      BY <2>5 DEF sameAddress, otherAddress, statusOnly
    <3>2. ReceiverState'
      BY <2>1, <2>2, <2>3, <3>1 DEF ReceiverState
    <3>3. WatchInv'
      BY <2>1, <2>2, <2>3, <3>1 DEF WatchInv, Watching, ReceiverState, Idle
    <3> QED
      BY <3>2, <3>3
  <2> QED
    BY <2>1, <2>4, <2>5
<1>3. ASSUME NEW l \in Listener, masterLosted(l) PROVE ReceiverState' /\ WatchInv'
  <2>1. ReceiverState'
    BY <1>3 DEF masterLosted, pathVars, ReceiverState
  <2>2. WatchInv'
    BY <1>3 DEF masterLosted, WatchInv, Watching, ReceiverState
  <2> QED
    BY <2>1, <2>2
<1>4. ASSUME NEW l \in Listener, onMasterPingTimer(l)
      PROVE  ReceiverState' /\ WatchInv'
  <2>1. ReceiverState'
    BY <1>4 DEF onMasterPingTimer, pathVars, watchVars, ReceiverState
  <2>2. WatchInv'
    BY <1>4 DEF onMasterPingTimer, watchVars, WatchInv, Watching, ReceiverState, Idle
  <2> QED
    BY <2>1, <2>2
<1>5. ASSUME NEW n \in Node, linkFails(n) PROVE ReceiverState' /\ WatchInv'
  BY <1>5 DEF linkFails, receiverVars, Zero, ReceiverState, WatchInv, Watching
<1>6. ASSUME NEW n \in Node, nodeStep(n) PROVE ReceiverState' /\ WatchInv'
  <2>1. /\ strangerFor' \in [Listener -> Nat]
        /\ silentFor' \in [Listener -> Nat]
        /\ \A l \in Listener : silentFor[l] = 0 => silentFor'[l] = 0
    BY <1>6 DEF nodeStep, ReceiverState, Zero
  <2> QED
    BY <1>6, <2>1 DEF nodeStep, receiverVars, pathVars, ReceiverState, WatchInv, Watching
<1>7. CASE UNCHANGED vars
  BY <1>7 DEF vars, receiverVars, pathVars, watchVars, ReceiverState, WatchInv, Watching
<1> QED
  BY <1>1, <1>2, <1>3, <1>4, <1>5, <1>6, <1>7 DEF ReceiverNext

----------------------------------------------------------------------------
(* Steps of a node, as the receivers see them.                             *)

(* A node that stays active is what it was.                                *)
LEMMA StaysActive ==
  ASSUME TypeInv, TimeInv, LifeInv, NEW n \in Node, NodeStep(n),
         NEW m \in Node, iam[m], iam'[m]
  PROVE  /\ activeFor'[m] = activeFor[m] /\ dateTime'[m] = dateTime[m]
         /\ up[m] /\ up'[m]
         /\ ~ (m = n /\ sendStatus(n)) =>
              sendStatusTimeout'[m] = sendStatusTimeout[m]
<1> USE PulsarAssumption
<1>1. up[m] /\ waitTimeout[m] = Idle
  BY DEF LifeInv
<1>2. CASE m # n
  BY <1>1, <1>2, StepOfOther
<1>3. CASE m = n
  <2>1. ~ start(m) /\ ~ becomeMaster(m)
    BY <1>1 DEF start, becomeMaster, Idle
  <2>2. ~ crash(m) /\ ~ deactivate(m)
    BY DEF crash, deactivate, TypeInv
  <2>3. CASE sendActivate(m)
    BY <1>1, <2>3 DEF sendActivate, nodeVars, timers
  <2>4. CASE sendStatus(m)
    BY <1>1, <1>3, <2>4 DEF sendStatus
  <2>5. CASE readyRead(m)
    <3> DEFINE d == Head(inbox[m])
    <3>1. \/ yield(m, d) \/ giveWay(m, d) \/ stayMaster(m, d)
          \/ follow(m, d) \/ takeOver(m, d) \/ waitForOther(m, d)
      BY <2>5 DEF readyRead
    <3> HIDE DEF d
    <3>2. stayMaster(m, d)
      BY <3>1 DEF yield, giveWay, follow, takeOver, waitForOther, TypeInv
    <3> QED
      BY <1>1, <2>5, <3>2 DEF readyRead, stayMaster
  <2> QED
    BY <1>3, <2>1, <2>2, <2>3, <2>4, <2>5 DEF NodeStep
<1> QED
  BY <1>2, <1>3

(* One that becomes active does so by its timer or on request.             *)
LEMMA BecomesActive ==
  ASSUME TypeInv, TimeInv, LifeInv, NEW n \in Node, NodeStep(n),
         NEW m \in Node, ~ iam[m], iam'[m]
  PROVE  /\ m = n /\ activeFor[m] = 0 /\ activeFor'[m] = 0
         /\ becomeMaster(n) \/ Activated(n)
<1>1. m = n
  BY StepOfOther
<1>2. activeFor[m] = 0
  BY DEF LifeInv
<1>3. ~ start(m) /\ ~ crash(m) /\ ~ deactivate(m) /\ ~ sendStatus(m) /\ ~ sendActivate(m)
  BY DEF start, crash, deactivate, sendStatus, sendActivate, nodeVars, TypeInv
<1>4. becomeMaster(m) \/ Activated(m)
  BY <1>1, <1>3 DEF NodeStep, Activated
<1>5. activeFor'[m] = 0
  <2>1. CASE becomeMaster(m)
    BY <1>2, <2>1 DEF becomeMaster
  <2>2. CASE readyRead(m)
    BY <1>2, <2>2 DEF readyRead, yield, giveWay, stayMaster, follow,
                      takeOver, waitForOther, TimeInv
  <2> QED
    BY <1>4, <2>1, <2>2 DEF Activated
<1> QED
  BY <1>1, <1>2, <1>4, <1>5

(* The count of a node that is not active any more is 0, and no other      *)
(* count changes.                                                          *)
LEMMA ActiveForStep ==
  ASSUME TypeInv, TimeInv, LifeInv, LifeInv', NEW n \in Node, NodeStep(n),
         NEW m \in Node
  PROVE  activeFor'[m] = activeFor[m] \/ activeFor'[m] = 0
<1>1. CASE iam[m] /\ iam'[m]
  BY <1>1, StaysActive
<1>2. CASE ~ iam[m] /\ iam'[m]
  BY <1>2, BecomesActive
<1>3. CASE ~ iam'[m]
  BY <1>3 DEF LifeInv
<1> QED
  BY <1>1, <1>2, <1>3

(* What reaches the socket of a receiver: a "1" is the status of an active *)
(* node, and one that does not arrive is lost.                             *)
LEMMA ReachesListener ==
  ASSUME TypeInv, TimeInv, Passive = {}, NEW n \in Node, NodeStep(n),
         NEW l \in Listener
  PROVE  /\ losses' \in losses .. MaxLosses
         /\ \/ /\ inbox'[l] = inbox[l]
               /\ sendStatus(n) => losses' >= losses + 1
            \/ \E d \in Datagram :
                 /\ inbox'[l] = Append(inbox[l], d)
                 /\ d.from = n /\ d.time = dateTime[n]
                 /\ d.status = "1" => sendStatus(n) /\ iam[n]
                 /\ sendStatus(n) /\ iam[n] => d.status = "1"
<1>0. l \in Host /\ inbox[l] \in Seq(Datagram) /\ l # n
  BY PulsarAssumption DEF TypeInv, Host
<1>1. CASE sendStatus(n) \/ sendActivate(n)
  <2>1. PICK d \in Datagram, lost \in SUBSET Host :
          /\ broadcast(d, lost)
          /\ d.from = n /\ d.time = dateTime[n]
          /\ sendStatus(n) => d.status = Status(n)
          /\ ~ sendStatus(n) => d.status = "2"
    BY <1>1, SendsBroadcast
  <2>2. /\ d.status = "1" => sendStatus(n) /\ iam[n]
        /\ sendStatus(n) /\ iam[n] => d.status = "1"
    BY <2>1 DEF Status
  <2>3. /\ losses' \in losses .. MaxLosses
        /\ lost # {} => losses' >= losses + 1
        /\ inbox'[l] = inbox[l] \/ inbox'[l] = Append(inbox[l], d)
        /\ l \notin lost => inbox'[l] = Append(inbox[l], d)
    BY <1>0, <2>1, BroadcastLoses DEF Reads
  <2>4. CASE l \in lost /\ inbox'[l] = inbox[l]
    BY <2>3, <2>4
  <2>5. CASE inbox'[l] = Append(inbox[l], d)
    BY <2>1, <2>2, <2>3, <2>5
  <2> QED
    BY <2>3, <2>4, <2>5
<1>2. CASE ~ (sendStatus(n) \/ sendActivate(n))
  <2>1. inbox'[l] = inbox[l] /\ losses' = losses
    BY <1>0, <1>2 DEF NodeStep, start, crash, becomeMaster, deactivate,
                      readyRead, budgets, TypeInv
  <2>2. losses \in 0 .. MaxLosses /\ MaxLosses \in Nat
    BY PulsarAssumption DEF TimeInv
  <2> QED
    BY <1>2, <2>1, <2>2
<1> QED
  BY <1>1, <1>2

----------------------------------------------------------------------------
(* The master is found.                                                    *)

(* What l will know when it has read everything, if m is active.           *)
Knows(l, m) ==
  \/ \E i \in DOMAIN inbox[l] :
       /\ inbox[l][i].status = "1" /\ inbox[l][i].time = dateTime[m]
       /\ \A j \in DOMAIN inbox[l] : j > i => inbox[l][j].status # "1"
  \/ /\ knownMaster[l] = dateTime[m]
     /\ \A j \in DOMAIN inbox[l] : inbox[l][j].status # "1"

(* The ticks that l has not known m, which count after the first one only. *)
Strange(l, m) == IF activeFor[m] = 0 THEN -1 ELSE strangerFor[l]

Found(l, m) ==
  /\ Strange(l, m) < Reach + SendTime
  /\ \/ Knows(l, m)
     \/ Strange(l, m) + sendStatusTimeout[m] < Reach + SendTime

(* While two nodes are active the count starts anew with the next tick,    *)
(* and no node takes over beside one that is active for long: what another *)
(* active node says costs at most one status of m.                         *)
FoundInv ==
  \A l \in Listener, m \in Node :
    /\ iam[m] => Found(l, m)
    /\ activeFor[m] \in 1 .. ReceiveTime - 1 => strangerFor[l] < activeFor[m]
    /\ \A n \in Node \ {m} :
         /\ iam[m] /\ iam[n] /\ activeFor[n] = 0 => Strange(l, m) < Reach
         /\ activeFor[m] > 0 /\ activeFor[n] > 0 => strangerFor[l] = 0

LEMMA KnowsKept ==
  ASSUME NEW l \in Listener, NEW m \in Node, Knows(l, m),
         inbox[l] \in Seq(Datagram),
         knownMaster'[l] = knownMaster[l], dateTime'[m] = dateTime[m],
         \/ inbox'[l] = inbox[l]
         \/ \E d \in Datagram : d.status # "1" /\ inbox'[l] = Append(inbox[l], d)
  PROVE  Knows(l, m)'
<1>1. CASE inbox'[l] = inbox[l]
  BY <1>1 DEF Knows
<1>2. ASSUME NEW d \in Datagram, d.status # "1", inbox'[l] = Append(inbox[l], d)
      PROVE  Knows(l, m)'
  <2>1. /\ \A i \in DOMAIN inbox[l] : i \in DOMAIN inbox'[l] /\ inbox'[l][i] = inbox[l][i]
        /\ \A i \in DOMAIN inbox'[l] : \/ i \in DOMAIN inbox[l]
                                       \/ i = Len(inbox[l]) + 1
        /\ inbox'[l][Len(inbox[l]) + 1] = d
    BY <1>2, AppendKeeps
  <2>2. CASE \E i \in DOMAIN inbox[l] :
               /\ inbox[l][i].status = "1" /\ inbox[l][i].time = dateTime[m]
               /\ \A j \in DOMAIN inbox[l] : j > i => inbox[l][j].status # "1"
    <3>1. PICK i \in DOMAIN inbox[l] :
            /\ inbox[l][i].status = "1" /\ inbox[l][i].time = dateTime[m]
            /\ \A j \in DOMAIN inbox[l] : j > i => inbox[l][j].status # "1"
      BY <2>2
    <3>2. \A j \in DOMAIN inbox'[l] : j > i => inbox'[l][j].status # "1"
      BY <1>2, <2>1, <3>1
    <3> QED
      BY <2>1, <3>1, <3>2 DEF Knows
  <2>3. CASE /\ knownMaster[l] = dateTime[m]
             /\ \A j \in DOMAIN inbox[l] : inbox[l][j].status # "1"
    <3>1. \A j \in DOMAIN inbox'[l] : inbox'[l][j].status # "1"
      BY <1>2, <2>1, <2>3
    <3> QED
      BY <2>3, <3>1 DEF Knows
  <2> QED
    BY <2>2, <2>3 DEF Knows
<1> QED
  BY <1>1, <1>2

(* The status of m that comes last is the one that counts.                 *)
LEMMA KnowsNext ==
  ASSUME NEW l \in Listener, NEW m \in Node, NEW d \in Datagram,
         inbox[l] \in Seq(Datagram), inbox'[l] = Append(inbox[l], d),
         d.status = "1", d.time = dateTime[m], dateTime'[m] = dateTime[m]
  PROVE  Knows(l, m)'
<1>1. /\ inbox'[l][Len(inbox[l]) + 1] = d
      /\ Len(inbox[l]) + 1 \in DOMAIN inbox'[l]
      /\ \A i \in DOMAIN inbox'[l] : i <= Len(inbox[l]) + 1
  OBVIOUS
<1>2. \A j \in DOMAIN inbox'[l] :
        j > Len(inbox[l]) + 1 => inbox'[l][j].status # "1"
  BY <1>1
<1> QED
  BY <1>1, <1>2 DEF Knows

LEMMA KnowsRead ==
  ASSUME TypeInv, ReceiverState, NEW l \in Listener, receive(l),
         NEW m \in Node, Knows(l, m)
  PROVE  Knows(l, m)'
<1> DEFINE d == Head(inbox[l])
           peer == <<d.from, link[d.from]>>
<1>1. /\ inbox' = [inbox EXCEPT ![l] = Tail(@)] /\ dateTime' = dateTime
      /\ \/ newMaster(l, d, peer) \/ sameAddress(l, d, peer)
         \/ otherAddress(l, d, peer) \/ statusOnly(l, d)
  BY ReadEffect DEF nodeVars
<1>2. d = inbox[l][1] /\ inbox[l] \in Seq(Datagram) /\ inbox[l] # <<>>
  BY HeadType DEF receive, TypeInv, Host
<1> HIDE DEF d, peer
<1>3. /\ d.status = "1" => knownMaster'[l] = d.time
      /\ d.status # "1" => knownMaster'[l] = knownMaster[l]
  BY <1>1 DEF newMaster, sameAddress, otherAddress, statusOnly, ReceiverState
<1>4. /\ inbox'[l] = Tail(inbox[l])
      /\ \A i \in DOMAIN inbox[l] : i # 1 => /\ i - 1 \in DOMAIN inbox'[l]
                                             /\ inbox'[l][i - 1] = inbox[l][i]
      /\ \A i \in DOMAIN inbox'[l] : /\ i + 1 \in DOMAIN inbox[l]
                                     /\ inbox'[l][i] = inbox[l][i + 1]
  <2>1. inbox'[l] = Tail(inbox[l])
    BY <1>1 DEF TypeInv, Host
  <2> QED
    BY <1>2, <2>1, TailShifts
<1>5. DOMAIN inbox[l] \subseteq Nat /\ DOMAIN inbox'[l] \subseteq Nat
      /\ 1 \in DOMAIN inbox[l] /\ \A i \in DOMAIN inbox[l] : i >= 1
  <2>1. Tail(inbox[l]) \in Seq(Datagram)
    BY <1>2, TailShifts
  <2> QED
    BY <1>2, <1>4, <2>1
<1>6. CASE \E i \in DOMAIN inbox[l] :
             /\ inbox[l][i].status = "1" /\ inbox[l][i].time = dateTime[m]
             /\ \A j \in DOMAIN inbox[l] : j > i => inbox[l][j].status # "1"
  <2>1. PICK i \in DOMAIN inbox[l] :
          /\ inbox[l][i].status = "1" /\ inbox[l][i].time = dateTime[m]
          /\ \A j \in DOMAIN inbox[l] : j > i => inbox[l][j].status # "1"
    BY <1>6
  <2>2. CASE i = 1
    <3>1. knownMaster'[l] = dateTime'[m]
      BY <1>1, <1>2, <1>3, <2>1, <2>2
    <3>2. \A j \in DOMAIN inbox'[l] : inbox'[l][j].status # "1"
      <4> SUFFICES ASSUME NEW j \in DOMAIN inbox'[l]
                   PROVE  inbox'[l][j].status # "1"
        OBVIOUS
      <4>1. j + 1 \in DOMAIN inbox[l] /\ inbox'[l][j] = inbox[l][j + 1] /\ j \in Nat
        BY <1>4, <1>5
      <4>2. j + 1 >= 1 /\ j + 1 # 1 => j + 1 > i
        BY <2>2, <4>1
      <4>3. j >= 1
        <5>1. Tail(inbox[l]) \in Seq(Datagram)
          BY <1>2, TailShifts
        <5> QED
          BY <1>4, <5>1
      <4> QED
        BY <2>1, <2>2, <4>1, <4>3
    <3> QED
      BY <3>1, <3>2 DEF Knows
  <2>3. CASE i # 1
    <3>1. /\ i - 1 \in DOMAIN inbox'[l] /\ inbox'[l][i - 1] = inbox[l][i]
      BY <1>4, <2>3
    <3>2. \A j \in DOMAIN inbox'[l] : j > i - 1 => inbox'[l][j].status # "1"
      <4> SUFFICES ASSUME NEW j \in DOMAIN inbox'[l], j > i - 1
                   PROVE  inbox'[l][j].status # "1"
        OBVIOUS
      <4>1. j + 1 \in DOMAIN inbox[l] /\ inbox'[l][j] = inbox[l][j + 1]
        BY <1>4
      <4>2. j \in Nat /\ i \in Nat
        BY <1>5
      <4>3. j + 1 > i
        BY <4>2
      <4> QED
        BY <2>1, <4>1, <4>3
    <3> QED
      BY <1>1, <2>1, <3>1, <3>2 DEF Knows
  <2> QED
    BY <2>2, <2>3
<1>7. CASE /\ knownMaster[l] = dateTime[m]
           /\ \A j \in DOMAIN inbox[l] : inbox[l][j].status # "1"
  <2>1. d.status # "1"
    BY <1>2, <1>5, <1>7
  <2>2. \A j \in DOMAIN inbox'[l] : inbox'[l][j].status # "1"
    BY <1>4, <1>7
  <2> QED
    BY <1>1, <1>3, <1>7, <2>1, <2>2 DEF Knows
<1> QED
  BY <1>6, <1>7 DEF Knows

(* What FoundInv says of a receiver and a node.                            *)
FoundBy(l, m) ==
  /\ iam[m] => Found(l, m)
  /\ activeFor[m] \in 1 .. ReceiveTime - 1 => strangerFor[l] < activeFor[m]
  /\ \A n \in Node \ {m} :
       /\ iam[m] /\ iam[n] /\ activeFor[n] = 0 => Strange(l, m) < Reach
       /\ activeFor[m] > 0 /\ activeFor[n] > 0 => strangerFor[l] = 0

LEMMA FoundOfEach ==
  FoundInv <=> \A l \in Listener, m \in Node : FoundBy(l, m)
BY DEF FoundInv, FoundBy

LEMMA StrangeTypes ==
  ASSUME TimeInv, ReceiverState, NEW l \in Listener, NEW m \in Node
  PROVE  /\ Strange(l, m) \in Int /\ strangerFor[l] \in Nat /\ activeFor[m] \in Nat
         /\ Strange(l, m) <= strangerFor[l]
         /\ activeFor[m] = 0 => Strange(l, m) = -1
         /\ activeFor[m] # 0 => Strange(l, m) = strangerFor[l]
         /\ sendStatusTimeout[m] \in 0 .. SendTime
         /\ SendTime \in Nat /\ SendTime >= 1
         /\ Reach \in Nat /\ SendTime <= Reach
<1>1. strangerFor[l] \in Nat /\ activeFor[m] \in Nat
  BY DEF ReceiverState, TimeInv
<1> QED
  BY <1>1, ReachType, PulsarAssumption DEF Strange, TimeInv

(* Time passes: the count of m grows by one, while its next status comes   *)
(* one nearer, and nothing is on its way.                                  *)
LEMMA TickFound ==
  ASSUME TypeInv, TimeInv, TimeInv', LifeInv, ReceiverState, ReceiverState',
         FoundInv, receiverTick, NEW l \in Listener, NEW m \in Node
  PROVE  FoundBy(l, m)'
<1> USE PulsarAssumption
<1>0. FoundBy(l, m)
  BY FoundOfEach
<1>1. /\ inbox[l] = <<>> /\ UNCHANGED <<iam, up, dateTime, losses, inbox>>
      /\ \A k \in Node :
           activeFor'[k] = IF k \in Active THEN More(activeFor[k]) ELSE 0
  BY DEF receiverTick, tick, budgets
<1>2. Reach' = Reach
  BY <1>1 DEF Reach
<1>3. strangerFor'[l] = IF \E k \in Node : /\ Active = {k} /\ activeFor[k] > 0
                                           /\ knownMaster[l] # dateTime[k]
                          THEN strangerFor[l] + 1 ELSE 0
  <2>1. strangerFor' =
         Counted([h \in Listener |-> \E k \in Node :
                    /\ Active = {k} /\ activeFor[k] > 0
                    /\ knownMaster[h] # dateTime[k]], strangerFor)
    BY DEF receiverTick
  <2> QED
    BY <2>1 DEF Counted
<1>4. \A k \in Node : /\ activeFor'[k] \in Nat /\ activeFor[k] \in Nat
                      /\ k \in Active => activeFor'[k] \in activeFor[k] .. activeFor[k] + 1
                      /\ k \in Active => activeFor'[k] # 0
                      /\ k \notin Active => activeFor'[k] = 0
                      /\ activeFor'[k] < ReceiveTime /\ k \in Active
                           => activeFor'[k] = activeFor[k] + 1
  <2> SUFFICES ASSUME NEW k \in Node
               PROVE /\ activeFor'[k] \in Nat /\ activeFor[k] \in Nat
                     /\ k \in Active => activeFor'[k] \in activeFor[k] .. activeFor[k] + 1
                     /\ k \in Active => activeFor'[k] # 0
                     /\ k \notin Active => activeFor'[k] = 0
                     /\ activeFor'[k] < ReceiveTime /\ k \in Active
                          => activeFor'[k] = activeFor[k] + 1
    OBVIOUS
  <2>1. activeFor[k] \in Nat
    BY DEF TimeInv
  <2>2. activeFor'[k] = IF k \in Active THEN More(activeFor[k]) ELSE 0
    BY <1>1
  <2> QED
    BY <2>1, <2>2 DEF More
<1>5. strangerFor[l] \in Nat
  BY DEF ReceiverState
<1>6. CASE m \notin Active
  <2>1. ~ iam'[m] /\ activeFor'[m] = 0
    BY <1>1, <1>4, <1>6 DEF Active, LifeInv
  <2> QED
    BY <2>1 DEF FoundBy
<1>7. CASE m \in Active
  <2>1. iam[m] /\ up[m] /\ m \in Awake
    BY <1>7 DEF Active, Awake, LifeInv
  <2>2. \/ strangerFor'[l] = 0
        \/ /\ strangerFor'[l] = strangerFor[l] + 1 /\ activeFor[m] > 0
           /\ Active = {m} /\ knownMaster[l] # dateTime[m]
    BY <1>3, <1>7
  <2>3. /\ sendStatusTimeout[m] \in Nat /\ sendStatusTimeout[m] > 0
        /\ sendStatusTimeout'[m] = sendStatusTimeout[m] - 1
    <3>1. sendStatusTimeout[m] \in Nat
      BY NearTypes
    <3>2. sendStatusTimeout[m] > 0 /\ sendStatusTimeout'[m] = Less(sendStatusTimeout[m])
      BY <2>1 DEF receiverTick, tick
    <3> QED
      BY <3>1, <3>2 DEF Less
  <2>4. sendStatusTimeout[m] <= SendTime
    BY NearTypes
  <2>5. Strange(l, m)' = strangerFor'[l]
    BY <1>4, <1>7 DEF Strange
  <2>6. Reach \in Nat /\ SendTime <= Reach /\ SendTime \in Nat /\ SendTime >= 1
    BY ReachType
  <2>7. CASE strangerFor'[l] = 0
    <3>1. /\ Strange(l, m)' < Reach' + SendTime
          /\ Strange(l, m)' + sendStatusTimeout'[m] < Reach' + SendTime
          /\ Strange(l, m)' < Reach'
      BY <1>2, <2>3, <2>4, <2>5, <2>6, <2>7
    <3>2. Found(l, m)'
      BY <3>1 DEF Found
    <3> QED
      BY <2>7, <3>1, <3>2 DEF FoundBy
  <2>8. CASE /\ strangerFor'[l] = strangerFor[l] + 1 /\ activeFor[m] > 0
             /\ Active = {m} /\ knownMaster[l] # dateTime[m]
    <3>1. ~ Knows(l, m)
      BY <1>1, <2>8 DEF Knows
    <3>2. Strange(l, m) = strangerFor[l]
      BY <1>4, <2>8 DEF Strange
    <3>3. strangerFor[l] + sendStatusTimeout[m] < Reach + SendTime
      BY <1>0, <2>1, <3>1, <3>2 DEF FoundBy, Found
    <3>4. /\ Strange(l, m)' < Reach' + SendTime
          /\ Strange(l, m)' + sendStatusTimeout'[m] < Reach' + SendTime
      BY <1>2, <1>5, <2>3, <2>5, <2>6, <2>8, <3>3
    <3>5. Found(l, m)'
      BY <3>4 DEF Found
    <3>6. ASSUME activeFor'[m] \in 1 .. ReceiveTime - 1
          PROVE  strangerFor'[l] < activeFor'[m]
      <4>1. activeFor'[m] = activeFor[m] + 1 /\ activeFor[m] \in 1 .. ReceiveTime - 1
        BY <1>4, <1>7, <2>8, <3>6
      <4>2. strangerFor[l] < activeFor[m]
        BY <1>0, <4>1 DEF FoundBy
      <4> QED
        BY <1>4, <1>5, <2>8, <4>1, <4>2
    <3>7. \A n \in Node \ {m} : ~ iam'[n] /\ activeFor'[n] = 0
      BY <1>1, <1>4, <2>8 DEF Active, LifeInv
    <3> QED
      BY <3>5, <3>6, <3>7 DEF FoundBy
  <2> QED
    BY <2>2, <2>7, <2>8
<1> QED
  BY <1>6, <1>7

(* A step of a node: another node's status takes the receiver away from m  *)
(* only if that node is as young as the wait of its timer allows.          *)
LEMMA NodeFound ==
  ASSUME TypeInv, TimeInv, TimeInv', LifeInv, LifeInv', HearInv,
         ReceiverState, ReceiverState', FoundInv, Passive = {},
         TimeoutCoversLosses, NEW n \in Node, nodeStep(n),
         NEW l \in Listener, NEW m \in Node
  PROVE  FoundBy(l, m)'
<1> USE PulsarAssumption
<1>0. /\ FoundBy(l, m) /\ NodeStep(n) /\ l \in Host
      /\ inbox[l] \in Seq(Datagram) /\ knownMaster'[l] = knownMaster[l]
  BY FoundOfEach DEF nodeStep, receiverVars, TypeInv, Host
<1>1. /\ Strange(l, m) \in Int /\ strangerFor[l] \in Nat /\ activeFor[m] \in Nat
      /\ Strange(l, m) <= strangerFor[l]
      /\ activeFor[m] = 0 => Strange(l, m) = -1
      /\ activeFor[m] # 0 => Strange(l, m) = strangerFor[l]
      /\ sendStatusTimeout[m] \in 0 .. SendTime
      /\ SendTime \in Nat /\ SendTime >= 1
      /\ Reach \in Nat /\ SendTime <= Reach
  BY StrangeTypes
<1>2. sendStatusTimeout'[m] \in 0 .. SendTime /\ strangerFor'[l] \in Nat
  BY DEF TimeInv, ReceiverState
<1>3. strangerFor'[l] = strangerFor[l] \/ strangerFor'[l] = 0
  BY DEF nodeStep, Zero
<1>4. Activated(n) => strangerFor'[l] = 0
  BY DEF nodeStep, Zero
<1>5. /\ losses' \in losses .. MaxLosses
      /\ \/ /\ inbox'[l] = inbox[l]
            /\ sendStatus(n) => losses' >= losses + 1
         \/ \E d \in Datagram :
              /\ inbox'[l] = Append(inbox[l], d)
              /\ d.from = n /\ d.time = dateTime[n]
              /\ d.status = "1" => sendStatus(n) /\ iam[n]
              /\ sendStatus(n) /\ iam[n] => d.status = "1"
  BY <1>0, ReachesListener
<1>6. /\ Reach' \in Nat /\ Reach' >= Reach
      /\ losses' >= losses + 1 => Reach' >= Reach + SendTime
  BY <1>5, ReachGrows
<1>7. \A k \in Node : /\ activeFor'[k] = activeFor[k] \/ activeFor'[k] = 0
                      /\ activeFor[k] \in Nat
  BY <1>0, ActiveForStep DEF TimeInv
<1>8. \/ Strange(l, m)' = -1
      \/ Strange(l, m)' <= Strange(l, m) /\ activeFor'[m] = activeFor[m] /\ activeFor[m] # 0
  BY <1>1, <1>3, <1>7 DEF Strange
<1>9. Strange(l, m)' \in Int
  BY <1>2 DEF Strange
<1>10. ASSUME activeFor'[m] \in 1 .. ReceiveTime - 1
       PROVE  strangerFor'[l] < activeFor'[m]
  <2>1. activeFor'[m] = activeFor[m]
    BY <1>7, <1>10
  <2>2. strangerFor[l] < activeFor[m]
    BY <1>0, <1>10, <2>1 DEF FoundBy
  <2> QED
    BY <1>1, <1>3, <1>10, <2>1, <2>2
<1>11. ASSUME iam'[m] PROVE Found(l, m)'
  <2>1. CASE Strange(l, m)' = -1
    <3>1. /\ Strange(l, m)' < Reach' + SendTime
          /\ Strange(l, m)' + sendStatusTimeout'[m] < Reach' + SendTime
      <4>1. \A x \in 0 .. SendTime : \A r \in Nat :
              -1 < r + SendTime /\ -1 + x < r + SendTime
        BY <1>1
      <4> QED
        BY <1>2, <1>6, <2>1, <4>1
    <3> QED
      BY <3>1 DEF Found
  <2>2. CASE /\ Strange(l, m)' <= Strange(l, m) /\ activeFor'[m] = activeFor[m]
             /\ activeFor[m] # 0
    <3>1. iam[m]
      BY <1>0, <1>11, <2>2, BecomesActive
    <3>2. /\ dateTime'[m] = dateTime[m]
          /\ ~ (m = n /\ sendStatus(n)) =>
               sendStatusTimeout'[m] = sendStatusTimeout[m]
      BY <1>0, <1>11, <3>1, StaysActive
    <3>3. /\ Strange(l, m) < Reach + SendTime
          /\ \/ Knows(l, m)
             \/ Strange(l, m) + sendStatusTimeout[m] < Reach + SendTime
      BY <1>0, <3>1 DEF FoundBy, Found
    <3>4. Strange(l, m)' < Reach' + SendTime
      BY <1>1, <1>6, <1>9, <2>2, <3>3
    <3>5. CASE m = n /\ sendStatus(n)
      <4>1. CASE inbox'[l] = inbox[l]
        <5>1. losses' >= losses + 1
          BY <1>5, <1>0, <4>1, <3>5, <3>1
        <5>2. Strange(l, m)' + sendStatusTimeout'[m] < Reach' + SendTime
          <6>1. Reach' >= Reach + SendTime
            BY <1>6, <5>1
          <6> QED
            BY <1>1, <1>2, <1>6, <1>9, <2>2, <3>3, <6>1
        <5> QED
          BY <3>4, <5>2 DEF Found
      <4>2. ASSUME NEW d \in Datagram, inbox'[l] = Append(inbox[l], d),
                   d.time = dateTime[n], d.status = "1"
            PROVE  Found(l, m)'
        <5>1. Knows(l, m)'
          BY <1>0, <3>2, <3>5, <4>2, KnowsNext
        <5> QED
          BY <3>4, <5>1 DEF Found
      <4> QED
        BY <1>5, <3>1, <3>5, <4>1, <4>2
    <3>6. CASE ~ (m = n /\ sendStatus(n))
      <4>1. sendStatusTimeout'[m] = sendStatusTimeout[m]
        BY <3>2, <3>6
      <4>2. CASE Strange(l, m) + sendStatusTimeout[m] < Reach + SendTime
        <5>1. Strange(l, m)' + sendStatusTimeout'[m] < Reach' + SendTime
          BY <1>1, <1>6, <1>9, <2>2, <4>1, <4>2
        <5> QED
          BY <3>4, <5>1 DEF Found
      <4>3. CASE /\ Knows(l, m)
                 /\ \/ inbox'[l] = inbox[l]
                    \/ \E d \in Datagram : d.status # "1" /\ inbox'[l] = Append(inbox[l], d)
        <5>1. Knows(l, m)'
          BY <1>0, <3>2, <4>3, KnowsKept
        <5> QED
          BY <3>4, <5>1 DEF Found
      <4>4. CASE m # n /\ iam[n]
        <5>1. Strange(l, m) < Reach
          <6>1. CASE activeFor[n] = 0
            BY <1>0, <3>1, <4>4, <6>1 DEF FoundBy
          <6>2. CASE activeFor[n] # 0
            <7>1. strangerFor[l] = 0
              BY <1>0, <1>1, <1>7, <2>2, <4>4, <6>2 DEF FoundBy
            <7> QED
              BY <1>1, <7>1
          <6> QED
            BY <6>1, <6>2
        <5>2. Strange(l, m)' + sendStatusTimeout'[m] < Reach' + SendTime
          BY <1>1, <1>2, <1>6, <1>9, <2>2, <5>1
        <5> QED
          BY <3>4, <5>2 DEF Found
      <4> QED
        BY <1>5, <3>3, <3>6, <4>2, <4>3, <4>4
    <3> QED
      BY <3>5, <3>6
  <2> QED
    BY <1>8, <2>1, <2>2
<1>12. ASSUME NEW k \in Node \ {m}, iam'[m], iam'[k], activeFor'[k] = 0
       PROVE  Strange(l, m)' < Reach'
  <2>1. CASE Strange(l, m)' = -1
    BY <1>6, <2>1
  <2>2. CASE /\ Strange(l, m)' <= Strange(l, m) /\ activeFor'[m] = activeFor[m]
             /\ activeFor[m] # 0
    <3>1. iam[m]
      BY <1>0, <1>12, <2>2, BecomesActive
    <3>2. CASE iam[k]
      <4>1. activeFor[k] = 0
        BY <1>0, <1>12, <3>2, StaysActive
      <4>2. Strange(l, m) < Reach
        BY <1>0, <3>1, <3>2, <4>1 DEF FoundBy
      <4> QED
        BY <1>1, <1>6, <1>9, <2>2, <4>2
    <3>3. CASE ~ iam[k] /\ Activated(n)
      <4>1. strangerFor'[l] = 0
        BY <1>4, <3>3
      <4>2. Strange(l, m)' <= 0
        BY <4>1 DEF Strange
      <4>3. Reach' >= 1
        BY <1>1, <1>6
      <4> QED
        BY <1>6, <1>9, <4>2, <4>3
    <3>4. CASE ~ iam[k] /\ becomeMaster(n)
      <4>1. k = n
        BY <1>0, <1>12, <3>4, BecomesActive
      <4>2. up[n] /\ backlog[n] = 0 /\ waitTimeout[n] = 0
        BY <3>4 DEF becomeMaster, ServesTimers, Awake
      <4>3. ~ Overslept(n)
        BY <4>2 DEF Overslept
      <4>4. Near(m, n, 0)
        BY <1>12, <3>1, <3>4, <4>1, <4>2, <4>3, HearOfEach DEF Rivals, Hearing
      <4>5. Unheard(n) = ReceiveTime
        BY <3>4, <4>1, <4>2 DEF Unheard
      <4>6. Reach < ReceiveTime
        BY ReachIsShort
      <4>7. activeFor[m] <= Reach
        BY <1>1, <4>4, <4>5, <4>6 DEF Near
      <4>8. strangerFor[l] < activeFor[m]
        <5>1. activeFor[m] \in 1 .. ReceiveTime - 1
          BY <1>1, <2>2, <4>6, <4>7
        <5> QED
          BY <1>0, <5>1 DEF FoundBy
      <4> QED
        BY <1>1, <1>6, <1>9, <2>2, <4>7, <4>8
    <3> QED
      BY <1>0, <1>12, <3>2, <3>3, <3>4, BecomesActive
  <2> QED
    BY <1>8, <2>1, <2>2
<1>13. ASSUME NEW k \in Node \ {m}, activeFor'[m] > 0, activeFor'[k] > 0
       PROVE  strangerFor'[l] = 0
  <2>1. activeFor[m] > 0 /\ activeFor[k] > 0
    BY <1>7, <1>13
  <2> QED
    BY <1>0, <1>3, <2>1 DEF FoundBy
<1> QED
  BY <1>10, <1>11, <1>12, <1>13 DEF FoundBy

(* A step of a receiver: it knows what it reads, and forgets a master only *)
(* when it heard of none for so long that m cannot be active for long.     *)
LEMMA ReceiverFound ==
  ASSUME TypeInv, TimeInv, LifeInv, ReceiverTypes, NoticeInv,
         ReceiverState, FoundInv, TimeoutCoversLosses,
         NEW k \in Listener,
         receive(k) \/ masterLosted(k) \/ onMasterPingTimer(k),
         NEW l \in Listener, NEW m \in Node
  PROVE  FoundBy(l, m)'
<1> USE PulsarAssumption
<1>0. FoundBy(l, m)
  BY FoundOfEach
<1>1. UNCHANGED <<iam, dateTime, activeFor, sendStatusTimeout, losses, strangerFor>>
  <2>1. CASE receive(k)
    BY <2>1 DEF receive, nodeVars, timers, budgets
  <2>2. CASE masterLosted(k)
    BY <2>2 DEF masterLosted, pulsarVars, nodeVars, timers, budgets
  <2>3. CASE onMasterPingTimer(k)
    BY <2>3 DEF onMasterPingTimer, pulsarVars, nodeVars, timers, budgets, watchVars
  <2> QED
    BY <2>1, <2>2, <2>3
<1>2. Strange(l, m)' = Strange(l, m) /\ Reach' = Reach
  BY <1>1 DEF Strange, Reach
<1>3. ASSUME iam[m]
      PROVE  Knows(l, m) => \/ Knows(l, m)'
                            \/ Strange(l, m) + sendStatusTimeout[m] < Reach + SendTime
  <2> SUFFICES ASSUME Knows(l, m)
               PROVE  \/ Knows(l, m)'
                      \/ Strange(l, m) + sendStatusTimeout[m] < Reach + SendTime
    OBVIOUS
  <2>0. inbox[l] \in Seq(Datagram) /\ l \in Host
    BY DEF TypeInv, Host
  <2>1. CASE receive(k) /\ k = l
    BY <2>1, KnowsRead
  <2>2. CASE masterLosted(k) /\ k = l
    <3>1. masterLost[l] = 0
      BY <2>2 DEF masterLosted
    <3>2. Close(m, l, 0)
      BY <1>3, <3>1 DEF NoticeInv, Noticing, Idle
    <3>3. Reach < ReceiveTime /\ Reach \in Nat
      BY ReachIsShort
    <3>4. /\ Strange(l, m) \in Int /\ strangerFor[l] \in Nat /\ activeFor[m] \in Nat
          /\ activeFor[m] = 0 => Strange(l, m) = -1
          /\ activeFor[m] # 0 => Strange(l, m) = strangerFor[l]
          /\ sendStatusTimeout[m] \in 0 .. SendTime
          /\ SendTime \in Nat
      BY StrangeTypes
    <3>5. activeFor[m] <= Reach
      BY <3>1, <3>2, <3>3, <3>4 DEF Close, Unnoticed
    <3>6. Strange(l, m) < Reach
      <4>1. CASE activeFor[m] = 0
        BY <3>3, <3>4, <4>1
      <4>2. CASE activeFor[m] # 0
        <5>1. activeFor[m] \in 1 .. ReceiveTime - 1
          BY <3>3, <3>4, <3>5, <4>2
        <5> QED
          BY <1>0, <3>3, <3>4, <3>5, <4>2, <5>1 DEF FoundBy
      <4> QED
        BY <4>1, <4>2
    <3> QED
      BY <3>3, <3>4, <3>6
  <2>3. CASE /\ ~ (receive(k) /\ k = l) /\ ~ (masterLosted(k) /\ k = l)
    <3>1. inbox'[l] = inbox[l] /\ knownMaster'[l] = knownMaster[l]
      <4>1. CASE receive(k)
        <5>1. k # l
          BY <2>3, <4>1
        <5>2. inbox'[l] = inbox[l]
          BY <2>0, <4>1, <5>1 DEF receive, TypeInv
        <5>3. knownMaster'[l] = knownMaster[l]
          BY <4>1, <5>1 DEF receive, newMaster, sameAddress, otherAddress,
                            statusOnly, ReceiverState
        <5> QED
          BY <5>2, <5>3
      <4>2. CASE masterLosted(k)
        BY <2>3, <4>2 DEF masterLosted, pulsarVars, ReceiverState
      <4>3. CASE onMasterPingTimer(k)
        BY <4>3 DEF onMasterPingTimer, pulsarVars
      <4> QED
        BY <4>1, <4>2, <4>3
    <3> QED
      BY <1>1, <2>0, <3>1, KnowsKept
  <2> QED
    BY <2>1, <2>2, <2>3
<1>4. iam[m] => Found(l, m)'
  BY <1>0, <1>1, <1>2, <1>3 DEF FoundBy, Found
<1>5. \A n \in Node \ {m} :
        /\ iam'[m] /\ iam'[n] /\ activeFor'[n] = 0 => Strange(l, m)' < Reach'
        /\ activeFor'[m] > 0 /\ activeFor'[n] > 0 => strangerFor'[l] = 0
  BY <1>0, <1>1, <1>2 DEF FoundBy
<1>6. activeFor'[m] \in 1 .. ReceiveTime - 1 => strangerFor'[l] < activeFor'[m]
  BY <1>0, <1>1 DEF FoundBy
<1> QED
  BY <1>1, <1>4, <1>5, <1>6 DEF FoundBy

LEMMA FoundInvStep ==
  ASSUME TimesInv, TimesInv', HearInv, ReceiverTypes, NoticeInv,
         ReceiverState, ReceiverState', FoundInv,
         Passive = {}, TimeoutCoversLosses, [ReceiverNext]_vars
  PROVE  FoundInv'
<1> SUFFICES ASSUME NEW l \in Listener, NEW m \in Node PROVE FoundBy(l, m)'
  BY DEF FoundInv, FoundBy, Found, Knows, Strange, Reach
<1>0. /\ TypeInv /\ TimeInv /\ TimeInv' /\ LifeInv /\ LifeInv'
      /\ FoundBy(l, m)
  BY FoundOfEach DEF TimesInv, IInv
<1>1. CASE receiverTick
  BY <1>0, <1>1, TickFound
<1>2. ASSUME NEW k \in Listener,
             receive(k) \/ masterLosted(k) \/ onMasterPingTimer(k)
      PROVE  FoundBy(l, m)'
  BY <1>0, <1>2, ReceiverFound
<1>3. ASSUME NEW n \in Node, nodeStep(n) PROVE FoundBy(l, m)'
  BY <1>0, <1>3, NodeFound
<1>4. CASE UNCHANGED <<pulsarVars, knownMaster, strangerFor>>
  BY <1>0, <1>4 DEF pulsarVars, nodeVars, timers, budgets, FoundBy, Found,
                    Knows, Strange, Reach
<1>5. ASSUME NEW n \in Node, linkFails(n)
      PROVE  UNCHANGED <<pulsarVars, knownMaster, strangerFor>>
  BY <1>5 DEF linkFails, receiverVars
<1>6. UNCHANGED vars => UNCHANGED <<pulsarVars, knownMaster, strangerFor>>
  BY DEF vars, receiverVars, watchVars
<1> QED
  BY <1>1, <1>2, <1>3, <1>4, <1>5, <1>6 DEF ReceiverNext

(* The bound is what a tick may make of the count.                         *)
LEMMA FoundBound ==
  ASSUME TimesInv, ReceiverState, ReceiverState', FoundInv, MasterIsFound,
         [ReceiverNext]_vars
  PROVE  MasterIsFound'
<1> USE PulsarAssumption
<1> DEFINE most == (MaxLosses + 2) * SendTime
<1> SUFFICES ASSUME NEW l \in Listener PROVE strangerFor'[l] < most
  BY DEF MasterIsFound
<1>0. TypeInv /\ TimeInv /\ LifeInv
  BY DEF TimesInv, IInv
<1>1. most \in Nat /\ most >= 1 /\ Reach \in Nat /\ Reach + SendTime <= most
  <2>1. (MaxLosses + 2) * SendTime = (MaxLosses + 1) * SendTime + SendTime
    OBVIOUS
  <2>2. Reach \in Nat /\ SendTime <= Reach /\ Reach <= (MaxLosses + 1) * SendTime
    BY <1>0, ReachType
  <2>3. (MaxLosses + 1) * SendTime \in Nat /\ SendTime \in Nat /\ SendTime >= 1
    OBVIOUS
  <2> QED
    BY <2>1, <2>2, <2>3
<1>2. strangerFor[l] < most
  BY DEF MasterIsFound
<1> HIDE DEF most
<1>3. strangerFor[l] \in Nat /\ strangerFor'[l] \in Nat
  BY DEF ReceiverState
<1>4. CASE receiverTick
  <2>1. strangerFor' =
         Counted([h \in Listener |-> \E k \in Node :
                    /\ Active = {k} /\ activeFor[k] > 0
                    /\ knownMaster[h] # dateTime[k]], strangerFor)
    BY <1>4 DEF receiverTick
  <2>2. CASE strangerFor'[l] = 0
    BY <1>1, <2>2
  <2>3. CASE strangerFor'[l] # 0
    <3>1. /\ strangerFor'[l] = strangerFor[l] + 1
          /\ \E k \in Node : /\ Active = {k} /\ activeFor[k] > 0
                             /\ knownMaster[l] # dateTime[k]
      BY <2>1, <2>3 DEF Counted
    <3>2. PICK k \in Node : /\ Active = {k} /\ activeFor[k] > 0
                            /\ knownMaster[l] # dateTime[k]
      BY <3>1
    <3>3. iam[k] /\ k \in Awake
      BY <1>0, <3>2 DEF Active, Awake, LifeInv
    <3>4. inbox[l] = <<>> /\ sendStatusTimeout[k] > 0
      BY <1>4, <3>3 DEF receiverTick, tick
    <3>5. ~ Knows(l, k)
      BY <3>2, <3>4 DEF Knows
    <3>6. Strange(l, k) + sendStatusTimeout[k] < Reach + SendTime
      BY <3>3, <3>5 DEF FoundInv, Found
    <3>7. Strange(l, k) = strangerFor[l] /\ sendStatusTimeout[k] \in Nat
      <4>1. activeFor[k] # 0
        BY <3>2
      <4> QED
        BY <1>0, <4>1, StrangeTypes
    <3> QED
      BY <1>1, <1>3, <3>1, <3>4, <3>6, <3>7
  <2> QED
    BY <2>2, <2>3
<1>5. CASE strangerFor' = strangerFor \/ strangerFor'[l] = 0
  BY <1>1, <1>2, <1>5
<1>6. ASSUME NEW k \in Listener,
             receive(k) \/ masterLosted(k) \/ onMasterPingTimer(k)
      PROVE  strangerFor' = strangerFor
  BY <1>6 DEF receive, masterLosted, onMasterPingTimer, watchVars
<1>7. ASSUME NEW n \in Node, linkFails(n) \/ nodeStep(n)
      PROVE  strangerFor' = strangerFor \/ strangerFor'[l] = 0
  BY <1>7 DEF linkFails, nodeStep, Zero
<1>8. UNCHANGED vars => strangerFor' = strangerFor
  BY DEF vars, watchVars
<1> QED
  BY <1>4, <1>5, <1>6, <1>7, <1>8 DEF ReceiverNext

(* What the receiver's theorems rest on, as one invariant.                 *)
ReceiverInv ==
  TimesInv /\ HearInv /\ ReceiverTypes /\ NoticeInv /\ ReceiverState /\ WatchInv

(* The receivers do not take part in what the nodes hear.                  *)
LEMMA ListensHears ==
  ASSUME TypeInv, TimeInv, LifeInv, HearInv, Listens
  PROVE  HearInv'
<1> SUFFICES ASSUME NEW m \in Node, NEW n \in Node, Rivals(m, n)'
             PROVE  Hearing(m, n)'
  BY HearOfEach DEF HearInv, Hearing, Rivals
<1>1. /\ UNCHANGED <<up, iam, dateTime, waitTimeout, activeFor,
                     sendStatusTimeout, backlog, losses>>
      /\ inbox'[n] = inbox[n]
  BY ListensLeavesNodes DEF Listens, nodeVars, timers, budgets
<1>2. losses' \in losses .. MaxLosses
  BY <1>1, PulsarAssumption DEF TimeInv
<1>3. Hearing(m, n)
  BY <1>1, HearOfEach DEF Rivals
<1> QED
  BY <1>1, <1>2, <1>3, HearingKept

LEMMA ReceiverInvHolds ==
  ASSUME Passive = {}
  PROVE  ReceiverSpec => []ReceiverInv
<1>1. ReceiverInit => ReceiverInv
  <2> SUFFICES ASSUME ReceiverInit PROVE ReceiverInv
    OBVIOUS
  <2>1. TimesInv /\ HearInv
    BY InitIInv, InitTimes DEF ReceiverInit, TimesInv
  <2>2. ReceiverTypes
    BY PulsarAssumption DEF ReceiverInit, ReceiverTypes
  <2>3. NoticeInv
    BY DEF ReceiverInit, Init, NoticeInv
  <2>4. ReceiverState
    BY PulsarAssumption DEF ReceiverInit, ReceiverState, PingLimit
  <2>5. WatchInv
    BY PulsarAssumption DEF ReceiverInit, WatchInv, Watching, Idle
  <2> QED
    BY <2>1, <2>2, <2>3, <2>4, <2>5 DEF ReceiverInv
<1>2. ReceiverInv /\ [ReceiverNext]_vars => ReceiverInv'
  <2> SUFFICES ASSUME ReceiverInv, [ReceiverNext]_vars PROVE ReceiverInv'
    OBVIOUS
  <2>0. TypeInv /\ TimeInv /\ LifeInv
    BY DEF ReceiverInv, TimesInv, IInv
  <2>1. [Next \/ Listens]_pulsarVars
    BY ReceiverStep
  <2>2. TimesInv'
    BY <2>1, TimesInvStep DEF ReceiverInv
  <2>3. ReceiverTypes'
    BY ReceiverTypesStep DEF ReceiverInv
  <2>4. NoticeInv'
    BY <2>2, <2>3, NoticeInvStep DEF ReceiverInv
  <2>5. ReceiverState' /\ WatchInv'
    BY <2>0, ReceiverStateStep DEF ReceiverInv
  <2>6. HearInv'
    <3>1. TimeInv'
      BY <2>2 DEF TimesInv
    <3>2. CASE [Next]_pulsarVars
      BY <2>0, <3>1, <3>2, HearInvStep DEF ReceiverInv
    <3>3. CASE Listens
      BY <2>0, <3>3, ListensHears DEF ReceiverInv
    <3> QED
      BY <2>1, <3>2, <3>3
  <2> QED
    BY <2>2, <2>3, <2>4, <2>5, <2>6 DEF ReceiverInv
<1> QED
  BY <1>1, <1>2, PTL DEF ReceiverSpec

(* A single active node is the known master within one status more than    *)
(* are lost and one that another node's takeover may cost, in a group of   *)
(* any size and whatever crashes (PulsReceiverPrivate.cpp, readyRead).     *)
THEOREM MasterIsKnown ==
  ASSUME Passive = {}, TimeoutCoversLosses
  PROVE  ReceiverSpec => []MasterIsFound
<1>1. ReceiverInit => FoundInv /\ MasterIsFound
  <2> SUFFICES ASSUME ReceiverInit PROVE FoundInv /\ MasterIsFound
    OBVIOUS
  <2>1. /\ \A m \in Node : ~ iam[m] /\ activeFor[m] = 0
        /\ \A l \in Listener : strangerFor[l] = 0
    BY DEF ReceiverInit, Init
  <2>2. FoundInv
    BY <2>1 DEF FoundInv
  <2>3. 0 < (MaxLosses + 2) * SendTime
    <3>1. (MaxLosses + 2) * SendTime = MaxLosses * SendTime + 2 * SendTime
      BY PulsarAssumption
    <3>2. MaxLosses * SendTime \in Nat
      BY PulsarAssumption
    <3> QED
      BY <3>1, <3>2, PulsarAssumption
  <2>4. MasterIsFound
    BY <2>1, <2>3 DEF MasterIsFound
  <2> QED
    BY <2>2, <2>4
<1>2. /\ ReceiverInv /\ ReceiverInv' /\ FoundInv /\ MasterIsFound
      /\ [ReceiverNext]_vars
      => FoundInv' /\ MasterIsFound'
  BY FoundInvStep, FoundBound DEF ReceiverInv
<1> QED
  BY <1>1, <1>2, ReceiverInvHolds, PTL DEF ReceiverSpec

----------------------------------------------------------------------------
(* Its address is found.                                                   *)

(* The receiver knows m and takes it to be where it is not heard any more. *)
Astray(l, m) ==
  /\ activeFor[m] > 0 /\ knownMaster[l] = dateTime[m]
  /\ lastpeer[l] # <<m, link[m]>>

(* A status of m is on its way to l.                                       *)
Heralded(l, m) ==
  \E i \in DOMAIN inbox[l] :
    /\ inbox[l][i].status = "1"
    /\ inbox[l][i].from = m /\ inbox[l][i].time = dateTime[m]

(* The periods of the receiver's timer until it follows m.                 *)
Periods(l) == PingLimit - 1 - masterPing[l]

Followed(l, m) ==
  Astray(l, m) =>
    /\ masterPing[l] < PingLimit =>
         astrayFor[l] + masterPingTimer[l] + Periods(l) * SendTime
           <= PingLimit * SendTime
    /\ masterPing[l] = PingLimit =>
         \/ Heralded(l, m)
         \/ astrayFor[l] + sendStatusTimeout[m] <= PingLimit * SendTime + Reach

(* First the timer of the receiver brings masterPing to its limit, which   *)
(* no status of m resets; then the next one that arrives is believed.      *)
AstrayInv == \A l \in Listener, m \in Node : Followed(l, m)

(* A datagram with the start time of m is m's own.                         *)
LEMMA TimesName ==
  ASSUME IInv, DistinctTimes, NEW l \in Listener, inbox[l] # <<>>,
         NEW m \in Node, Head(inbox[l]).time = dateTime[m]
  PROVE  Head(inbox[l]).from = m
<1>1. Head(inbox[l]) = inbox[l][1] /\ 1 \in DOMAIN inbox[l] /\ l \in Host
  BY HeadType DEF Host, IInv
<1>2. Head(inbox[l]) \in InFlight
  BY <1>1 DEF InFlight
<1>3. \A d \in InFlight : \A n \in Node \ {d.from} : d.time # dateTime[n]
  BY DEF IInv, YieldInv, TimesDiffer
<1> QED
  BY <1>2, <1>3

LEMMA PeriodsType ==
  \A p \in 0 .. PingLimit :
    /\ PingLimit * SendTime \in Nat
    /\ p < PingLimit => /\ (PingLimit - 1 - p) * SendTime \in Nat
                        /\ (PingLimit - 1 - p) * SendTime + SendTime
                             <= PingLimit * SendTime
<1> SUFFICES ASSUME NEW p \in 0 .. PingLimit
             PROVE  /\ PingLimit * SendTime \in Nat
                    /\ p < PingLimit =>
                         /\ (PingLimit - 1 - p) * SendTime \in Nat
                         /\ (PingLimit - 1 - p) * SendTime + SendTime
                              <= PingLimit * SendTime
  OBVIOUS
<1>1. SendTime \in Nat /\ PingLimit = 4
  BY PulsarAssumption DEF PingLimit
<1>2. p = 0 \/ p = 1 \/ p = 2 \/ p = 3 \/ p = 4
  BY <1>1
<1> QED
  BY <1>1, <1>2

LEMMA ReachTypeNext ==
  ASSUME TimeInv'
  PROVE  Reach' \in Nat /\ SendTime <= Reach' /\ SendTime \in Nat
<1>1. losses' \in Nat /\ SendTime \in Nat
  BY PulsarAssumption DEF TimeInv
<1>2. \A a, s \in Nat : (a + 1) * s \in Nat /\ s <= (a + 1) * s
  <2> SUFFICES ASSUME NEW a \in Nat, NEW s \in Nat
               PROVE  (a + 1) * s \in Nat /\ s <= (a + 1) * s
    OBVIOUS
  <2>1. a * s \in Nat /\ (a + 1) * s = a * s + s
    OBVIOUS
  <2> QED
    BY <2>1
<1>3. Reach' = (losses' + 1) * SendTime
  BY DEF Reach
<1> QED
  BY <1>1, <1>2, <1>3

LEMMA AstrayTypes ==
  ASSUME TimeInv, ReceiverState, NEW l \in Listener, NEW m \in Node
  PROVE  /\ astrayFor[l] \in Nat /\ masterPing[l] \in 0 .. PingLimit
         /\ masterPingTimer[l] \in (0 .. SendTime) \cup {Idle}
         /\ sendStatusTimeout[m] \in 0 .. SendTime
         /\ SendTime \in Nat /\ Reach \in Nat /\ SendTime <= Reach
         /\ PingLimit * SendTime \in Nat
         /\ masterPing[l] < PingLimit => Periods(l) * SendTime \in Nat
<1>1. masterPing[l] \in 0 .. PingLimit
  BY DEF ReceiverState
<1>2. /\ PingLimit * SendTime \in Nat
      /\ masterPing[l] < PingLimit => Periods(l) * SendTime \in Nat
  BY <1>1, PeriodsType DEF Periods
<1> QED
  BY <1>1, <1>2, ReachType, PulsarAssumption DEF ReceiverState, TimeInv

(* Where the count has just started, there is time enough.                 *)
LEMMA JustAstray ==
  ASSUME TimeInv', ReceiverState', NEW l \in Listener, NEW m \in Node,
         astrayFor'[l] = 0
  PROVE  Followed(l, m)'
<1> DEFINE p == (PingLimit - 1 - masterPing'[l]) * SendTime
           q == PingLimit * SendTime
<1>1. /\ masterPing'[l] \in 0 .. PingLimit
      /\ masterPingTimer'[l] \in (0 .. SendTime) \cup {Idle}
      /\ sendStatusTimeout'[m] \in 0 .. SendTime
  BY DEF ReceiverState, TimeInv
<1>2. /\ q \in Nat
      /\ masterPing'[l] < PingLimit => p \in Nat
      /\ masterPing'[l] < PingLimit => p + SendTime <= q
  BY <1>1, PeriodsType
<1>3. SendTime \in Nat /\ Reach' \in Nat /\ SendTime <= Reach'
  BY ReachTypeNext
<1> HIDE DEF p, q
<1>4. /\ masterPing'[l] < PingLimit => astrayFor'[l] + masterPingTimer'[l] + p <= q
      /\ astrayFor'[l] + sendStatusTimeout'[m] <= q + Reach'
  BY <1>1, <1>2, <1>3 DEF Idle
<1> QED
  BY <1>4 DEF Followed, Periods, p, q

LEMMA TickFollowed ==
  ASSUME TypeInv, TimeInv, TimeInv', LifeInv, ReceiverState, ReceiverState',
         WatchInv, AstrayInv, receiverTick, NEW l \in Listener, NEW m \in Node
  PROVE  Followed(l, m)'
<1> USE PulsarAssumption
<1>1. /\ inbox[l] = <<>> /\ masterPingTimer[l] # 0
      /\ UNCHANGED <<iam, up, dateTime, losses, inbox, knownMaster, lastpeer,
                     masterPing, link>>
      /\ masterPingTimer'[l] = Less(masterPingTimer[l])
      /\ \A k \in Node :
           activeFor'[k] = IF k \in Active THEN More(activeFor[k]) ELSE 0
  BY DEF receiverTick, tick, budgets, pathVars
<1>2. astrayFor'[l] = IF \E k \in Node : /\ Active = {k} /\ activeFor[k] > 0
                                         /\ knownMaster[l] = dateTime[k]
                                         /\ lastpeer[l] # <<k, link[k]>>
                        THEN astrayFor[l] + 1 ELSE 0
  BY DEF receiverTick, Counted
<1>3. CASE astrayFor'[l] = 0
  BY <1>3, JustAstray
<1>4. ASSUME astrayFor'[l] # 0, Astray(l, m)'
      PROVE  Followed(l, m)'
  <2>1. PICK k \in Node : /\ Active = {k} /\ activeFor[k] > 0
                          /\ knownMaster[l] = dateTime[k]
                          /\ lastpeer[l] # <<k, link[k]>>
    BY <1>2, <1>4
  <2>2. m = k
    BY <1>1, <1>4, <2>1 DEF Astray
  <2>3. Astray(l, m) /\ m \in Awake /\ up[m] /\ dateTime[m] # NoTime
    BY <2>1, <2>2 DEF Astray, Active, Awake, LifeInv, TypeInv
  <2>4. masterPingTimer[l] # Idle
    BY <2>1, <2>2, <2>3 DEF WatchInv, Watching
  <2>5. ~ Heralded(l, m)
    BY <1>1 DEF Heralded
  <2> DEFINE p == Periods(l) * SendTime
             q == PingLimit * SendTime
  <2>6. /\ astrayFor[l] \in Nat /\ masterPing[l] \in 0 .. PingLimit
        /\ masterPingTimer[l] \in (0 .. SendTime) \cup {Idle}
        /\ sendStatusTimeout[m] \in 0 .. SendTime
        /\ SendTime \in Nat /\ Reach \in Nat
        /\ q \in Nat
        /\ masterPing[l] < PingLimit => p \in Nat
    BY AstrayTypes
  <2>7. sendStatusTimeout[m] > 0 /\ sendStatusTimeout'[m] = sendStatusTimeout[m] - 1
    <3>1. sendStatusTimeout[m] > 0 /\ sendStatusTimeout'[m] = Less(sendStatusTimeout[m])
      BY <2>3 DEF receiverTick, tick
    <3> QED
      BY <2>6, <3>1 DEF Less
  <2>8. masterPingTimer'[l] = masterPingTimer[l] - 1
    BY <1>1, <2>4, <2>6 DEF Less
  <2>9. astrayFor'[l] = astrayFor[l] + 1
    BY <1>2, <2>1
  <2>10. /\ masterPing[l] < PingLimit => astrayFor[l] + masterPingTimer[l] + p <= q
         /\ masterPing[l] = PingLimit => astrayFor[l] + sendStatusTimeout[m] <= q + Reach
    BY <2>3, <2>5 DEF AstrayInv, Followed
  <2>11. Periods(l)' = Periods(l) /\ Reach' = Reach
    BY <1>1 DEF Periods, Reach
  <2> HIDE DEF p, q
  <2>12. masterPing[l] < PingLimit => astrayFor'[l] + masterPingTimer'[l] + p <= q
    BY <2>4, <2>6, <2>8, <2>9, <2>10 DEF Idle
  <2>13. masterPing[l] = PingLimit => astrayFor'[l] + sendStatusTimeout'[m] <= q + Reach
    BY <2>6, <2>7, <2>9, <2>10
  <2> QED
    BY <1>1, <2>11, <2>12, <2>13 DEF Followed, p, q
<1> QED
  BY <1>3, <1>4 DEF Followed

(* A step of a node changes nothing but the way to the next status of m.   *)
LEMMA NodeFollowed ==
  ASSUME TypeInv, TimeInv, TimeInv', LifeInv, LifeInv', ReceiverState,
         AstrayInv, Passive = {}, NEW n \in Node, nodeStep(n),
         NEW l \in Listener, NEW m \in Node
  PROVE  Followed(l, m)'
<1> SUFFICES ASSUME Astray(l, m)' PROVE Followed(l, m)'
  BY DEF Followed
<1>0. /\ NodeStep(n) /\ l \in Host /\ inbox[l] \in Seq(Datagram)
      /\ UNCHANGED <<knownMaster, lastpeer, masterPing, masterPingTimer, link, astrayFor>>
  BY DEF nodeStep, receiverVars, pathVars, TypeInv, Host
<1>1. activeFor'[m] > 0 /\ activeFor'[m] = activeFor[m]
  <2>1. activeFor'[m] > 0
    BY DEF Astray
  <2> QED
    BY <1>0, <2>1, ActiveForStep
<1>2. iam[m] /\ iam'[m]
  BY <1>1, PulsarAssumption DEF LifeInv
<1>3. /\ dateTime'[m] = dateTime[m]
      /\ ~ (m = n /\ sendStatus(n)) => sendStatusTimeout'[m] = sendStatusTimeout[m]
  BY <1>0, <1>2, StaysActive
<1>4. Astray(l, m)
  BY <1>0, <1>1, <1>3 DEF Astray
<1>5. /\ losses' \in losses .. MaxLosses
      /\ \/ /\ inbox'[l] = inbox[l]
            /\ sendStatus(n) => losses' >= losses + 1
         \/ \E d \in Datagram :
              /\ inbox'[l] = Append(inbox[l], d)
              /\ d.from = n /\ d.time = dateTime[n]
              /\ d.status = "1" => sendStatus(n) /\ iam[n]
              /\ sendStatus(n) /\ iam[n] => d.status = "1"
  BY <1>0, ReachesListener
<1>6. /\ Reach' \in Nat /\ Reach' >= Reach
      /\ losses' >= losses + 1 => Reach' >= Reach + SendTime
  BY <1>5, ReachGrows
<1>7. Heralded(l, m) => Heralded(l, m)'
  <2>1. ASSUME NEW d \in Datagram, inbox'[l] = Append(inbox[l], d)
        PROVE  \A i \in DOMAIN inbox[l] : i \in DOMAIN inbox'[l]
                                            /\ inbox'[l][i] = inbox[l][i]
    BY <1>0, <2>1, AppendKeeps
  <2>2. \A i \in DOMAIN inbox[l] : i \in DOMAIN inbox'[l]
                                     /\ inbox'[l][i] = inbox[l][i]
    BY <1>5, <2>1
  <2> QED
    BY <1>3, <2>2 DEF Heralded
<1>8. ASSUME m = n, sendStatus(n), inbox'[l] # inbox[l]
      PROVE  Heralded(l, m)'
  <2>1. PICK d \in Datagram : /\ inbox'[l] = Append(inbox[l], d) /\ d.from = n
                              /\ d.time = dateTime[n] /\ d.status = "1"
    BY <1>2, <1>5, <1>8
  <2>2. /\ Len(inbox[l]) + 1 \in DOMAIN inbox'[l]
        /\ inbox'[l][Len(inbox[l]) + 1] = d
    BY <1>0, <2>1
  <2> QED
    BY <1>3, <1>8, <2>1, <2>2 DEF Heralded
<1> DEFINE q == PingLimit * SendTime
<1>9. /\ astrayFor[l] \in Nat /\ sendStatusTimeout[m] \in 0 .. SendTime
      /\ SendTime \in Nat /\ Reach \in Nat /\ q \in Nat
      /\ sendStatusTimeout'[m] \in 0 .. SendTime
  BY AstrayTypes DEF TimeInv
<1>10. masterPing[l] = PingLimit =>
         Heralded(l, m) \/ astrayFor[l] + sendStatusTimeout[m] <= q + Reach
  BY <1>4 DEF AstrayInv, Followed
<1> HIDE DEF q
<1>11. masterPing'[l] = PingLimit =>
         Heralded(l, m)' \/ astrayFor'[l] + sendStatusTimeout'[m] <= q + Reach'
  <2> SUFFICES ASSUME masterPing[l] = PingLimit, ~ Heralded(l, m)'
               PROVE  astrayFor[l] + sendStatusTimeout'[m] <= q + Reach'
    BY <1>0
  <2>1. astrayFor[l] + sendStatusTimeout[m] <= q + Reach
    BY <1>7, <1>10
  <2>2. CASE ~ (m = n /\ sendStatus(n))
    BY <1>3, <1>6, <1>9, <2>1, <2>2
  <2>3. CASE m = n /\ sendStatus(n)
    <3>1. losses' >= losses + 1
      BY <1>5, <1>8, <2>3
    <3>2. Reach' >= Reach + SendTime
      BY <1>6, <3>1
    <3> QED
      BY <1>6, <1>9, <2>1, <3>2
  <2> QED
    BY <2>2, <2>3
<1>12. masterPing'[l] < PingLimit =>
         astrayFor'[l] + masterPingTimer'[l] + Periods(l)' * SendTime
           <= PingLimit * SendTime
  BY <1>0, <1>4 DEF AstrayInv, Followed, Periods
<1> QED
  BY <1>11, <1>12 DEF Followed, q

(* The receiver follows m as soon as it reads a status of m and has        *)
(* waited; until then the datagrams of others leave it where it is.        *)
LEMMA ReadFollowed ==
  ASSUME IInv, DistinctTimes, ReceiverState, AstrayInv,
         NEW l \in Listener, receive(l), NEW m \in Node
  PROVE  Followed(l, m)'
<1> DEFINE d == Head(inbox[l])
           peer == <<d.from, link[d.from]>>
<1> SUFFICES ASSUME Astray(l, m)' PROVE Followed(l, m)'
  BY DEF Followed
<1>1. /\ inbox' = [inbox EXCEPT ![l] = Tail(@)]
      /\ UNCHANGED <<dateTime, activeFor, sendStatusTimeout, losses, link, astrayFor>>
      /\ \/ newMaster(l, d, peer) \/ sameAddress(l, d, peer)
         \/ otherAddress(l, d, peer) \/ statusOnly(l, d)
  BY ReadEffect DEF IInv, nodeVars, timers, budgets, pathVars
<1>2. /\ d = inbox[l][1] /\ inbox[l] \in Seq(Datagram) /\ inbox[l] # <<>>
      /\ l \in Host
  BY HeadType DEF receive, IInv, TypeInv, Host
<1>3. d.time = dateTime[m] => peer = <<m, link[m]>>
  BY <1>2, TimesName
<1> HIDE DEF d, peer
<1>4. ~ (knownMaster'[l] = d.time /\ lastpeer'[l] = peer)
  BY <1>1, <1>3 DEF Astray
<1>5. masterPing[l] \in 0 .. PingLimit /\ Reach' = Reach
  BY <1>1 DEF ReceiverState, Reach
<1>6. CASE newMaster(l, d, peer)
  BY <1>4, <1>6 DEF newMaster, ReceiverState
<1>7. CASE sameAddress(l, d, peer)
  BY <1>4, <1>7 DEF sameAddress
<1>8. CASE otherAddress(l, d, peer)
  <2>1. masterPing[l] < PingLimit
    BY <1>4, <1>5, <1>8 DEF otherAddress, ReceiverState, PingLimit
  <2>2. UNCHANGED <<knownMaster, lastpeer, masterPing, masterPingTimer>>
    BY <1>5, <1>8, <2>1 DEF otherAddress, PingLimit
  <2>3. Astray(l, m)
    BY <1>1, <2>2 DEF Astray
  <2>4. masterPing[l] # PingLimit
    BY <2>1 DEF PingLimit
  <2> QED
    BY <1>1, <2>1, <2>2, <2>3, <2>4 DEF AstrayInv, Followed, Periods
<1>9. CASE statusOnly(l, d)
  <2>1. UNCHANGED <<knownMaster, lastpeer, masterPing, masterPingTimer>>
    BY <1>9 DEF statusOnly
  <2>2. Astray(l, m)
    BY <1>1, <2>1 DEF Astray
  <2>3. ASSUME Heralded(l, m) PROVE Heralded(l, m)'
    <3>1. PICK i \in DOMAIN inbox[l] :
            /\ inbox[l][i].status = "1"
            /\ inbox[l][i].from = m /\ inbox[l][i].time = dateTime[m]
      BY <2>3 DEF Heralded
    <3>2. i # 1
      BY <1>2, <1>9, <3>1 DEF statusOnly
    <3>3. inbox'[l] = Tail(inbox[l])
      BY <1>1, <1>2 DEF IInv, TypeInv
    <3>4. i - 1 \in DOMAIN inbox'[l] /\ inbox'[l][i - 1] = inbox[l][i]
      BY <1>2, <3>2, <3>3, TailShifts
    <3> QED
      BY <1>1, <3>1, <3>4 DEF Heralded
  <2> QED
    BY <1>1, <1>5, <2>1, <2>2, <2>3 DEF AstrayInv, Followed, Periods
<1> QED
  BY <1>1, <1>6, <1>7, <1>8, <1>9

(* The timer counts a period; the last one leaves the time for a status.   *)
LEMMA PingFollowed ==
  ASSUME TimeInv, ReceiverState, AstrayInv,
         NEW l \in Listener, onMasterPingTimer(l), NEW m \in Node
  PROVE  Followed(l, m)'
<1> USE PulsarAssumption
<1> DEFINE p == PingLimit - 1 - masterPing[l]
           q == PingLimit * SendTime
<1> SUFFICES ASSUME Astray(l, m)' PROVE Followed(l, m)'
  BY DEF Followed
<1>1. /\ UNCHANGED <<inbox, dateTime, activeFor, sendStatusTimeout, losses,
                     link, astrayFor, knownMaster, lastpeer>>
      /\ masterPingTimer[l] = 0 /\ masterPingTimer'[l] = SendTime
      /\ masterPing'[l] = IF masterPing[l] < PingLimit THEN masterPing[l] + 1
                                                       ELSE masterPing[l]
  BY DEF onMasterPingTimer, pulsarVars, nodeVars, timers, budgets, pathVars,
         watchVars, ReceiverState
<1>2. Astray(l, m) /\ Reach' = Reach /\ (Heralded(l, m) => Heralded(l, m)')
  BY <1>1 DEF Astray, Reach, Heralded
<1>3. /\ astrayFor[l] \in Nat /\ masterPing[l] \in 0 .. PingLimit
      /\ sendStatusTimeout[m] \in 0 .. SendTime
      /\ SendTime \in Nat /\ Reach \in Nat /\ SendTime <= Reach
      /\ q \in Nat
      /\ masterPing[l] < PingLimit => p * SendTime \in Nat
  BY AstrayTypes DEF Periods
<1>4. CASE masterPing[l] = PingLimit
  <2>1. masterPing'[l] = PingLimit
    BY <1>1, <1>4 DEF PingLimit
  <2>2. ~ masterPing'[l] < PingLimit
    BY <2>1 DEF PingLimit
  <2> QED
    BY <1>1, <1>2, <1>4, <2>1, <2>2 DEF AstrayInv, Followed
<1>5. CASE masterPing[l] < PingLimit
  <2>1. astrayFor[l] + p * SendTime <= q
    <3>1. astrayFor[l] + 0 + p * SendTime <= q
      BY <1>1, <1>2, <1>5 DEF AstrayInv, Followed, Periods
    <3> QED
      BY <1>3, <3>1
  <2>2. masterPing'[l] = masterPing[l] + 1
    BY <1>1, <1>5
  <2>3. CASE masterPing'[l] = PingLimit
    <3>1. astrayFor[l] <= q
      <4> HIDE DEF p, q
      <4>1. p * SendTime \in Nat
        BY <1>3, <1>5
      <4> DEFINE r == p * SendTime
      <4>2. r \in Nat /\ astrayFor[l] + r <= q
        BY <2>1, <4>1
      <4> HIDE DEF r
      <4> QED
        BY <1>3, <4>2
    <3>2. astrayFor[l] + sendStatusTimeout[m] <= q + Reach
      <4> HIDE DEF q
      <4> QED
        BY <1>3, <3>1
    <3>3. ~ masterPing'[l] < PingLimit
      BY <2>3 DEF PingLimit
    <3> QED
      BY <1>1, <1>2, <3>2, <3>3 DEF Followed
  <2>4. CASE masterPing'[l] # PingLimit
    <3>1. Periods(l)' = p - 1 /\ p \in Nat /\ p - 1 \in Nat
      <4>1. masterPing[l] \in 0 .. PingLimit
        BY <1>3
      <4> QED
        BY <2>2, <1>5, <2>4, <4>1 DEF Periods, PingLimit
    <3>2. SendTime + (p - 1) * SendTime = p * SendTime
      <4> HIDE DEF p
      <4>1. \A x, s \in Nat : x - 1 \in Nat => s + (x - 1) * s = x * s
        OBVIOUS
      <4> QED
        BY <1>3, <3>1, <4>1
    <3>3. astrayFor[l] + SendTime + (p - 1) * SendTime <= q
      <4> DEFINE r == p * SendTime
                 t == (p - 1) * SendTime
      <4>1. t \in Nat
        <5> HIDE DEF p
        <5>1. \A x, s \in Nat : x * s \in Nat
          OBVIOUS
        <5> QED
          BY <1>3, <3>1, <5>1
      <4>2. SendTime + t = r /\ astrayFor[l] + r <= q
        BY <2>1, <3>2
      <4> HIDE DEF p, q, r, t
      <4>3. astrayFor[l] + SendTime + t <= q
        BY <1>3, <4>1, <4>2
      <4> QED
        BY <4>3 DEF t
    <3> QED
      BY <1>1, <2>4, <3>1, <3>3 DEF Followed
  <2> QED
    BY <2>3, <2>4
<1> QED
  BY <1>3, <1>4, <1>5 DEF PingLimit

(* A step of a receiver.                                                   *)
LEMMA ReceiverFollowed ==
  ASSUME IInv, TimeInv, LifeInv, DistinctTimes, ReceiverState, AstrayInv,
         NEW k \in Listener,
         receive(k) \/ masterLosted(k) \/ onMasterPingTimer(k),
         NEW l \in Listener, NEW m \in Node
  PROVE  Followed(l, m)'
<1>1. CASE l # k
  <2>1. /\ UNCHANGED <<dateTime, activeFor, sendStatusTimeout, losses, link, astrayFor>>
        /\ inbox'[l] = inbox[l]
        /\ knownMaster'[l] = knownMaster[l] /\ lastpeer'[l] = lastpeer[l]
        /\ masterPing'[l] = masterPing[l]
        /\ masterPingTimer'[l] = masterPingTimer[l]
    <3>1. CASE receive(k)
      <4>1. /\ UNCHANGED <<dateTime, activeFor, sendStatusTimeout, losses, link, astrayFor>>
            /\ inbox'[l] = inbox[l]
        BY <1>1, <3>1 DEF receive, nodeVars, timers, budgets, pathVars,
                          IInv, TypeInv, Host
      <4> QED
        BY <1>1, <3>1, <4>1 DEF receive, newMaster, sameAddress, otherAddress,
                                statusOnly, ReceiverState
    <3>2. CASE masterLosted(k)
      BY <1>1, <3>2 DEF masterLosted, pulsarVars, nodeVars, timers, budgets,
                        pathVars, ReceiverState
    <3>3. CASE onMasterPingTimer(k)
      BY <1>1, <3>3 DEF onMasterPingTimer, pulsarVars, nodeVars, timers, budgets,
                        pathVars, watchVars, ReceiverState
    <3> QED
      BY <3>1, <3>2, <3>3
  <2> QED
    BY <2>1 DEF AstrayInv, Followed, Astray, Heralded, Periods, Reach
<1>2. CASE l = k /\ receive(k)
  BY <1>2, ReadFollowed
<1>3. CASE l = k /\ onMasterPingTimer(k)
  BY <1>3, PingFollowed
<1>4. CASE l = k /\ masterLosted(k)
  <2>1. /\ knownMaster'[l] = NoTime /\ dateTime' = dateTime
        /\ activeFor' = activeFor
    BY <1>4 DEF masterLosted, pulsarVars, nodeVars, ReceiverState
  <2>2. ASSUME activeFor[m] > 0 PROVE dateTime[m] # NoTime
    BY <2>2, PulsarAssumption DEF LifeInv, IInv, TypeInv, TimeInv
  <2>3. ~ Astray(l, m)'
    BY <2>1, <2>2 DEF Astray
  <2> QED
    BY <2>3 DEF Followed
<1> QED
  BY <1>1, <1>2, <1>3, <1>4

LEMMA AstrayInvStep ==
  ASSUME TimesInv, TimesInv', ReceiverState, ReceiverState', WatchInv,
         AstrayInv, Passive = {}, DistinctTimes, [ReceiverNext]_vars
  PROVE  AstrayInv'
<1> SUFFICES ASSUME NEW l \in Listener, NEW m \in Node PROVE Followed(l, m)'
  BY DEF AstrayInv, Followed, Astray, Heralded, Periods, Reach
<1>0. /\ IInv /\ TypeInv /\ TimeInv /\ TimeInv' /\ LifeInv /\ LifeInv'
      /\ Followed(l, m)
  BY DEF TimesInv, IInv, AstrayInv
<1>1. CASE receiverTick
  BY <1>0, <1>1, TickFollowed
<1>2. ASSUME NEW k \in Listener,
             receive(k) \/ masterLosted(k) \/ onMasterPingTimer(k)
      PROVE  Followed(l, m)'
  BY <1>0, <1>2, ReceiverFollowed
<1>3. ASSUME NEW n \in Node, nodeStep(n) PROVE Followed(l, m)'
  BY <1>0, <1>3, NodeFollowed
<1>4. ASSUME NEW n \in Node, linkFails(n) PROVE Followed(l, m)'
  <2>1. astrayFor'[l] = 0
    BY <1>4 DEF linkFails, Zero
  <2> QED
    BY <1>0, <2>1, JustAstray
<1>5. CASE UNCHANGED vars
  BY <1>0, <1>5 DEF vars, pulsarVars, nodeVars, timers, budgets, receiverVars,
                    pathVars, watchVars, Followed, Astray, Heralded, Periods, Reach
<1> QED
  BY <1>1, <1>2, <1>3, <1>4, <1>5 DEF ReceiverNext

(* The bound is what a tick may make of the count.                         *)
LEMMA AstrayBound ==
  ASSUME TimesInv, TimesInv', ReceiverState, ReceiverState', WatchInv,
         WatchInv', AstrayInv', AddressIsFound, [ReceiverNext]_vars
  PROVE  AddressIsFound'
<1> USE PulsarAssumption
<1> DEFINE most == (PingLimit + 1 + MaxLosses) * SendTime
           q == PingLimit * SendTime
<1> SUFFICES ASSUME NEW l \in Listener PROVE astrayFor'[l] <= most
  BY DEF AddressIsFound
<1>0. /\ TypeInv /\ TimeInv /\ LifeInv /\ TypeInv' /\ TimeInv' /\ LifeInv'
  BY DEF TimesInv, IInv
<1>1. /\ most \in Nat /\ q \in Nat /\ Reach' \in Nat /\ q + Reach' <= most
  <2>1. most = PingLimit * SendTime + (MaxLosses + 1) * SendTime
    BY DEF PingLimit
  <2>2. Reach' \in Nat
    BY <1>0, ReachTypeNext
  <2>3. Reach' <= (MaxLosses + 1) * SendTime
    <3>1. losses' \in 0 .. MaxLosses
      BY <1>0 DEF TimeInv
    <3>2. \A a, b, s \in Nat : a <= b => (a + 1) * s <= (b + 1) * s
      <4> SUFFICES ASSUME NEW a \in Nat, NEW b \in Nat, NEW s \in Nat, a <= b
                   PROVE  (a + 1) * s <= (b + 1) * s
        OBVIOUS
      <4>1. PICK c \in Nat : b = a + c
        <5> WITNESS b - a \in Nat
        <5> QED
          OBVIOUS
      <4>2. (b + 1) * s = (a + 1) * s + c * s /\ c * s \in Nat /\ (a + 1) * s \in Nat
        BY <4>1
      <4> QED
        BY <4>2
    <3> QED
      <4>1. losses' \in Nat /\ losses' <= MaxLosses
        BY <3>1
      <4>2. (losses' + 1) * SendTime <= (MaxLosses + 1) * SendTime
        BY <3>2, <4>1
      <4> QED
        BY <4>2 DEF Reach
  <2>4. q \in Nat /\ (MaxLosses + 1) * SendTime \in Nat
    BY DEF PingLimit
  <2> DEFINE s == (MaxLosses + 1) * SendTime
  <2>5. most = q + s /\ q \in Nat /\ s \in Nat /\ Reach' <= s
    BY <2>1, <2>3, <2>4
  <2> HIDE DEF most, q, s
  <2>6. \A a, b, r \in Nat : r <= b => a + b \in Nat /\ a + r <= a + b
    OBVIOUS
  <2>7. q + s \in Nat /\ q + Reach' <= q + s
    BY <2>2, <2>5, <2>6
  <2>8. most = q + s
    BY <2>5
  <2> QED
    BY <2>2, <2>5, <2>7, <2>8
<1>2. astrayFor[l] <= most
  BY DEF AddressIsFound
<1> HIDE DEF most, q
<1>3. astrayFor[l] \in Nat /\ astrayFor'[l] \in Nat
  BY DEF ReceiverState
<1>9. \A a, r, b \in Nat : \A x \in Nat :
        /\ b + r <= most /\ a <= b => a <= most
        /\ b + r <= most /\ a + x <= b + r => a <= most
  BY <1>1
<1>4. CASE receiverTick
  <2>1. astrayFor' =
          Counted([h \in Listener |-> \E k \in Node :
                     /\ Active = {k} /\ activeFor[k] > 0
                     /\ knownMaster[h] = dateTime[k]
                     /\ lastpeer[h] # <<k, link[k]>>], astrayFor)
    BY <1>4 DEF receiverTick
  <2>2. CASE astrayFor'[l] = 0
    BY <1>1, <2>2
  <2>3. CASE astrayFor'[l] # 0
    <3>1. \E k \in Node : /\ Active = {k} /\ activeFor[k] > 0
                          /\ knownMaster[l] = dateTime[k]
                          /\ lastpeer[l] # <<k, link[k]>>
      BY <2>1, <2>3 DEF Counted
    <3>2. PICK m \in Node : /\ Active = {m} /\ activeFor[m] > 0
                            /\ knownMaster[l] = dateTime[m]
                            /\ lastpeer[l] # <<m, link[m]>>
      BY <3>1
    <3>3. /\ UNCHANGED <<dateTime, knownMaster, lastpeer, link>>
          /\ activeFor'[m] = More(activeFor[m]) /\ inbox'[l] = <<>>
      <4>1. inbox[l] = <<>> /\ inbox' = inbox
        BY <1>4 DEF receiverTick, tick
      <4> QED
        BY <1>4, <3>2, <4>1 DEF receiverTick, tick, pathVars
    <3>4. activeFor'[m] > 0
      BY <1>0, <3>2, <3>3 DEF More, TimeInv
    <3>5. Astray(l, m)' /\ ~ Heralded(l, m)'
      BY <3>2, <3>3, <3>4 DEF Astray, Heralded
    <3>6. /\ masterPing'[l] < PingLimit =>
               astrayFor'[l] + masterPingTimer'[l] + Periods(l)' * SendTime <= q
          /\ masterPing'[l] = PingLimit =>
               astrayFor'[l] + sendStatusTimeout'[m] <= q + Reach'
      BY <3>5 DEF AstrayInv, Followed, q
    <3>7. masterPingTimer'[l] \in Nat
      <4>1. dateTime'[m] # NoTime
        BY <1>0, <3>4 DEF LifeInv, TypeInv
      <4> QED
        BY <3>5, <4>1 DEF Astray, WatchInv, Watching, ReceiverState
    <3>8. /\ masterPing'[l] \in 0 .. PingLimit
          /\ sendStatusTimeout'[m] \in Nat
          /\ masterPing'[l] < PingLimit =>
               (PingLimit - 1 - masterPing'[l]) * SendTime \in Nat
      BY <1>0, PeriodsType DEF ReceiverState, TimeInv
    <3> DEFINE p == (PingLimit - 1 - masterPing'[l]) * SendTime
    <3>9. masterPing'[l] < PingLimit => astrayFor'[l] + masterPingTimer'[l] + p <= q
      BY <3>6 DEF Periods
    <3>10. masterPing'[l] < PingLimit => p \in Nat
      BY <3>8
    <3> HIDE DEF p
    <3>11. CASE masterPing'[l] < PingLimit
      <4>1. astrayFor'[l] + masterPingTimer'[l] + p <= q /\ p \in Nat
        BY <3>9, <3>10, <3>11
      <4>2. astrayFor'[l] <= q
        BY <1>1, <1>3, <3>7, <4>1
      <4> QED
        BY <1>1, <1>3, <1>9, <4>2
    <3>12. CASE masterPing'[l] = PingLimit
      <4>1. /\ astrayFor'[l] + sendStatusTimeout'[m] <= q + Reach'
            /\ sendStatusTimeout'[m] \in Nat
        BY <3>6, <3>8, <3>12
      <4> QED
        BY <1>1, <1>3, <1>9, <4>1
    <3> QED
      BY <3>8, <3>11, <3>12 DEF PingLimit
  <2> QED
    BY <2>2, <2>3
<1>5. CASE astrayFor' = astrayFor \/ astrayFor'[l] = 0
  BY <1>1, <1>2, <1>5
<1>6. ASSUME NEW k \in Listener,
             receive(k) \/ masterLosted(k) \/ onMasterPingTimer(k)
      PROVE  astrayFor' = astrayFor
  BY <1>6 DEF receive, masterLosted, onMasterPingTimer, watchVars
<1>7. ASSUME NEW n \in Node, linkFails(n) \/ nodeStep(n)
      PROVE  astrayFor' = astrayFor \/ astrayFor'[l] = 0
  BY <1>7 DEF linkFails, nodeStep, Zero
<1>8. UNCHANGED vars => astrayFor' = astrayFor
  BY DEF vars, watchVars
<1> QED
  BY <1>4, <1>5, <1>6, <1>7, <1>8 DEF ReceiverNext

(* A master that is heard from another address is found there after four   *)
(* periods of the receiver's timer and one status more than are lost,      *)
(* however many links fail and nodes compete (PulsReceiverPrivate.cpp,     *)
(* readyRead, onMasterPingTimer).                                          *)
THEOREM AddressIsKnown ==
  ASSUME DistinctTimes, Passive = {}
  PROVE  ReceiverSpec => []AddressIsFound
<1>1. ReceiverInit => AstrayInv /\ AddressIsFound
  <2> SUFFICES ASSUME ReceiverInit PROVE AstrayInv /\ AddressIsFound
    OBVIOUS
  <2>1. /\ \A m \in Node : activeFor[m] = 0
        /\ \A l \in Listener : astrayFor[l] = 0
    BY DEF ReceiverInit, Init
  <2>2. AstrayInv
    BY <2>1 DEF AstrayInv, Followed, Astray
  <2>3. 0 <= (PingLimit + 1 + MaxLosses) * SendTime
    <3>1. \A a, s \in Nat : 0 <= (4 + 1 + a) * s
      OBVIOUS
    <3> QED
      BY <3>1, PulsarAssumption DEF PingLimit
  <2>4. AddressIsFound
    BY <2>1, <2>3 DEF AddressIsFound
  <2> QED
    BY <2>2, <2>4
<1>2. /\ ReceiverInv /\ ReceiverInv' /\ AstrayInv /\ AddressIsFound
      /\ [ReceiverNext]_vars
      => AstrayInv' /\ AddressIsFound'
  <2> SUFFICES ASSUME ReceiverInv, ReceiverInv', AstrayInv, AddressIsFound,
                      [ReceiverNext]_vars
               PROVE  AstrayInv' /\ AddressIsFound'
    OBVIOUS
  <2>1. /\ TimesInv /\ TimesInv' /\ ReceiverState /\ ReceiverState'
        /\ WatchInv /\ WatchInv'
    BY DEF ReceiverInv
  <2>2. AstrayInv'
    BY <2>1, AstrayInvStep
  <2> QED
    BY <2>1, <2>2, AstrayBound
<1> QED
  BY <1>1, <1>2, ReceiverInvHolds, PTL DEF ReceiverSpec

----------------------------------------------------------------------------
(* A silent master is replaced.                                            *)

(* The ticks a receiver may show a master that it does not hear.           *)
Patience == 2 * ReceiveTime + Reach

(* A status of an active node is on its way to l.                          *)
News(l) == \E i \in DOMAIN inbox[l] : inbox[l][i].status = "1"

(* No node is awake: nothing keeps masterLost of l from firing.            *)
Deserted(l) ==
  Awake = {} => inbox[l] = <<>> /\ silentFor[l] + masterLost[l] <= ReceiveTime

(* None is active: the silence is that of the vacancy, and before it that  *)
(* of a group without a node awake.                                        *)
Orphaned(l) ==
  Active = {} /\ Awake # {} => silentFor[l] <= ReceiveTime + vacantFor

(* One is active: it has said so, or will in time.                         *)
Told(l) ==
  Active # {} =>
    \/ News(l)
    \/ \E m \in Active : silentFor[l] + sendStatusTimeout[m] <= Patience

(* What a node may yield to is from an active node that started no later,  *)
(* or from one that yielded to such a node, and it leaves that one time.   *)
Vouched(l, d) ==
  d.status = "1" =>
    /\ \E s \in Active : dateTime[s] <= d.time
    /\ News(l) \/ silentFor[l] + SendTime <= Patience

Silenced(l) ==
  silentFor[l] > 0 =>
    /\ Deserted(l) /\ Orphaned(l) /\ Told(l)
    /\ \A n \in Node : \A i \in DOMAIN inbox[n] :
         i > backlog[n] => Vouched(l, inbox[n][i])
    /\ \A m \in Active : backlog[m] = 0

SilentInv == \A l \in Listener : Silenced(l)

LEMMA PatienceType ==
  ASSUME TimeInv
  PROVE  /\ Patience \in Nat /\ SendTime \in Nat /\ ReceiveTime \in Nat
         /\ 2 * ReceiveTime + SendTime <= Patience
<1>1. Reach \in Nat /\ SendTime <= Reach /\ ReceiveTime \in Nat /\ SendTime \in Nat
  BY ReachType, PulsarAssumption
<1>2. \A t, s, r \in Nat : s <= r => 2 * t + r \in Nat /\ 2 * t + s <= 2 * t + r
  OBVIOUS
<1> QED
  BY <1>1, <1>2 DEF Patience

LEMMA PatienceGrows ==
  ASSUME TimeInv, losses' \in losses .. MaxLosses
  PROVE  /\ Patience' \in Nat /\ Patience' >= Patience
         /\ losses' >= losses + 1 => Patience' >= Patience + SendTime
<1>1. /\ Reach' \in Nat /\ Reach' >= Reach
      /\ losses' >= losses + 1 => Reach' >= Reach + SendTime
  BY ReachGrows
<1>2. Reach \in Nat /\ ReceiveTime \in Nat /\ SendTime \in Nat
  BY ReachType, PulsarAssumption
<1>3. \A t, s, r, g \in Nat :
        g >= r => /\ 2 * t + g \in Nat /\ 2 * t + g >= 2 * t + r
                  /\ g >= r + s => 2 * t + g >= 2 * t + r + s
  OBVIOUS
<1> QED
  BY <1>1, <1>2, <1>3 DEF Patience

LEMMA SilentTypes ==
  ASSUME TimeInv, LifeInv, ReceiverState, WatchInv, NEW l \in Listener
  PROVE  /\ silentFor[l] \in Nat /\ vacantFor \in Nat
         /\ \A n \in Node : /\ sendStatusTimeout[n] \in 0 .. SendTime
                            /\ backlog[n] \in Nat
         /\ silentFor[l] > 0 => masterLost[l] \in 0 .. ReceiveTime
         /\ Active \subseteq Awake /\ Awake \subseteq Node
BY PulsarAssumption DEF TimeInv, LifeInv, ReceiverState, WatchInv, Watching,
                        Active, Awake

(* Time passes: the silence grows with what bounds it.                     *)
LEMMA TickSilent ==
  ASSUME TypeInv, TimeInv, TimeInv', LifeInv, ReceiverState, ReceiverState',
         WatchInv, SilentInv, receiverTick, NEW l \in Listener
  PROVE  Silenced(l)'
<1> USE PulsarAssumption
<1> SUFFICES ASSUME silentFor'[l] > 0
             PROVE  /\ Deserted(l)' /\ Orphaned(l)' /\ Told(l)'
                    /\ \A n \in Node : \A i \in DOMAIN inbox'[n] :
                         i > backlog'[n] => Vouched(l, inbox[n][i])'
                    /\ \A m \in Active' : backlog'[m] = 0
  BY DEF Silenced
<1>0. /\ inbox[l] = <<>> /\ masterLost[l] # 0
      /\ UNCHANGED <<iam, up, dateTime, losses, inbox, lastpeer>>
      /\ \A n \in Node : /\ backlog'[n] = Len(inbox[n])
                         /\ asleep'[n] = Less(asleep[n])
      /\ vacantFor' = IF Active = {} /\ Awake # {} THEN vacantFor + 1 ELSE 0
      /\ masterLost'[l] = Less(masterLost[l])
      /\ silentFor'[l] = IF lastpeer[l] # NoPeer THEN silentFor[l] + 1 ELSE 0
  BY DEF receiverTick, tick, budgets, Counted
<1>1. /\ silentFor[l] \in Nat /\ vacantFor \in Nat
      /\ \A n \in Node : sendStatusTimeout[n] \in 0 .. SendTime
      /\ Active \subseteq Awake /\ Awake \subseteq Node
  BY SilentTypes
<1>2. silentFor'[l] = silentFor[l] + 1 /\ lastpeer[l] # NoPeer
  BY <1>0
<1>3. masterLost[l] \in 1 .. ReceiveTime /\ masterLost'[l] = masterLost[l] - 1
  <2>1. masterLost[l] # Idle
    BY <1>2 DEF WatchInv, Watching
  <2>2. masterLost[l] \in 1 .. ReceiveTime
    BY <1>0, <2>1 DEF ReceiverState
  <2> QED
    BY <1>0, <2>2 DEF Less
<1>4. Active' = Active /\ \A n \in Awake : n \in Awake'
  <2>1. Active' = Active
    BY <1>0 DEF Active
  <2>2. \A n \in Awake : n \in Awake'
    BY <1>0 DEF Awake, Less
  <2> QED
    BY <2>1, <2>2
<1>5. silentFor[l] > 0 => Deserted(l) /\ Orphaned(l) /\ Told(l)
  BY DEF SilentInv, Silenced
<1>6. Patience' = Patience /\ Patience \in Nat /\ SendTime <= Patience
  <2>1. Patience' = Patience
    BY <1>0 DEF Patience, Reach
  <2>2. \A t, s, r \in Nat : 2 * t + s <= r => s <= r
    OBVIOUS
  <2> QED
    BY <2>1, <2>2, PatienceType
<1>7. Awake = {} => silentFor[l] + masterLost[l] <= ReceiveTime
  BY <1>1, <1>3, <1>5 DEF Deserted
<1>8. Deserted(l)'
  BY <1>0, <1>1, <1>2, <1>3, <1>4, <1>7 DEF Deserted
<1>9. Orphaned(l)'
  <2> SUFFICES ASSUME Active = {} PROVE silentFor'[l] <= ReceiveTime + vacantFor'
    BY <1>4 DEF Orphaned
  <2>1. CASE Awake = {}
    BY <1>0, <1>1, <1>2, <1>3, <1>7, <2>1
  <2>2. CASE Awake # {}
    <3>1. silentFor[l] <= ReceiveTime + vacantFor
      BY <1>1, <1>5, <2>2 DEF Orphaned
    <3> QED
      BY <1>0, <1>1, <1>2, <2>2, <3>1
  <2> QED
    BY <2>1, <2>2
<1>10. Told(l)'
  <2> SUFFICES ASSUME Active # {}
               PROVE  \E m \in Active : silentFor'[l] + sendStatusTimeout'[m] <= Patience
    BY <1>4, <1>6 DEF Told
  <2>1. \A m \in Active : /\ sendStatusTimeout[m] \in 1 .. SendTime
                          /\ sendStatusTimeout'[m] = sendStatusTimeout[m] - 1
    <3> SUFFICES ASSUME NEW m \in Active
                 PROVE  /\ sendStatusTimeout[m] \in 1 .. SendTime
                        /\ sendStatusTimeout'[m] = sendStatusTimeout[m] - 1
      OBVIOUS
    <3>1. m \in Awake /\ up[m] /\ m \in Node
      BY <1>1 DEF Active
    <3>2. sendStatusTimeout[m] > 0 /\ sendStatusTimeout'[m] = Less(sendStatusTimeout[m])
      BY <3>1 DEF receiverTick, tick
    <3> QED
      BY <1>1, <3>1, <3>2 DEF Less
  <2>2. \E m \in Active : silentFor[l] + sendStatusTimeout[m] <= Patience
    <3>1. CASE silentFor[l] > 0
      BY <1>0, <1>5, <3>1 DEF Told, News
    <3>2. CASE ~ (silentFor[l] > 0)
      <4>1. PICK m \in Active : TRUE
        OBVIOUS
      <4>2. silentFor[l] = 0 /\ sendStatusTimeout[m] \in 1 .. SendTime
        BY <1>1, <2>1, <3>2
      <4>3. \A x \in 1 .. SendTime : \A p \in Nat : SendTime <= p => 0 + x <= p
        OBVIOUS
      <4> QED
        BY <1>6, <4>2, <4>3
    <3> QED
      BY <3>1, <3>2
  <2>3. PICK m \in Active : silentFor[l] + sendStatusTimeout[m] <= Patience
    BY <2>2
  <2>4. silentFor'[l] + sendStatusTimeout'[m] <= Patience
    <3>1. \A a \in Nat : \A x \in 1 .. SendTime : (a + 1) + (x - 1) = a + x
      OBVIOUS
    <3> QED
      BY <1>1, <1>2, <2>1, <2>3, <3>1
  <2> QED
    BY <2>4
<1>11. \A n \in Node : \A i \in DOMAIN inbox'[n] : ~ (i > backlog'[n])
  <2> SUFFICES ASSUME NEW n \in Node, NEW i \in DOMAIN inbox'[n]
               PROVE  ~ (i > backlog'[n])
    OBVIOUS
  <2>1. inbox[n] \in Seq(Datagram)
    BY DEF TypeInv, Host
  <2> QED
    BY <1>0, <2>1
<1>12. \A m \in Active' : backlog'[m] = 0
  <2> SUFFICES ASSUME NEW m \in Active PROVE backlog'[m] = 0
    BY <1>4
  <2>1. m \in Awake /\ m \in Node
    BY <1>1
  <2>2. inbox[m] = <<>>
    BY <2>1 DEF receiverTick, tick
  <2> QED
    BY <1>0, <2>1, <2>2
<1> QED
  BY <1>8, <1>9, <1>10, <1>11, <1>12

(* A step of a receiver: a status ends its own silence, and nothing that   *)
(* the others' rests on changes.                                           *)
LEMMA ReceiverSilent ==
  ASSUME TypeInv, ReceiverState, SilentInv, NEW k \in Listener,
         receive(k) \/ masterLosted(k) \/ onMasterPingTimer(k),
         NEW l \in Listener
  PROVE  Silenced(l)'
<1> SUFFICES ASSUME silentFor'[l] > 0 PROVE Silenced(l)'
  BY DEF Silenced
<1>0. /\ UNCHANGED <<up, iam, asleep, dateTime, sendStatusTimeout, backlog,
                     vacantFor, losses>>
      /\ \A n \in Node : inbox'[n] = inbox[n]
  <2>1. CASE receive(k)
    <3>1. \A n \in Node : n # k
      BY PulsarAssumption
    <3> QED
      BY <2>1, <3>1 DEF receive, nodeVars, timers, budgets, TypeInv, Host
  <2>2. CASE masterLosted(k) \/ onMasterPingTimer(k)
    BY <2>2 DEF masterLosted, onMasterPingTimer, pulsarVars, nodeVars, timers, budgets
  <2> QED
    BY <2>1, <2>2
<1>1. Active' = Active /\ Awake' = Awake /\ Patience' = Patience
  BY <1>0 DEF Active, Awake, Patience, Reach
<1>2. /\ silentFor'[l] = silentFor[l]
      /\ News(l) => News(l)'
      /\ inbox[l] = <<>> => inbox'[l] = <<>> /\ masterLost'[l] = masterLost[l]
  <2>1. CASE receive(k) /\ k = l
    <3> DEFINE d == Head(inbox[l])
    <3>1. /\ inbox[l] # <<>> /\ inbox'[l] = Tail(inbox[l])
          /\ silentFor'[l] = IF d.status = "1" THEN 0 ELSE silentFor[l]
          /\ inbox[l] \in Seq(Datagram) /\ d = inbox[l][1]
      BY <2>1 DEF receive, TypeInv, Host, ReceiverState
    <3> HIDE DEF d
    <3>2. d.status # "1" /\ silentFor'[l] = silentFor[l]
      BY <3>1
    <3>3. ASSUME NEW i \in DOMAIN inbox[l], inbox[l][i].status = "1"
          PROVE  News(l)'
      <4>1. i # 1
        BY <3>1, <3>2, <3>3
      <4>2. i - 1 \in DOMAIN inbox'[l] /\ inbox'[l][i - 1] = inbox[l][i]
        BY <3>1, <4>1, TailShifts
      <4> QED
        BY <3>3, <4>2 DEF News
    <3> QED
      BY <3>1, <3>2, <3>3 DEF News
  <2>2. CASE receive(k) /\ k # l
    <3>1. /\ inbox'[l] = inbox[l] /\ silentFor'[l] = silentFor[l]
          /\ masterLost'[l] = masterLost[l]
      BY <2>2 DEF receive, TypeInv, Host, ReceiverState
    <3> QED
      BY <3>1 DEF News
  <2>3. CASE masterLosted(k)
    <3>1. /\ inbox' = inbox /\ k # l
          /\ silentFor'[l] = silentFor[l] /\ masterLost'[l] = masterLost[l]
      BY <2>3 DEF masterLosted, pulsarVars, ReceiverState
    <3> QED
      BY <3>1 DEF News
  <2>4. CASE onMasterPingTimer(k)
    <3>1. inbox' = inbox /\ silentFor' = silentFor /\ masterLost' = masterLost
      BY <2>4 DEF onMasterPingTimer, pulsarVars, watchVars
    <3> QED
      BY <3>1 DEF News
  <2> QED
    BY <2>1, <2>2, <2>3, <2>4
<1>3. Silenced(l)
  BY DEF SilentInv
<1> QED
  BY <1>0, <1>1, <1>2, <1>3 DEF Silenced, Deserted, Orphaned, Told, Vouched

(* A node that starts is awake: the silence so far is that of a group      *)
(* without one.                                                            *)
LEMMA StartSilent ==
  ASSUME TypeInv, TimeInv, LifeInv, ReceiverState, WatchInv,
         NEW l \in Listener, Silenced(l), silentFor[l] > 0,
         silentFor'[l] = silentFor[l], NEW n \in Node, start(n)
  PROVE  Silenced(l)'
<1>1. /\ UNCHANGED <<inbox, backlog, vacantFor, losses>>
      /\ ~ up[n] /\ up'[n] /\ ~ iam'[n] /\ asleep'[n] = 0
      /\ \A k \in Node \ {n} : /\ up'[k] = up[k] /\ iam'[k] = iam[k]
                               /\ asleep'[k] = asleep[k]
                               /\ dateTime'[k] = dateTime[k]
                               /\ sendStatusTimeout'[k] = sendStatusTimeout[k]
  <2>1. NodeStep(n)
    BY DEF NodeStep
  <2> QED
    BY <2>1, StepOfOther DEF start, budgets, TypeInv, TimeInv
<1>2. Active' = Active /\ n \notin Active /\ Awake' # {}
  BY <1>1 DEF Active, Awake
<1>3. /\ silentFor[l] \in Nat /\ vacantFor \in Nat /\ ReceiveTime \in Nat
      /\ masterLost[l] \in Nat
  BY SilentTypes, PulsarAssumption
<1>4. Active = {} => silentFor[l] <= ReceiveTime + vacantFor
  <2>1. CASE Awake = {}
    BY <1>3, <2>1 DEF Silenced, Deserted
  <2>2. CASE Awake # {}
    BY <2>2 DEF Silenced, Orphaned
  <2> QED
    BY <2>1, <2>2
<1>5. Deserted(l)' /\ Orphaned(l)'
  BY <1>1, <1>2, <1>4 DEF Deserted, Orphaned
<1>6. \A m \in Active : /\ sendStatusTimeout'[m] = sendStatusTimeout[m]
                        /\ dateTime'[m] = dateTime[m]
  BY <1>1, <1>2 DEF Active
<1>7. Patience' = Patience
  BY <1>1 DEF Patience, Reach
<1>8. Told(l)'
  BY <1>1, <1>2, <1>6, <1>7 DEF Silenced, Told, News
<1>9. \A k \in Node : \A i \in DOMAIN inbox'[k] :
        i > backlog'[k] => Vouched(l, inbox[k][i])'
  BY <1>1, <1>2, <1>6, <1>7 DEF Silenced, Vouched, News
<1>10. \A m \in Active' : backlog'[m] = 0
  BY <1>1, <1>2 DEF Silenced
<1> QED
  BY <1>5, <1>8, <1>9, <1>10 DEF Silenced

(* One that becomes active will say so in time.                            *)
LEMMA MasterSilent ==
  ASSUME TypeInv, TimeInv, LifeInv, ReceiverState, WatchInv, VacancyEnds,
         NEW l \in Listener, Silenced(l), silentFor[l] > 0,
         silentFor'[l] = silentFor[l], NEW n \in Node, becomeMaster(n)
  PROVE  Silenced(l)'
<1>1. /\ UNCHANGED <<up, dateTime, sendStatusTimeout, asleep, inbox, backlog,
                     vacantFor, losses>>
      /\ up[n] /\ n \in Awake /\ backlog[n] = 0 /\ iam'[n]
      /\ \A k \in Node \ {n} : iam'[k] = iam[k]
  BY DEF becomeMaster, ServesTimers, Awake, budgets, TypeInv
<1>2. /\ Awake' = Awake /\ Patience' = Patience /\ Active' = Active \cup {n}
  BY <1>1 DEF Active, Awake, Patience, Reach
<1>3. Told(l)'
  <2>1. CASE Active # {}
    BY <1>1, <1>2, <2>1 DEF Silenced, Told, News
  <2>2. CASE Active = {}
    <3>1. silentFor[l] <= ReceiveTime + vacantFor
      BY <1>1, <2>2 DEF Silenced, Orphaned
    <3>2. vacantFor <= ReceiveTime
      BY DEF VacancyEnds
    <3>3. /\ silentFor[l] \in Nat /\ vacantFor \in Nat
          /\ sendStatusTimeout[n] \in 0 .. SendTime
          /\ Patience \in Nat /\ SendTime \in Nat /\ ReceiveTime \in Nat
          /\ 2 * ReceiveTime + SendTime <= Patience
      BY SilentTypes, PatienceType
    <3>4. silentFor[l] + sendStatusTimeout[n] <= Patience
      BY <3>1, <3>2, <3>3
    <3> QED
      BY <1>1, <1>2, <3>4 DEF Told
  <2> QED
    BY <2>1, <2>2
<1>4. \A k \in Node : \A i \in DOMAIN inbox'[k] :
        i > backlog'[k] => Vouched(l, inbox[k][i])'
  BY <1>1, <1>2 DEF Silenced, Vouched, News
<1>5. \A m \in Active' : backlog'[m] = 0
  BY <1>1, <1>2 DEF Silenced
<1> QED
  BY <1>1, <1>2, <1>3, <1>4, <1>5 DEF Silenced, Deserted, Orphaned

(* A status reaches l, or it is lost and the next one is awaited.          *)
LEMMA StatusSilent ==
  ASSUME TypeInv, TimeInv, TimeInv', LifeInv, ReceiverState, WatchInv,
         Passive = {}, NEW l \in Listener, Silenced(l), silentFor[l] > 0,
         silentFor'[l] = silentFor[l], NEW n \in Node, sendStatus(n)
  PROVE  Silenced(l)'
<1>0. NodeStep(n) /\ l \in Host /\ inbox[l] \in Seq(Datagram)
  BY DEF NodeStep, TypeInv, Host
<1>1. /\ UNCHANGED <<up, iam, dateTime, asleep, backlog, vacantFor>>
      /\ n \in Awake /\ up[n] /\ sendStatusTimeout'[n] = SendTime
      /\ \A k \in Node \ {n} : sendStatusTimeout'[k] = sendStatusTimeout[k]
  BY DEF sendStatus, ServesTimers, Awake, TimeInv
<1>2. Active' = Active /\ Awake' = Awake
  BY <1>1 DEF Active, Awake
<1>3. /\ losses' \in losses .. MaxLosses
      /\ \/ inbox'[l] = inbox[l] /\ losses' >= losses + 1
         \/ \E d \in Datagram : /\ inbox'[l] = Append(inbox[l], d)
                                /\ iam[n] => d.status = "1"
  BY <1>0, ReachesListener
<1>4. /\ Patience' \in Nat /\ Patience' >= Patience
      /\ losses' >= losses + 1 => Patience' >= Patience + SendTime
  BY <1>3, PatienceGrows
<1>5. /\ silentFor[l] \in Nat /\ Patience \in Nat /\ SendTime \in Nat
      /\ \A k \in Node : sendStatusTimeout[k] \in 0 .. SendTime
  BY SilentTypes, PatienceType
<1>6. News(l) => News(l)'
  <2> SUFFICES ASSUME NEW i \in DOMAIN inbox[l], inbox[l][i].status = "1"
               PROVE  News(l)'
    BY DEF News
  <2>1. i \in DOMAIN inbox'[l] /\ inbox'[l][i] = inbox[l][i]
    BY <1>0, <1>3, AppendKeeps
  <2> QED
    BY <2>1 DEF News
<1>7. iam[n] => News(l)' \/ Patience' >= Patience + SendTime
  <2>1. ASSUME NEW d \in Datagram, inbox'[l] = Append(inbox[l], d), d.status = "1"
        PROVE  News(l)'
    <3>1. Len(inbox[l]) + 1 \in DOMAIN inbox'[l] /\ inbox'[l][Len(inbox[l]) + 1] = d
      BY <1>0, <2>1
    <3> QED
      BY <2>1, <3>1 DEF News
  <2> QED
    BY <1>3, <1>4, <2>1
<1>8. iam[n] => n \in Active
  BY <1>1 DEF Active
<1>9. \A a \in Nat : a <= Patience => a <= Patience'
  BY <1>4, <1>5
<1>10. \A a \in Nat : Patience' >= Patience + SendTime /\ a <= Patience
         => a + SendTime <= Patience'
  BY <1>4, <1>5
<1>11. Told(l)'
  <2> SUFFICES ASSUME Active # {}, ~ News(l)'
               PROVE  \E m \in Active : silentFor[l] + sendStatusTimeout'[m] <= Patience'
    BY <1>2 DEF Told
  <2>1. PICK m \in Active : silentFor[l] + sendStatusTimeout[m] <= Patience
    BY <1>6 DEF Silenced, Told
  <2>2. m \in Node /\ iam[m] /\ silentFor[l] + sendStatusTimeout[m] \in Nat
        /\ silentFor[l] <= Patience
    <3>1. m \in Node /\ iam[m]
      BY DEF Active
    <3>2. \A x \in 0 .. SendTime : silentFor[l] + x \in Nat
                                     /\ (silentFor[l] + x <= Patience => silentFor[l] <= Patience)
      BY <1>5
    <3> QED
      BY <1>5, <2>1, <3>1, <3>2
  <2>3. CASE m # n
    <3>1. silentFor[l] + sendStatusTimeout'[m] <= Patience'
      BY <1>1, <1>9, <2>1, <2>2, <2>3
    <3> QED
      BY <3>1
  <2>4. CASE m = n
    <3>1. silentFor[l] + SendTime <= Patience'
      BY <1>5, <1>7, <1>10, <2>2, <2>4
    <3> QED
      BY <1>1, <2>4, <3>1
  <2> QED
    BY <2>3, <2>4
<1>12. ASSUME News(l) \/ silentFor[l] + SendTime <= Patience
       PROVE  News(l)' \/ silentFor[l] + SendTime <= Patience'
  BY <1>5, <1>6, <1>9, <1>12
<1>13. iam[n] => News(l)' \/ silentFor[l] + SendTime <= Patience'
  <2> SUFFICES ASSUME iam[n], ~ News(l)' PROVE silentFor[l] + SendTime <= Patience'
    OBVIOUS
  <2>1. PICK m \in Active : silentFor[l] + sendStatusTimeout[m] <= Patience
    BY <1>6, <1>8 DEF Silenced, Told
  <2>2. silentFor[l] <= Patience
    <3>1. \A x \in 0 .. SendTime : silentFor[l] + x <= Patience => silentFor[l] <= Patience
      BY <1>5
    <3>2. m \in Node
      BY DEF Active
    <3> QED
      BY <1>5, <2>1, <3>1, <3>2
  <2> QED
    BY <1>5, <1>7, <1>10, <2>2
<1>14. PICK d \in Datagram, lost \in SUBSET Host :
         /\ broadcast(d, lost)
         /\ d.time = dateTime[n] /\ dateTime[n] \in Time
         /\ d.status = Status(n)
  BY SendsBroadcast
<1>15. d.status = "1" => iam[n]
  BY <1>14 DEF Status
<1>16. ASSUME NEW k \in Node, NEW i \in DOMAIN inbox'[k], i > backlog'[k]
       PROVE  Vouched(l, inbox[k][i])'
  <2>1. CASE i \in DOMAIN inbox[k] /\ inbox'[k][i] = inbox[k][i]
    <3>1. Vouched(l, inbox[k][i])
      BY <1>1, <1>16, <2>1 DEF Silenced
    <3> QED
      BY <1>1, <1>2, <1>12, <2>1, <3>1 DEF Vouched
  <2>2. CASE inbox'[k][i] = d
    <3>1. dateTime[n] <= d.time
      BY <1>14, PulsarAssumption
    <3> QED
      BY <1>1, <1>2, <1>8, <1>13, <1>15, <2>2, <3>1 DEF Vouched
  <2> QED
    BY <1>14, <2>1, <2>2, BroadcastKeeps
<1>17. \A m \in Active' : backlog'[m] = 0
  BY <1>1, <1>2 DEF Silenced
<1> QED
  BY <1>1, <1>2, <1>11, <1>16, <1>17 DEF Silenced, Deserted, Orphaned

(* A node that yields leaves an active one behind, which has time enough.  *)
LEMMA ReadSilent ==
  ASSUME IInv, TimeInv, LifeInv, ReceiverState, WatchInv, DistinctTimes,
         NEW l \in Listener, Silenced(l), silentFor[l] > 0,
         silentFor'[l] = silentFor[l],
         NEW n \in Node, readyRead(n), Head(inbox[n]).status # "2"
  PROVE  Silenced(l)'
<1> DEFINE d == Head(inbox[n])
<1>0. TypeInv
  BY DEF IInv
<1>1. yield(n, d) \/ stayMaster(n, d) \/ follow(n, d)
  BY DEF readyRead, giveWay, takeOver, waitForOther
<1>2. /\ n \in Host /\ inbox[n] \in Seq(Datagram) /\ inbox[n] # <<>>
      /\ inbox'[n] = Tail(inbox[n]) /\ backlog'[n] = Less(backlog[n])
      /\ \A k \in Node \ {n} : inbox'[k] = inbox[k] /\ backlog'[k] = backlog[k]
      /\ UNCHANGED <<dateTime, up, sendStatusTimeout, losses>>
      /\ up[n] /\ n \in Awake
  BY DEF readyRead, budgets, IInv, TypeInv, TimeInv, Host, Awake
<1>3. d = inbox[n][1] /\ 1 \in DOMAIN inbox[n] /\ d \in Datagram
  BY <1>2, TailShifts
<1>4. backlog[n] \in Nat /\ inbox'[l] = inbox[l]
  <2>1. l # n
    BY PulsarAssumption
  <2> QED
    BY <1>0, <2>1 DEF readyRead, TimeInv, TypeInv, Host
<1>5. asleep' = asleep /\ vacantFor' = vacantFor
  BY <1>1 DEF yield, stayMaster, follow
<1> HIDE DEF d
<1>6. \A k \in Node : \A i \in DOMAIN inbox'[k] :
        \E j \in DOMAIN inbox[k] : /\ inbox'[k][i] = inbox[k][j]
                                   /\ i > backlog'[k] => j > backlog[k]
  <2> SUFFICES ASSUME NEW k \in Node, NEW i \in DOMAIN inbox'[k]
               PROVE  \E j \in DOMAIN inbox[k] :
                        /\ inbox'[k][i] = inbox[k][j]
                        /\ i > backlog'[k] => j > backlog[k]
    OBVIOUS
  <2>1. CASE k # n
    BY <1>2, <2>1
  <2>2. CASE k = n
    <3>0. i \in DOMAIN Tail(inbox[n]) /\ inbox'[n][i] = Tail(inbox[n])[i]
      BY <1>2, <2>2
    <3>1. i + 1 \in DOMAIN inbox[n] /\ inbox'[n][i] = inbox[n][i + 1]
      BY <1>2, <3>0, TailShifts
    <3>2. i \in Nat
      BY <1>2, <3>0, TailShifts
    <3>3. i > backlog'[n] => i + 1 > backlog[n]
      BY <1>2, <1>4, <3>2 DEF Less
    <3> QED
      BY <2>2, <3>1, <3>3
  <2> QED
    BY <2>1, <2>2
<1>7. Awake' = Awake /\ Patience' = Patience /\ News(l)' = News(l)
  BY <1>2, <1>4, <1>5 DEF Awake, Patience, Reach, News
<1>8. Deserted(l)'
  BY <1>2, <1>7 DEF Deserted
<1>9. \A k \in Node : \A i \in DOMAIN inbox'[k] :
        i > backlog'[k] => Vouched(l, inbox'[k][i])
  <2> SUFFICES ASSUME NEW k \in Node, NEW i \in DOMAIN inbox'[k], i > backlog'[k]
               PROVE  Vouched(l, inbox'[k][i])
    OBVIOUS
  <2>1. PICK j \in DOMAIN inbox[k] :
          inbox'[k][i] = inbox[k][j] /\ j > backlog[k]
    BY <1>6
  <2>2. Vouched(l, inbox[k][j])
    BY <2>1 DEF Silenced
  <2> QED
    BY <2>1, <2>2
<1>10. CASE iam' = iam
  <2>1. Active' = Active
    BY <1>2, <1>10 DEF Active
  <2>2. Told(l)'
    BY <1>2, <1>7, <2>1 DEF Silenced, Told
  <2>3. Orphaned(l)'
    BY <1>5, <1>7, <2>1 DEF Silenced, Orphaned
  <2>4. \A k \in Node : \A i \in DOMAIN inbox'[k] :
          i > backlog'[k] => Vouched(l, inbox[k][i])'
    BY <1>2, <1>7, <1>9, <2>1 DEF Vouched
  <2>5. \A m \in Active' : backlog'[m] = 0
    <3> SUFFICES ASSUME NEW m \in Active PROVE backlog'[m] = 0
      BY <2>1
    <3>1. backlog[m] = 0 /\ m \in Node
      BY DEF Silenced, Active
    <3> QED
      BY <1>2, <3>1 DEF Less
  <2> QED
    BY <1>8, <2>2, <2>3, <2>4, <2>5 DEF Silenced
<1>11. CASE yield(n, d)
  <2>1. /\ iam[n] /\ ~ iam'[n] /\ d.status = "1" /\ d.from # n
        /\ d.time <= dateTime[n]
        /\ \A k \in Node \ {n} : iam'[k] = iam[k]
    BY <1>0, <1>11 DEF yield, Outranks, TypeInv
  <2>2. n \in Active /\ Active' = Active \ {n}
    BY <1>2, <2>1 DEF Active
  <2>3. Vouched(l, d)
    <3>1. backlog[n] = 0
      BY <2>2 DEF Silenced
    <3> QED
      BY <1>3, <3>1 DEF Silenced
  <2>4. PICK s \in Active : dateTime[s] <= d.time
    BY <2>1, <2>3 DEF Vouched
  <2>5. d.time # dateTime[n]
    <3>1. d \in InFlight
      BY <1>2, <1>3, InFlightDef
    <3> QED
      BY <2>1, <3>1 DEF IInv, YieldInv, TimesDiffer
  <2>6. d.time \in Nat /\ \A k \in Active : dateTime[k] \in Nat
    <3>1. d.time \in Time
      BY <1>3 DEF Datagram
    <3>2. \A k \in Active : dateTime[k] \in Time
      BY <1>0 DEF Active, TypeInv
    <3> QED
      BY <3>1, <3>2, PulsarAssumption
  <2>7. dateTime[s] < dateTime[n] /\ s \in Active' /\ s \in Node
    <3>1. dateTime[s] < dateTime[n]
      BY <2>1, <2>2, <2>4, <2>5, <2>6
    <3>2. s # n
      BY <2>6, <3>1
    <3> QED
      BY <2>2, <3>1, <3>2 DEF Active
  <2>8. Told(l)'
    <3>1. News(l) \/ silentFor[l] + SendTime <= Patience
      BY <2>1, <2>3 DEF Vouched
    <3>2. ASSUME silentFor[l] + SendTime <= Patience
          PROVE  silentFor[l] + sendStatusTimeout[s] <= Patience
      <4>1. /\ silentFor[l] \in Nat /\ Patience \in Nat /\ SendTime \in Nat
            /\ sendStatusTimeout[s] \in 0 .. SendTime
        BY <1>0, <2>7, SilentTypes, PatienceType
      <4> QED
        BY <3>2, <4>1
    <3> QED
      BY <1>2, <1>7, <2>7, <3>1, <3>2 DEF Told
  <2>9. Orphaned(l)'
    BY <2>7 DEF Orphaned
  <2>10. \A k \in Node : \A i \in DOMAIN inbox'[k] :
           i > backlog'[k] => Vouched(l, inbox[k][i])'
    <3> SUFFICES ASSUME NEW k \in Node, NEW i \in DOMAIN inbox'[k], i > backlog'[k],
                        inbox'[k][i].status = "1"
                 PROVE  /\ \E e \in Active' : dateTime'[e] <= inbox'[k][i].time
                        /\ News(l)' \/ silentFor'[l] + SendTime <= Patience'
      BY DEF Vouched
    <3>1. Vouched(l, inbox'[k][i])
      BY <1>9
    <3>2. PICK e \in Active : dateTime[e] <= inbox'[k][i].time
      BY <3>1 DEF Vouched
    <3>3. inbox'[k][i].time \in Nat
      <4>1. PICK j \in DOMAIN inbox[k] : inbox'[k][i] = inbox[k][j]
        BY <1>6
      <4>2. inbox[k] \in Seq(Datagram)
        BY <1>0 DEF TypeInv, Host
      <4>3. inbox[k][j] \in Datagram
        BY <4>2
      <4> QED
        BY <4>1, <4>3, PulsarAssumption DEF Datagram
    <3>4. \E g \in Active' : dateTime[g] <= inbox'[k][i].time
      <4>1. CASE e # n
        BY <2>2, <3>2, <4>1
      <4>2. CASE e = n
        <5>1. dateTime[s] \in Nat /\ dateTime[n] \in Nat
          BY <2>2, <2>4, <2>6
        <5>2. dateTime[s] <= inbox'[k][i].time
          BY <2>7, <3>2, <3>3, <4>2, <5>1
        <5> QED
          BY <2>7, <5>2
      <4> QED
        BY <4>1, <4>2
    <3> QED
      BY <1>2, <1>7, <3>1, <3>4 DEF Vouched
  <2>11. \A m \in Active' : backlog'[m] = 0
    <3> SUFFICES ASSUME NEW m \in Active, m # n PROVE backlog'[m] = 0
      BY <2>2
    <3>1. backlog[m] = 0 /\ m \in Node
      BY DEF Silenced, Active
    <3> QED
      BY <1>2, <3>1
  <2> QED
    BY <1>8, <2>8, <2>9, <2>10, <2>11 DEF Silenced
<1> QED
  BY <1>1, <1>10, <1>11 DEF stayMaster, follow

(* The faults and requests so far are counted.                             *)
CountInv == crashes \in Nat /\ requests \in Nat

LEMMA CountInvStep ==
  ASSUME CountInv, [Next \/ Listens]_pulsarVars
  PROVE  CountInv'
<1>1. CASE tick \/ Listens \/ UNCHANGED pulsarVars
  BY <1>1 DEF tick, Listens, pulsarVars, budgets, CountInv
<1>2. ASSUME NEW n \in Node, NodeStep(n) PROVE CountInv'
  BY <1>2 DEF NodeStep, start, crash, becomeMaster, deactivate, readyRead,
              sendStatus, sendActivate, budgets, CountInv
<1> QED
  BY <1>1, <1>2 DEF Next

(* A step of a node that is not a fault and has nothing to do with a       *)
(* request.                                                                *)
LEMMA NodeSilent ==
  ASSUME TimesInv, TimesInv', ReceiverState, WatchInv, CountInv, VacancyEnds,
         SilentInv, Passive = {}, DistinctTimes, NEW n \in Node, nodeStep(n),
         NEW l \in Listener
  PROVE  Silenced(l)'
<1> SUFFICES ASSUME silentFor'[l] > 0 PROVE Silenced(l)'
  BY DEF Silenced
<1>0. /\ IInv /\ TypeInv /\ TimeInv /\ TimeInv' /\ LifeInv
      /\ Silenced(l) /\ NodeStep(n)
  BY DEF TimesInv, IInv, SilentInv, nodeStep
<1>1. ~ Disturbed(n) /\ silentFor' = silentFor
  BY DEF nodeStep, Zero
<1>2. silentFor'[l] = silentFor[l] /\ silentFor[l] > 0
  BY <1>1
<1>3. ~ (crashes' + requests' > crashes + requests)
  BY <1>1 DEF Disturbed
<1>4. CASE start(n)
  BY <1>0, <1>2, <1>4, StartSilent
<1>5. CASE becomeMaster(n)
  BY <1>0, <1>2, <1>5, MasterSilent
<1>6. CASE sendStatus(n)
  BY <1>0, <1>2, <1>6, StatusSilent
<1>7. CASE readyRead(n)
  <2>1. Head(inbox[n]).status # "2"
    BY <1>1, <1>7 DEF Disturbed
  <2> QED
    BY <1>0, <1>2, <1>7, <2>1, ReadSilent
<1>8. CASE crash(n) \/ deactivate(n) \/ sendActivate(n)
  BY <1>3, <1>8 DEF crash, deactivate, sendActivate, CountInv
<1> QED
  BY <1>0, <1>4, <1>5, <1>6, <1>7, <1>8 DEF NodeStep

LEMMA SilentInvStep ==
  ASSUME TimesInv, TimesInv', ReceiverState, ReceiverState', WatchInv,
         CountInv, VacancyEnds, SilentInv, Passive = {}, DistinctTimes,
         [ReceiverNext]_vars
  PROVE  SilentInv'
<1> SUFFICES ASSUME NEW l \in Listener PROVE Silenced(l)'
  BY DEF SilentInv, Silenced, Deserted, Orphaned, Told, Vouched, News,
         Active, Awake, Patience, Reach
<1>0. TypeInv /\ TimeInv /\ TimeInv' /\ LifeInv /\ Silenced(l)
  BY DEF TimesInv, IInv, SilentInv
<1>1. CASE receiverTick
  BY <1>0, <1>1, TickSilent
<1>2. ASSUME NEW k \in Listener,
             receive(k) \/ masterLosted(k) \/ onMasterPingTimer(k)
      PROVE  Silenced(l)'
  BY <1>0, <1>2, ReceiverSilent
<1>3. ASSUME NEW n \in Node, nodeStep(n) PROVE Silenced(l)'
  BY <1>3, NodeSilent
<1>4. CASE UNCHANGED <<pulsarVars, masterLost, silentFor>>
  BY <1>0, <1>4 DEF pulsarVars, nodeVars, timers, budgets, Silenced, Deserted,
                    Orphaned, Told, Vouched, News, Active, Awake, Patience, Reach
<1>5. ASSUME NEW n \in Node, linkFails(n)
      PROVE  UNCHANGED <<pulsarVars, masterLost, silentFor>>
  BY <1>5 DEF linkFails, receiverVars
<1>6. UNCHANGED vars => UNCHANGED <<pulsarVars, masterLost, silentFor>>
  BY DEF vars, receiverVars, watchVars
<1> QED
  BY <1>1, <1>2, <1>3, <1>4, <1>5, <1>6 DEF ReceiverNext

(* The bound is what a tick may make of the count.                         *)
LEMMA SilentBound ==
  ASSUME TimesInv, TimesInv', ReceiverState, ReceiverState', WatchInv',
         VacancyEnds', SilentInv', SilentMasterIsReplaced, [ReceiverNext]_vars
  PROVE  SilentMasterIsReplaced'
<1> USE PulsarAssumption
<1> DEFINE most == 2 * ReceiveTime + (MaxLosses + 1) * SendTime
<1> SUFFICES ASSUME NEW l \in Listener PROVE silentFor'[l] <= most
  BY DEF SilentMasterIsReplaced
<1>0. /\ TimeInv /\ TypeInv' /\ TimeInv' /\ LifeInv' /\ Silenced(l)'
  BY DEF TimesInv, IInv, SilentInv
<1>1. silentFor[l] <= most
  BY DEF SilentMasterIsReplaced
<1>2. most \in Nat /\ Patience' \in Nat /\ Patience' <= most /\ 2 * ReceiveTime <= most
  <2>1. losses' \in 0 .. MaxLosses
    BY <1>0 DEF TimeInv
  <2>2. Reach' \in Nat
    BY <1>0, ReachTypeNext
  <2>3. Reach' <= (MaxLosses + 1) * SendTime
    <3>1. \A a, b, s \in Nat : a <= b => (a + 1) * s <= (b + 1) * s
      <4> SUFFICES ASSUME NEW a \in Nat, NEW b \in Nat, NEW s \in Nat, a <= b
                   PROVE  (a + 1) * s <= (b + 1) * s
        OBVIOUS
      <4>1. PICK c \in Nat : b = a + c
        <5> WITNESS b - a \in Nat
        <5> QED
          OBVIOUS
      <4>2. (b + 1) * s = (a + 1) * s + c * s /\ c * s \in Nat /\ (a + 1) * s \in Nat
        BY <4>1
      <4> QED
        BY <4>2
    <3>2. losses' \in Nat /\ losses' <= MaxLosses
      BY <2>1
    <3>3. (losses' + 1) * SendTime <= (MaxLosses + 1) * SendTime
      BY <3>1, <3>2
    <3> QED
      BY <3>3 DEF Reach
  <2>4. (MaxLosses + 1) * SendTime \in Nat /\ ReceiveTime \in Nat
    OBVIOUS
  <2>5. \A t, r, s \in Nat :
          r <= s => /\ 2 * t + s \in Nat /\ 2 * t + r \in Nat
                    /\ 2 * t + r <= 2 * t + s /\ 2 * t <= 2 * t + s
    OBVIOUS
  <2> QED
    BY <2>2, <2>3, <2>4, <2>5 DEF Patience
<1> HIDE DEF most
<1>3. CASE receiverTick
  <2>1. inbox'[l] = <<>>
    BY <1>3 DEF receiverTick, tick
  <2>2. CASE silentFor'[l] = 0
    BY <1>2, <2>2
  <2>3. CASE silentFor'[l] > 0
    <3>1. /\ silentFor'[l] \in Nat /\ vacantFor' \in Nat /\ ReceiveTime \in Nat
          /\ masterLost'[l] \in Nat
          /\ \A n \in Node : sendStatusTimeout'[n] \in Nat
      <4>1. masterLost'[l] \in 0 .. ReceiveTime
        BY <2>3 DEF ReceiverState, WatchInv, Watching
      <4> QED
        BY <1>0, <4>1 DEF TimeInv, ReceiverState
    <3>2. Deserted(l)' /\ Orphaned(l)' /\ Told(l)'
      BY <1>0, <2>3 DEF Silenced
    <3>3. CASE Active' # {}
      <4>1. PICK m \in Active' : silentFor'[l] + sendStatusTimeout'[m] <= Patience'
        BY <2>1, <3>2, <3>3 DEF Told, News
      <4>2. m \in Node
        BY DEF Active
      <4>3. \A a, x, p, q \in Nat : a + x <= p /\ p <= q => a <= q
        OBVIOUS
      <4> QED
        BY <1>2, <3>1, <4>1, <4>2, <4>3
    <3>4. CASE Active' = {} /\ Awake' # {}
      <4>1. silentFor'[l] <= ReceiveTime + vacantFor' /\ vacantFor' <= ReceiveTime
        BY <3>2, <3>4 DEF Orphaned, VacancyEnds
      <4> QED
        BY <1>2, <3>1, <4>1
    <3>5. CASE Awake' = {}
      <4>1. silentFor'[l] + masterLost'[l] <= ReceiveTime
        BY <3>2, <3>5 DEF Deserted
      <4> QED
        BY <1>2, <3>1, <4>1
    <3> QED
      BY <3>3, <3>4, <3>5
  <2> QED
    BY <2>2, <2>3 DEF ReceiverState
<1>4. CASE silentFor'[l] = silentFor[l] \/ silentFor'[l] = 0
  BY <1>1, <1>2, <1>4
<1>5. ASSUME NEW k \in Listener,
             receive(k) \/ masterLosted(k) \/ onMasterPingTimer(k)
      PROVE  silentFor'[l] = silentFor[l] \/ silentFor'[l] = 0
  <2>1. CASE receive(k)
    <3>1. silentFor' = [silentFor EXCEPT ![k] =
                          IF Head(inbox[k]).status = "1" THEN 0 ELSE @]
      BY <2>1 DEF receive
    <3> QED
      BY <3>1 DEF ReceiverState
  <2>2. CASE masterLosted(k) \/ onMasterPingTimer(k)
    BY <2>2 DEF masterLosted, onMasterPingTimer, watchVars, ReceiverState
  <2> QED
    BY <1>5, <2>1, <2>2
<1>6. ASSUME NEW n \in Node, linkFails(n) \/ nodeStep(n)
      PROVE  silentFor'[l] = silentFor[l] \/ silentFor'[l] = 0
  BY <1>6 DEF linkFails, nodeStep, Zero
<1>7. UNCHANGED vars => silentFor'[l] = silentFor[l]
  BY DEF vars, watchVars
<1> QED
  BY <1>3, <1>4, <1>5, <1>6, <1>7 DEF ReceiverNext

(* The receivers do not take part in a vacancy.                            *)
LEMMA ListensVacant ==
  ASSUME TypeInv, VacancyInv, Listens
  PROVE  VacancyInv'
<1>1. /\ UNCHANGED <<up, iam, dateTime, waitTimeout, asleep, backlog, vacantFor>>
      /\ \A n \in Node : inbox'[n] = inbox[n]
  BY ListensLeavesNodes DEF Listens, nodeVars, timers
<1>2. Settled' = Settled
  BY <1>1 DEF Settled, Active
<1>3. \A p \in Node : Heir(p) => Heir(p)'
  BY <1>1 DEF Heir, Awake
<1> QED
  BY <1>1, <1>2, <1>3, VacancyKept

(* A master that fell silent is not shown for longer than it takes a group *)
(* to find a new one and a receiver to hear it, whatever crashes and       *)
(* however many nodes compete (PulsReceiverPrivate.cpp, readyRead,         *)
(* masterLosted).                                                          *)
THEOREM SilentMasterIsLeft ==
  ASSUME DistinctTimes, Passive = {}
  PROVE  ReceiverSpec => []SilentMasterIsReplaced
<1>1. ReceiverInit => VacancyInv /\ CountInv /\ SilentInv /\ SilentMasterIsReplaced
  <2> SUFFICES ASSUME ReceiverInit
               PROVE  VacancyInv /\ CountInv /\ SilentInv /\ SilentMasterIsReplaced
    OBVIOUS
  <2>1. /\ \A l \in Listener : silentFor[l] = 0
        /\ CountInv
    BY DEF ReceiverInit, Init, CountInv
  <2>2. SilentInv
    BY <2>1 DEF SilentInv, Silenced
  <2>3. 0 <= 2 * ReceiveTime + (MaxLosses + 1) * SendTime
    <3>1. \A a, s, t \in Nat : 0 <= 2 * t + (a + 1) * s
      OBVIOUS
    <3> QED
      BY <3>1, PulsarAssumption
  <2>4. SilentMasterIsReplaced
    BY <2>1, <2>3 DEF SilentMasterIsReplaced
  <2> QED
    BY <2>1, <2>2, <2>4, InitTimes DEF ReceiverInit
<1>2. /\ ReceiverInv /\ ReceiverInv' /\ VacancyInv /\ CountInv /\ SilentInv
      /\ SilentMasterIsReplaced /\ [ReceiverNext]_vars
      => VacancyInv' /\ CountInv' /\ SilentInv' /\ SilentMasterIsReplaced'
  <2> SUFFICES ASSUME ReceiverInv, ReceiverInv', VacancyInv, CountInv, SilentInv,
                      SilentMasterIsReplaced, [ReceiverNext]_vars
               PROVE  /\ VacancyInv' /\ CountInv' /\ SilentInv'
                      /\ SilentMasterIsReplaced'
    OBVIOUS
  <2>0. /\ TimesInv /\ TimesInv' /\ ReceiverState /\ ReceiverState'
        /\ WatchInv /\ WatchInv' /\ IInv /\ TypeInv /\ TimeInv /\ LifeInv
    BY DEF ReceiverInv, TimesInv, IInv
  <2>1. [Next \/ Listens]_pulsarVars
    BY ReceiverStep
  <2>2. VacancyInv'
    <3>1. CASE Listens
      BY <2>0, <3>1, ListensVacant
    <3>2. CASE [Next]_pulsarVars
      BY <2>0, <3>2, VacancyInvStep
    <3> QED
      BY <2>1, <3>1, <3>2
  <2>3. VacancyEnds /\ VacancyEnds'
    BY <2>2 DEF VacancyInv
  <2>4. CountInv'
    BY <2>1, CountInvStep
  <2>5. SilentInv'
    BY <2>0, <2>3, SilentInvStep
  <2>6. SilentMasterIsReplaced'
    BY <2>0, <2>3, <2>5, SilentBound
  <2> QED
    BY <2>2, <2>4, <2>5, <2>6
<1> QED
  BY <1>1, <1>2, ReceiverInvHolds, PTL DEF ReceiverSpec
=============================================================================
