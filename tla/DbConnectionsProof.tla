------------------------- MODULE DbConnectionsProof -------------------------
(***************************************************************************)
(* Proofs about DbConnections, for any number of servers, names, outages   *)
(* and calls.                                                              *)
(***************************************************************************)
EXTENDS DbConnections, SequenceTheorems, TLAPS

PostedCall == [slot : {"onConnected", "onDatabaseConnected"},
               of : Server \cup {None}]

(* The types the argument needs. *)
TypeInv ==
  /\ mCurrentIndex \in Server
  /\ {isActive, isFirstReconnect, open, notifies} \subseteq BOOLEAN
  /\ posted \in Seq(PostedCall)
  /\ available \subseteq Server
  /\ open => default \in Server
  /\ listening \subseteq mSubscribers

IsOpening(call)   == call.slot = "onConnected"
IsListening(call) == call.slot = "onDatabaseConnected"

(* The last connection the main thread will open, or has opened, is the    *)
(* one the worker has found.                                               *)
WillFollow ==
  isActive =>
    \/ /\ default = mCurrentIndex
       /\ \A i \in 1 .. Len(posted) : ~ IsOpening(posted[i])
    \/ \E i \in 1 .. Len(posted) :
         /\ IsOpening(posted[i]) /\ posted[i].of = mCurrentIndex
         /\ \A j \in i + 1 .. Len(posted) : ~ IsOpening(posted[j])

(* An open connection has its subscriptions, or will be given them. *)
WillListen ==
  open => \/ notifies /\ listening = mSubscribers
          \/ \E i \in 1 .. Len(posted) : IsListening(posted[i])

(* After each connection to open the subscriber is told. *)
Paired ==
  \A i \in 1 .. Len(posted) :
    IsOpening(posted[i]) =>
      \E j \in i + 1 .. Len(posted) : IsListening(posted[j])

IInv == TypeInv /\ WillFollow /\ WillListen /\ Paired

(* What is handled next, and what is behind it. *)
LEMMA HeadTail ==
  ASSUME TypeInv, posted # <<>>
  PROVE  /\ Len(posted) \in Nat \ {0}
         /\ Head(posted) = posted[1]
         /\ posted[1] \in PostedCall
         /\ Tail(posted) \in Seq(PostedCall)
         /\ Len(Tail(posted)) = Len(posted) - 1
         /\ \A i \in 1 .. Len(posted) - 1 : Tail(posted)[i] = posted[i + 1]
<1>1. posted \in Seq(PostedCall)
  BY DEF TypeInv
<1> QED
  BY <1>1

(* connected() appends two calls. *)
LEMMA ConnectedAppends ==
  ASSUME TypeInv, connected
  PROVE  /\ posted' \in Seq(PostedCall)
         /\ Len(posted) \in Nat
         /\ Len(posted') = Len(posted) + 2
         /\ \A i \in 1 .. Len(posted) : posted'[i] = posted[i]
         /\ IsOpening(posted'[Len(posted) + 1])
         /\ posted'[Len(posted) + 1].of = mCurrentIndex
         /\ IsListening(posted'[Len(posted) + 2])
         /\ ~ IsOpening(posted'[Len(posted) + 2])
<1> DEFINE a == [slot |-> "onConnected", of |-> mCurrentIndex]
           b == [slot |-> "onDatabaseConnected", of |-> None]
<1>1. a \in PostedCall /\ b \in PostedCall
  BY DEF TypeInv, PostedCall
<1>2. posted \in Seq(PostedCall)
  BY DEF TypeInv
<1>3. posted' = posted \o <<a, b>>
  BY DEF connected
<1>4. /\ a.slot = "onConnected" /\ a.of = mCurrentIndex
      /\ b.slot = "onDatabaseConnected"
  OBVIOUS
<1> HIDE DEF a, b
<1>5. <<a, b>> \in Seq(PostedCall) /\ Len(<<a, b>>) = 2
      /\ <<a, b>>[1] = a /\ <<a, b>>[2] = b
  BY <1>1
<1>6. /\ posted' \in Seq(PostedCall)
      /\ Len(posted') = Len(posted) + 2
      /\ \A i \in 1 .. Len(posted) + 2 :
           posted'[i] = IF i <= Len(posted) THEN posted[i]
                                            ELSE <<a, b>>[i - Len(posted)]
  BY <1>2, <1>3, <1>5, ConcatProperties
<1>7. Len(posted) \in Nat
  BY <1>2
<1>8. posted'[Len(posted) + 1] = a /\ posted'[Len(posted) + 2] = b
  BY <1>5, <1>6, <1>7
<1> QED
  BY <1>4, <1>6, <1>7, <1>8 DEF IsOpening, IsListening

LEMMA InitIInv == Init => IInv
<1> SUFFICES ASSUME Init PROVE IInv
  OBVIOUS
<1>1. posted = <<>> /\ Len(posted) = 0 /\ posted \in Seq(PostedCall)
  BY DEF Init
<1>2. 0 \in Server
  BY DbConnectionsAssumption DEF Server
<1>3. TypeInv
  BY <1>1, <1>2 DEF Init, TypeInv
<1>4. WillFollow /\ WillListen
  BY DEF Init, WillFollow, WillListen
<1>5. Paired
  BY <1>1 DEF Paired
<1> QED
  BY <1>3, <1>4, <1>5 DEF IInv

(* The worker looks at its server. *)
LEMMA OnTimerKeeps ==
  ASSUME IInv, onTimer, UNCHANGED <<mSubscribers, serverVars>>
  PROVE  IInv'
<1>0. TypeInv /\ WillFollow /\ WillListen /\ Paired
  BY DEF IInv
<1>1. CASE succeeds
  <2>1. /\ mCurrentIndex' = mCurrentIndex /\ isActive' = TRUE
        /\ isFirstReconnect' = TRUE /\ default' = default /\ open' = open
        /\ listening' = listening /\ notifies' = notifies
        /\ mSubscribers' = mSubscribers /\ available' = available
    BY <1>1 DEF succeeds, connectionVars, serverVars
  <2>2. CASE isActive
    <3>1. posted' = posted
      BY <1>1, <2>2 DEF succeeds
    <3> QED
      BY <1>0, <2>1, <2>2, <3>1
      DEF IInv, TypeInv, WillFollow, WillListen, Paired
  <2>3. CASE ~ isActive
    <3>1. connected
      BY <1>1, <2>3 DEF succeeds
    <3>2. /\ posted' \in Seq(PostedCall)
          /\ Len(posted) \in Nat
          /\ Len(posted') = Len(posted) + 2
          /\ \A i \in 1 .. Len(posted) : posted'[i] = posted[i]
          /\ IsOpening(posted'[Len(posted) + 1])
          /\ posted'[Len(posted) + 1].of = mCurrentIndex
          /\ IsListening(posted'[Len(posted) + 2])
          /\ ~ IsOpening(posted'[Len(posted) + 2])
      BY <1>0, <3>1, ConnectedAppends
    <3>3. TypeInv'
      BY <1>0, <2>1, <3>2 DEF TypeInv
    <3>4. WillFollow'
      <4>1. Len(posted) + 1 \in 1 .. Len(posted')
        BY <3>2
      <4>2. \A j \in Len(posted) + 2 .. Len(posted') : ~ IsOpening(posted'[j])
        BY <3>2
      <4> QED
        BY <2>1, <3>2, <4>1, <4>2 DEF WillFollow, IsOpening
    <3>5. WillListen'
      <4>1. Len(posted) + 2 \in 1 .. Len(posted')
        BY <3>2
      <4> QED
        BY <3>2, <4>1 DEF WillListen, IsListening
    <3>6. Paired'
      <4> SUFFICES ASSUME NEW i \in 1 .. Len(posted'), IsOpening(posted'[i])
                   PROVE  \E j \in i + 1 .. Len(posted') : IsListening(posted'[j])
        BY DEF Paired, IsOpening, IsListening
      <4>1. i # Len(posted) + 2
        BY <3>2
      <4>2. Len(posted) + 2 \in i + 1 .. Len(posted')
        BY <3>2, <4>1
      <4> QED
        BY <3>2, <4>2
    <3> QED
      BY <3>3, <3>4, <3>5, <3>6 DEF IInv
  <2> QED
    BY <2>2, <2>3
<1>2. CASE fails
  <2>1. /\ isActive' = FALSE /\ posted' = posted
        /\ isFirstReconnect' \in BOOLEAN
        /\ mSubscribers' = mSubscribers /\ available' = available
    BY <1>0, <1>2 DEF fails, TypeInv, serverVars
  <2>2. CASE isFirstReconnect
    <3>1. /\ mCurrentIndex' = mCurrentIndex /\ default' = default
          /\ open' = open /\ listening' = listening /\ notifies' = notifies
      BY <1>2, <2>2 DEF fails, connectionVars
    <3> QED
      BY <1>0, <2>1, <3>1 DEF IInv, TypeInv, WillFollow, WillListen, Paired
  <2>3. CASE ~ isFirstReconnect
    <3>1. /\ mCurrentIndex' = (mCurrentIndex + 1) % ServerCount
          /\ open' = FALSE /\ listening' = {} /\ notifies' = FALSE
      BY <1>2, <2>3 DEF fails, removeDb
    <3>2. mCurrentIndex' \in Server
      BY <1>0, <3>1, DbConnectionsAssumption DEF TypeInv, Server
    <3> QED
      BY <1>0, <2>1, <3>1, <3>2
      DEF IInv, TypeInv, WillFollow, WillListen, Paired
  <2> QED
    BY <2>2, <2>3
<1> QED
  BY <1>1, <1>2 DEF onTimer

(* The manager opens the default connection. *)
LEMMA OnConnectedKeeps ==
  ASSUME IInv, onConnected
  PROVE  IInv'
<1>0. TypeInv /\ WillFollow /\ WillListen /\ Paired
  BY DEF IInv
<1>1. /\ posted # <<>> /\ IsOpening(Head(posted))
      /\ default' = Head(posted).of
      /\ open' = (Head(posted).of \in available)
      /\ listening' = {} /\ notifies' = FALSE
      /\ posted' = Tail(posted)
      /\ mCurrentIndex' = mCurrentIndex /\ isActive' = isActive
      /\ isFirstReconnect' = isFirstReconnect
      /\ mSubscribers' = mSubscribers /\ available' = available
  BY DEF onConnected, Delivers, IsOpening, workerVars, serverVars
<1>2. /\ Len(posted) \in Nat \ {0}
      /\ Head(posted) = posted[1]
      /\ posted[1] \in PostedCall
      /\ posted' \in Seq(PostedCall)
      /\ Len(posted') = Len(posted) - 1
      /\ \A i \in 1 .. Len(posted) - 1 : posted'[i] = posted[i + 1]
  BY <1>0, <1>1, HeadTail
<1>3. TypeInv'
  <2>1. /\ mCurrentIndex \in Server /\ isActive \in BOOLEAN
        /\ isFirstReconnect \in BOOLEAN /\ available \subseteq Server
    BY <1>0 DEF TypeInv
  <2>2. open' \in BOOLEAN
    BY <1>1
  <2>3. open' => default' \in Server
    BY <1>1, <2>1
  <2>4. {isActive', isFirstReconnect', open', notifies'} \subseteq BOOLEAN
    BY <1>1, <2>1, <2>2
  <2> QED
    BY <1>1, <1>2, <2>1, <2>3, <2>4 DEF TypeInv
<1>4. WillFollow'
  <2> SUFFICES ASSUME isActive PROVE WillFollow'
    BY <1>1 DEF WillFollow
  <2>1. PICK i \in 1 .. Len(posted) :
          /\ IsOpening(posted[i]) /\ posted[i].of = mCurrentIndex
          /\ \A j \in i + 1 .. Len(posted) : ~ IsOpening(posted[j])
    BY <1>0, <1>1, <1>2 DEF WillFollow
  <2>2. CASE i = 1
    <3>1. default' = mCurrentIndex'
      BY <1>1, <1>2, <2>1, <2>2
    <3>2. \A k \in 1 .. Len(posted') : ~ IsOpening(posted'[k])
      BY <1>2, <2>1, <2>2
    <3> QED
      BY <3>1, <3>2 DEF WillFollow, IsOpening
  <2>3. CASE i # 1
    <3>1. i - 1 \in 1 .. Len(posted') /\ posted'[i - 1] = posted[i]
      BY <1>2, <2>3
    <3>2. \A k \in (i - 1) + 1 .. Len(posted') : ~ IsOpening(posted'[k])
      BY <1>2, <2>1
    <3> QED
      BY <1>1, <2>1, <3>1, <3>2 DEF WillFollow, IsOpening
  <2> QED
    BY <2>2, <2>3
<1>5. WillListen'
  <2>1. PICK j \in 2 .. Len(posted) : IsListening(posted[j])
    BY <1>0, <1>1, <1>2 DEF Paired
  <2>2. j - 1 \in 1 .. Len(posted') /\ posted'[j - 1] = posted[j]
    BY <1>2
  <2> QED
    BY <2>1, <2>2 DEF WillListen, IsListening
<1>6. Paired'
  <2> SUFFICES ASSUME NEW i \in 1 .. Len(posted'), IsOpening(posted'[i])
               PROVE  \E j \in i + 1 .. Len(posted') : IsListening(posted'[j])
    BY DEF Paired, IsOpening, IsListening
  <2>1. i + 1 \in 1 .. Len(posted) /\ IsOpening(posted[i + 1])
    BY <1>2
  <2>2. PICK j \in i + 2 .. Len(posted) : IsListening(posted[j])
    BY <1>0, <2>1 DEF Paired
  <2>3. j - 1 \in i + 1 .. Len(posted') /\ posted'[j - 1] = posted[j]
    BY <1>2
  <2> QED
    BY <2>2, <2>3
<1> QED
  BY <1>3, <1>4, <1>5, <1>6 DEF IInv

(* The subscriber is told of the connection. *)
LEMMA OnDatabaseConnectedKeeps ==
  ASSUME IInv, onDatabaseConnected
  PROVE  IInv'
<1>0. TypeInv /\ WillFollow /\ WillListen /\ Paired
  BY DEF IInv
<1>1. /\ posted # <<>> /\ IsListening(Head(posted)) /\ ~ IsOpening(Head(posted))
      /\ default' = default /\ open' = open
      /\ notifies' = (default # None)
      /\ listening' = IF open THEN listening \cup mSubscribers ELSE listening
      /\ posted' = Tail(posted)
      /\ mCurrentIndex' = mCurrentIndex /\ isActive' = isActive
      /\ isFirstReconnect' = isFirstReconnect
      /\ mSubscribers' = mSubscribers /\ available' = available
  BY DEF onDatabaseConnected, Delivers, IsListening, IsOpening, workerVars, serverVars
<1>2. /\ Len(posted) \in Nat \ {0}
      /\ Head(posted) = posted[1]
      /\ posted' \in Seq(PostedCall)
      /\ Len(posted') = Len(posted) - 1
      /\ \A i \in 1 .. Len(posted) - 1 : posted'[i] = posted[i + 1]
  BY <1>0, <1>1, HeadTail
<1>3. TypeInv'
  BY <1>0, <1>1, <1>2 DEF TypeInv
<1>4. WillFollow'
  <2> SUFFICES ASSUME isActive PROVE WillFollow'
    BY <1>1 DEF WillFollow
  <2>1. CASE /\ default = mCurrentIndex
             /\ \A i \in 1 .. Len(posted) : ~ IsOpening(posted[i])
    <3>1. \A k \in 1 .. Len(posted') : ~ IsOpening(posted'[k])
      BY <1>2, <2>1
    <3> QED
      BY <1>1, <2>1, <3>1 DEF WillFollow, IsOpening
  <2>2. CASE \E i \in 1 .. Len(posted) :
               /\ IsOpening(posted[i]) /\ posted[i].of = mCurrentIndex
               /\ \A j \in i + 1 .. Len(posted) : ~ IsOpening(posted[j])
    <3>1. PICK i \in 1 .. Len(posted) :
            /\ IsOpening(posted[i]) /\ posted[i].of = mCurrentIndex
            /\ \A j \in i + 1 .. Len(posted) : ~ IsOpening(posted[j])
      BY <2>2
    <3>2. i # 1
      BY <1>1, <1>2, <3>1
    <3>3. i - 1 \in 1 .. Len(posted') /\ posted'[i - 1] = posted[i]
      BY <1>2, <3>2
    <3>4. \A k \in (i - 1) + 1 .. Len(posted') : ~ IsOpening(posted'[k])
      BY <1>2, <3>1
    <3> QED
      BY <1>1, <3>1, <3>3, <3>4 DEF WillFollow, IsOpening
  <2> QED
    BY <1>0, <2>1, <2>2 DEF WillFollow
<1>5. WillListen'
  BY <1>0, <1>1, DbConnectionsAssumption DEF WillListen, TypeInv
<1>6. Paired'
  <2> SUFFICES ASSUME NEW i \in 1 .. Len(posted'), IsOpening(posted'[i])
               PROVE  \E j \in i + 1 .. Len(posted') : IsListening(posted'[j])
    BY DEF Paired, IsOpening, IsListening
  <2>1. i + 1 \in 1 .. Len(posted) /\ IsOpening(posted[i + 1])
    BY <1>2
  <2>2. PICK j \in i + 2 .. Len(posted) : IsListening(posted[j])
    BY <1>0, <2>1 DEF Paired
  <2>3. j - 1 \in i + 1 .. Len(posted') /\ posted'[j - 1] = posted[j]
    BY <1>2
  <2> QED
    BY <2>2, <2>3
<1> QED
  BY <1>3, <1>4, <1>5, <1>6 DEF IInv

(* Calls of the application and events of the servers. *)
LEMMA OtherStepsKeep ==
  ASSUME IInv,
         \/ stop
         \/ \E name \in Name : subscribe(name) \/ unsubscribe(name)
         \/ \E s \in Server : serverFails(s) \/ serverReturns(s)
         \/ UNCHANGED vars
  PROVE  IInv'
<1>0. TypeInv /\ WillFollow /\ WillListen /\ Paired
  BY DEF IInv
<1>1. CASE stop
  <2>1. 0 \in Server
    BY DbConnectionsAssumption DEF Server
  <2> QED
    BY <1>0, <1>1, <2>1
    DEF stop, removeDb, serverVars, IInv, TypeInv, WillFollow, WillListen, Paired
<1>2. ASSUME NEW name \in Name, subscribe(name) PROVE IInv'
  BY <1>0, <1>2
  DEF subscribe, workerVars, serverVars, IInv, TypeInv, WillFollow, WillListen, Paired
<1>3. ASSUME NEW name \in Name, unsubscribe(name) PROVE IInv'
  BY <1>0, <1>3
  DEF unsubscribe, workerVars, serverVars, IInv, TypeInv, WillFollow, WillListen, Paired
<1>4. ASSUME NEW s \in Server, serverFails(s) PROVE IInv'
  <2>1. /\ posted' = posted /\ default' = default /\ notifies' = notifies
        /\ mSubscribers' = mSubscribers /\ mCurrentIndex' = mCurrentIndex
        /\ isActive' = isActive /\ isFirstReconnect' = isFirstReconnect
        /\ available' \subseteq available
        /\ open' \in BOOLEAN
        /\ open' => open /\ listening' = listening
        /\ listening' \subseteq listening
    BY <1>0, <1>4 DEF serverFails, workerVars, TypeInv
  <2> QED
    BY <1>0, <2>1 DEF IInv, TypeInv, WillFollow, WillListen, Paired
<1>5. ASSUME NEW s \in Server, serverReturns(s) PROVE IInv'
  BY <1>0, <1>5
  DEF serverReturns, workerVars, connectionVars, IInv, TypeInv, WillFollow,
      WillListen, Paired
<1>6. CASE UNCHANGED vars
  BY <1>0, <1>6
  DEF vars, workerVars, connectionVars, serverVars, IInv, TypeInv, WillFollow,
      WillListen, Paired
<1> QED
  BY <1>1, <1>2, <1>3, <1>4, <1>5, <1>6

LEMMA NextIInv == IInv /\ [Next]_vars => IInv'
<1> SUFFICES ASSUME IInv, [Next]_vars PROVE IInv'
  OBVIOUS
<1>1. CASE timeout \/ start
  BY <1>1, OnTimerKeeps DEF timeout, start
<1>2. CASE onConnected
  BY <1>2, OnConnectedKeeps
<1>3. CASE onDatabaseConnected
  BY <1>3, OnDatabaseConnectedKeeps
<1> QED
  BY <1>1, <1>2, <1>3, OtherStepsKeep DEF Next

LEMMA IInvServes == IInv => DefaultServes
<1> SUFFICES ASSUME IInv, posted = <<>> PROVE DefaultServes
  BY DEF DefaultServes
<1>1. Len(posted) = 0 /\ 1 .. Len(posted) = {}
  OBVIOUS
<1> QED
  BY <1>1 DEF IInv, WillFollow, WillListen, DefaultServes

(* The default connection follows the worker and has all subscriptions     *)
(* (DBConnectionsWorker::removeDb, DBConnectionsManager::onConnected,      *)
(* DatabaseSubscriber::onDatabaseConnected), for every instance.           *)
THEOREM DefaultAlwaysServes == Spec => []DefaultServes
<1>1. Spec => []IInv
  BY InitIInv, NextIInv, PTL DEF Spec
<1> QED
  BY <1>1, IInvServes, PTL
=============================================================================
