----------------------- MODULE BatapMessageProducerProof -----------------------
(***************************************************************************)
(* Proofs about the producer, its Redis queue and the Batap object it      *)
(* feeds, for any set of messages, any number of serials and sessions, and *)
(* with any failures of Redis.                                             *)
(***************************************************************************)
EXTENDS BatapMessageProducer, BatapProof, WellFoundedInduction

----------------------------------------------------------------------------
(* The operators on the queue. *)

(* A non-empty set of naturals has a least element.                        *)
LEMMA LeastNatural ==
  ASSUME NEW T, T \subseteq Nat, T # {}
  PROVE  \E x \in T : \A y \in T : x <= y
  <1> DEFINE R == OpToRel(<, Nat)
  <1>1. IsWellFoundedOn(R, Nat)
    BY NatLessThanWellFounded
  <1>2. \A x, y \in Nat : x < y => <<x, y>> \in R
    BY DEF OpToRel
  <1> HIDE DEF R
  <1>3. PICK x \in T : \A y \in T : ~ (<<y, x>> \in R)
    BY <1>1, WFMin
  <1>4. \A y \in T : ~ (y < x)
    BY <1>2, <1>3, Zenon
  <1>5. \A y \in T : x <= y
    BY <1>4
  <1> QED
    BY <1>3, <1>5

(* Induction on the naturals for a property given as the set of numbers    *)
(* that have it.                                                           *)
LEMMA NaturalsFromZero ==
  ASSUME NEW G, 0 \in G, \A n \in Nat : n \in G => n + 1 \in G
  PROVE  Nat \subseteq G
  <1> SUFFICES ASSUME Nat \ G # {} PROVE FALSE
    OBVIOUS
  <1>1. PICK x \in Nat \ G : \A y \in Nat \ G : x <= y
    BY LeastNatural
  <1>2. x # 0 /\ x - 1 \in Nat
    BY <1>1
  <1>3. x - 1 \in G
    BY <1>1, <1>2
  <1> QED
    BY <1>1, <1>2, <1>3

(* The elements of a sequence that grew by one.                            *)
LEMMA ToSetAppend ==
  ASSUME NEW S, NEW s \in Seq(S), NEW e \in S
  PROVE  ToSet(Append(s, e)) = ToSet(s) \cup {e}
  <1>1. /\ DOMAIN Append(s, e) = DOMAIN s \cup {Len(s) + 1}
        /\ \A i \in DOMAIN s : Append(s, e)[i] = s[i]
        /\ Append(s, e)[Len(s) + 1] = e
    OBVIOUS
  <1> QED
    BY <1>1, Zenon DEF ToSet

(* LREM removes the keys it is given and no other.                         *)
LEMMA WithoutProperties ==
  ASSUME NEW S, NEW s \in Seq(S), NEW gone
  PROVE  /\ Without(s, gone) \in Seq(S)
         /\ ToSet(Without(s, gone)) = ToSet(s) \ gone
  <1> DEFINE Step(f, i) == IF i = 0 THEN <<>>
                           ELSE IF s[i] \in gone THEN f[i - 1]
                           ELSE Append(f[i - 1], s[i])
             Rec(f, n) == f = [i \in 0 .. n |-> Step(f, i)]
             Defined == {n \in Nat : \E f : Rec(f, n)}
  <1>1. 0 \in Defined
    <2> DEFINE f == [i \in 0 .. 0 |-> <<>>]
    <2>1. Rec(f, 0)
      OBVIOUS
    <2> HIDE DEF Rec, f
    <2> QED
      BY <2>1
  <1>2. ASSUME NEW n \in Nat, n \in Defined PROVE n + 1 \in Defined
    <2>1. PICK f : Rec(f, n)
      BY <1>2
    <2> DEFINE g == [i \in 0 .. n + 1 |-> IF i = n + 1 THEN Step(f, n + 1)
                                                       ELSE f[i]]
    <2>2. ASSUME NEW i \in 0 .. n + 1 PROVE g[i] = Step(g, i)
      <3>1. CASE i = n + 1
        BY <3>1
      <3>2. CASE i # n + 1
        <4>1. i \in 0 .. n
          BY <3>2
        <4>2. f[i] = Step(f, i)
          <5> HIDE DEF Step
          <5> QED
            BY <2>1, <4>1
        <4>3. g[i] = f[i] /\ (i # 0 => g[i - 1] = f[i - 1])
          <5> HIDE DEF Step
          <5> QED
            BY <4>1
        <4> QED
          BY <4>2, <4>3
      <3> QED
        BY <3>1, <3>2
    <2>3. Rec(g, n + 1)
      <3> HIDE DEF Step
      <3> QED
        BY <2>2
    <2> HIDE DEF Rec, g
    <2> QED
      BY <2>3
  <1>3. Len(s) \in Defined
    <2> HIDE DEF Defined
    <2> QED
      BY <1>1, <1>2, NaturalsFromZero, LenProperties
  <1> DEFINE kept == CHOOSE f : Rec(f, Len(s))
  <1>4. Rec(kept, Len(s))
    <2> HIDE DEF Rec
    <2> QED
      BY <1>3
  <1>5. Without(s, gone) = kept[Len(s)]
    BY DEF Without
  <1> HIDE DEF kept
  <1>6. \A i \in 0 .. Len(s) : kept[i] = Step(kept, i)
    <2> HIDE DEF Step
    <2> QED
      BY <1>4
  <1>7. kept[0] = <<>>
    BY <1>6, LenProperties
  <1>8. ASSUME NEW n \in Nat, n + 1 <= Len(s)
        PROVE  kept[n + 1] = IF s[n + 1] \in gone THEN kept[n]
                             ELSE Append(kept[n], s[n + 1])
    <2>1. n + 1 \in 0 .. Len(s) /\ n + 1 # 0 /\ (n + 1) - 1 = n
      BY <1>8, LenProperties
    <2>2. kept[n + 1] = Step(kept, n + 1)
      BY <1>6, <2>1
    <2> QED
      BY <2>1, <2>2
  <1> DEFINE Good == {n \in Nat : n <= Len(s) =>
                        /\ kept[n] \in Seq(S)
                        /\ ToSet(kept[n]) = {s[i] : i \in 1 .. n} \ gone}
  <1>9. 0 \in Good
    <2>1. {s[i] : i \in 1 .. 0} = {} /\ ToSet(<<>>) = {}
      BY DEF ToSet
    <2> QED
      BY <1>7, <2>1, EmptySeq, Zenon
  <1>10. ASSUME NEW n \in Nat, n \in Good PROVE n + 1 \in Good
    <2> SUFFICES ASSUME n + 1 <= Len(s)
                 PROVE  /\ kept[n + 1] \in Seq(S)
                        /\ ToSet(kept[n + 1]) =
                             {s[i] : i \in 1 .. n + 1} \ gone
      OBVIOUS
    <2>1. /\ kept[n] \in Seq(S)
          /\ ToSet(kept[n]) = {s[i] : i \in 1 .. n} \ gone
      BY <1>10
    <2>2. {s[i] : i \in 1 .. n + 1} = {s[i] : i \in 1 .. n} \cup {s[n + 1]}
      OBVIOUS
    <2>3. s[n + 1] \in S /\ n + 1 \in 0 .. Len(s)
      OBVIOUS
    <2>4. kept[n + 1] = IF s[n + 1] \in gone THEN kept[n]
                        ELSE Append(kept[n], s[n + 1])
      BY <1>8
    <2>5. ToSet(Append(kept[n], s[n + 1])) = ToSet(kept[n]) \cup {s[n + 1]}
      BY <2>1, <2>3, ToSetAppend
    <2> QED
      BY <2>1, <2>2, <2>3, <2>4, <2>5
  <1>11. Len(s) \in Good
    <2> HIDE DEF Good
    <2> QED
      BY <1>9, <1>10, NaturalsFromZero, LenProperties
  <1> QED
    BY <1>5, <1>11 DEF ToSet

(* The key found is on the list, free, and every key before it is not; a   *)
(* list without a free key is in flight or expired.                        *)
LEMMA FirstFreeProperties ==
  ASSUME NEW keys, queue \in Seq(Message)
  PROVE  LET first == FirstFree(keys)
         IN /\ first \in Nat
            /\ \A i \in 1 .. first - 1 :
                 i \in DOMAIN queue /\ queue[i] \in keys \cup expired
            /\ first \in DOMAIN queue => queue[first] \notin keys \cup expired
            /\ first \notin DOMAIN queue => ToSet(queue) \subseteq keys \cup expired
  <1> DEFINE free == {i \in DOMAIN queue : queue[i] \notin keys \cup expired}
             first == FirstFree(keys)
  <1>1. DOMAIN queue = 1 .. Len(queue) /\ Len(queue) \in Nat
    BY LenProperties
  <1>2. CASE free = {}
    <2>1. first = Len(queue) + 1
      BY <1>2 DEF FirstFree
    <2> QED
      BY <1>1, <1>2, <2>1 DEF ToSet
  <1>3. CASE free # {}
    <2>1. \E i \in free : \A j \in free : i <= j
      <3>1. free \subseteq Nat
        BY <1>1
      <3> HIDE DEF free
      <3> QED
        BY <1>3, <3>1, LeastNatural
    <2>2. first = CHOOSE i \in free : \A j \in free : i <= j
      BY <1>3 DEF FirstFree
    <2>3. first \in free /\ \A j \in free : first <= j
      <3> HIDE DEF free, first
      <3> QED
        BY <2>1, <2>2
    <2>4. \A i \in 1 .. first - 1 : i \in DOMAIN queue /\ i \notin free
      BY <1>1, <2>3
    <2> QED
      BY <1>1, <2>3, <2>4
  <1> QED
    BY <1>2, <1>3

----------------------------------------------------------------------------
(* The types of the producer, of the calls between the threads and of the  *)
(* storage.                                                                *)
Call  == [op: {"request", "remove"}, keys: SUBSET Message]
Reply == [signal: {"hasMessage", "requestedMessage"},
          key: Message \cup {NoMessage}]

ProducerTypeOK ==
  /\ mRunning \in BOOLEAN
  /\ mIdMap \in [Serial -> Message \cup {NoMessage}]
  /\ calls \in Seq(Call)
  /\ replies \in Seq(Reply)
  /\ queue \in Seq(Message)
  /\ expired \in SUBSET Message
  /\ added \in SUBSET Message
  /\ credited \in SUBSET Message
  /\ missedWake \in BOOLEAN
  /\ storageFailed \in BOOLEAN
  /\ inherited \in BOOLEAN
  /\ sessions \in Nat

----------------------------------------------------------------------------
(* Batap as the producer drives it. *)

(* Everything that is proved of Batap by itself.                           *)
BatapInv == TypeInv /\ WindowRespected /\ WireInv

(* A step of the producer or of the storage alone.                         *)
Quiet ==
  /\ UNCHANGED <<connected, senderVars, toPeer, toHere, peerVars, reused>>
  /\ signals' = {}

(* Whatever the producer and the storage do, Batap takes one of its own    *)
(* steps or none.                                                          *)
LEMMA ProducerBatapStep ==
  ASSUME ProducerTypeOK, [ProducerNext]_vars
  PROVE  [Next]_batapVars \/ Quiet
  <1>1. ASSUME NEW id \in Serial, onTimer(id) PROVE [Next]_batapVars
    BY <1>1 DEF onTimer, Next
  <1>2. CASE onStart \/ onResume \/ onMessageDelivered \/ reconnect
    BY <1>2 DEF onStart, onResume, onMessageDelivered, reconnect, Next
  <1>3. CASE onHasMessage
    BY <1>3 DEF onHasMessage, Quiet
  <1>4. CASE onRequestedMessage
    <2> DEFINE m == Head(replies).key
    <2>1. Head(replies) \in Reply
      BY <1>4, HeadTailProperties
         DEF onRequestedMessage, HeadIs, ProducerTypeOK
    <2>2. CASE m # NoMessage /\ send(m)
      BY <2>1, <2>2 DEF Next, Reply
    <2>3. CASE Quiet
      BY <2>3
    <2> QED
      BY <1>4, <2>2, <2>3 DEF onRequestedMessage, Quiet
  <1>5. CASE \E m \in Message : addMessage(m) \/ expire(m)
    BY <1>5 DEF addMessage, expire, Quiet
  <1>6. CASE removeMessage \/ answerRequest \/ failRequest
    BY <1>6 DEF removeMessage, answerRequest, failRequest, Quiet
  <1>7. CASE BatapOnly
    BY <1>7 DEF BatapOnly, Next
  <1>8. CASE UNCHANGED vars
    BY <1>8 DEF vars
  <1> QED
    BY <1>1, <1>2, <1>3, <1>4, <1>5, <1>6, <1>7, <1>8 DEF ProducerNext

(* A step that Batap does not see keeps what is proved of it.              *)
LEMMA QuietBatapInv == BatapInv /\ Quiet => BatapInv'
  <1> SUFFICES ASSUME BatapInv, Quiet PROVE BatapInv'
    OBVIOUS
  <1>1. UNCHANGED <<connected, mIsStopped, mIsTransmissionStopped,
                    mCurrentSerialNumber, mPendingMessages, toPeer, toHere,
                    peerSerialNumbers, peerReceived, reused>>
    BY DEF Quiet, senderVars, peerVars
  <1>2. signals' = {}
    BY DEF Quiet
  <1>3. Pending' = Pending
    BY <1>1 DEF Pending
  <1>4. TypeInv'
    BY <1>1, <1>2, <1>3 DEF BatapInv, TypeInv, TypeOK, PendingHasMessage
  <1>5. WindowRespected'
    BY <1>3 DEF BatapInv, WindowRespected
  <1>6. WireInv'
    BY <1>1 DEF BatapInv, WireInv, CopiesAreCurrent, AcksAreCurrent,
                AckOutstanding, DownIsSilent
  <1> QED
    BY <1>4, <1>5, <1>6 DEF BatapInv

(* Every step of the whole keeps what is proved of Batap.                  *)
LEMMA NextBatapInv ==
  BatapInv /\ ProducerTypeOK /\ [ProducerNext]_vars => BatapInv'
  BY ProducerBatapStep, QuietBatapInv, NextTypeInv, NextWindow, NextWire
     DEF BatapInv

LEMMA InitBatapInv == ProducerInit => BatapInv
  <1> SUFFICES ASSUME ProducerInit PROVE BatapInv
    OBVIOUS
  <1>1. Init
    BY DEF ProducerInit
  <1>2. Pending = {}
    BY <1>1 DEF Init, Pending, NoEntry
  <1>3. WindowRespected
    BY <1>2, FS_EmptySet, BatapAssumption DEF WindowRespected
  <1> QED
    BY <1>1, <1>3, InitTypeInv, InitWire DEF BatapInv

----------------------------------------------------------------------------
(* The types are kept. *)

LEMMA ValuesType ==
  ASSUME mIdMap \in [Serial -> Message \cup {NoMessage}]
  PROVE  Values(mIdMap) \in SUBSET Message
  BY DEF Values

(* The slot start() either asks for the next message or leaves the calls   *)
(* as they were.                                                           *)
LEMMA SlotType ==
  ASSUME ProducerTypeOK, NEW earlier \in Seq(Call),
         mIdMap' \in [Serial -> Message \cup {NoMessage}],
         startSlot(earlier) \/ requestNextMessage(earlier)
  PROVE  calls' \in Seq(Call) /\ mRunning' \in BOOLEAN /\ missedWake' \in BOOLEAN
  <1>1. Values(mIdMap') \in SUBSET Message
    BY DEF Values
  <1>2. [op |-> "request", keys |-> Values(mIdMap')] \in Call
    BY <1>1 DEF Call
  <1>3. Append(earlier, [op |-> "request", keys |-> Values(mIdMap')])
          \in Seq(Call)
    BY <1>2, AppendProperties
  <1> QED
    BY <1>3 DEF startSlot, requestNextMessage, ProducerTypeOK

(* The removal of the keys of an IMA, if there are any.                    *)
Removal(keys) ==
  IF keys = {} THEN calls ELSE Append(calls, [op |-> "remove", keys |-> keys])

LEMMA RemovalType ==
  ASSUME ProducerTypeOK, NEW keys \in SUBSET Message
  PROVE  Removal(keys) \in Seq(Call)
  <1>1. [op |-> "remove", keys |-> keys] \in Call
    BY DEF Call
  <1> QED
    BY <1>1, AppendProperties DEF Removal, ProducerTypeOK

(* An ack in the producer's terms: which serials go, which keys are to be  *)
(* removed, and that all of them were pending.                             *)
LEMMA AckEffect ==
  ASSUME BatapInv, ProducerTypeOK, onMessageDelivered
  PROVE  \E ids \in SUBSET Pending :
           /\ ids = {s.serial : s \in signals'}
           /\ ids = Head(toHere).serials \cap Pending
           /\ Pending' = Pending \ ids
           /\ \A id \in Serial :
                mPendingMessages'[id].message = mPendingMessages[id].message
           /\ mIdMap' = [id \in Serial |-> IF id \in ids THEN NoMessage
                                                         ELSE mIdMap[id]]
           /\ LET keys == {mIdMap[id] : id \in ids} \ {NoMessage}
              IN keys \in SUBSET Message /\ startSlot(Removal(keys))
           /\ credited' = credited \cup
                ({mIdMap[id] : id \in ids \cap reused} \ {NoMessage})
  <1> DEFINE acked == Head(toHere).serials \cap Pending
             ids == {s.serial : s \in signals'}
  <1>1. processImaMessage
    BY DEF onMessageDelivered
  <1>2. acked \in SUBSET Serial
    BY DEF Pending
  <1>3. /\ Pending' = Pending \ acked
        /\ \A id \in Serial :
             mPendingMessages'[id].message = mPendingMessages[id].message
    BY <1>1, <1>2, RemoveEntriesType DEF processImaMessage, BatapInv
  <1>4. signals' = {[signal |-> "messageDelivered", serial |-> id,
                     message |-> mPendingMessages[id].message,
                     reported |-> mPendingMessages[id].message] : id \in acked}
    BY <1>1 DEF processImaMessage
  <1>5. ids = acked
    <2>1. \A s \in signals' : s.serial \in acked
      BY <1>4
    <2>2. ASSUME NEW id \in acked PROVE \E s \in signals' : s.serial = id
      <3> DEFINE report == [signal |-> "messageDelivered", serial |-> id,
                            message |-> mPendingMessages[id].message,
                            reported |-> mPendingMessages[id].message]
      <3>1. report \in signals'
        BY <1>4
      <3>2. report.serial = id
        OBVIOUS
      <3> HIDE DEF report
      <3> QED
        BY <3>1, <3>2
    <2> QED
      BY <2>1, <2>2
  <1>6. {mIdMap[id] : id \in ids} \ {NoMessage} \in SUBSET Message
    BY <1>2, <1>5 DEF ProducerTypeOK
  <1>7. /\ mIdMap' = [id \in Serial |-> IF id \in ids THEN NoMessage
                                                      ELSE mIdMap[id]]
        /\ startSlot(Removal({mIdMap[id] : id \in ids} \ {NoMessage}))
        /\ credited' = credited \cup
             ({mIdMap[id] : id \in ids \cap reused} \ {NoMessage})
    BY DEF onMessageDelivered, Removal
  <1>8. ids \in SUBSET Pending
    BY <1>5
  <1> HIDE DEF ids
  <1> WITNESS ids \in SUBSET Pending
  <1> QED
    BY <1>3, <1>5, <1>6, <1>7 DEF ids

(* What the answer to a request brings. *)
LEMMA AnswerEffect ==
  ASSUME BatapInv, ProducerTypeOK, onRequestedMessage
  PROVE  /\ replies # <<>> /\ replies' = Tail(replies)
         /\ Head(replies) \in Reply
         /\ Head(replies).signal = "requestedMessage"
         /\ LET m == Head(replies).key
            IN \/ /\ m \in Message /\ isReadyForTransmission
                  /\ NextSerial \in Serial
                  /\ send(m)
                  /\ mIdMap' = [mIdMap EXCEPT ![NextSerial] = m]
               \/ /\ ~ (m # NoMessage /\ isReadyForTransmission /\ m \notin EmptyText)
                  /\ UNCHANGED <<connected, senderVars, toPeer, toHere,
                                 peerVars, reused, mIdMap>>
                  /\ signals' = {}
  <1>1. replies # <<>> /\ replies' = Tail(replies)
    BY DEF onRequestedMessage, HeadIs
  <1>2. Head(replies) \in Reply
    BY <1>1, HeadTailProperties DEF ProducerTypeOK
  <1>3. Head(replies).signal = "requestedMessage"
    BY DEF onRequestedMessage, HeadIs
  <1>4. NextSerial \in Serial
    BY NextSerialType DEF BatapInv, TypeInv, TypeOK
  <1>5. Head(replies).key # NoMessage => Head(replies).key \in Message
    BY <1>2 DEF Reply
  <1> QED
    BY <1>1, <1>2, <1>3, <1>4, <1>5 DEF onRequestedMessage

(* Every step keeps the types of the producer and the storage. *)
LEMMA NextProducerType ==
  BatapInv /\ ProducerTypeOK /\ [ProducerNext]_vars => ProducerTypeOK'
  <1> SUFFICES ASSUME BatapInv, ProducerTypeOK, [ProducerNext]_vars
               PROVE  ProducerTypeOK'
    OBVIOUS
  <1>1. CASE onStart \/ onResume
    <2>1. calls' \in Seq(Call) /\ mRunning' \in BOOLEAN /\ missedWake' \in BOOLEAN
      BY <1>1, SlotType DEF onStart, onResume, ProducerTypeOK
    <2> QED
      BY <1>1, <2>1 DEF onStart, onResume, ProducerTypeOK, NothingElse
  <1>2. CASE onMessageDelivered
    <2>1. PICK ids \in SUBSET Pending :
            /\ mIdMap' = [id \in Serial |-> IF id \in ids THEN NoMessage
                                                          ELSE mIdMap[id]]
            /\ LET keys == {mIdMap[id] : id \in ids} \ {NoMessage}
               IN keys \in SUBSET Message /\ startSlot(Removal(keys))
            /\ credited' = credited \cup
                 ({mIdMap[id] : id \in ids \cap reused} \ {NoMessage})
      BY <1>2, AckEffect
    <2>2. mIdMap' \in [Serial -> Message \cup {NoMessage}]
      BY <2>1 DEF ProducerTypeOK
    <2> DEFINE keys == {mIdMap[id] : id \in ids} \ {NoMessage}
    <2>3. Removal(keys) \in Seq(Call)
      BY <2>1, RemovalType
    <2>4. calls' \in Seq(Call) /\ mRunning' \in BOOLEAN /\ missedWake' \in BOOLEAN
      <3>1. startSlot(Removal(keys))
        BY <2>1
      <3> HIDE DEF keys
      <3> QED
        BY <2>2, <2>3, <3>1, SlotType
    <2>5. credited' \in SUBSET Message
      BY <2>1 DEF ProducerTypeOK, Pending
    <2> QED
      BY <1>2, <2>2, <2>4, <2>5 DEF onMessageDelivered, ProducerTypeOK
  <1>3. ASSUME NEW id \in Serial, onTimer(id) PROVE ProducerTypeOK'
    BY <1>3 DEF onTimer, ProducerTypeOK, producerVars, storageVars,
                NothingElse, isReadyForTransmission
  <1>4. CASE onHasMessage
    <2>1. replies' \in Seq(Reply)
      BY <1>4, HeadTailProperties DEF onHasMessage, HeadIs, ProducerTypeOK
    <2>2. calls' \in Seq(Call) /\ mRunning' \in BOOLEAN /\ missedWake' \in BOOLEAN
      BY <1>4, SlotType DEF onHasMessage, ProducerTypeOK
    <2> QED
      BY <1>4, <2>1, <2>2 DEF onHasMessage, ProducerTypeOK, NothingElse
  <1>5. CASE onRequestedMessage
    <2> DEFINE m == Head(replies).key
    <2>1. replies' \in Seq(Reply)
      BY <1>5, AnswerEffect, HeadTailProperties DEF ProducerTypeOK
    <2>2. mIdMap' \in [Serial -> Message \cup {NoMessage}]
      BY <1>5, AnswerEffect DEF ProducerTypeOK
    <2>3. calls' \in Seq(Call) /\ mRunning' \in BOOLEAN /\ missedWake' \in BOOLEAN
      <3>1. CASE requestNextMessage(calls)
        BY <2>2, <3>1, SlotType DEF ProducerTypeOK
      <3>2. CASE mRunning' = FALSE /\ UNCHANGED <<calls, missedWake>>
        BY <3>2 DEF ProducerTypeOK
      <3> QED
        BY <1>5, <3>1, <3>2 DEF onRequestedMessage
    <2> QED
      BY <1>5, <2>1, <2>2, <2>3 DEF onRequestedMessage, ProducerTypeOK, NothingElse
  <1>6. ASSUME NEW m \in Message, addMessage(m) PROVE ProducerTypeOK'
    <2>1. [signal |-> "hasMessage", key |-> NoMessage] \in Reply
      BY DEF Reply
    <2>2. replies' \in Seq(Reply) /\ missedWake' \in BOOLEAN
      <3>1. Append(replies, [signal |-> "hasMessage", key |-> NoMessage])
              \in Seq(Reply)
        BY <2>1, AppendProperties DEF ProducerTypeOK
      <3> QED
        BY <1>6, <3>1 DEF addMessage, ProducerTypeOK
    <2>3. queue' \in Seq(Message)
      BY <1>6, AppendProperties DEF addMessage, ProducerTypeOK
    <2> QED
      BY <1>6, <2>2, <2>3 DEF addMessage, ProducerTypeOK, producerVars
  <1>7. CASE removeMessage
    <2>1. calls' \in Seq(Call)
      BY <1>7, HeadTailProperties DEF removeMessage, ProducerTypeOK
    <2>2. queue' \in Seq(Message) /\ missedWake' \in BOOLEAN
      BY <1>7, WithoutProperties DEF removeMessage, ProducerTypeOK
    <2> QED
      BY <1>7, <2>1, <2>2 DEF removeMessage, ProducerTypeOK, producerVars
  <1>8. CASE answerRequest
    <2> DEFINE keys  == Head(calls).keys
               first == FirstFree(keys)
               stale == {queue[i] : i \in 1 .. first - 1} \ keys
               answer == [signal |-> "requestedMessage",
                          key |-> IF first \in DOMAIN queue THEN queue[first]
                                                            ELSE NoMessage]
    <2>1. calls' \in Seq(Call)
      BY <1>8, HeadTailProperties DEF answerRequest, ProducerTypeOK
    <2>2. queue' = Without(queue, stale) /\ replies' = Append(replies, answer)
      BY <1>8 DEF answerRequest
    <2>3. answer \in Reply
      <3>1. first \in DOMAIN queue => queue[first] \in Message
        BY ElementOfSeq, LenProperties DEF ProducerTypeOK
      <3> HIDE DEF first
      <3> QED
        BY <3>1 DEF Reply
    <2>4. queue' \in Seq(Message)
      <3> HIDE DEF stale
      <3> QED
        BY <2>2, WithoutProperties DEF ProducerTypeOK
    <2>5. replies' \in Seq(Reply)
      <3> HIDE DEF answer
      <3> QED
        BY <2>2, <2>3, AppendProperties DEF ProducerTypeOK
    <2> QED
      BY <1>8, <2>1, <2>4, <2>5
         DEF answerRequest, ProducerTypeOK, producerVars, ghostVars
  <1>9. CASE failRequest
    <2>1. calls' \in Seq(Call)
      BY <1>9, HeadTailProperties DEF failRequest, ProducerTypeOK
    <2> QED
      BY <1>9, <2>1 DEF failRequest, ProducerTypeOK, producerVars
  <1>10. ASSUME NEW m \in Message, expire(m) PROVE ProducerTypeOK'
    BY <1>10 DEF expire, ProducerTypeOK, producerVars, ghostVars
  <1>11. CASE BatapOnly \/ UNCHANGED vars
    BY <1>11 DEF BatapOnly, ProducerTypeOK, producerVars, storageVars,
                 ghostVars, vars
  <1>12. CASE reconnect
    <2>1. PICK n \in 0 .. Len(calls) : calls' = SubSeq(calls, 1, n)
      BY <1>12 DEF reconnect
    <2>2. \A i \in 1 .. n : calls[i] \in Call
      BY ElementOfSeq, LenProperties DEF ProducerTypeOK
    <2>3. calls' \in Seq(Call)
      BY <2>1, <2>2, SubSeqProperties, LenProperties DEF ProducerTypeOK
    <2>4. mIdMap' \in [Serial -> Message \cup {NoMessage}]
      BY <1>12 DEF reconnect, NoIds
    <2>5. replies' \in Seq(Reply)
      BY <1>12, EmptySeq DEF reconnect
    <2>6. inherited' \in BOOLEAN /\ sessions' \in Nat
      BY <1>12 DEF reconnect, ProducerTypeOK
    <2>7. /\ queue' = queue /\ expired' = expired /\ added' = added
          /\ credited' = credited /\ mRunning' = FALSE
          /\ missedWake' = FALSE /\ storageFailed' = FALSE
      BY <1>12 DEF reconnect
    <2> QED
      BY <2>3, <2>4, <2>5, <2>6, <2>7 DEF ProducerTypeOK
  <1> QED
    BY <1>1, <1>2, <1>3, <1>4, <1>5, <1>6, <1>7, <1>8, <1>9, <1>10, <1>11,
       <1>12 DEF ProducerNext

LEMMA InitProducerType == ProducerInit => ProducerTypeOK
  <1>1. NoIds \in [Serial -> Message \cup {NoMessage}]
    BY DEF NoIds
  <1>2. <<>> \in Seq(Call) /\ <<>> \in Seq(Reply) /\ <<>> \in Seq(Message)
    BY EmptySeq
  <1> SUFFICES ASSUME ProducerInit PROVE ProducerTypeOK
    OBVIOUS
  <1>3. mIdMap \in [Serial -> Message \cup {NoMessage}]
    BY <1>1 DEF ProducerInit
  <1>4. calls \in Seq(Call) /\ replies \in Seq(Reply) /\ queue \in Seq(Message)
    BY <1>2 DEF ProducerInit
  <1> QED
    BY <1>3, <1>4 DEF ProducerInit, ProducerTypeOK

(* The types of the whole and what is proved of Batap hold throughout.     *)
LEMMA ProducerTypeInvariant == ProducerSpec => [](BatapInv /\ ProducerTypeOK)
  <1>1. ProducerInit => BatapInv /\ ProducerTypeOK
    BY InitBatapInv, InitProducerType
  <1>2. (BatapInv /\ ProducerTypeOK) /\ [ProducerNext]_vars
          => (BatapInv /\ ProducerTypeOK)'
    BY NextBatapInv, NextProducerType
  <1> QED
    BY <1>1, <1>2, PTL DEF ProducerSpec

(* The window of Batap is respected whatever the producer and the storage  *)
(* do.                                                                     *)
THEOREM ProducerWindow == ProducerSpec => []WindowRespected
  <1>1. BatapInv => WindowRespected
    BY DEF BatapInv
  <1> QED
    BY <1>1, ProducerTypeInvariant, PTL

----------------------------------------------------------------------------
(* Counting what is queued. *)

(* The places of a sequence that hold a member of T.                       *)
Places(s, T) == {i \in DOMAIN s : s[i] \in T}

LEMMA PlacesFinite ==
  ASSUME NEW S, NEW s \in Seq(S), NEW T
  PROVE  IsFiniteSet(Places(s, T)) /\ Cardinality(Places(s, T)) \in Nat
  <1>1. DOMAIN s = 1 .. Len(s) /\ Len(s) \in Nat
    BY LenProperties
  <1>2. Places(s, T) \subseteq 1 .. Len(s)
    BY <1>1 DEF Places
  <1>3. IsFiniteSet(1 .. Len(s))
    BY <1>1, FS_Interval
  <1>4. IsFiniteSet(Places(s, T))
    BY <1>2, <1>3, FS_Subset
  <1> QED
    BY <1>4, FS_CardinalityType

(* One more element is one more place if it is a member of T.              *)
LEMMA PlacesAppend ==
  ASSUME NEW S, NEW s \in Seq(S), NEW e \in S, NEW T
  PROVE  Cardinality(Places(Append(s, e), T)) =
           IF e \in T THEN Cardinality(Places(s, T)) + 1
                      ELSE Cardinality(Places(s, T))
  <1>1. /\ DOMAIN Append(s, e) = DOMAIN s \cup {Len(s) + 1}
        /\ \A i \in DOMAIN s : Append(s, e)[i] = s[i]
        /\ Append(s, e)[Len(s) + 1] = e
        /\ Len(s) + 1 \notin DOMAIN s
    OBVIOUS
  <1>2. Places(Append(s, e), T) =
          IF e \in T THEN Places(s, T) \cup {Len(s) + 1} ELSE Places(s, T)
    BY <1>1, Zenon DEF Places
  <1>3. Len(s) + 1 \notin Places(s, T)
    BY <1>1 DEF Places
  <1> QED
    BY <1>2, <1>3, PlacesFinite, FS_AddElement

(* The tail has one place less if the head was a member of T.              *)
LEMMA PlacesTail ==
  ASSUME NEW S, NEW s \in Seq(S), s # <<>>, NEW T
  PROVE  Cardinality(Places(s, T)) =
           IF Head(s) \in T THEN Cardinality(Places(Tail(s), T)) + 1
                            ELSE Cardinality(Places(Tail(s), T))
  <1> DEFINE rest == Places(s, T) \ {1}
             f == [i \in Places(Tail(s), T) |-> i + 1]
  <1>1. /\ Len(s) \in Nat \ {0} /\ DOMAIN s = 1 .. Len(s)
        /\ DOMAIN Tail(s) = 1 .. Len(s) - 1
        /\ \A i \in 1 .. Len(s) - 1 : Tail(s)[i] = s[i + 1]
        /\ Head(s) = s[1]
    OBVIOUS
  <1>2. /\ \A i \in Places(Tail(s), T) : i \in Int /\ i + 1 \in rest
        /\ \A j \in rest : j - 1 \in Places(Tail(s), T) /\ j \in Int
    BY <1>1 DEF Places
  <1>3. f \in Bijection(Places(Tail(s), T), rest)
    <2>1. f \in [Places(Tail(s), T) -> rest]
      BY <1>2
    <2>2. \A i, j \in Places(Tail(s), T) : f[i] = f[j] => i = j
      BY <1>2
    <2>3. \A j \in rest : \E i \in Places(Tail(s), T) : f[i] = j
      BY <1>2
    <2> QED
      BY <2>1, <2>2, <2>3, Zenon DEF Bijection, Injection, Surjection, IsInjective
  <1>4. IsFiniteSet(Places(Tail(s), T)) /\ Tail(s) \in Seq(S)
    BY PlacesFinite, HeadTailProperties
  <1>5. Cardinality(rest) = Cardinality(Places(Tail(s), T))
    BY <1>3, <1>4, FS_Bijection, Zenon DEF ExistsBijection
  <1>6. Head(s) \in T <=> 1 \in Places(s, T)
    BY <1>1 DEF Places
  <1>7. Cardinality(rest) = IF 1 \in Places(s, T)
                              THEN Cardinality(Places(s, T)) - 1
                              ELSE Cardinality(Places(s, T))
    BY PlacesFinite, FS_RemoveElement
  <1> QED
    BY <1>5, <1>6, <1>7, PlacesFinite

----------------------------------------------------------------------------
(* One request at a time. *)

IsRequest == {c \in Call : c.op = "request"}
IsAnswer  == {r \in Reply : r.signal = "requestedMessage"}

LEMMA OutstandingIsPlaces ==
  ASSUME ProducerTypeOK
  PROVE  /\ RequestCalls = Places(calls, IsRequest)
         /\ RequestReplies = Places(replies, IsAnswer)
  <1>1. \A i \in DOMAIN calls : calls[i] \in Call
    BY LenProperties, ElementOfSeq DEF ProducerTypeOK
  <1>2. \A i \in DOMAIN replies : replies[i] \in Reply
    BY LenProperties, ElementOfSeq DEF ProducerTypeOK
  <1> QED
    BY <1>1, <1>2 DEF RequestCalls, RequestReplies, Places, IsRequest, IsAnswer

LEMMA OutstandingPrimed ==
  ASSUME ProducerTypeOK'
  PROVE  /\ RequestCalls' = Places(calls', IsRequest)
         /\ RequestReplies' = Places(replies', IsAnswer)
  <1>1. \A i \in DOMAIN calls' : calls'[i] \in Call
    BY LenProperties, ElementOfSeq DEF ProducerTypeOK
  <1>2. \A i \in DOMAIN replies' : replies'[i] \in Reply
    BY LenProperties, ElementOfSeq DEF ProducerTypeOK
  <1> QED
    BY <1>1, <1>2 DEF RequestCalls, RequestReplies, Places, IsRequest, IsAnswer

(* How many requests wait for the storage, and how many answers for the    *)
(* producer.                                                               *)
Asked    == Cardinality(Places(calls, IsRequest))
Answered == Cardinality(Places(replies, IsAnswer))

LEMMA OutstandingIsSum ==
  ProducerTypeOK => Outstanding = Asked + Answered
                    /\ Asked \in Nat /\ Answered \in Nat
  BY OutstandingIsPlaces, PlacesFinite
     DEF Outstanding, Asked, Answered, ProducerTypeOK

LEMMA OutstandingIsSumPrimed ==
  ProducerTypeOK' => Outstanding' = Asked' + Answered'
                     /\ Asked' \in Nat /\ Answered' \in Nat
  BY OutstandingPrimed, PlacesFinite
     DEF Outstanding, Asked, Answered, ProducerTypeOK

(* A request is one more call to the storage. *)
LEMMA RequestCounts ==
  ASSUME NEW earlier \in Seq(Call), ProducerTypeOK',
         requestNextMessage(earlier)
  PROVE  Asked' = Cardinality(Places(earlier, IsRequest)) + 1 /\ mRunning'
  <1> DEFINE call == [op |-> "request", keys |-> Values(mIdMap')]
  <1>1. Values(mIdMap') \in SUBSET Message
    BY DEF Values, ProducerTypeOK
  <1>2. call \in Call /\ call \in IsRequest
    BY <1>1 DEF Call, IsRequest
  <1>3. calls' = Append(earlier, call) /\ mRunning'
    BY DEF requestNextMessage
  <1> HIDE DEF call
  <1> QED
    BY <1>2, <1>3, PlacesAppend DEF Asked

(* The removal of the acknowledged keys is no request.                     *)
LEMMA RemovalCounts ==
  ASSUME ProducerTypeOK, NEW keys \in SUBSET Message
  PROVE  Cardinality(Places(Removal(keys), IsRequest)) = Asked
  <1> DEFINE call == [op |-> "remove", keys |-> keys]
  <1>1. call \in Call /\ call \notin IsRequest
    BY DEF Call, IsRequest
  <1>2. Removal(keys) = IF keys = {} THEN calls ELSE Append(calls, call)
    BY DEF Removal
  <1> HIDE DEF call
  <1> QED
    BY <1>1, <1>2, PlacesAppend DEF Asked, ProducerTypeOK

(* The slot start() asks only when no request is on its way.               *)
LEMMA SlotKeepsOne ==
  ASSUME ProducerTypeOK, ProducerTypeOK', OneRequest,
         NEW earlier \in Seq(Call),
         Cardinality(Places(earlier, IsRequest)) = Asked,
         Answered' = Answered,
         startSlot(earlier),
         UNCHANGED <<inherited, storageFailed>>
  PROVE  OneRequest'
  <1>1. CASE ~ mRunning /\ requestNextMessage(earlier)
    <2>1. Asked' = Asked + 1 /\ mRunning'
      BY <1>1, RequestCounts
    <2> QED
      BY <1>1, <2>1, OutstandingIsSum, OutstandingIsSumPrimed DEF OneRequest
  <1>2. CASE calls' = earlier /\ UNCHANGED <<mRunning, missedWake>>
    <2>1. Asked' = Asked
      BY <1>2 DEF Asked
    <2> QED
      BY <1>2, <2>1, OutstandingIsSum, OutstandingIsSumPrimed DEF OneRequest
  <1> QED
    BY <1>1, <1>2 DEF startSlot

(* Every step keeps the requests on their way at one.                      *)
LEMMA NextOneRequest ==
  BatapInv /\ ProducerTypeOK /\ OneRequest /\ [ProducerNext]_vars
    => OneRequest'
  <1> SUFFICES ASSUME BatapInv, ProducerTypeOK, OneRequest,
                      [ProducerNext]_vars
               PROVE  OneRequest'
    OBVIOUS
  <1>0. ProducerTypeOK'
    BY NextProducerType
  <1> DEFINE Same == UNCHANGED <<mRunning, calls, replies, inherited,
                                 storageFailed>>
  <1>1. ASSUME Same PROVE OneRequest'
    <2>1. Asked' = Asked /\ Answered' = Answered
      BY <1>1 DEF Asked, Answered
    <2> QED
      BY <1>0, <1>1, <2>1, OutstandingIsSum, OutstandingIsSumPrimed DEF OneRequest
  <1>2. CASE onStart \/ onResume
    <2>1. startSlot(calls) /\ UNCHANGED <<replies, inherited, storageFailed>>
      BY <1>2 DEF onStart, onResume, NothingElse
    <2> QED
      BY <1>0, <2>1, SlotKeepsOne DEF Asked, Answered, ProducerTypeOK
  <1>3. CASE onMessageDelivered
    <2>1. PICK keys \in SUBSET Message : startSlot(Removal(keys))
      BY <1>3, AckEffect
    <2>2. UNCHANGED <<replies, inherited, storageFailed>>
      BY <1>3 DEF onMessageDelivered
    <2> QED
      BY <1>0, <2>1, <2>2, RemovalType, RemovalCounts, SlotKeepsOne DEF Answered
  <1>4. CASE onHasMessage
    <2>1. /\ replies # <<>> /\ replies' = Tail(replies)
          /\ Head(replies) \notin IsAnswer
          /\ startSlot(calls) /\ UNCHANGED <<inherited, storageFailed>>
      BY <1>4 DEF onHasMessage, HeadIs, IsAnswer, NothingElse
    <2>2. Answered' = Answered
      BY <2>1, PlacesTail DEF Answered, ProducerTypeOK
    <2> QED
      BY <1>0, <2>1, <2>2, SlotKeepsOne DEF Asked, ProducerTypeOK
  <1>5. CASE onRequestedMessage
    <2>1. /\ replies # <<>> /\ replies' = Tail(replies)
          /\ Head(replies) \in IsAnswer
          /\ UNCHANGED <<inherited, storageFailed>>
      BY <1>5, AnswerEffect DEF onRequestedMessage, IsAnswer, NothingElse
    <2>2. Answered = Answered' + 1
      <3>1. Places(Tail(replies), IsAnswer) = Places(replies', IsAnswer)
        BY <2>1
      <3> QED
        BY <2>1, <3>1, PlacesTail, OutstandingIsSum DEF Answered, ProducerTypeOK
    <2>3. CASE requestNextMessage(calls)
      <3>1. Asked' = Asked + 1 /\ mRunning'
        BY <1>0, <2>3, RequestCounts DEF Asked, ProducerTypeOK
      <3> QED
        BY <1>0, <2>1, <2>2, <3>1, OutstandingIsSum, OutstandingIsSumPrimed
           DEF OneRequest
    <2>4. CASE mRunning' = FALSE /\ UNCHANGED <<calls, missedWake>>
      <3>1. Asked' = Asked
        BY <2>4 DEF Asked
      <3> QED
        BY <1>0, <2>1, <2>2, <2>4, <3>1, OutstandingIsSum,
           OutstandingIsSumPrimed DEF OneRequest
    <2> QED
      BY <1>5, <2>3, <2>4 DEF onRequestedMessage
  <1>6. ASSUME NEW m \in Message, addMessage(m) PROVE OneRequest'
    <2> DEFINE news == [signal |-> "hasMessage", key |-> NoMessage]
    <2>1. news \in Reply /\ news \notin IsAnswer
      BY DEF Reply, IsAnswer
    <2>2. replies' = Append(replies, news) \/ replies' = replies
      BY <1>6 DEF addMessage
    <2>3. UNCHANGED <<mRunning, calls, inherited, storageFailed>>
      BY <1>6 DEF addMessage, producerVars
    <2>4. Answered' = Answered
      <3> HIDE DEF news
      <3>1. CASE replies' = Append(replies, news)
        BY <2>1, <3>1, PlacesAppend DEF Answered, ProducerTypeOK
      <3>2. CASE replies' = replies
        BY <3>2 DEF Answered
      <3> QED
        BY <2>2, <3>1, <3>2
    <2>5. Asked' = Asked
      BY <2>3 DEF Asked
    <2> QED
      BY <1>0, <2>3, <2>4, <2>5, OutstandingIsSum, OutstandingIsSumPrimed
         DEF OneRequest
  <1>7. CASE removeMessage
    <2>1. /\ calls # <<>> /\ calls' = Tail(calls)
          /\ Head(calls) \notin IsRequest
          /\ UNCHANGED <<mRunning, replies, inherited, storageFailed>>
      BY <1>7 DEF removeMessage, IsRequest, producerVars
    <2>2. Asked' = Asked
      BY <2>1, PlacesTail DEF Asked, ProducerTypeOK
    <2>3. Answered' = Answered
      BY <2>1 DEF Answered
    <2> QED
      BY <1>0, <2>1, <2>2, <2>3, OutstandingIsSum, OutstandingIsSumPrimed
         DEF OneRequest
  <1>8. CASE answerRequest \/ failRequest
    <2>1. calls # <<>> /\ calls' = Tail(calls) /\ Head(calls).op = "request"
      BY <1>8 DEF answerRequest, failRequest
    <2>2. Head(calls) \in IsRequest
      BY <2>1, HeadTailProperties DEF ProducerTypeOK, IsRequest
    <2>3. Asked = Asked' + 1
      <3>1. Places(Tail(calls), IsRequest) = Places(calls', IsRequest)
        BY <2>1
      <3> QED
        BY <2>1, <2>2, <3>1, PlacesTail DEF Asked, ProducerTypeOK
    <2>4. CASE answerRequest
      <3>1. PICK key : replies' = Append(replies,
                                  [signal |-> "requestedMessage", key |-> key])
        BY <2>4 DEF answerRequest
      <3> DEFINE answer == [signal |-> "requestedMessage", key |-> key]
      <3>2. Append(replies, answer)[Len(replies) + 1] = answer
            /\ Len(replies) + 1 \in DOMAIN Append(replies, answer)
        BY DEF ProducerTypeOK
      <3>3. answer \in Reply
        <4> HIDE DEF answer
        <4> QED
          BY <1>0, <3>1, <3>2, ElementOfSeq, LenProperties
             DEF ProducerTypeOK, answer
      <3>4. answer \in IsAnswer
        BY <3>3 DEF IsAnswer
      <3>5. Answered' = Answered + 1
        <4> HIDE DEF answer
        <4> QED
          BY <3>1, <3>3, <3>4, PlacesAppend DEF Answered, ProducerTypeOK, answer
      <3>6. UNCHANGED <<mRunning, inherited, storageFailed>>
        BY <2>4 DEF answerRequest, producerVars, ghostVars
      <3> QED
        BY <1>0, <2>3, <3>5, <3>6, OutstandingIsSum, OutstandingIsSumPrimed
           DEF OneRequest
    <2>5. CASE failRequest
      <3>1. UNCHANGED <<mRunning, replies, inherited>> /\ storageFailed'
        BY <2>5 DEF failRequest, producerVars
      <3>2. Answered' = Answered
        BY <3>1 DEF Answered
      <3> QED
        BY <1>0, <2>3, <3>1, <3>2, OutstandingIsSum, OutstandingIsSumPrimed
           DEF OneRequest
    <2> QED
      BY <1>8, <2>4, <2>5
  <1>9. ASSUME NEW m \in Message, expire(m) PROVE OneRequest'
    BY <1>1, <1>9 DEF expire, producerVars, ghostVars
  <1>10. ASSUME NEW id \in Serial, onTimer(id) PROVE OneRequest'
    BY <1>1, <1>10 DEF onTimer, producerVars, storageVars, NothingElse
  <1>11. CASE BatapOnly \/ UNCHANGED vars
    BY <1>1, <1>11 DEF BatapOnly, producerVars, storageVars, ghostVars, vars
  <1>12. CASE reconnect
    <2>1. ~ mRunning' /\ replies' = <<>>
      BY <1>12 DEF reconnect
    <2>2. inherited' = \E i \in DOMAIN calls' : calls'[i].op = "request"
      BY <1>12 DEF reconnect
    <2>3. Answered' = 0
      <3>1. Places(replies', IsAnswer) = {}
        BY <2>1 DEF Places
      <3> QED
        BY <3>1, FS_EmptySet DEF Answered
    <2>4. ~ inherited' => Asked' = 0
      <3>1. ~ inherited' => Places(calls', IsRequest) = {}
        BY <2>2 DEF Places, IsRequest
      <3> QED
        BY <3>1, FS_EmptySet DEF Asked
    <2>5. Outstanding' = Asked' /\ Asked' \in Nat
      BY <1>0, <2>3, OutstandingIsSumPrimed
    <2>6. ~ inherited' => Outstanding' = 0
      BY <2>4, <2>5
    <2> QED
      BY <2>1, <2>6 DEF OneRequest
  <1> QED
    BY <1>2, <1>3, <1>4, <1>5, <1>6, <1>7, <1>8, <1>9, <1>10, <1>11, <1>12
       DEF ProducerNext

LEMMA InitOneRequest == ProducerInit => OneRequest
  <1> SUFFICES ASSUME ProducerInit PROVE OneRequest
    OBVIOUS
  <1>1. RequestCalls = {} /\ RequestReplies = {}
    BY DEF ProducerInit, RequestCalls, RequestReplies
  <1> QED
    BY <1>1, FS_EmptySet DEF ProducerInit, OneRequest, Outstanding

(* The producer never has a second request on its way, and mRunning is set *)
(* exactly while there is one, so that start() neither repeats a request   *)
(* nor waits for ever; a Redis error and what an earlier session left      *)
(* behind are the exceptions the code has.                                 *)
THEOREM RequestsAreSingle == ProducerSpec => []OneRequest
  <1>1. ProducerInit => OneRequest
    BY InitOneRequest
  <1>2. (BatapInv /\ ProducerTypeOK) /\ OneRequest /\ [ProducerNext]_vars
          => OneRequest'
    BY NextOneRequest
  <1> QED
    BY <1>1, <1>2, ProducerTypeInvariant, PTL DEF ProducerSpec

----------------------------------------------------------------------------
(* The map from serials to keys. *)

SentAreMapped ==
  \A id \in Pending : mIdMap[id] = mPendingMessages[id].message

NoneTwice ==
  \A i, j \in Serial : mIdMap[i] = mIdMap[j] => i = j \/ mIdMap[i] = NoMessage

(* Every request on its way leaves out all that is in flight now, and the  *)
(* answer to one is not in flight: what the map lost in the meantime does  *)
(* no harm, and it gains a key only by an answer.                          *)
FreeCalls(cs, map) ==
  \A i \in DOMAIN cs : cs[i].op = "request" => Values(map) \subseteq cs[i].keys

FreeAnswers(rs, map) ==
  \A i \in DOMAIN rs :
    rs[i].signal = "requestedMessage" => rs[i].key \notin Values(map)

MapInv ==
  /\ SentAreMapped
  /\ inherited \/ /\ NoneTwice
                  /\ FreeCalls(calls, mIdMap)
                  /\ FreeAnswers(replies, mIdMap)

LEMMA MapInvIsEnough == MapInv => IdMapIsExact
  BY DEF MapInv, SentAreMapped, NoneTwice, IdMapIsExact

(* A step that makes nothing pending and changes no text.                  *)
LEMMA MappedShrinks ==
  ASSUME SentAreMapped, Pending' \subseteq Pending,
         \A id \in Pending' :
           /\ mPendingMessages'[id].message = mPendingMessages[id].message
           /\ mIdMap'[id] = mIdMap[id]
  PROVE  SentAreMapped'
  BY DEF SentAreMapped

(* Every step keeps the pending entries and the map in agreement.          *)
LEMMA NextSentAreMapped ==
  BatapInv /\ ProducerTypeOK /\ SentAreMapped /\ [ProducerNext]_vars
    => SentAreMapped'
  <1> SUFFICES ASSUME BatapInv, ProducerTypeOK, SentAreMapped,
                      [ProducerNext]_vars
               PROVE  SentAreMapped'
    OBVIOUS
  <1>1. ASSUME UNCHANGED <<mPendingMessages, mIdMap>> PROVE SentAreMapped'
    BY <1>1, MappedShrinks DEF Pending
  <1>2. CASE onStart \/ onResume \/ onHasMessage
    BY <1>1, <1>2 DEF onStart, onResume, onHasMessage, start,
                      onResumeTransmission, senderVars
  <1>3. CASE onMessageDelivered
    <2>1. PICK ids \in SUBSET Pending :
            /\ Pending' = Pending \ ids
            /\ \A id \in Serial :
                 mPendingMessages'[id].message = mPendingMessages[id].message
            /\ mIdMap' = [id \in Serial |-> IF id \in ids THEN NoMessage
                                                          ELSE mIdMap[id]]
      BY <1>3, AckEffect
    <2>2. \A id \in Pending' : id \in Serial /\ id \notin ids
      BY <2>1 DEF Pending
    <2> QED
      BY <2>1, <2>2, MappedShrinks
  <1>4. ASSUME NEW id \in Serial, onTimer(id) PROVE SentAreMapped'
    <2>1. mIdMap' = mIdMap /\ timerEvent(id)
      BY <1>4 DEF onTimer, producerVars
    <2>2. CASE fail(id)
      <3>1. /\ Pending' = Pending \ {id}
            /\ \A i \in Serial :
                 mPendingMessages'[i].message = mPendingMessages[i].message
        BY <2>2, FailIsRemoval, RemoveEntriesType DEF BatapInv
      <3>2. Pending' \subseteq Serial
        BY DEF Pending
      <3> QED
        BY <2>1, <3>1, <3>2, MappedShrinks
    <2>3. CASE resend(id)
      <3>1. id \in Pending /\ mPendingMessages[id].message \in Message
        BY <2>1 DEF timerEvent, BatapInv, TypeInv, PendingHasMessage
      <3>2. sendMessage(mPendingMessages[id].message, id, TRUE)
        BY <2>3 DEF resend
      <3>3. Pending' = Pending \cup {id}
        BY <3>1, <3>2, SendPending DEF BatapInv
      <3>4. \A i \in Serial :
              mPendingMessages'[i].message = mPendingMessages[i].message
        BY <3>2 DEF sendMessage, BatapInv, TypeInv, TypeOK
      <3>5. Pending' \subseteq Serial
        BY DEF Pending
      <3> QED
        BY <2>1, <3>1, <3>3, <3>4, <3>5, MappedShrinks
    <2> QED
      BY <2>1, <2>2, <2>3 DEF timerEvent
  <1>5. CASE onRequestedMessage
    <2> DEFINE m == Head(replies).key
    <2>1. CASE /\ m \in Message /\ NextSerial \in Serial
               /\ send(m)
               /\ mIdMap' = [mIdMap EXCEPT ![NextSerial] = m]
      <3>1. sendMessage(m, NextSerial, FALSE)
        BY <2>1 DEF send
      <3>2. Pending' = Pending \cup {NextSerial}
        BY <2>1, <3>1, SendPending DEF BatapInv
      <3>3. \A id \in Serial :
              mPendingMessages'[id].message =
                IF id = NextSerial THEN m ELSE mPendingMessages[id].message
        BY <2>1, <3>1 DEF sendMessage, BatapInv, TypeInv, TypeOK
      <3>4. \A id \in Serial :
              mIdMap'[id] = IF id = NextSerial THEN m ELSE mIdMap[id]
        BY <2>1 DEF ProducerTypeOK
      <3>5. Pending \subseteq Serial
        BY DEF Pending
      <3> QED
        BY <2>1, <3>2, <3>3, <3>4, <3>5 DEF SentAreMapped
    <2>2. CASE UNCHANGED <<senderVars, mIdMap>>
      BY <1>1, <2>2 DEF senderVars
    <2> QED
      BY <1>5, <2>1, <2>2, AnswerEffect
  <1>6. ASSUME NEW m \in Message, addMessage(m) \/ expire(m)
        PROVE  SentAreMapped'
    BY <1>1, <1>6 DEF addMessage, expire, senderVars, producerVars
  <1>7. CASE removeMessage \/ answerRequest \/ failRequest
    BY <1>1, <1>7 DEF removeMessage, answerRequest, failRequest, senderVars,
                      producerVars
  <1>8. CASE BatapOnly \/ UNCHANGED vars
    BY <1>1, <1>8 DEF BatapOnly, stop, onStopTransmission, processMessage,
                      sendImaMessage, peerHoldsOrResumes,
                      onSocketDisconnected, senderVars, producerVars, vars,
                      batapVars
  <1>9. CASE reconnect
    <2>1. Pending' = {}
      BY <1>9 DEF reconnect, newSession, Pending, NoEntry
    <2> QED
      BY <2>1 DEF SentAreMapped
  <1> QED
    BY <1>2, <1>3, <1>4, <1>5, <1>6, <1>7, <1>8, <1>9 DEF ProducerNext

(* Taking the head keeps what is said of every element.                    *)
LEMMA FreeCallsTail ==
  ASSUME NEW cs \in Seq(Call), cs # <<>>, NEW map, FreeCalls(cs, map)
  PROVE  FreeCalls(Tail(cs), map)
  BY TailElement DEF FreeCalls

LEMMA FreeAnswersTail ==
  ASSUME NEW rs \in Seq(Reply), rs # <<>>, NEW map, FreeAnswers(rs, map)
  PROVE  FreeAnswers(Tail(rs), map)
  BY TailElement DEF FreeAnswers

(* The slot start() keeps the requests free of what is in flight.          *)
LEMMA SlotKeepsFree ==
  ASSUME NEW earlier \in Seq(Call), ProducerTypeOK',
         FreeCalls(earlier, mIdMap'),
         startSlot(earlier) \/ requestNextMessage(earlier)
  PROVE  FreeCalls(calls', mIdMap')
  <1>1. CASE calls' = earlier
    BY <1>1
  <1>2. CASE requestNextMessage(earlier)
    <2> DEFINE call == [op |-> "request", keys |-> Values(mIdMap')]
    <2>1. Values(mIdMap') \in SUBSET Message
      BY DEF Values, ProducerTypeOK
    <2>2. call \in Call
      BY <2>1 DEF Call
    <2>3. calls' = Append(earlier, call) /\ call.keys = Values(mIdMap')
      BY <1>2 DEF requestNextMessage
    <2> HIDE DEF call
    <2>4. /\ DOMAIN calls' = DOMAIN earlier \cup {Len(earlier) + 1}
          /\ \A i \in DOMAIN earlier : calls'[i] = earlier[i]
          /\ calls'[Len(earlier) + 1] = call
      BY <2>2, <2>3, AppendElement
    <2> QED
      BY <2>3, <2>4 DEF FreeCalls
  <1> QED
    BY <1>1, <1>2 DEF startSlot

(* While a session inherits nothing, an answer on its way is the only one, *)
(* and no request is on its way with it.                                   *)
LEMMA OnlyAnswer ==
  ASSUME ProducerTypeOK, ProducerTypeOK', OneRequest, ~ inherited,
         replies # <<>>, Head(replies).signal = "requestedMessage",
         replies' = Tail(replies)
  PROVE  RequestCalls = {} /\ RequestReplies' = {}
  <1>1. Head(replies) \in IsAnswer
    BY HeadTailProperties DEF ProducerTypeOK, IsAnswer
  <1>2. Answered = Answered' + 1
    <2>1. Places(Tail(replies), IsAnswer) = Places(replies', IsAnswer)
      OBVIOUS
    <2> QED
      BY <1>1, <2>1, PlacesTail, OutstandingIsSum DEF Answered, ProducerTypeOK
  <1>3. Asked = 0 /\ Answered' = 0
    BY <1>2, OutstandingIsSum, OutstandingIsSumPrimed DEF OneRequest
  <1>4. Places(calls, IsRequest) = {}
    BY <1>3, PlacesFinite, FS_EmptySet DEF Asked, ProducerTypeOK
  <1>5. Places(replies', IsAnswer) = {}
    BY <1>3, PlacesFinite, FS_EmptySet DEF Answered, ProducerTypeOK
  <1> QED
    BY <1>4, <1>5, OutstandingIsPlaces, OutstandingPrimed

(* Every step keeps the map injective and the requests ahead of it.        *)
LEMMA NextMapInv ==
  BatapInv /\ ProducerTypeOK /\ OneRequest /\ MapInv /\ [ProducerNext]_vars
    => MapInv'
  <1> SUFFICES ASSUME BatapInv, ProducerTypeOK, OneRequest, MapInv,
                      [ProducerNext]_vars
               PROVE  MapInv'
    OBVIOUS
  <1>0. ProducerTypeOK' /\ SentAreMapped'
    BY NextProducerType, NextSentAreMapped DEF MapInv
  <1> DEFINE Free == NoneTwice /\ FreeCalls(calls, mIdMap)
                       /\ FreeAnswers(replies, mIdMap)
  <1>a. ASSUME inherited' = inherited, ~ inherited => Free' PROVE MapInv'
    BY <1>0, <1>a DEF MapInv
  <1>b. ~ inherited => Free
    BY DEF MapInv
  <1>1. CASE onStart \/ onResume
    <2>1. startSlot(calls) /\ UNCHANGED <<mIdMap, replies, inherited>>
      BY <1>1 DEF onStart, onResume, NothingElse
    <2>2. ~ inherited => Free'
      BY <1>0, <1>b, <2>1, SlotKeepsFree DEF NoneTwice, ProducerTypeOK
    <2> QED
      BY <1>a, <2>1, <2>2
  <1>2. CASE onMessageDelivered
    <2>1. PICK ids \in SUBSET Pending :
            /\ mIdMap' = [id \in Serial |-> IF id \in ids THEN NoMessage
                                                          ELSE mIdMap[id]]
            /\ LET keys == {mIdMap[id] : id \in ids} \ {NoMessage}
               IN keys \in SUBSET Message /\ startSlot(Removal(keys))
      BY <1>2, AckEffect
    <2> DEFINE keys == {mIdMap[id] : id \in ids} \ {NoMessage}
               call == [op |-> "remove", keys |-> keys]
    <2>2. keys \in SUBSET Message /\ startSlot(Removal(keys))
      BY <2>1
    <2>3. UNCHANGED <<replies, inherited>>
      BY <1>2 DEF onMessageDelivered
    <2>4. Values(mIdMap') \subseteq Values(mIdMap)
      BY <2>1 DEF Values
    <2>5. ASSUME ~ inherited PROVE Free'
      <3>1. NoneTwice'
        BY <1>b, <2>1, <2>5 DEF NoneTwice, ProducerTypeOK
      <3>2. FreeAnswers(replies', mIdMap')
        BY <1>b, <2>3, <2>4, <2>5 DEF FreeAnswers
      <3>3. FreeCalls(calls, mIdMap')
        BY <1>b, <2>4, <2>5 DEF FreeCalls
      <3>4. FreeCalls(Removal(keys), mIdMap')
        <4>1. call \in Call /\ call.op # "request"
          BY <2>2 DEF Call
        <4>2. Removal(keys) = calls \/ Removal(keys) = Append(calls, call)
          BY DEF Removal
        <4> HIDE DEF call
        <4>3. CASE Removal(keys) = Append(calls, call)
          <5>1. /\ DOMAIN Append(calls, call) = DOMAIN calls \cup {Len(calls) + 1}
                /\ \A i \in DOMAIN calls : Append(calls, call)[i] = calls[i]
                /\ Append(calls, call)[Len(calls) + 1] = call
            BY <4>1, AppendElement DEF ProducerTypeOK
          <5> QED
            BY <3>3, <4>1, <4>3, <5>1 DEF FreeCalls
        <4> QED
          BY <3>3, <4>2, <4>3
      <3>5. FreeCalls(calls', mIdMap')
        <4> HIDE DEF keys
        <4> QED
          BY <1>0, <2>2, <3>4, RemovalType, SlotKeepsFree
      <3> QED
        BY <3>1, <3>2, <3>5
    <2> QED
      BY <1>a, <2>3, <2>5
  <1>3. CASE onHasMessage
    <2>1. /\ replies # <<>> /\ replies' = Tail(replies)
          /\ startSlot(calls) /\ UNCHANGED <<mIdMap, inherited>>
      BY <1>3 DEF onHasMessage, HeadIs, NothingElse
    <2>2. ~ inherited => Free'
      BY <1>0, <1>b, <2>1, SlotKeepsFree, FreeCallsTail, FreeAnswersTail DEF NoneTwice, ProducerTypeOK
    <2> QED
      BY <1>a, <2>1, <2>2
  <1>4. CASE onRequestedMessage
    <2> DEFINE m == Head(replies).key
    <2>1. /\ replies # <<>> /\ replies' = Tail(replies)
          /\ Head(replies) \in Reply
          /\ Head(replies).signal = "requestedMessage"
          /\ inherited' = inherited
      BY <1>4, AnswerEffect DEF onRequestedMessage, NothingElse
    <2>2. \/ requestNextMessage(calls)
          \/ calls' = calls
      BY <1>4 DEF onRequestedMessage
    <2>3. ASSUME ~ inherited PROVE Free'
      <3>1. RequestCalls = {} /\ RequestReplies' = {}
        BY <1>0, <2>1, <2>3, OnlyAnswer
      <3>2. FreeAnswers(replies', mIdMap')
        BY <3>1 DEF RequestReplies, FreeAnswers
      <3>3. FreeCalls(calls, mIdMap')
        BY <3>1 DEF RequestCalls, FreeCalls
      <3>4. FreeCalls(calls', mIdMap')
        BY <1>0, <2>2, <3>3, SlotKeepsFree DEF ProducerTypeOK
      <3>5. NoneTwice'
        <4>1. 1 \in DOMAIN replies /\ Head(replies) = replies[1]
          BY <2>1, TailElement DEF ProducerTypeOK
        <4>2. m \notin Values(mIdMap)
          BY <1>b, <2>1, <2>3, <4>1 DEF FreeAnswers
        <4>3. CASE mIdMap' = mIdMap
          BY <1>b, <2>3, <4>3 DEF NoneTwice
        <4>4. CASE /\ m \in Message /\ NextSerial \in Serial
                   /\ mIdMap' = [mIdMap EXCEPT ![NextSerial] = m]
          <5>1. \A id \in Serial :
                  mIdMap'[id] = IF id = NextSerial THEN m ELSE mIdMap[id]
            BY <4>4 DEF ProducerTypeOK
          <5>2. \A id \in Serial : mIdMap[id] # m
            BY <4>2, <4>4, BatapAssumption DEF Values
          <5> QED
            BY <1>b, <2>3, <5>1, <5>2 DEF NoneTwice
        <4> QED
          BY <1>4, <4>3, <4>4, AnswerEffect
      <3> QED
        BY <3>2, <3>4, <3>5
    <2> QED
      BY <1>a, <2>1, <2>3
  <1>5. ASSUME NEW m \in Message, addMessage(m) PROVE MapInv'
    <2> DEFINE news == [signal |-> "hasMessage", key |-> NoMessage]
    <2>1. news \in Reply /\ news.signal # "requestedMessage"
      BY DEF Reply
    <2>2. replies' = Append(replies, news) \/ replies' = replies
      BY <1>5 DEF addMessage
    <2>3. UNCHANGED <<mIdMap, calls, inherited>>
      BY <1>5 DEF addMessage, producerVars
    <2> HIDE DEF news
    <2>4. ASSUME FreeAnswers(replies, mIdMap)
          PROVE  FreeAnswers(replies', mIdMap)
      <3>1. CASE replies' = Append(replies, news)
        <4>1. /\ DOMAIN replies' = DOMAIN replies \cup {Len(replies) + 1}
              /\ \A i \in DOMAIN replies : replies'[i] = replies[i]
              /\ replies'[Len(replies) + 1] = news
          BY <2>1, <3>1, AppendElement DEF ProducerTypeOK
        <4> QED
          BY <2>1, <2>4, <4>1 DEF FreeAnswers
      <3> QED
        BY <2>2, <2>4, <3>1
    <2> QED
      BY <1>a, <1>b, <2>3, <2>4 DEF NoneTwice
  <1>6. CASE removeMessage \/ failRequest
    <2>1. /\ calls # <<>> /\ calls' = Tail(calls)
          /\ UNCHANGED <<mIdMap, replies, inherited>>
      BY <1>6 DEF removeMessage, failRequest, producerVars
    <2> QED
      BY <1>a, <1>b, <2>1, FreeCallsTail, FreeAnswersTail DEF NoneTwice, ProducerTypeOK
  <1>7. CASE answerRequest
    <2> DEFINE keys  == Head(calls).keys
               first == FirstFree(keys)
               key   == IF first \in DOMAIN queue THEN queue[first] ELSE NoMessage
               answer == [signal |-> "requestedMessage", key |-> key]
    <2>1. /\ calls # <<>> /\ calls' = Tail(calls) /\ Head(calls).op = "request"
          /\ replies' = Append(replies, answer)
          /\ UNCHANGED <<mIdMap, inherited>>
      BY <1>7 DEF answerRequest, producerVars, ghostVars
    <2>2. ASSUME ~ inherited PROVE Free'
      <3>1. Values(mIdMap) \subseteq keys
        <4>1. 1 \in DOMAIN calls /\ Head(calls) = calls[1]
          BY <2>1, TailElement DEF ProducerTypeOK
        <4> QED
          BY <1>b, <2>1, <2>2, <4>1 DEF FreeCalls
      <3>2. key \notin Values(mIdMap)
        <4>1. first \in DOMAIN queue => queue[first] \notin keys \cup expired
          BY FirstFreeProperties DEF ProducerTypeOK
        <4>2. NoMessage \notin Values(mIdMap)
          BY DEF Values
        <4> HIDE DEF keys, first
        <4> QED
          BY <3>1, <4>1, <4>2
      <3>3. answer \in Reply
        <4>1. first \in DOMAIN queue => queue[first] \in Message
          BY ElementOfSeq, LenProperties DEF ProducerTypeOK
        <4>2. key \in Message \cup {NoMessage}
          <5> HIDE DEF first
          <5> QED
            BY <4>1
        <4> HIDE DEF key
        <4> QED
          BY <4>2 DEF Reply
      <3>4. answer.key = key
        OBVIOUS
      <3> HIDE DEF answer, key
      <3>5. /\ DOMAIN replies' = DOMAIN replies \cup {Len(replies) + 1}
            /\ \A i \in DOMAIN replies : replies'[i] = replies[i]
            /\ replies'[Len(replies) + 1] = answer
        BY <2>1, <3>3, AppendElement DEF ProducerTypeOK
      <3>6. FreeAnswers(replies', mIdMap)
        BY <1>b, <2>2, <3>2, <3>4, <3>5 DEF FreeAnswers
      <3>7. FreeCalls(calls', mIdMap)
        BY <1>b, <2>1, <2>2, FreeCallsTail, FreeAnswersTail DEF ProducerTypeOK
      <3> QED
        BY <1>b, <2>1, <2>2, <3>6, <3>7 DEF NoneTwice
    <2> QED
      BY <1>a, <2>1, <2>2
  <1>8. CASE UNCHANGED <<mIdMap, calls, replies, inherited>>
    BY <1>a, <1>b, <1>8 DEF NoneTwice
  <1>9. ASSUME NEW m \in Message, expire(m) PROVE MapInv'
    BY <1>8, <1>9 DEF expire, producerVars, ghostVars
  <1>10. ASSUME NEW id \in Serial, onTimer(id) PROVE MapInv'
    BY <1>8, <1>10 DEF onTimer, producerVars, storageVars, NothingElse
  <1>11. CASE BatapOnly \/ UNCHANGED vars
    BY <1>8, <1>11 DEF BatapOnly, producerVars, storageVars, ghostVars, vars
  <1>12. CASE reconnect
    <2>1. /\ mIdMap' = NoIds /\ replies' = <<>>
          /\ inherited' = \E i \in DOMAIN calls' : calls'[i].op = "request"
      BY <1>12 DEF reconnect
    <2>2. NoneTwice'
      BY <2>1 DEF NoneTwice, NoIds
    <2>3. FreeAnswers(replies', mIdMap')
      BY <2>1 DEF FreeAnswers
    <2>4. ~ inherited' => FreeCalls(calls', mIdMap')
      BY <2>1 DEF FreeCalls
    <2> QED
      BY <1>0, <2>2, <2>3, <2>4 DEF MapInv
  <1> QED
    BY <1>1, <1>2, <1>3, <1>4, <1>5, <1>6, <1>7, <1>9, <1>10, <1>11, <1>12
       DEF ProducerNext

LEMMA InitMapInv == ProducerInit => MapInv
  <1> SUFFICES ASSUME ProducerInit PROVE MapInv
    OBVIOUS
  <1>1. Pending = {}
    BY DEF ProducerInit, Init, Pending, NoEntry
  <1>2. NoneTwice
    BY DEF ProducerInit, NoneTwice, NoIds
  <1> QED
    BY <1>1, <1>2 DEF ProducerInit, MapInv, SentAreMapped, FreeCalls, FreeAnswers

(* The producer's map says of every serial in flight which key it stands   *)
(* for, so that an ack removes the right message, and of no key twice: the *)
(* storage never hands out a message in flight, although it looks at the   *)
(* keys to leave out long after the producer read them.                    *)
THEOREM IdMapCorrect == ProducerSpec => []IdMapIsExact
  <1>1. ProducerInit => OneRequest /\ MapInv
    BY InitOneRequest, InitMapInv
  <1>2. (BatapInv /\ ProducerTypeOK) /\ (OneRequest /\ MapInv)
          /\ [ProducerNext]_vars => (OneRequest /\ MapInv)'
    BY NextOneRequest, NextMapInv
  <1>3. OneRequest /\ MapInv => IdMapIsExact
    BY MapInvIsEnough
  <1> QED
    BY <1>1, <1>2, <1>3, ProducerTypeInvariant, PTL DEF ProducerSpec

----------------------------------------------------------------------------
(* No message is forgotten. *)

(* Where a message put on the list may be found later.                     *)
Accounted == peerReceived \cup ToSet(queue) \cup expired \cup credited

(* The keys the storage was told to remove are settled.                    *)
RemovesSettled(cs, settled) ==
  \A i \in DOMAIN cs : cs[i].op = "remove" => cs[i].keys \subseteq settled

(* Every message ever put on the list is accounted for, and what is in     *)
(* flight, handed out by the storage or on the wire was put on the list.   *)
KeepInv ==
  /\ Accounted = added
  /\ Values(mIdMap) \subseteq added
  /\ \A i \in RequestReplies : replies[i].key \in added \cup {NoMessage}
  /\ \A i \in DOMAIN toPeer : toPeer[i].message \in added
  /\ RemovesSettled(calls, peerReceived \cup credited)

LEMMA RemovesTail ==
  ASSUME NEW cs \in Seq(Call), cs # <<>>, NEW settled,
         RemovesSettled(cs, settled)
  PROVE  RemovesSettled(Tail(cs), settled)
  BY TailElement DEF RemovesSettled

(* A request removes nothing.                                              *)
LEMMA SlotRemoves ==
  ASSUME NEW earlier \in Seq(Call), ProducerTypeOK', NEW settled,
         RemovesSettled(earlier, settled),
         startSlot(earlier) \/ requestNextMessage(earlier)
  PROVE  RemovesSettled(calls', settled)
  <1>1. CASE calls' = earlier
    BY <1>1
  <1>2. CASE requestNextMessage(earlier)
    <2> DEFINE call == [op |-> "request", keys |-> Values(mIdMap')]
    <2>1. Values(mIdMap') \in SUBSET Message
      BY DEF Values, ProducerTypeOK
    <2>2. call \in Call
      BY <2>1 DEF Call
    <2>3. calls' = Append(earlier, call) /\ call.op # "remove"
      BY <1>2 DEF requestNextMessage
    <2> HIDE DEF call
    <2>4. /\ DOMAIN calls' = DOMAIN earlier \cup {Len(earlier) + 1}
          /\ \A i \in DOMAIN earlier : calls'[i] = earlier[i]
          /\ calls'[Len(earlier) + 1] = call
      BY <2>2, <2>3, AppendElement
    <2> QED
      BY <2>3, <2>4 DEF RemovesSettled
  <1> QED
    BY <1>1, <1>2 DEF startSlot

(* The keys an ack removes from the map were received by the peer, or are  *)
(* credited in that step.                                                  *)
LEMMA AckedAreSettled ==
  ASSUME BatapInv, ProducerTypeOK, SentAreMapped, NEW ids \in SUBSET Pending,
         ids = Head(toHere).serials \cap Pending, toHere # <<>>
  PROVE  \A id \in ids : mIdMap[id] \in peerReceived \/ id \in reused
  <1>1. 1 \in DOMAIN toHere /\ Head(toHere) = toHere[1]
    BY TailElement DEF BatapInv, TypeInv, TypeOK
  <1>2. \A id \in ids : id \in Serial /\ AckOutstanding(id)
    BY <1>1 DEF Pending, AckOutstanding
  <1>3. \A id \in ids :
          id \in reused \/ mPendingMessages[id].message \in peerReceived
    BY <1>2 DEF BatapInv, WireInv, AcksAreCurrent
  <1> QED
    BY <1>3 DEF SentAreMapped

(* The wire after a write holds what it held and the message written.      *)
LEMMA WriteKnown ==
  ASSUME BatapInv, NEW m \in Message, NEW id \in Serial, NEW pdm \in BOOLEAN,
         NEW known, sendMessage(m, id, pdm), m \in known,
         \A i \in DOMAIN toPeer : toPeer[i].message \in known
  PROVE  \A i \in DOMAIN toPeer' : toPeer'[i].message \in known
  <1> DEFINE packet == [message |-> m, pdm |-> pdm, serial |-> id]
  <1>1. packet \in Data /\ packet.message = m
    BY DEF Data
  <1>2. toPeer' = Append(toPeer, packet) \/ toPeer' = toPeer
    BY DEF sendMessage, writeMessage
  <1> HIDE DEF packet
  <1>3. CASE toPeer' = Append(toPeer, packet)
    <2>1. /\ DOMAIN toPeer' = DOMAIN toPeer \cup {Len(toPeer) + 1}
          /\ \A i \in DOMAIN toPeer : toPeer'[i] = toPeer[i]
          /\ toPeer'[Len(toPeer) + 1] = packet
      BY <1>1, <1>3, AppendElement DEF BatapInv, TypeInv, TypeOK
    <2> QED
      BY <1>1, <2>1
  <1> QED
    BY <1>2, <1>3

(* The four variables the promise is about.                                *)
Promised == <<peerReceived, queue, expired, credited>>

(* A step that leaves the promise alone and takes nothing new into flight. *)
LEMMA KeepUnchanged ==
  ASSUME KeepInv, UNCHANGED Promised, UNCHANGED added,
         Values(mIdMap') \subseteq added,
         \A i \in RequestReplies' : replies'[i].key \in added \cup {NoMessage},
         \A i \in DOMAIN toPeer' : toPeer'[i].message \in added,
         RemovesSettled(calls', peerReceived \cup credited)
  PROVE  KeepInv'
  BY DEF KeepInv, Promised, Accounted

(* Removing the head of the replies. *)
LEMMA RepliesTail ==
  ASSUME NEW known, NEW rs \in Seq(Reply), rs # <<>>,
         \A i \in DOMAIN rs :
           rs[i].signal = "requestedMessage" => rs[i].key \in known
  PROVE  \A i \in DOMAIN Tail(rs) :
           Tail(rs)[i].signal = "requestedMessage" => Tail(rs)[i].key \in known
  BY TailElement

(* Every step keeps every message accounted for.                           *)
LEMMA NextKeepInv ==
  BatapInv /\ ProducerTypeOK /\ SentAreMapped /\ KeepInv /\ [ProducerNext]_vars
    => KeepInv'
  <1> SUFFICES ASSUME BatapInv, ProducerTypeOK, SentAreMapped, KeepInv,
                      [ProducerNext]_vars
               PROVE  KeepInv'
    OBVIOUS
  <1>0. ProducerTypeOK'
    BY NextProducerType
  <1>a. \A i \in DOMAIN replies :
          replies[i].signal = "requestedMessage"
            => replies[i].key \in added \cup {NoMessage}
    BY DEF KeepInv, RequestReplies
  <1>b. RemovesSettled(calls, peerReceived \cup credited)
    BY DEF KeepInv
  <1>1. CASE onStart \/ onResume
    <2>1. /\ startSlot(calls)
          /\ UNCHANGED <<mIdMap, replies, toPeer, added>> /\ UNCHANGED Promised
      BY <1>1 DEF onStart, onResume, start, onResumeTransmission, NothingElse,
                  Promised, peerVars
    <2>2. RemovesSettled(calls', peerReceived \cup credited)
      BY <1>0, <1>b, <2>1, SlotRemoves DEF ProducerTypeOK
    <2> QED
      BY <2>1, <2>2, KeepUnchanged DEF KeepInv, RequestReplies
  <1>2. CASE onMessageDelivered
    <2>1. PICK ids \in SUBSET Pending :
            /\ ids = Head(toHere).serials \cap Pending
            /\ mIdMap' = [id \in Serial |-> IF id \in ids THEN NoMessage
                                                          ELSE mIdMap[id]]
            /\ LET keys == {mIdMap[id] : id \in ids} \ {NoMessage}
               IN keys \in SUBSET Message /\ startSlot(Removal(keys))
            /\ credited' = credited \cup
                 ({mIdMap[id] : id \in ids \cap reused} \ {NoMessage})
      BY <1>2, AckEffect
    <2> DEFINE keys == {mIdMap[id] : id \in ids} \ {NoMessage}
               call == [op |-> "remove", keys |-> keys]
               settled == peerReceived' \cup credited'
    <2>2. /\ UNCHANGED <<peerReceived, queue, expired, added, toPeer, replies>>
          /\ toHere # <<>>
      BY <1>2 DEF onMessageDelivered, processImaMessage, peerVars
    <2>3. \A id \in ids : mIdMap[id] \in peerReceived \/ id \in reused
      BY <2>1, <2>2, AckedAreSettled
    <2>4. keys \subseteq settled
      BY <2>1, <2>2, <2>3
    <2>5. keys \subseteq Values(mIdMap) /\ Values(mIdMap') \subseteq Values(mIdMap)
      BY <2>1 DEF Values, Pending
    <2>6. Accounted' = added'
      <3>1. credited \subseteq credited' /\ credited' \subseteq credited \cup keys
        BY <2>1
      <3> HIDE DEF keys
      <3> QED
        BY <2>2, <2>5, <3>1 DEF KeepInv, Accounted
    <2>7. RemovesSettled(calls, settled)
      <3>1. peerReceived \cup credited \subseteq settled
        BY <2>1, <2>2
      <3> HIDE DEF settled
      <3> QED
        BY <1>b, <3>1 DEF RemovesSettled
    <2>8. RemovesSettled(Removal(keys), settled)
      <3>1. call \in Call /\ call.keys = keys
        BY <2>1 DEF Call
      <3>2. Removal(keys) = calls \/ Removal(keys) = Append(calls, call)
        BY DEF Removal
      <3> HIDE DEF call, settled, keys
      <3>3. CASE Removal(keys) = Append(calls, call)
        <4>1. /\ DOMAIN Append(calls, call) = DOMAIN calls \cup {Len(calls) + 1}
              /\ \A i \in DOMAIN calls : Append(calls, call)[i] = calls[i]
              /\ Append(calls, call)[Len(calls) + 1] = call
          BY <3>1, AppendElement DEF ProducerTypeOK
        <4> QED
          BY <2>4, <2>7, <3>1, <3>3, <4>1 DEF RemovesSettled
      <3> QED
        BY <2>7, <3>2, <3>3
    <2>9. RemovesSettled(calls', settled)
      <3>1. keys \in SUBSET Message /\ startSlot(Removal(keys))
        BY <2>1
      <3> HIDE DEF keys, settled
      <3> QED
        BY <1>0, <2>8, <3>1, RemovalType, SlotRemoves
    <2> QED
      BY <2>2, <2>5, <2>6, <2>9 DEF KeepInv, RequestReplies
  <1>3. ASSUME NEW id \in Serial, onTimer(id) PROVE KeepInv'
    <2>1. /\ UNCHANGED <<mIdMap, replies, calls, added>> /\ UNCHANGED Promised
          /\ timerEvent(id)
      BY <1>3 DEF onTimer, timerEvent, NothingElse, Promised, peerVars,
                  producerVars, storageVars
    <2>2. \A i \in DOMAIN toPeer' : toPeer'[i].message \in added
      <3>1. CASE fail(id)
        BY <3>1 DEF fail, KeepInv
      <3>2. CASE resend(id)
        <4>1. id \in Pending /\ mPendingMessages[id].message \in Message
          BY <2>1 DEF timerEvent, BatapInv, TypeInv, PendingHasMessage
        <4>2. mPendingMessages[id].message \in added
          BY <4>1, BatapAssumption DEF SentAreMapped, Values, KeepInv
        <4> QED
          BY <3>2, <4>1, <4>2, WriteKnown DEF resend, KeepInv
      <3> QED
        BY <2>1, <3>1, <3>2 DEF timerEvent
    <2> QED
      BY <2>1, <2>2, KeepUnchanged DEF KeepInv, RequestReplies
  <1>4. CASE onHasMessage
    <2>1. /\ replies # <<>> /\ replies' = Tail(replies)
          /\ startSlot(calls)
          /\ UNCHANGED <<mIdMap, toPeer, added>> /\ UNCHANGED Promised
      BY <1>4 DEF onHasMessage, HeadIs, NothingElse, Promised, peerVars
    <2>2. RemovesSettled(calls', peerReceived \cup credited)
      BY <1>0, <1>b, <2>1, SlotRemoves DEF ProducerTypeOK
    <2>3. \A i \in RequestReplies' : replies'[i].key \in added \cup {NoMessage}
      BY <1>a, <2>1, RepliesTail DEF ProducerTypeOK, RequestReplies
    <2> QED
      BY <2>1, <2>2, <2>3, KeepUnchanged DEF KeepInv
  <1>5. CASE onRequestedMessage
    <2> DEFINE m == Head(replies).key
    <2>1. /\ replies # <<>> /\ replies' = Tail(replies)
          /\ Head(replies).signal = "requestedMessage"
      BY <1>5, AnswerEffect
    <2>2. UNCHANGED added /\ UNCHANGED Promised
      <3>1. UNCHANGED peerReceived
        BY <1>5, AnswerEffect DEF send, peerVars
      <3> QED
        BY <1>5, <3>1 DEF onRequestedMessage, NothingElse, Promised
    <2>3. \A i \in RequestReplies' : replies'[i].key \in added \cup {NoMessage}
      BY <1>a, <2>1, RepliesTail DEF ProducerTypeOK, RequestReplies
    <2>4. RemovesSettled(calls', peerReceived \cup credited)
      <3>1. requestNextMessage(calls) \/ calls' = calls
        BY <1>5 DEF onRequestedMessage
      <3> QED
        BY <1>0, <1>b, <3>1, SlotRemoves DEF ProducerTypeOK
    <2>5. CASE /\ m \in Message /\ NextSerial \in Serial /\ send(m)
               /\ mIdMap' = [mIdMap EXCEPT ![NextSerial] = m]
      <3>1. m \in added
        <4>1. 1 \in DOMAIN replies /\ Head(replies) = replies[1]
          BY <2>1, TailElement DEF ProducerTypeOK
        <4> QED
          BY <1>a, <2>1, <2>5, <4>1, BatapAssumption
      <3>2. Values(mIdMap') \subseteq added
        <4>1. \A id \in Serial : mIdMap'[id] \in {m, mIdMap[id]}
          BY <2>5 DEF ProducerTypeOK
        <4>2. \A id \in Serial : mIdMap[id] \in added \cup {NoMessage}
          BY DEF KeepInv, Values
        <4> QED
          BY <3>1, <4>1, <4>2 DEF Values
      <3>3. \A i \in DOMAIN toPeer' : toPeer'[i].message \in added
        BY <2>5, <3>1, WriteKnown DEF send, KeepInv
      <3> QED
        BY <2>2, <2>3, <2>4, <3>2, <3>3, KeepUnchanged
    <2>6. CASE UNCHANGED <<toPeer, mIdMap>>
      BY <2>2, <2>3, <2>4, <2>6, KeepUnchanged DEF KeepInv
    <2> QED
      BY <1>5, <2>5, <2>6, AnswerEffect
  <1>6. ASSUME NEW m \in Message, addMessage(m) PROVE KeepInv'
    <2> DEFINE news == [signal |-> "hasMessage", key |-> NoMessage]
    <2>1. /\ UNCHANGED <<peerReceived, expired, credited, mIdMap, toPeer, calls>>
          /\ added' = added \cup {m} /\ queue' = Append(queue, m)
          /\ replies' = Append(replies, news) \/ replies' = replies
      BY <1>6 DEF addMessage, peerVars, producerVars
    <2>2. ToSet(queue') = ToSet(queue) \cup {m}
      BY <2>1, ToSetAppend DEF ProducerTypeOK
    <2>3. news \in Reply /\ news.signal # "requestedMessage"
      BY DEF Reply
    <2> HIDE DEF news
    <2>4. \A i \in RequestReplies' : i \in RequestReplies /\ replies'[i] = replies[i]
      <3>1. CASE replies' = Append(replies, news)
        <4>1. /\ DOMAIN replies' = DOMAIN replies \cup {Len(replies) + 1}
              /\ \A i \in DOMAIN replies : replies'[i] = replies[i]
              /\ replies'[Len(replies) + 1] = news
          BY <2>3, <3>1, AppendElement DEF ProducerTypeOK
        <4> QED
          BY <2>3, <4>1 DEF RequestReplies
      <3>2. CASE replies' = replies
        BY <3>2 DEF RequestReplies
      <3> QED
        BY <2>1, <3>1, <3>2
    <2> QED
      BY <2>1, <2>2, <2>4 DEF KeepInv, Accounted
  <1>7. CASE removeMessage
    <2>1. PICK gone \in SUBSET Head(calls).keys : queue' = Without(queue, gone)
      BY <1>7 DEF removeMessage
    <2>2. /\ calls # <<>> /\ calls' = Tail(calls) /\ Head(calls).op = "remove"
          /\ UNCHANGED <<peerReceived, expired, credited, added, mIdMap, toPeer,
                         replies>>
      BY <1>7 DEF removeMessage, peerVars, producerVars
    <2>3. ToSet(queue') = ToSet(queue) \ gone
      BY <2>1, WithoutProperties DEF ProducerTypeOK
    <2>4. gone \subseteq peerReceived \cup credited
      <3>1. 1 \in DOMAIN calls /\ Head(calls) = calls[1]
        BY <2>2, TailElement DEF ProducerTypeOK
      <3> QED
        BY <1>b, <2>1, <2>2, <3>1 DEF RemovesSettled
    <2>5. RemovesSettled(calls', peerReceived \cup credited)
      BY <1>b, <2>2, RemovesTail DEF ProducerTypeOK
    <2> QED
      BY <2>2, <2>3, <2>4, <2>5 DEF KeepInv, Accounted, RequestReplies
  <1>8. CASE answerRequest
    <2> DEFINE keys  == Head(calls).keys
               first == FirstFree(keys)
               stale == {queue[i] : i \in 1 .. first - 1} \ keys
               key   == IF first \in DOMAIN queue THEN queue[first] ELSE NoMessage
               answer == [signal |-> "requestedMessage", key |-> key]
    <2>1. /\ calls # <<>> /\ calls' = Tail(calls)
          /\ replies' = Append(replies, answer) /\ queue' = Without(queue, stale)
          /\ UNCHANGED <<peerReceived, expired, credited, added, mIdMap, toPeer>>
      BY <1>8 DEF answerRequest, peerVars, producerVars, ghostVars
    <2>2. stale \subseteq expired
      <3>1. \A i \in 1 .. first - 1 : queue[i] \in keys \cup expired
        BY FirstFreeProperties DEF ProducerTypeOK
      <3> HIDE DEF first, keys
      <3> QED
        BY <3>1
    <2>3. ToSet(queue') = ToSet(queue) \ stale
      <3> HIDE DEF stale
      <3> QED
        BY <2>1, WithoutProperties DEF ProducerTypeOK
    <2>4. key \in ToSet(queue) \cup {NoMessage}
      BY DEF ToSet
    <2>5. answer \in Reply /\ answer.key = key
      <3>1. ToSet(queue) \subseteq Message
        BY ElementOfSeq, LenProperties DEF ProducerTypeOK, ToSet
      <3> HIDE DEF key
      <3> QED
        BY <2>4, <3>1 DEF Reply
    <2> HIDE DEF answer, key, stale
    <2>6. /\ DOMAIN replies' = DOMAIN replies \cup {Len(replies) + 1}
          /\ \A i \in DOMAIN replies : replies'[i] = replies[i]
          /\ replies'[Len(replies) + 1] = answer
      BY <2>1, <2>5, AppendElement DEF ProducerTypeOK
    <2>7. \A i \in RequestReplies' : replies'[i].key \in added \cup {NoMessage}
      BY <1>a, <2>4, <2>5, <2>6 DEF RequestReplies, KeepInv, Accounted
    <2>8. RemovesSettled(calls', peerReceived \cup credited)
      BY <1>b, <2>1, RemovesTail DEF ProducerTypeOK
    <2> QED
      BY <2>1, <2>2, <2>3, <2>7, <2>8 DEF KeepInv, Accounted
  <1>9. CASE failRequest
    <2>1. /\ calls # <<>> /\ calls' = Tail(calls)
          /\ UNCHANGED <<added, mIdMap, toPeer, replies>> /\ UNCHANGED Promised
      BY <1>9 DEF failRequest, peerVars, producerVars, Promised
    <2>2. RemovesSettled(calls', peerReceived \cup credited)
      BY <1>b, <2>1, RemovesTail DEF ProducerTypeOK
    <2> QED
      BY <2>1, <2>2, KeepUnchanged DEF KeepInv, RequestReplies
  <1>10. ASSUME NEW m \in Message, expire(m) PROVE KeepInv'
    <2>1. /\ UNCHANGED <<peerReceived, queue, credited, added, mIdMap, toPeer,
                         replies, calls>>
          /\ expired' = expired \cup {m} /\ m \in added
      BY <1>10 DEF expire, peerVars, producerVars, ghostVars
    <2> QED
      BY <2>1 DEF KeepInv, Accounted, RequestReplies
  <1>11. CASE BatapOnly
    <2>1. UNCHANGED <<mIdMap, replies, calls, queue, expired, credited, added>>
      BY <1>11 DEF BatapOnly, producerVars, storageVars, ghostVars
    <2>2. CASE processMessage
      <3>1. /\ toPeer # <<>> /\ toPeer' = Tail(toPeer)
            /\ peerReceived' = peerReceived \/
               peerReceived' = peerReceived \cup {Head(toPeer).message}
        BY <2>2 DEF processMessage, peerVars
      <3>2. /\ 1 \in DOMAIN toPeer /\ Head(toPeer) = toPeer[1]
            /\ \A i \in DOMAIN Tail(toPeer) :
                 i + 1 \in DOMAIN toPeer /\ Tail(toPeer)[i] = toPeer[i + 1]
        BY <3>1, TailElement DEF BatapInv, TypeInv, TypeOK
      <3>3. Head(toPeer).message \in added
        BY <3>2 DEF KeepInv
      <3>4. \A i \in DOMAIN toPeer' : toPeer'[i].message \in added
        BY <3>1, <3>2 DEF KeepInv
      <3>5. RemovesSettled(calls', peerReceived' \cup credited')
        BY <1>b, <2>1, <3>1 DEF RemovesSettled
      <3> QED
        BY <2>1, <3>1, <3>3, <3>4, <3>5 DEF KeepInv, Accounted, RequestReplies
    <2>3. CASE UNCHANGED <<peerReceived, toPeer>>
      BY <2>1, <2>3 DEF KeepInv, Accounted, RequestReplies
    <2>4. CASE onSocketDisconnected
      <3>1. peerReceived' = peerReceived /\ toPeer' = <<>>
        BY <2>4 DEF onSocketDisconnected, peerVars
      <3> QED
        BY <2>1, <3>1 DEF KeepInv, Accounted, RequestReplies
    <2> QED
      BY <1>11, <2>2, <2>3, <2>4
         DEF BatapOnly, stop, onStopTransmission, sendImaMessage,
             peerHoldsOrResumes, peerVars
  <1>12. CASE reconnect
    <2>1. PICK n \in 0 .. Len(calls) : calls' = SubSeq(calls, 1, n)
      BY <1>12 DEF reconnect
    <2>2. /\ UNCHANGED <<peerReceived, queue, expired, credited, added, toPeer>>
          /\ mIdMap' = NoIds /\ replies' = <<>>
      BY <1>12 DEF reconnect, newSession
    <2>3. Values(mIdMap') = {}
      BY <2>2 DEF Values, NoIds
    <2>4. \A i \in DOMAIN calls' : i \in DOMAIN calls /\ calls'[i] = calls[i]
      BY <2>1 DEF ProducerTypeOK
    <2>5. RemovesSettled(calls', peerReceived \cup credited)
      BY <1>b, <2>4 DEF RemovesSettled
    <2> QED
      BY <2>2, <2>3, <2>5 DEF KeepInv, Accounted, RequestReplies
  <1>13. CASE UNCHANGED vars
    BY <1>13 DEF vars, batapVars, peerVars, producerVars, storageVars,
                 ghostVars, KeepInv, Accounted, RequestReplies
  <1> QED
    BY <1>1, <1>2, <1>3, <1>4, <1>5, <1>6, <1>7, <1>8, <1>9, <1>10, <1>11,
       <1>12, <1>13 DEF ProducerNext

LEMMA InitKeepInv == ProducerInit => KeepInv
  <1> SUFFICES ASSUME ProducerInit PROVE KeepInv
    OBVIOUS
  <1>1. Values(mIdMap) = {} /\ ToSet(queue) = {}
    BY DEF ProducerInit, NoIds, Values, ToSet
  <1> QED
    BY <1>1 DEF ProducerInit, Init, KeepInv, Accounted, RequestReplies,
                RemovesSettled

(* A step that leaves the promise alone is a stutter of StoreAndForward.   *)
LEMMA PromiseUnchanged ==
  UNCHANGED Promised => UNCHANGED Abstract!abstractVars
  BY DEF Promised, Abstract!abstractVars

(* What was handed to the peer was in the queue: its message is forwarded, *)
(* the reader of the wire being Batap's processMessage().                  *)
LEMMA ReadForwards ==
  ASSUME BatapInv, KeepInv, processMessage,
         UNCHANGED <<queue, expired, credited>>
  PROVE  [Abstract!AbstractNext]_(Abstract!abstractVars)
  <1> DEFINE m == Head(toPeer).message
  <1>1. toPeer # <<>>
    BY DEF processMessage
  <1>2. /\ 1 \in DOMAIN toPeer /\ Head(toPeer) = toPeer[1]
        /\ Head(toPeer) \in Data
    BY <1>1, TailElement, HeadTailProperties DEF BatapInv, TypeInv, TypeOK
  <1>3. m \in Message /\ m \in added
    BY <1>2 DEF KeepInv, Data
  <1>4. CASE m \in ImaLike \/ m \in peerReceived
    <2>1. UNCHANGED peerReceived
      BY <1>4 DEF processMessage, peerVars
    <2> QED
      BY <2>1, PromiseUnchanged DEF Promised
  <1>5. CASE m \notin ImaLike /\ m \notin peerReceived
    <2>1. m \in ToSet(queue) \cup (expired \cup credited)
      BY <1>3, <1>5 DEF KeepInv, Accounted
    <2>2. peerReceived' = peerReceived \cup {m}
      BY <1>5 DEF processMessage
    <2> HIDE DEF m
    <2>3. Abstract!Forward(m)
      BY <2>1, <2>2 DEF Abstract!Forward
    <2> QED
      BY <1>3, <2>3 DEF Abstract!AbstractNext
  <1> QED
    BY <1>4, <1>5

(* Keys that leave the list are settled: they are forgotten.               *)
LEMMA RemovalForgets ==
  ASSUME ProducerTypeOK, NEW gone,
         gone \cap ToSet(queue) \subseteq peerReceived \cup expired \cup credited,
         queue' = Without(queue, gone),
         UNCHANGED <<peerReceived, expired, credited>>
  PROVE  [Abstract!AbstractNext]_(Abstract!abstractVars)
  <1> DEFINE ms == gone \cap ToSet(queue)
  <1>1. ToSet(queue') = ToSet(queue) \ gone
    BY WithoutProperties DEF ProducerTypeOK
  <1>2. ToSet(queue) \subseteq Message
    BY ElementOfSeq, LenProperties DEF ProducerTypeOK, ToSet
  <1>3. Abstract!Forget(ms)
    BY <1>1 DEF Abstract!Forget
  <1>4. ms \in SUBSET Message
    BY <1>2
  <1> HIDE DEF ms
  <1> QED
    BY <1>3, <1>4 DEF Abstract!AbstractNext

(* More keys that the promise does not cover.                              *)
LEMMA WrittenOff ==
  ASSUME KeepInv, NEW ms \in SUBSET Message, ms \subseteq added,
         UNCHANGED <<peerReceived, queue>>,
         (expired \cup credited)' = (expired \cup credited) \cup ms
  PROVE  [Abstract!AbstractNext]_(Abstract!abstractVars)
  <1> DEFINE more == ms \ (expired \cup credited)
  <1>1. more \subseteq ToSet(queue) \cup peerReceived
    BY DEF KeepInv, Accounted
  <1>2. (expired \cup credited)' = (expired \cup credited) \cup more
    OBVIOUS
  <1>3. more \in SUBSET Message
    OBVIOUS
  <1> HIDE DEF more
  <1>4. Abstract!WriteOff(more)
    BY <1>1, <1>2 DEF Abstract!WriteOff
  <1> QED
    BY <1>3, <1>4 DEF Abstract!AbstractNext

(* Every step is a step of StoreAndForward or a stutter of it.             *)
LEMMA NextImplements ==
  BatapInv /\ ProducerTypeOK /\ KeepInv /\ [ProducerNext]_vars
    => [Abstract!AbstractNext]_(Abstract!abstractVars)
  <1> SUFFICES ASSUME BatapInv, ProducerTypeOK, KeepInv, [ProducerNext]_vars
               PROVE  [Abstract!AbstractNext]_(Abstract!abstractVars)
    OBVIOUS
  <1>1. CASE onStart \/ onResume \/ onHasMessage \/ failRequest \/ reconnect
             \/ UNCHANGED vars
    <2>1. UNCHANGED Promised
      BY <1>1 DEF onStart, onResume, onHasMessage, failRequest, reconnect, vars,
                  start, onResumeTransmission, newSession, batapVars, peerVars,
                  storageVars, ghostVars, NothingElse, Promised
    <2> QED
      BY <2>1, PromiseUnchanged
  <1>2. CASE onMessageDelivered
    <2>1. PICK ids \in SUBSET Pending :
            credited' = credited \cup
              ({mIdMap[id] : id \in ids \cap reused} \ {NoMessage})
      BY <1>2, AckEffect
    <2> DEFINE ms == {mIdMap[id] : id \in ids \cap reused} \ {NoMessage}
    <2>2. ms \subseteq Values(mIdMap)
      BY DEF Values, Pending
    <2>3. ms \in SUBSET Message /\ ms \subseteq added
      BY <2>2, ValuesType DEF KeepInv, ProducerTypeOK
    <2>4. UNCHANGED <<peerReceived, queue, expired>>
      BY <1>2 DEF onMessageDelivered, processImaMessage, peerVars
    <2>5. (expired \cup credited)' = (expired \cup credited) \cup ms
      BY <2>1, <2>4
    <2> HIDE DEF ms
    <2> QED
      BY <2>3, <2>4, <2>5, WrittenOff
  <1>3. ASSUME NEW id \in Serial, onTimer(id)
        PROVE  [Abstract!AbstractNext]_(Abstract!abstractVars)
    <2>1. UNCHANGED Promised
      BY <1>3 DEF onTimer, timerEvent, storageVars, NothingElse, peerVars,
                  Promised
    <2> QED
      BY <2>1, PromiseUnchanged
  <1>4. CASE onRequestedMessage
    <2>1. UNCHANGED peerReceived
      BY <1>4, AnswerEffect DEF send, peerVars
    <2>2. UNCHANGED Promised
      BY <1>4, <2>1 DEF onRequestedMessage, NothingElse, Promised
    <2> QED
      BY <2>2, PromiseUnchanged
  <1>5. ASSUME NEW m \in Message, addMessage(m)
        PROVE  [Abstract!AbstractNext]_(Abstract!abstractVars)
    <2>1. /\ m \notin added /\ queue' = Append(queue, m)
          /\ UNCHANGED <<peerReceived, expired, credited>>
      BY <1>5 DEF addMessage, peerVars
    <2>2. ToSet(queue') = ToSet(queue) \cup {m}
      BY <2>1, ToSetAppend DEF ProducerTypeOK
    <2>3. Abstract!Accept(m)
      BY <2>1, <2>2 DEF Abstract!Accept, KeepInv, Accounted
    <2> QED
      BY <2>3 DEF Abstract!AbstractNext
  <1>6. CASE removeMessage
    <2>1. PICK gone \in SUBSET Head(calls).keys : queue' = Without(queue, gone)
      BY <1>6 DEF removeMessage
    <2>2. /\ calls # <<>> /\ Head(calls).op = "remove"
          /\ UNCHANGED <<peerReceived, expired, credited>>
      BY <1>6 DEF removeMessage, peerVars
    <2>3. 1 \in DOMAIN calls /\ Head(calls) = calls[1]
      BY <2>2, TailElement DEF ProducerTypeOK
    <2>4. gone \subseteq peerReceived \cup credited
      BY <2>1, <2>2, <2>3 DEF KeepInv, RemovesSettled
    <2> QED
      BY <2>1, <2>2, <2>4, RemovalForgets
  <1>7. CASE answerRequest
    <2> DEFINE keys  == Head(calls).keys
               first == FirstFree(keys)
               stale == {queue[i] : i \in 1 .. first - 1} \ keys
    <2>1. /\ queue' = Without(queue, stale)
          /\ UNCHANGED <<peerReceived, expired, credited>>
      BY <1>7 DEF answerRequest, peerVars, ghostVars
    <2>2. \A i \in 1 .. first - 1 : queue[i] \in keys \cup expired
      BY FirstFreeProperties DEF ProducerTypeOK
    <2>3. stale \subseteq expired
      <3> HIDE DEF first, keys
      <3> QED
        BY <2>2
    <2> HIDE DEF stale
    <2> QED
      BY <2>1, <2>3, RemovalForgets
  <1>8. ASSUME NEW m \in Message, expire(m)
        PROVE  [Abstract!AbstractNext]_(Abstract!abstractVars)
    <2>1. /\ m \in added /\ expired' = expired \cup {m}
          /\ UNCHANGED <<peerReceived, queue, credited>>
      BY <1>8 DEF expire, peerVars, ghostVars
    <2> DEFINE ms == {m}
    <2>2. /\ ms \in SUBSET Message /\ ms \subseteq added
          /\ (expired \cup credited)' = (expired \cup credited) \cup ms
      BY <2>1
    <2> HIDE DEF ms
    <2> QED
      BY <2>1, <2>2, WrittenOff
  <1>9. CASE BatapOnly
    <2>1. UNCHANGED <<queue, expired, credited>>
      BY <1>9 DEF BatapOnly, storageVars, ghostVars
    <2>2. CASE processMessage
      BY <2>1, <2>2, ReadForwards
    <2>3. CASE UNCHANGED peerReceived
      BY <2>1, <2>3, PromiseUnchanged DEF Promised
    <2> QED
      BY <1>9, <2>2, <2>3
         DEF BatapOnly, stop, onStopTransmission, sendImaMessage,
             peerHoldsOrResumes, onSocketDisconnected, peerVars
  <1> QED
    BY <1>1, <1>2, <1>3, <1>4, <1>5, <1>6, <1>7, <1>8, <1>9 DEF ProducerNext

LEMMA InitImplements == ProducerInit => Abstract!AbstractInit
  <1> SUFFICES ASSUME ProducerInit PROVE Abstract!AbstractInit
    OBVIOUS
  <1>1. ToSet(queue) = {}
    BY DEF ProducerInit, ToSet
  <1> QED
    BY <1>1 DEF ProducerInit, Init, Abstract!AbstractInit

(* The sender with its Redis list keeps the promise of StoreAndForward: a  *)
(* message stays on the list until the peer has it, unless Redis lost its  *)
(* text or the ack of a reused serial was taken for its own, it never      *)
(* comes back, and the peer is given only what was put on the list;        *)
(* whatever is lost, repeated or interrupted on the way.                   *)
THEOREM NoMessageForgotten == ProducerSpec => KeepsMessages
  <1>1. ProducerInit => Abstract!AbstractInit /\ KeepInv /\ SentAreMapped
    BY InitImplements, InitKeepInv, InitMapInv DEF MapInv
  <1>2. (BatapInv /\ ProducerTypeOK) /\ (KeepInv /\ SentAreMapped)
          /\ [ProducerNext]_vars => (KeepInv /\ SentAreMapped)'
    BY NextKeepInv, NextSentAreMapped
  <1>3. (BatapInv /\ ProducerTypeOK) /\ (KeepInv /\ SentAreMapped)
          /\ [ProducerNext]_vars
            => [Abstract!AbstractNext]_(Abstract!abstractVars)
    BY NextImplements
  <1> QED
    BY <1>1, <1>2, <1>3, ProducerTypeInvariant, PTL
       DEF ProducerSpec, KeepsMessages, Abstract!AbstractSpec

----------------------------------------------------------------------------
(* No wakeup is lost. *)

(* The keys whose removal waits behind the n-th call to the storage.       *)
RemovalsAfter(cs, n) ==
  {m \in Message : \E j \in DOMAIN cs :
     j > n /\ cs[j].op = "remove" /\ m \in cs[j].keys}

(* Every message of the list is in flight, expired or about to leave it.   *)
Drained ==
  ToSet(queue) \subseteq Values(mIdMap) \cup expired \cup RemovalsAfter(calls, 0)

(* A request on its way to the storage that leaves out nothing but what    *)
(* will still be in flight, or gone, when the storage looks at the list.   *)
CurrentCall(cs, map) ==
  \E i \in DOMAIN cs :
    cs[i].op = "request"
      /\ cs[i].keys \subseteq Values(map) \cup RemovalsAfter(cs, i)

(* An answer on its way to the producer that will make it go on, or that   *)
(* tells it rightly that there is nothing to send, or that a wakeup        *)
(* follows.                                                                *)
CurrentReply(rs, nothing) ==
  \E i \in DOMAIN rs :
    /\ rs[i].signal = "requestedMessage"
    /\ \/ rs[i].key # NoMessage
       \/ nothing
       \/ \E j \in DOMAIN rs : j > i /\ rs[j].signal = "hasMessage"

Woken(rs) == \E j \in DOMAIN rs : rs[j].signal = "hasMessage"

(* Something will move the producer, whether it waits for an answer or     *)
(* not, as long as there is something to be sent.                          *)
WakeInv ==
  \/ missedWake
  \/ storageFailed
  \/ /\ mRunning => CurrentCall(calls, mIdMap) \/ CurrentReply(replies, Drained)
     /\ ~ mRunning /\ isReadyForTransmission =>
          \/ CurrentCall(calls, mIdMap)
          \/ CurrentReply(replies, Drained)
          \/ Drained
          \/ Woken(replies)

LEMMA WakeInvIsEnough == ProducerTypeOK /\ WakeInv => IdleMeansDrained
  BY DEF WakeInv, IdleMeansDrained, CurrentCall, CurrentReply, Woken, Drained,
         RemovalsAfter

(* What waits behind the head of the calls.                                *)
LEMMA RemovalsTail ==
  ASSUME NEW cs \in Seq(Call), cs # <<>>
  PROVE  /\ \A n \in Nat : RemovalsAfter(Tail(cs), n) = RemovalsAfter(cs, n + 1)
         /\ RemovalsAfter(cs, 0) \subseteq
              RemovalsAfter(Tail(cs), 0)
                \cup (IF Head(cs).op = "remove" THEN Head(cs).keys ELSE {})
  <1>1. /\ Len(cs) \in Nat \ {0} /\ DOMAIN cs = 1 .. Len(cs)
        /\ DOMAIN Tail(cs) = 1 .. Len(cs) - 1
        /\ \A i \in 1 .. Len(cs) - 1 : Tail(cs)[i] = cs[i + 1]
        /\ Head(cs) = cs[1]
    OBVIOUS
  <1>2. ASSUME NEW n \in Nat, NEW m \in Message
        PROVE  m \in RemovalsAfter(Tail(cs), n) <=> m \in RemovalsAfter(cs, n + 1)
    <2>1. ASSUME NEW j \in DOMAIN Tail(cs), j > n, Tail(cs)[j].op = "remove",
                 m \in Tail(cs)[j].keys
          PROVE  \E k \in DOMAIN cs :
                   k > n + 1 /\ cs[k].op = "remove" /\ m \in cs[k].keys
      <3>1. j + 1 \in DOMAIN cs /\ j + 1 > n + 1 /\ cs[j + 1] = Tail(cs)[j]
        BY <1>1, <2>1
      <3> QED
        BY <2>1, <3>1
    <2>2. ASSUME NEW j \in DOMAIN cs, j > n + 1, cs[j].op = "remove",
                 m \in cs[j].keys
          PROVE  \E k \in DOMAIN Tail(cs) :
                   k > n /\ Tail(cs)[k].op = "remove" /\ m \in Tail(cs)[k].keys
      <3>1. /\ j - 1 \in DOMAIN Tail(cs) /\ j - 1 > n
            /\ Tail(cs)[j - 1] = cs[j]
        BY <1>1, <2>2
      <3> QED
        BY <2>2, <3>1
    <2> QED
      BY <2>1, <2>2 DEF RemovalsAfter
  <1>3. \A n \in Nat : RemovalsAfter(Tail(cs), n) = RemovalsAfter(cs, n + 1)
    BY <1>2 DEF RemovalsAfter
  <1>4. RemovalsAfter(cs, 0) \subseteq
          RemovalsAfter(cs, 1)
            \cup (IF Head(cs).op = "remove" THEN Head(cs).keys ELSE {})
    BY <1>1 DEF RemovalsAfter
  <1> QED
    BY <1>3, <1>4

(* A call that is added at the end takes nothing away.                     *)
LEMMA RemovalsAppend ==
  ASSUME NEW cs \in Seq(Call), NEW call \in Call, NEW n \in Nat
  PROVE  /\ RemovalsAfter(cs, n) \subseteq RemovalsAfter(Append(cs, call), n)
         /\ call.op = "remove" /\ n <= Len(cs) =>
              call.keys \subseteq RemovalsAfter(Append(cs, call), n)
  <1>1. /\ DOMAIN Append(cs, call) = DOMAIN cs \cup {Len(cs) + 1}
        /\ \A i \in DOMAIN cs : Append(cs, call)[i] = cs[i]
        /\ Append(cs, call)[Len(cs) + 1] = call
        /\ Len(cs) \in Nat
    BY AppendElement, LenProperties
  <1>2. call.keys \subseteq Message
    BY DEF Call
  <1> QED
    BY <1>1, <1>2 DEF RemovalsAfter

(* A call that the storage has done with was not the request that counts.  *)
LEMMA CurrentCallTail ==
  ASSUME NEW cs \in Seq(Call), cs # <<>>, NEW map, CurrentCall(cs, map)
  PROVE  \/ CurrentCall(Tail(cs), map)
         \/ /\ Head(cs).op = "request"
            /\ Head(cs).keys \subseteq Values(map) \cup RemovalsAfter(Tail(cs), 0)
  <1>1. /\ Len(cs) \in Nat \ {0} /\ DOMAIN cs = 1 .. Len(cs)
        /\ DOMAIN Tail(cs) = 1 .. Len(cs) - 1
        /\ \A i \in 1 .. Len(cs) - 1 : Tail(cs)[i] = cs[i + 1]
        /\ Head(cs) = cs[1]
    OBVIOUS
  <1>2. PICK i \in DOMAIN cs :
          cs[i].op = "request"
            /\ cs[i].keys \subseteq Values(map) \cup RemovalsAfter(cs, i)
    BY DEF CurrentCall
  <1>3. CASE i = 1
    <2>1. RemovalsAfter(Tail(cs), 0) = RemovalsAfter(cs, 0 + 1)
      BY RemovalsTail
    <2> QED
      BY <1>1, <1>2, <1>3, <2>1
  <1>4. CASE i # 1
    <2>1. i - 1 \in DOMAIN Tail(cs) /\ i - 1 \in Nat /\ Tail(cs)[i - 1] = cs[i]
      BY <1>1, <1>4
    <2>2. RemovalsAfter(Tail(cs), i - 1) = RemovalsAfter(cs, (i - 1) + 1)
      BY <2>1, RemovalsTail
    <2>3. (i - 1) + 1 = i
      BY <1>1
    <2> QED
      BY <1>2, <2>1, <2>2, <2>3 DEF CurrentCall
  <1> QED
    BY <1>3, <1>4

(* A request made now leaves out what is in flight now.                    *)
LEMMA RequestIsCurrent ==
  ASSUME NEW earlier \in Seq(Call), ProducerTypeOK', requestNextMessage(earlier)
  PROVE  CurrentCall(calls', mIdMap') /\ mRunning' = TRUE
  <1> DEFINE call == [op |-> "request", keys |-> Values(mIdMap')]
  <1>1. Values(mIdMap') \in SUBSET Message
    BY DEF Values, ProducerTypeOK
  <1>2. call \in Call /\ call.op = "request" /\ call.keys = Values(mIdMap')
    BY <1>1 DEF Call
  <1>3. calls' = Append(earlier, call) /\ mRunning' = TRUE
    BY DEF requestNextMessage
  <1> HIDE DEF call
  <1>4. /\ DOMAIN calls' = DOMAIN earlier \cup {Len(earlier) + 1}
        /\ calls'[Len(earlier) + 1] = call
    BY <1>2, <1>3, AppendElement
  <1> QED
    BY <1>2, <1>3, <1>4 DEF CurrentCall

(* The answers that count survive that an earlier reply is taken.          *)
LEMMA CurrentReplyTail ==
  ASSUME NEW rs \in Seq(Reply), rs # <<>>, NEW nothing, CurrentReply(rs, nothing)
  PROVE  \/ CurrentReply(Tail(rs), nothing)
         \/ /\ Head(rs).signal = "requestedMessage"
            /\ Head(rs).key # NoMessage \/ nothing \/ Woken(Tail(rs))
  <1>1. /\ Len(rs) \in Nat \ {0} /\ DOMAIN rs = 1 .. Len(rs)
        /\ DOMAIN Tail(rs) = 1 .. Len(rs) - 1
        /\ \A i \in 1 .. Len(rs) - 1 : Tail(rs)[i] = rs[i + 1]
        /\ Head(rs) = rs[1]
    OBVIOUS
  <1>2. PICK i \in DOMAIN rs :
          /\ rs[i].signal = "requestedMessage"
          /\ \/ rs[i].key # NoMessage
             \/ nothing
             \/ \E j \in DOMAIN rs : j > i /\ rs[j].signal = "hasMessage"
    BY DEF CurrentReply
  <1>3. CASE \E j \in DOMAIN rs : j > i /\ rs[j].signal = "hasMessage"
    <2>1. PICK j \in DOMAIN rs : j > i /\ rs[j].signal = "hasMessage"
      BY <1>3
    <2>2. j - 1 \in DOMAIN Tail(rs) /\ Tail(rs)[j - 1].signal = "hasMessage"
      BY <1>1, <2>1
    <2>3. CASE i = 1
      BY <1>1, <1>2, <2>2, <2>3 DEF Woken
    <2>4. CASE i # 1
      <3>1. /\ i - 1 \in DOMAIN Tail(rs) /\ j - 1 > i - 1
            /\ Tail(rs)[i - 1].signal = "requestedMessage"
        BY <1>1, <1>2, <2>1, <2>4
      <3> QED
        BY <2>2, <3>1 DEF CurrentReply
    <2> QED
      BY <2>3, <2>4
  <1>4. CASE rs[i].key # NoMessage \/ nothing
    <2>1. CASE i = 1
      BY <1>1, <1>2, <1>4, <2>1
    <2>2. CASE i # 1
      <3>1. i - 1 \in DOMAIN Tail(rs) /\ Tail(rs)[i - 1] = rs[i]
        BY <1>1, <2>2
      <3> QED
        BY <1>2, <1>4, <3>1 DEF CurrentReply
    <2> QED
      BY <2>1, <2>2
  <1> QED
    BY <1>2, <1>3, <1>4

LEMMA WokenTail ==
  ASSUME NEW rs \in Seq(Reply), rs # <<>>, Woken(rs)
  PROVE  Head(rs).signal = "hasMessage" \/ Woken(Tail(rs))
  <1>1. /\ Len(rs) \in Nat \ {0} /\ DOMAIN rs = 1 .. Len(rs)
        /\ DOMAIN Tail(rs) = 1 .. Len(rs) - 1
        /\ \A i \in 1 .. Len(rs) - 1 : Tail(rs)[i] = rs[i + 1]
        /\ Head(rs) = rs[1]
    OBVIOUS
  <1>2. PICK j \in DOMAIN rs : rs[j].signal = "hasMessage"
    BY DEF Woken
  <1>3. CASE j # 1
    <2>1. j - 1 \in DOMAIN Tail(rs) /\ Tail(rs)[j - 1] = rs[j]
      BY <1>1, <1>3
    <2> QED
      BY <1>2, <2>1 DEF Woken
  <1> QED
    BY <1>1, <1>2, <1>3

(* A reply that is added takes nothing away, and a hasMessage() moves a    *)
(* producer that waits as well as one that does not.                       *)
LEMMA RepliesGrow ==
  ASSUME NEW rs \in Seq(Reply), NEW r \in Reply, NEW nothing
  PROVE  /\ CurrentReply(rs, nothing) => CurrentReply(Append(rs, r), nothing)
         /\ Woken(rs) => Woken(Append(rs, r))
         /\ r.signal = "hasMessage" =>
              /\ Woken(Append(rs, r))
              /\ \A before : CurrentReply(rs, before)
                               => CurrentReply(Append(rs, r), nothing)
         /\ r.signal = "requestedMessage" /\ (r.key # NoMessage \/ nothing)
              => CurrentReply(Append(rs, r), nothing)
  <1>1. /\ DOMAIN Append(rs, r) = DOMAIN rs \cup {Len(rs) + 1}
        /\ \A i \in DOMAIN rs : Append(rs, r)[i] = rs[i] /\ Len(rs) + 1 > i
        /\ Append(rs, r)[Len(rs) + 1] = r
    BY AppendElement, LenProperties
  <1> QED
    BY <1>1 DEF CurrentReply, Woken

(* A step that lets the producer wait, or not, as before, and takes        *)
(* nothing away of what will move it.                                      *)
LEMMA WakeKept ==
  ASSUME WakeInv, UNCHANGED mRunning, missedWake => missedWake',
         storageFailed => storageFailed',
         ~ missedWake' /\ isReadyForTransmission'
           => mRunning \/ isReadyForTransmission,
         CurrentCall(calls, mIdMap)
           => CurrentCall(calls', mIdMap') \/ CurrentReply(replies', Drained'),
         CurrentReply(replies, Drained) => CurrentReply(replies', Drained'),
         Drained \/ Woken(replies) => Drained' \/ Woken(replies')
  PROVE  WakeInv'
  BY DEF WakeInv

(* The slot start(), in a step that keeps the calls that count.            *)
LEMMA SlotWakes ==
  ASSUME WakeInv, ProducerTypeOK', NEW earlier \in Seq(Call),
         startSlot(earlier), UNCHANGED storageFailed,
         CurrentCall(calls, mIdMap) => CurrentCall(earlier, mIdMap'),
         CurrentReply(replies, Drained) /\ calls' = earlier
           => CurrentReply(replies', Drained')
  PROVE  WakeInv'
  <1>1. CASE requestNextMessage(earlier)
    BY <1>1, RequestIsCurrent DEF WakeInv
  <1>2. CASE /\ mRunning \/ ~ isReadyForTransmission'
             /\ calls' = earlier
             /\ UNCHANGED <<mRunning, missedWake>>
    BY <1>2 DEF WakeInv
  <1> QED
    BY <1>1, <1>2 DEF startSlot

(* Whoever waits for whom: the two clauses together.                       *)
LEMMA Moves ==
  ASSUME WakeInv, ~ missedWake, ~ storageFailed,
         mRunning \/ isReadyForTransmission
  PROVE  \/ CurrentCall(calls, mIdMap)
         \/ CurrentReply(replies, Drained)
         \/ Drained
         \/ Woken(replies)
  BY DEF WakeInv

LEMMA DrainedMonotone ==
  ASSUME NEW rs, NEW before, NEW after, before => after,
         CurrentReply(rs, before)
  PROVE  CurrentReply(rs, after)
  BY DEF CurrentReply

(* An ack takes keys out of the map and puts them in a removal.            *)
LEMMA AckKeepsCalls ==
  ASSUME ProducerTypeOK, NEW map, NEW keys \in SUBSET Message,
         Values(mIdMap) \subseteq Values(map) \cup keys
  PROVE  /\ CurrentCall(calls, mIdMap) => CurrentCall(Removal(keys), map)
         /\ \A n \in 0 .. Len(calls) :
              Values(mIdMap) \cup RemovalsAfter(calls, n)
                \subseteq Values(map) \cup RemovalsAfter(Removal(keys), n)
  <1> DEFINE call == [op |-> "remove", keys |-> keys]
  <1>1. call \in Call /\ call.op = "remove" /\ call.keys = keys
    BY DEF Call
  <1>2. \/ keys = {} /\ Removal(keys) = calls
        \/ Removal(keys) = Append(calls, call)
    BY DEF Removal
  <1>3. DOMAIN calls = 1 .. Len(calls) /\ Len(calls) \in Nat
    BY LenProperties DEF ProducerTypeOK
  <1> HIDE DEF call
  <1>4. ASSUME NEW n \in 0 .. Len(calls)
        PROVE  Values(mIdMap) \cup RemovalsAfter(calls, n)
                 \subseteq Values(map) \cup RemovalsAfter(Removal(keys), n)
    <2>1. n \in Nat /\ n <= Len(calls)
      BY <1>3
    <2>2. CASE keys = {} /\ Removal(keys) = calls
      BY <2>2
    <2>3. CASE Removal(keys) = Append(calls, call)
      <3>1. /\ RemovalsAfter(calls, n) \subseteq RemovalsAfter(Removal(keys), n)
            /\ keys \subseteq RemovalsAfter(Removal(keys), n)
        BY <1>1, <2>1, <2>3, RemovalsAppend DEF ProducerTypeOK
      <3> QED
        BY <3>1
    <2> QED
      BY <1>2, <2>2, <2>3
  <1>5. ASSUME CurrentCall(calls, mIdMap) PROVE CurrentCall(Removal(keys), map)
    <2>1. PICK i \in DOMAIN calls :
            calls[i].op = "request"
              /\ calls[i].keys \subseteq Values(mIdMap) \cup RemovalsAfter(calls, i)
      BY <1>5 DEF CurrentCall
    <2>2. i \in 0 .. Len(calls)
      BY <1>3
    <2>3. i \in DOMAIN Removal(keys) /\ Removal(keys)[i] = calls[i]
      BY <1>1, <1>2, AppendElement DEF ProducerTypeOK
    <2> QED
      BY <1>4, <2>1, <2>2, <2>3 DEF CurrentCall
  <1> QED
    BY <1>4, <1>5

(* Every step keeps something that will move the producer.                 *)
LEMMA NextWakeInv ==
  BatapInv /\ ProducerTypeOK /\ WakeInv /\ [ProducerNext]_vars => WakeInv'
  <1> SUFFICES ASSUME BatapInv, ProducerTypeOK, WakeInv, [ProducerNext]_vars
               PROVE  WakeInv'
    OBVIOUS
  <1>0. ProducerTypeOK'
    BY NextProducerType
  <1>1. CASE onStart \/ onResume
    <2>1. /\ startSlot(calls)
          /\ UNCHANGED <<mIdMap, replies, queue, expired, storageFailed>>
      BY <1>1 DEF onStart, onResume, NothingElse
    <2>2. calls' = calls => Drained' = Drained
      BY <2>1 DEF Drained
    <2> QED
      BY <1>0, <2>1, <2>2, SlotWakes DEF ProducerTypeOK
  <1>2. CASE onMessageDelivered
    <2>1. PICK ids \in SUBSET Pending :
            /\ mIdMap' = [id \in Serial |-> IF id \in ids THEN NoMessage
                                                          ELSE mIdMap[id]]
            /\ LET keys == {mIdMap[id] : id \in ids} \ {NoMessage}
               IN keys \in SUBSET Message /\ startSlot(Removal(keys))
      BY <1>2, AckEffect
    <2> DEFINE keys == {mIdMap[id] : id \in ids} \ {NoMessage}
    <2>2. keys \in SUBSET Message /\ startSlot(Removal(keys))
      BY <2>1
    <2>3. Values(mIdMap) \subseteq Values(mIdMap') \cup keys
      BY <2>1 DEF Values
    <2>4. UNCHANGED <<replies, queue, expired, storageFailed>>
      BY <1>2 DEF onMessageDelivered
    <2> HIDE DEF keys
    <2>5. CurrentCall(calls, mIdMap) => CurrentCall(Removal(keys), mIdMap')
      BY <2>2, <2>3, AckKeepsCalls
    <2>6. ASSUME calls' = Removal(keys), Drained PROVE Drained'
      <3>1. 0 \in 0 .. Len(calls)
        BY LenProperties DEF ProducerTypeOK
      <3>2. Values(mIdMap) \cup RemovalsAfter(calls, 0)
              \subseteq Values(mIdMap') \cup RemovalsAfter(Removal(keys), 0)
        BY <2>2, <2>3, <3>1, AckKeepsCalls
      <3> QED
        BY <2>4, <2>6, <3>2 DEF Drained
    <2>7. CurrentReply(replies, Drained) /\ calls' = Removal(keys)
            => CurrentReply(replies', Drained')
      BY <2>4, <2>6, DrainedMonotone
    <2>8. Removal(keys) \in Seq(Call)
      BY <2>2, RemovalType
    <2> QED
      BY <1>0, <2>2, <2>4, <2>5, <2>7, <2>8, SlotWakes
  <1>3. ASSUME NEW id \in Serial, onTimer(id) PROVE WakeInv'
    <2>1. /\ UNCHANGED <<mRunning, mIdMap, calls, replies, queue, expired,
                         storageFailed>>
          /\ missedWake' = (missedWake \/ (~ isReadyForTransmission
                                             /\ isReadyForTransmission'))
      BY <1>3 DEF onTimer, producerVars, storageVars, NothingElse
    <2>2. Drained' = Drained
      BY <2>1 DEF Drained
    <2> QED
      BY <2>1, <2>2, WakeKept
  <1>4. CASE onHasMessage
    <2>1. /\ replies # <<>> /\ replies' = Tail(replies)
          /\ Head(replies).signal = "hasMessage" /\ startSlot(calls)
          /\ UNCHANGED <<mIdMap, queue, expired, storageFailed>>
      BY <1>4 DEF onHasMessage, HeadIs, NothingElse
    <2>2. calls' = calls => Drained' = Drained
      BY <2>1 DEF Drained
    <2>3. CurrentReply(replies, Drained) => CurrentReply(replies', Drained)
      BY <2>1, CurrentReplyTail DEF ProducerTypeOK
    <2> QED
      BY <1>0, <2>1, <2>2, <2>3, SlotWakes DEF ProducerTypeOK
  <1>5. CASE onRequestedMessage
    <2> DEFINE m == Head(replies).key
    <2>1. /\ replies # <<>> /\ replies' = Tail(replies)
          /\ Head(replies).signal = "requestedMessage"
          /\ UNCHANGED <<queue, expired, storageFailed>>
      BY <1>5 DEF onRequestedMessage, HeadIs, NothingElse
    <2>2. CASE requestNextMessage(calls)
      BY <1>0, <2>2, RequestIsCurrent DEF WakeInv, ProducerTypeOK
    <2>3. CASE /\ ~ isReadyForTransmission'
               /\ mRunning' = FALSE
      BY <2>3 DEF WakeInv
    <2>4. CASE /\ m = NoMessage /\ isReadyForTransmission'
               /\ mRunning' = FALSE /\ UNCHANGED <<calls, missedWake>>
      <3>1. UNCHANGED <<connected, senderVars, mIdMap>>
        BY <1>5, <2>4, AnswerEffect, BatapAssumption
      <3>2. isReadyForTransmission
        BY <2>4, <3>1 DEF isReadyForTransmission, senderVars, Pending
      <3>3. Drained' = Drained
        BY <2>1, <2>4, <3>1 DEF Drained
      <3>4. Woken(replies) => Woken(replies')
        BY <2>1, WokenTail DEF ProducerTypeOK
      <3>5. CurrentReply(replies, Drained)
              => CurrentReply(replies', Drained) \/ Drained \/ Woken(replies')
        BY <2>1, <2>4, CurrentReplyTail DEF ProducerTypeOK
      <3> QED
        BY <2>1, <2>4, <3>1, <3>2, <3>3, <3>4, <3>5, Moves DEF WakeInv
    <2> QED
      BY <1>5, <2>2, <2>3, <2>4 DEF onRequestedMessage
  <1>6. ASSUME NEW m \in Message, addMessage(m) PROVE WakeInv'
    <2> DEFINE news == [signal |-> "hasMessage", key |-> NoMessage]
    <2>1. UNCHANGED <<mRunning, mIdMap, calls, expired, storageFailed, connected,
                      senderVars>>
      BY <1>6 DEF addMessage, producerVars
    <2>2. CASE missedWake' = TRUE
      BY <2>2 DEF WakeInv
    <2>3. CASE replies' = Append(replies, news) /\ UNCHANGED missedWake
      <3>1. news \in Reply /\ news.signal = "hasMessage"
        BY DEF Reply
      <3> HIDE DEF news
      <3>2. /\ Woken(replies')
            /\ CurrentReply(replies, Drained) => CurrentReply(replies', Drained')
        BY <2>3, <3>1, RepliesGrow DEF ProducerTypeOK
      <3>3. isReadyForTransmission' = isReadyForTransmission
        BY <2>1 DEF isReadyForTransmission, senderVars, Pending
      <3> QED
        BY <2>1, <2>3, <3>2, <3>3, WakeKept
    <2> QED
      BY <1>6, <2>2, <2>3 DEF addMessage
  <1>7. CASE removeMessage
    <2>1. PICK gone \in SUBSET Head(calls).keys :
            /\ queue' = Without(queue, gone)
            /\ missedWake' = (missedWake \/ gone # Head(calls).keys)
      BY <1>7 DEF removeMessage
    <2>2. /\ calls # <<>> /\ calls' = Tail(calls) /\ Head(calls).op = "remove"
          /\ UNCHANGED <<connected, senderVars, mRunning, mIdMap, replies, expired,
                         storageFailed>>
      BY <1>7 DEF removeMessage, producerVars
    <2>3. ToSet(queue') = ToSet(queue) \ gone
      BY <2>1, WithoutProperties DEF ProducerTypeOK
    <2>4. CASE gone = Head(calls).keys
      <3>1. Drained => Drained'
        <4>1. RemovalsAfter(calls, 0) \subseteq
                RemovalsAfter(calls', 0) \cup gone
          BY <2>2, <2>4, RemovalsTail DEF ProducerTypeOK
        <4> QED
          BY <2>2, <2>3, <4>1 DEF Drained
      <3>2. CurrentCall(calls, mIdMap) => CurrentCall(calls', mIdMap')
        BY <2>2, CurrentCallTail DEF ProducerTypeOK
      <3>3. CurrentReply(replies, Drained) => CurrentReply(replies', Drained')
        BY <2>2, <3>1, DrainedMonotone
      <3>4. isReadyForTransmission' = isReadyForTransmission
        BY <2>2 DEF isReadyForTransmission, senderVars, Pending
      <3> QED
        BY <2>1, <2>2, <3>1, <3>2, <3>3, <3>4, WakeKept
    <2>5. CASE gone # Head(calls).keys
      BY <2>1, <2>5 DEF WakeInv
    <2> QED
      BY <2>4, <2>5
  <1>8. CASE answerRequest
    <2> DEFINE keys  == Head(calls).keys
               first == FirstFree(keys)
               stale == {queue[i] : i \in 1 .. first - 1} \ keys
               key   == IF first \in DOMAIN queue THEN queue[first] ELSE NoMessage
               answer == [signal |-> "requestedMessage", key |-> key]
    <2>1. /\ calls # <<>> /\ calls' = Tail(calls) /\ Head(calls).op = "request"
          /\ replies' = Append(replies, answer) /\ queue' = Without(queue, stale)
          /\ UNCHANGED <<connected, senderVars, mRunning, mIdMap, expired,
                         missedWake, storageFailed>>
      BY <1>8 DEF answerRequest, producerVars, ghostVars
    <2>2. ToSet(queue') \subseteq ToSet(queue)
      <3> HIDE DEF stale
      <3> QED
        BY <2>1, WithoutProperties DEF ProducerTypeOK
    <2>3. key = NoMessage => ToSet(queue) \subseteq keys \cup expired
      <3>1. first \in DOMAIN queue => queue[first] \in Message
        BY LenProperties, ElementOfSeq DEF ProducerTypeOK
      <3>2. first \notin DOMAIN queue => ToSet(queue) \subseteq keys \cup expired
        BY FirstFreeProperties DEF ProducerTypeOK
      <3> HIDE DEF first
      <3> QED
        BY <3>1, <3>2, BatapAssumption
    <2>4. answer \in Reply /\ answer.key = key /\ answer.signal = "requestedMessage"
      <3>1. first \in DOMAIN queue => queue[first] \in Message
        BY LenProperties, ElementOfSeq DEF ProducerTypeOK
      <3> HIDE DEF first
      <3> QED
        BY <3>1 DEF Reply
    <2> HIDE DEF answer, key, stale, first
    <2>5. RemovalsAfter(calls, 0) \subseteq RemovalsAfter(calls', 0)
      BY <2>1, RemovalsTail DEF ProducerTypeOK
    <2>6. Drained => Drained'
      BY <2>1, <2>2, <2>5 DEF Drained
    <2>7. CurrentReply(replies, Drained) => CurrentReply(replies', Drained')
      <3>1. CurrentReply(replies, Drained) => CurrentReply(replies, Drained')
        BY <2>6, DrainedMonotone
      <3> QED
        BY <2>1, <2>4, <3>1, RepliesGrow DEF ProducerTypeOK
    <2>8. Woken(replies) => Woken(replies')
      BY <2>1, <2>4, RepliesGrow DEF ProducerTypeOK
    <2>9. ASSUME CurrentCall(calls, mIdMap), ~ CurrentCall(calls', mIdMap)
          PROVE  CurrentReply(replies', Drained')
      <3>1. keys \subseteq Values(mIdMap) \cup RemovalsAfter(calls', 0)
        BY <2>1, <2>9, CurrentCallTail DEF ProducerTypeOK
      <3>2. key # NoMessage \/ Drained'
        BY <2>1, <2>2, <2>3, <3>1 DEF Drained
      <3> QED
        BY <2>1, <2>4, <3>2, RepliesGrow DEF ProducerTypeOK
    <2>10. isReadyForTransmission' = isReadyForTransmission
      BY <2>1 DEF isReadyForTransmission, senderVars, Pending
    <2> QED
      BY <2>1, <2>6, <2>7, <2>8, <2>9, <2>10, WakeKept
  <1>9. CASE failRequest
    BY <1>9 DEF failRequest, WakeInv
  <1>10. ASSUME NEW m \in Message, expire(m) PROVE WakeInv'
    <2>1. /\ UNCHANGED <<connected, senderVars, mRunning, mIdMap, calls, replies,
                         queue, missedWake, storageFailed>>
          /\ expired' = expired \cup {m}
      BY <1>10 DEF expire, producerVars, ghostVars
    <2>2. Drained => Drained'
      BY <2>1 DEF Drained
    <2>3. CurrentReply(replies, Drained) => CurrentReply(replies', Drained')
      BY <2>1, <2>2, DrainedMonotone
    <2>4. isReadyForTransmission' = isReadyForTransmission
      BY <2>1 DEF isReadyForTransmission, senderVars, Pending
    <2> QED
      BY <2>1, <2>2, <2>3, <2>4, WakeKept
  <1>11. CASE BatapOnly
    <2>1. UNCHANGED <<mRunning, mIdMap, calls, replies, queue, expired, missedWake,
                      storageFailed>>
      BY <1>11 DEF BatapOnly, producerVars, storageVars, ghostVars
    <2>2. isReadyForTransmission' => isReadyForTransmission
      BY <1>11 DEF BatapOnly, stop, onStopTransmission, processMessage,
                   sendImaMessage, peerHoldsOrResumes, onSocketDisconnected,
                   isReadyForTransmission, senderVars, Pending
    <2>3. Drained' = Drained
      BY <2>1 DEF Drained
    <2> QED
      BY <2>1, <2>2, <2>3, WakeKept
  <1>12. CASE reconnect
    BY <1>12 DEF reconnect, newSession, WakeInv, isReadyForTransmission
  <1>13. CASE UNCHANGED vars
    <2>1. UNCHANGED <<mRunning, mIdMap, calls, replies, queue, expired, missedWake,
                      storageFailed, senderVars>>
      BY <1>13 DEF vars, batapVars, producerVars, storageVars, ghostVars
    <2>2. isReadyForTransmission' = isReadyForTransmission /\ Drained' = Drained
      BY <2>1 DEF isReadyForTransmission, senderVars, Pending, Drained
    <2> QED
      BY <2>1, <2>2, WakeKept
  <1> QED
    BY <1>1, <1>2, <1>3, <1>4, <1>5, <1>6, <1>7, <1>8, <1>9, <1>10, <1>11,
       <1>12, <1>13 DEF ProducerNext

LEMMA InitWakeInv == ProducerInit => WakeInv
  BY DEF ProducerInit, Init, WakeInv, isReadyForTransmission

(* No wakeup is lost: a producer that waits for nothing although Batap     *)
(* could send has nothing to send, whatever crossed on the way between the *)
(* two threads, except after the events that signal nothing.               *)
THEOREM NoWakeupLost == ProducerSpec => []IdleMeansDrained
  <1>1. ProducerInit => WakeInv
    BY InitWakeInv
  <1>2. (BatapInv /\ ProducerTypeOK) /\ WakeInv /\ [ProducerNext]_vars => WakeInv'
    BY NextWakeInv
  <1>3. (BatapInv /\ ProducerTypeOK) /\ WakeInv => IdleMeansDrained
    BY WakeInvIsEnough
  <1> QED
    BY <1>1, <1>2, <1>3, ProducerTypeInvariant, PTL DEF ProducerSpec

=============================================================================
