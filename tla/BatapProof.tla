----------------------------- MODULE BatapProof -----------------------------
(***************************************************************************)
(* Proofs about Batap for any set of messages, any number of serials, any  *)
(* window and any retry limit, and for wires of any length.                *)
(***************************************************************************)
EXTENDS Batap, SequenceTheorems, FiniteSetTheorems, TLAPS

(* TypeOK is inductive together with the fact that a pending entry holds a *)
(* message, which a report of its delivery or failure then names.          *)
TypeInv == TypeOK /\ PendingHasMessage

(* send() takes its serial from the range of the serials.                  *)
LEMMA NextSerialType ==
  ASSUME mCurrentSerialNumber \in Serial
  PROVE  NextSerial \in Serial
  BY BatapAssumption DEF NextSerial, Serial

(* A new Batap object is well typed.                                       *)
LEMMA InitTypeInv == Init => TypeInv
  <1> SUFFICES ASSUME Init PROVE TypeInv
    OBVIOUS
  <1>1. NoEntry \in Entry
    BY DEF NoEntry, Entry
  <1>2. 0 \in Serial
    BY BatapAssumption DEF Serial
  <1>3. TypeOK
    BY <1>1, <1>2 DEF Init, TypeOK
  <1>4. Pending = {}
    BY DEF Pending, Init, NoEntry
  <1> QED
    BY <1>3, <1>4 DEF TypeInv, PendingHasMessage

(* A write to the map and to the wire keeps both well typed. *)
LEMMA SendMessageType ==
  ASSUME TypeInv, NEW m \in Message, NEW id \in Serial, NEW pdm \in BOOLEAN,
         sendMessage(m, id, pdm)
  PROVE  /\ toPeer' \in Seq(Data)
         /\ mPendingMessages' \in [Serial -> Entry]
         /\ PendingHasMessage'
  <1> USE DEF TypeInv, TypeOK, PendingHasMessage
  <1>1. [message |-> m, pdm |-> pdm, serial |-> id] \in Data
    BY DEF Data
  <1>2. toPeer' \in Seq(Data)
    BY <1>1 DEF sendMessage, writeMessage
  <1>3. [message |-> m, retryCount |-> mPendingMessages[id].retryCount + 1]
          \in Entry
    BY DEF Entry
  <1>4. mPendingMessages' =
          [mPendingMessages EXCEPT ![id] =
             [message |-> m,
              retryCount |-> mPendingMessages[id].retryCount + 1]]
    BY DEF sendMessage
  <1>5. mPendingMessages' \in [Serial -> Entry]
    BY <1>3, <1>4
  <1>6. PendingHasMessage'
    BY <1>4 DEF Pending
  <1> QED
    BY <1>2, <1>5, <1>6

(* Clearing the retry counter of some entries keeps the map well typed. *)
LEMMA RemoveEntriesType ==
  ASSUME TypeInv, NEW gone \in SUBSET Serial,
         mPendingMessages' = [id \in Serial |->
                                IF id \in gone
                                  THEN [mPendingMessages[id] EXCEPT
                                          !.retryCount = 0]
                                  ELSE mPendingMessages[id]]
  PROVE  /\ mPendingMessages' \in [Serial -> Entry]
         /\ PendingHasMessage'
         /\ Pending' = Pending \ gone
         /\ \A id \in Serial :
              mPendingMessages'[id].message = mPendingMessages[id].message
  <1> USE DEF TypeInv, TypeOK, Entry
  <1>1. \A id \in Serial :
          [mPendingMessages[id] EXCEPT !.retryCount = 0] \in Entry
    OBVIOUS
  <1>2. mPendingMessages' \in [Serial -> Entry]
    BY <1>1
  <1>3. \A id \in Serial :
          mPendingMessages'[id].message = mPendingMessages[id].message
    OBVIOUS
  <1>4. Pending' = Pending \ gone
    BY DEF Pending
  <1>5. PendingHasMessage'
    BY <1>3, <1>4 DEF PendingHasMessage, Pending
  <1> QED
    BY <1>2, <1>3, <1>4, <1>5

(* A delivery failure clears the retry counter of its entry.               *)
LEMMA FailIsRemoval ==
  ASSUME TypeInv, NEW id \in Serial, fail(id)
  PROVE  mPendingMessages' = [i \in Serial |->
                                IF i \in {id}
                                  THEN [mPendingMessages[i] EXCEPT
                                          !.retryCount = 0]
                                  ELSE mPendingMessages[i]]
  BY DEF fail, TypeInv, TypeOK, Entry

(* Every step of Batap, its peer and the connection keeps the types.       *)
LEMMA NextTypeInv == TypeInv /\ [Next]_batapVars => TypeInv'
  <1> SUFFICES ASSUME TypeInv, [Next]_batapVars PROVE TypeInv'
    OBVIOUS
  <1> USE DEF TypeInv
  <1>1. CASE start
    BY <1>1 DEF start, TypeOK, peerVars, PendingHasMessage, Pending
  <1>2. CASE stop
    BY <1>2 DEF stop, TypeOK, peerVars, PendingHasMessage, Pending
  <1>3. ASSUME NEW m \in Message, send(m) PROVE TypeInv'
    <2>1. NextSerial \in Serial
      BY NextSerialType DEF TypeOK
    <2>2. sendMessage(m, NextSerial, FALSE)
      BY <1>3 DEF send
    <2>3. /\ toPeer' \in Seq(Data)
          /\ mPendingMessages' \in [Serial -> Entry]
          /\ PendingHasMessage'
      BY <2>1, <2>2, SendMessageType
    <2> QED
      BY <1>3, <2>1, <2>3 DEF send, TypeOK, peerVars
  <1>4. ASSUME NEW id \in Serial, timerEvent(id) PROVE TypeInv'
    <2>1. mPendingMessages[id].message \in Message
      BY <1>4 DEF timerEvent, PendingHasMessage
    <2>2. CASE fail(id)
      <3>1. /\ mPendingMessages' \in [Serial -> Entry]
            /\ PendingHasMessage'
        BY <2>2, FailIsRemoval, RemoveEntriesType
      <3>2. signals' \in SUBSET Signal
        BY <2>1, <2>2 DEF fail, Signal
      <3> QED
        BY <1>4, <2>2, <3>1, <3>2
           DEF timerEvent, fail, TypeOK, peerVars
    <2>3. CASE resend(id)
      <3>1. sendMessage(mPendingMessages[id].message, id, TRUE)
        BY <2>3 DEF resend
      <3>2. /\ toPeer' \in Seq(Data)
            /\ mPendingMessages' \in [Serial -> Entry]
            /\ PendingHasMessage'
        BY <2>1, <3>1, SendMessageType
      <3> QED
        BY <1>4, <2>3, <3>2 DEF timerEvent, resend, TypeOK, peerVars
    <2> QED
      BY <1>4, <2>2, <2>3 DEF timerEvent
  <1>5. CASE processImaMessage
    <2> DEFINE acked == Head(toHere).serials \cap Pending
    <2>1. acked \in SUBSET Serial
      BY DEF Pending
    <2>2. /\ mPendingMessages' \in [Serial -> Entry]
          /\ PendingHasMessage'
      BY <1>5, <2>1, RemoveEntriesType DEF processImaMessage
    <2>3. \A id \in acked : mPendingMessages[id].message \in Message
      BY DEF PendingHasMessage
    <2>4. signals' \in SUBSET Signal
      BY <1>5, <2>1, <2>3 DEF processImaMessage, Signal
    <2> QED
      BY <1>5, <2>2, <2>4 DEF processImaMessage, TypeOK, peerVars
  <1>6. CASE onStopTransmission
    <2>1. toHere' \in Seq(Control)
      BY <1>6, HeadTailProperties DEF onStopTransmission, TypeOK
    <2> QED
      BY <1>6, <2>1 DEF onStopTransmission, TypeOK, peerVars,
                        PendingHasMessage, Pending
  <1>7. CASE onResumeTransmission
    <2>1. toHere' \in Seq(Control)
      BY <1>7, HeadTailProperties DEF onResumeTransmission, TypeOK
    <2> QED
      BY <1>7, <2>1 DEF onResumeTransmission, TypeOK, peerVars,
                        PendingHasMessage, Pending
  <1>8. CASE processMessage
    <2>1. /\ Head(toPeer) \in Data
          /\ Tail(toPeer) \in Seq(Data)
      BY <1>8, HeadTailProperties DEF processMessage, TypeOK
    <2>2. /\ peerSerialNumbers' \in SUBSET Serial
          /\ peerReceived' \in SUBSET Message
      BY <1>8, <2>1 DEF processMessage, TypeOK, Data, peerVars
    <2> QED
      BY <1>8, <2>1, <2>2 DEF processMessage, TypeOK, senderVars,
                              PendingHasMessage, Pending
  <1>9. CASE sendImaMessage
    <2>1. [kind |-> "ima", serials |-> peerSerialNumbers] \in Control
      BY DEF TypeOK, Control
    <2>2. toHere' \in Seq(Control)
      BY <1>9, <2>1 DEF sendImaMessage, TypeOK
    <2> QED
      BY <1>9, <2>2 DEF sendImaMessage, TypeOK, senderVars,
                        PendingHasMessage, Pending
  <1>10. ASSUME NEW kind \in {"stop", "resume"}, peerHoldsOrResumes(kind)
         PROVE  TypeInv'
    <2>1. [kind |-> kind, serials |-> {}] \in Control
      BY <1>10 DEF Control
    <2>2. toHere' \in Seq(Control)
      BY <1>10, <2>1 DEF peerHoldsOrResumes, TypeOK
    <2> QED
      BY <1>10, <2>2 DEF peerHoldsOrResumes, TypeOK, senderVars, peerVars,
                         PendingHasMessage, Pending
  <1>11. CASE onSocketDisconnected
    <2>1. toPeer' \in Seq(Data) /\ toHere' \in Seq(Control)
      BY <1>11, EmptySeq DEF onSocketDisconnected
    <2> QED
      BY <1>11, <2>1 DEF onSocketDisconnected, TypeOK, peerVars,
                         PendingHasMessage, Pending
  <1>12. CASE newSession
    <2>1. NoEntry \in Entry /\ NoEntry.retryCount = 0
      BY DEF NoEntry, Entry
    <2>2. 0 \in Serial
      BY BatapAssumption DEF Serial
    <2>3. Pending' = {}
      BY <1>12, <2>1 DEF newSession, Pending
    <2> QED
      BY <1>12, <2>1, <2>2, <2>3 DEF newSession, TypeOK, PendingHasMessage
  <1>13. CASE UNCHANGED batapVars
    BY <1>13 DEF batapVars, senderVars, peerVars, TypeOK, PendingHasMessage,
                 Pending
  <1> QED
    BY <1>1, <1>2, <1>3, <1>4, <1>5, <1>6, <1>7, <1>8, <1>9, <1>10, <1>11,
       <1>12, <1>13 DEF Next

(* Every variable keeps its type, whatever the application, the peer and   *)
(* the connection do; a pending entry always holds a real message.         *)
LEMMA TypeInvariant == Spec => []TypeInv
  <1>1. Init => TypeInv
    BY InitTypeInv
  <1>2. TypeInv /\ [Next]_batapVars => TypeInv'
    BY NextTypeInv
  <1> QED
    BY <1>1, <1>2, PTL DEF Spec

(* The type invariant by itself: no step of Batap, of its peer or of the  *)
(* connection takes a variable out of its type.                            *)
THEOREM TypeCorrect == Spec => []TypeOK
  <1>1. TypeInv => TypeOK
    BY DEF TypeInv
  <1>2. QED
    BY <1>1, TypeInvariant, PTL

----------------------------------------------------------------------------
(* The window. *)

(* The window counts a finite set: the pending serials.                    *)
LEMMA PendingFinite == IsFiniteSet(Pending) /\ Cardinality(Pending) \in Nat
  <1>1. IsFiniteSet(Serial)
    BY BatapAssumption, FS_Interval DEF Serial
  <1>2. Pending \in SUBSET Serial
    BY DEF Pending
  <1> QED
    BY <1>1, <1>2, FS_Subset, FS_CardinalityType

(* A step that makes nothing pending respects the window.                  *)
LEMMA FewerPending ==
  ASSUME WindowRespected, Pending' \subseteq Pending
  PROVE  WindowRespected'
  <1>1. /\ Cardinality(Pending') <= Cardinality(Pending)
        /\ Cardinality(Pending') \in Nat
        /\ Cardinality(Pending) \in Nat
    BY PendingFinite, FS_Subset, FS_CardinalityType
  <1> QED
    BY <1>1, BatapAssumption DEF WindowRespected

(* A write to the map makes at most its own serial pending.                *)
LEMMA SendPending ==
  ASSUME TypeInv, NEW m \in Message, NEW id \in Serial, NEW pdm \in BOOLEAN,
         sendMessage(m, id, pdm)
  PROVE  Pending' = Pending \cup {id}
  <1>1. mPendingMessages' =
          [mPendingMessages EXCEPT ![id] =
             [message |-> m,
              retryCount |-> mPendingMessages[id].retryCount + 1]]
    BY DEF sendMessage, TypeInv, TypeOK
  <1> QED
    BY <1>1 DEF Pending, TypeInv, TypeOK, Entry

(* Every step respects the window: only an accepted send() adds a pending  *)
(* serial, and it looked at the window first.                              *)
LEMMA NextWindow ==
  TypeInv /\ WindowRespected /\ [Next]_batapVars => WindowRespected'
  <1> SUFFICES ASSUME TypeInv, WindowRespected, [Next]_batapVars
               PROVE  WindowRespected'
    OBVIOUS
  <1>1. ASSUME NEW m \in Message, send(m) PROVE WindowRespected'
    <2>1. NextSerial \in Serial
      BY NextSerialType DEF TypeInv, TypeOK
    <2>2. Pending' = Pending \cup {NextSerial}
      BY <1>1, <2>1, SendPending DEF send
    <2> DEFINE card == Cardinality(Pending)
    <2>3. Cardinality(Pending \cup {NextSerial}) =
            IF NextSerial \in Pending THEN card ELSE card + 1
      BY PendingFinite, FS_AddElement
    <2>4. Cardinality(Pending') <= card + 1
      BY <2>2, <2>3, PendingFinite
    <2>5. Cardinality(Pending) < TransmissionWindow
      BY <1>1 DEF send, isReadyForTransmission
    <2>6. Cardinality(Pending') \in Nat
      BY <2>2, <2>3, PendingFinite
    <2> QED
      BY <2>4, <2>5, <2>6, PendingFinite, BatapAssumption DEF WindowRespected
  <1>2. ASSUME NEW id \in Serial, timerEvent(id) PROVE WindowRespected'
    <2>1. CASE fail(id)
      <3>1. Pending' = Pending \ {id}
        BY <2>1, FailIsRemoval, RemoveEntriesType
      <3> QED
        BY <3>1, FewerPending
    <2>2. CASE resend(id)
      <3>1. id \in Pending /\ mPendingMessages[id].message \in Message
        BY <1>2 DEF timerEvent, TypeInv, PendingHasMessage
      <3>2. Pending' = Pending \cup {id}
        BY <2>2, <3>1, SendPending DEF resend
      <3> QED
        BY <3>1, <3>2, FewerPending
    <2> QED
      BY <1>2, <2>1, <2>2 DEF timerEvent
  <1>3. CASE processImaMessage
    <2>1. Head(toHere).serials \cap Pending \in SUBSET Serial
      BY DEF Pending
    <2>2. Pending' \subseteq Pending
      BY <1>3, <2>1, RemoveEntriesType DEF processImaMessage
    <2> QED
      BY <2>2, FewerPending
  <1>4. CASE newSession
    <2>1. Pending' = {}
      BY <1>4 DEF newSession, Pending, NoEntry
    <2> QED
      BY <2>1, FewerPending
  <1>5. CASE UNCHANGED mPendingMessages
    <2>1. Pending' = Pending
      BY <1>5 DEF Pending
    <2> QED
      BY <2>1, FewerPending
  <1> QED
    BY <1>1, <1>2, <1>3, <1>4, <1>5
       DEF Next, start, stop, onStopTransmission, onResumeTransmission,
           processMessage, sendImaMessage, peerHoldsOrResumes,
           onSocketDisconnected, batapVars, senderVars

(* Batap never has more unacknowledged messages than its window. *)
THEOREM WindowHolds == Spec => []WindowRespected
  <1>1. Init => WindowRespected
    <2> SUFFICES ASSUME Init PROVE WindowRespected
      OBVIOUS
    <2>1. Pending = {}
      BY DEF Init, Pending, NoEntry
    <2> QED
      BY <2>1, FS_EmptySet, BatapAssumption DEF WindowRespected
  <1>2. TypeInv /\ WindowRespected /\ [Next]_batapVars => WindowRespected'
    BY NextWindow
  <1> QED
    BY <1>1, <1>2, TypeInvariant, PTL DEF Spec

----------------------------------------------------------------------------
(* Acknowledgements. *)

(* What remains on a wire after the head is taken was on it before.        *)
LEMMA TailElement ==
  ASSUME NEW S, NEW s \in Seq(S), s # <<>>
  PROVE  /\ 1 \in DOMAIN s
         /\ Head(s) = s[1]
         /\ \A i \in DOMAIN Tail(s) :
              i + 1 \in DOMAIN s /\ Tail(s)[i] = s[i + 1]
  OBVIOUS

(* What is on a wire after a write was on it before or is the new packet.  *)
LEMMA AppendElement ==
  ASSUME NEW S, NEW s \in Seq(S), NEW e \in S
  PROVE  /\ DOMAIN Append(s, e) = DOMAIN s \cup {Len(s) + 1}
         /\ \A i \in DOMAIN s : Append(s, e)[i] = s[i]
         /\ Append(s, e)[Len(s) + 1] = e
  OBVIOUS

(* What the delivery argument rests on, without the report itself. *)
WireInv == CopiesAreCurrent /\ AcksAreCurrent /\ DownIsSilent

(* A packet on either wire carries serials of the range.                   *)
LEMMA PacketType ==
  ASSUME TypeInv
  PROVE  \A i \in DOMAIN toPeer :
           toPeer[i] \in Data /\ toPeer[i].serial \in Serial
  <1>1. \A i \in DOMAIN toPeer : toPeer[i] \in Data
    BY LenProperties, ElementOfSeq DEF TypeInv, TypeOK
  <1> QED
    BY <1>1 DEF Data

(* A step that leaves the texts of the entries, the peer's messages and    *)
(* the reused serials alone, and only takes copies and acks away.          *)
LEMMA LessOnTheWire ==
  ASSUME TypeInv, WireInv,
         \A id \in Serial :
           mPendingMessages'[id].message = mPendingMessages[id].message,
         peerReceived' = peerReceived,
         reused' = reused,
         \A i \in DOMAIN toPeer' : \E j \in DOMAIN toPeer :
           toPeer'[i] = toPeer[j],
         \A id \in Serial : AckOutstanding(id)' => AckOutstanding(id)
  PROVE  CopiesAreCurrent' /\ AcksAreCurrent'
  <1>1. \A j \in DOMAIN toPeer : toPeer[j].serial \in Serial
    BY PacketType
  <1>2. CopiesAreCurrent'
    BY <1>1 DEF WireInv, CopiesAreCurrent
  <1>3. AcksAreCurrent'
    BY DEF WireInv, AcksAreCurrent
  <1> QED
    BY <1>2, <1>3

(* Taking a packet from the wire back leaves no new ack. *)
LEMMA TailAcks ==
  ASSUME TypeInv, toHere # <<>>, toHere' = Tail(toHere),
         peerSerialNumbers' = peerSerialNumbers, NEW id \in Serial,
         AckOutstanding(id)'
  PROVE  AckOutstanding(id)
  BY TailElement DEF AckOutstanding, TypeInv, TypeOK

(* A write to the wire adds at most the packet written. *)
LEMMA WrittenCopies ==
  ASSUME TypeInv, NEW m \in Message, NEW id \in Serial, NEW pdm \in BOOLEAN,
         sendMessage(m, id, pdm), NEW i \in DOMAIN toPeer'
  PROVE  \/ i \in DOMAIN toPeer /\ toPeer'[i] = toPeer[i]
         \/ toPeer'[i] = [message |-> m, pdm |-> pdm, serial |-> id]
  <1> DEFINE packet == [message |-> m, pdm |-> pdm, serial |-> id]
  <1>1. packet \in Data
    BY DEF Data
  <1>2. toPeer' = Append(toPeer, packet) \/ toPeer' = toPeer
    BY DEF sendMessage, writeMessage
  <1> QED
    BY <1>1, <1>2, AppendElement DEF TypeInv, TypeOK

(* A write to the map sets the text of its own serial only.                *)
LEMMA SendText ==
  ASSUME TypeInv, NEW m \in Message, NEW id \in Serial, NEW pdm \in BOOLEAN,
         sendMessage(m, id, pdm)
  PROVE  \A n \in Serial :
           mPendingMessages'[n].message =
             IF n = id THEN m ELSE mPendingMessages[n].message
  BY DEF sendMessage, TypeInv, TypeOK

(* A new message under the next serial: an earlier copy or ack with that   *)
(* serial makes the serial a reused one.                                   *)
LEMMA SendWire ==
  ASSUME TypeInv, WireInv, NEW m \in Message, send(m)
  PROVE  WireInv'
  <1> DEFINE id == NextSerial
  <1>1. id \in Serial
    BY NextSerialType DEF TypeInv, TypeOK
  <1>2. sendMessage(m, id, FALSE)
    BY DEF send
  <1>3. /\ reused \subseteq reused'
        /\ CopyOutstanding(id) \/ AckOutstanding(id) => id \in reused'
    BY DEF send
  <1>4. \A n \in Serial : mPendingMessages'[n].message =
                            IF n = id THEN m ELSE mPendingMessages[n].message
    BY <1>1, <1>2, SendText
  <1>5. CopiesAreCurrent'
    <2> SUFFICES ASSUME NEW i \in DOMAIN toPeer',
                        toPeer'[i].serial \notin reused'
                 PROVE  toPeer'[i].message =
                          mPendingMessages'[toPeer'[i].serial].message
      BY DEF CopiesAreCurrent
    <2>1. CASE i \in DOMAIN toPeer /\ toPeer'[i] = toPeer[i]
      <3>1. toPeer[i].serial \in Serial
        BY <2>1, PacketType
      <3>2. toPeer[i].serial # id
        BY <1>3, <2>1 DEF CopyOutstanding
      <3>3. toPeer[i].message = mPendingMessages[toPeer[i].serial].message
        BY <1>3, <2>1 DEF WireInv, CopiesAreCurrent
      <3> QED
        BY <1>4, <2>1, <3>1, <3>2, <3>3
    <2>2. CASE toPeer'[i] = [message |-> m, pdm |-> FALSE, serial |-> id]
      BY <1>1, <1>4, <2>2
    <2>3. \/ i \in DOMAIN toPeer /\ toPeer'[i] = toPeer[i]
          \/ toPeer'[i] = [message |-> m, pdm |-> FALSE, serial |-> id]
      BY <1>1, <1>2, WrittenCopies
    <2> QED
      BY <2>1, <2>2, <2>3
  <1>6. AcksAreCurrent'
    <2>1. /\ \A n \in Serial : AckOutstanding(n)' <=> AckOutstanding(n)
          /\ peerReceived' = peerReceived
      BY DEF send, AckOutstanding, peerVars
    <2> QED
      BY <1>3, <1>4, <2>1 DEF WireInv, AcksAreCurrent
  <1>7. DownIsSilent'
    BY DEF send, sendMessage, writeMessage, WireInv, DownIsSilent
  <1> QED
    BY <1>5, <1>6, <1>7 DEF WireInv

(* A resend writes the text of the entry once more. *)
LEMMA ResendWire ==
  ASSUME TypeInv, WireInv, NEW id \in Serial, timerEvent(id), resend(id)
  PROVE  WireInv'
  <1> DEFINE m == mPendingMessages[id].message
  <1>1. m \in Message
    BY DEF timerEvent, TypeInv, PendingHasMessage
  <1>2. sendMessage(m, id, TRUE)
    BY DEF resend
  <1>3. \A n \in Serial :
          mPendingMessages'[n].message = mPendingMessages[n].message
    BY <1>1, <1>2, SendText
  <1>4. reused' = reused /\ peerReceived' = peerReceived
    BY DEF timerEvent, peerVars
  <1>5. CopiesAreCurrent'
    <2> SUFFICES ASSUME NEW i \in DOMAIN toPeer',
                        toPeer'[i].serial \notin reused
                 PROVE  toPeer'[i].message =
                          mPendingMessages'[toPeer'[i].serial].message
      BY <1>4 DEF CopiesAreCurrent
    <2>1. CASE i \in DOMAIN toPeer /\ toPeer'[i] = toPeer[i]
      <3>1. toPeer[i].serial \in Serial
        BY <2>1, PacketType
      <3> QED
        BY <1>3, <2>1, <3>1 DEF WireInv, CopiesAreCurrent
    <2>2. CASE toPeer'[i] = [message |-> m, pdm |-> TRUE, serial |-> id]
      BY <1>3, <2>2
    <2>3. \/ i \in DOMAIN toPeer /\ toPeer'[i] = toPeer[i]
          \/ toPeer'[i] = [message |-> m, pdm |-> TRUE, serial |-> id]
      BY <1>1, <1>2, WrittenCopies
    <2> QED
      BY <2>1, <2>2, <2>3
  <1>6. AcksAreCurrent'
    <2>1. \A n \in Serial : AckOutstanding(n)' <=> AckOutstanding(n)
      BY DEF timerEvent, AckOutstanding, peerVars
    <2> QED
      BY <1>3, <1>4, <2>1 DEF WireInv, AcksAreCurrent
  <1>7. DownIsSilent'
    BY DEF timerEvent, resend, sendMessage, writeMessage, WireInv,
           DownIsSilent
  <1> QED
    BY <1>5, <1>6, <1>7 DEF WireInv

(* The peer takes a packet: the serial it will acknowledge is one whose    *)
(* text it now has.                                                        *)
LEMMA ReceiveWire ==
  ASSUME TypeInv, WireInv, processMessage
  PROVE  WireInv'
  <1> DEFINE packet == Head(toPeer)
  <1>1. /\ 1 \in DOMAIN toPeer
        /\ packet = toPeer[1]
        /\ \A i \in DOMAIN Tail(toPeer) :
             i + 1 \in DOMAIN toPeer /\ Tail(toPeer)[i] = toPeer[i + 1]
    BY TailElement DEF processMessage, TypeInv, TypeOK
  <1>2. /\ toPeer' = Tail(toPeer)
        /\ mPendingMessages' = mPendingMessages
        /\ reused' = reused
        /\ toHere' = toHere
        /\ connected' = connected
    BY DEF processMessage, senderVars
  <1>3. CopiesAreCurrent'
    BY <1>1, <1>2 DEF WireInv, CopiesAreCurrent
  <1>4. AcksAreCurrent'
    <2> SUFFICES ASSUME NEW id \in Serial \ reused, AckOutstanding(id)'
                 PROVE  mPendingMessages[id].message \in peerReceived'
      BY <1>2 DEF AcksAreCurrent
    <2>1. CASE AckOutstanding(id)
      <3>1. mPendingMessages[id].message \in peerReceived
        BY <2>1 DEF WireInv, AcksAreCurrent
      <3> QED
        BY <3>1 DEF processMessage, peerVars
    <2>2. CASE ~ AckOutstanding(id)
      <3>1. /\ id = packet.serial
            /\ packet.message \in peerReceived'
        BY <1>2, <2>2 DEF processMessage, AckOutstanding, peerVars
      <3>2. packet.message = mPendingMessages[id].message
        BY <1>1, <3>1 DEF WireInv, CopiesAreCurrent
      <3> QED
        BY <3>1, <3>2
    <2> QED
      BY <2>1, <2>2
  <1>5. DownIsSilent'
    BY <1>2 DEF processMessage, WireInv, DownIsSilent
  <1> QED
    BY <1>3, <1>4, <1>5 DEF WireInv

(* The acks of the peer move from its list to the wire. *)
LEMMA AckWire ==
  ASSUME TypeInv, WireInv, sendImaMessage
  PROVE  WireInv'
  <1> DEFINE packet == [kind |-> "ima", serials |-> peerSerialNumbers]
  <1>1. packet \in Control
    BY DEF TypeInv, TypeOK, Control
  <1>2. /\ toPeer' = toPeer /\ mPendingMessages' = mPendingMessages
        /\ reused' = reused /\ peerReceived' = peerReceived
        /\ peerSerialNumbers' = {}
        /\ toHere' = Append(toHere, packet) \/ toHere' = toHere
    BY DEF sendImaMessage, senderVars
  <1>3. \A id \in Serial : AckOutstanding(id)' => AckOutstanding(id)
    <2> SUFFICES ASSUME NEW id \in Serial, AckOutstanding(id)'
                 PROVE  AckOutstanding(id)
      OBVIOUS
    <2>1. PICK i \in DOMAIN toHere' : id \in toHere'[i].serials
      BY <1>2 DEF AckOutstanding
    <2>2. \/ i \in DOMAIN toHere /\ toHere'[i] = toHere[i]
          \/ toHere'[i] = packet
      BY <1>1, <1>2, AppendElement DEF TypeInv, TypeOK
    <2> QED
      BY <2>1, <2>2 DEF AckOutstanding
  <1>4. CopiesAreCurrent' /\ AcksAreCurrent'
    BY <1>2, <1>3, LessOnTheWire
  <1>5. DownIsSilent'
    BY DEF sendImaMessage, WireInv, DownIsSilent
  <1> QED
    BY <1>4, <1>5 DEF WireInv

(* A hold or a resume of the peer carries no ack.                          *)
LEMMA HoldWire ==
  ASSUME TypeInv, WireInv, NEW kind \in {"stop", "resume"},
         peerHoldsOrResumes(kind)
  PROVE  WireInv'
  <1> DEFINE packet == [kind |-> kind, serials |-> {}]
  <1>1. packet \in Control
    BY DEF Control
  <1>2. /\ toPeer' = toPeer /\ mPendingMessages' = mPendingMessages
        /\ reused' = reused /\ peerReceived' = peerReceived
        /\ peerSerialNumbers' = peerSerialNumbers
        /\ toHere' = Append(toHere, packet)
        /\ connected /\ connected'
    BY DEF peerHoldsOrResumes, senderVars, peerVars
  <1>3. \A id \in Serial : AckOutstanding(id)' => AckOutstanding(id)
    <2> SUFFICES ASSUME NEW id \in Serial, AckOutstanding(id)'
                 PROVE  AckOutstanding(id)
      OBVIOUS
    <2>1. CASE id \in peerSerialNumbers
      BY <2>1 DEF AckOutstanding
    <2>2. CASE \E i \in DOMAIN toHere' : id \in toHere'[i].serials
      <3>1. PICK i \in DOMAIN toHere' : id \in toHere'[i].serials
        BY <2>2
      <3>2. \/ i \in DOMAIN toHere /\ toHere'[i] = toHere[i]
            \/ toHere'[i] = packet
        BY <1>1, <1>2, AppendElement DEF TypeInv, TypeOK
      <3> QED
        BY <3>1, <3>2 DEF AckOutstanding
    <2> QED
      BY <1>2, <2>1, <2>2 DEF AckOutstanding
  <1>4. CopiesAreCurrent' /\ AcksAreCurrent'
    BY <1>2, <1>3, LessOnTheWire
  <1> QED
    BY <1>2, <1>4 DEF WireInv, DownIsSilent

(* The wires of a new session are empty.                                   *)
LEMMA InitWire == Init => WireInv
  <1> SUFFICES ASSUME Init PROVE WireInv
    OBVIOUS
  <1>1. DOMAIN toPeer = {} /\ DOMAIN toHere = {} /\ peerSerialNumbers = {}
    BY DEF Init
  <1> QED
    BY <1>1 DEF Init, WireInv, CopiesAreCurrent, AcksAreCurrent,
                AckOutstanding, DownIsSilent

(* Every step keeps the copies and the acks of unreused serials current.   *)
LEMMA NextWire == TypeInv /\ WireInv /\ [Next]_batapVars => WireInv'
  <1> SUFFICES ASSUME TypeInv, WireInv, [Next]_batapVars PROVE WireInv'
    OBVIOUS
  <1>1. CASE start \/ stop \/ UNCHANGED batapVars
    <2>1. UNCHANGED <<connected, mPendingMessages, toPeer, toHere,
                      peerSerialNumbers, peerReceived, reused>>
      BY <1>1 DEF start, stop, batapVars, senderVars, peerVars
    <2> QED
      BY <2>1 DEF WireInv, CopiesAreCurrent, AcksAreCurrent, AckOutstanding,
                  DownIsSilent
  <1>2. ASSUME NEW m \in Message, send(m) PROVE WireInv'
    BY <1>2, SendWire
  <1>3. ASSUME NEW id \in Serial, timerEvent(id) PROVE WireInv'
    <2>1. CASE fail(id)
      <3>1. \A n \in Serial :
              mPendingMessages'[n].message = mPendingMessages[n].message
        BY <2>1, FailIsRemoval, RemoveEntriesType
      <3>2. /\ UNCHANGED <<connected, toPeer, toHere, peerSerialNumbers,
                           peerReceived, reused>>
        BY <1>3, <2>1 DEF timerEvent, fail, peerVars
      <3>3. \A n \in Serial : AckOutstanding(n)' => AckOutstanding(n)
        BY <3>2 DEF AckOutstanding
      <3>4. CopiesAreCurrent' /\ AcksAreCurrent'
        BY <3>1, <3>2, <3>3, LessOnTheWire
      <3> QED
        BY <3>2, <3>4 DEF WireInv, DownIsSilent
    <2>2. CASE resend(id)
      BY <1>3, <2>2, ResendWire
    <2> QED
      BY <1>3, <2>1, <2>2 DEF timerEvent
  <1>4. CASE processImaMessage
    <2>1. Head(toHere).serials \cap Pending \in SUBSET Serial
      BY DEF Pending
    <2>2. \A n \in Serial :
            mPendingMessages'[n].message = mPendingMessages[n].message
      BY <1>4, <2>1, RemoveEntriesType DEF processImaMessage
    <2>3. /\ UNCHANGED <<connected, toPeer, peerSerialNumbers, peerReceived,
                         reused>>
          /\ toHere # <<>> /\ toHere' = Tail(toHere)
      BY <1>4 DEF processImaMessage, peerVars
    <2>4. \A n \in Serial : AckOutstanding(n)' => AckOutstanding(n)
      BY <2>3, TailAcks
    <2>5. CopiesAreCurrent' /\ AcksAreCurrent'
      BY <2>2, <2>3, <2>4, LessOnTheWire
    <2> QED
      BY <2>3, <2>5 DEF WireInv, DownIsSilent
  <1>5. CASE onStopTransmission \/ onResumeTransmission
    <2>1. /\ UNCHANGED <<connected, mPendingMessages, toPeer,
                         peerSerialNumbers, peerReceived, reused>>
          /\ toHere # <<>> /\ toHere' = Tail(toHere)
      BY <1>5 DEF onStopTransmission, onResumeTransmission, peerVars
    <2>2. \A n \in Serial : AckOutstanding(n)' => AckOutstanding(n)
      BY <2>1, TailAcks
    <2>3. CopiesAreCurrent' /\ AcksAreCurrent'
      BY <2>1, <2>2, LessOnTheWire
    <2> QED
      BY <2>1, <2>3 DEF WireInv, DownIsSilent
  <1>6. CASE processMessage
    BY <1>6, ReceiveWire
  <1>7. CASE sendImaMessage
    BY <1>7, AckWire
  <1>8. ASSUME NEW kind \in {"stop", "resume"}, peerHoldsOrResumes(kind)
        PROVE  WireInv'
    BY <1>8, HoldWire
  <1>9. CASE onSocketDisconnected
    <2>1. /\ UNCHANGED <<mPendingMessages, peerSerialNumbers, peerReceived,
                         reused>>
          /\ toPeer' = <<>> /\ toHere' = <<>>
      BY <1>9 DEF onSocketDisconnected, peerVars
    <2>2. \A n \in Serial : AckOutstanding(n)' => AckOutstanding(n)
      BY <2>1 DEF AckOutstanding
    <2>3. CopiesAreCurrent' /\ AcksAreCurrent'
      BY <2>1, <2>2, LessOnTheWire
    <2> QED
      BY <2>1, <2>3 DEF WireInv, DownIsSilent
  <1>10. CASE newSession
    <2>1. toPeer' = <<>> /\ toHere' = <<>> /\ peerSerialNumbers' = {}
      BY <1>10 DEF newSession, WireInv, DownIsSilent
    <2> QED
      BY <2>1 DEF WireInv, CopiesAreCurrent, AcksAreCurrent, AckOutstanding,
                  DownIsSilent
  <1> QED
    BY <1>1, <1>2, <1>3, <1>4, <1>5, <1>6, <1>7, <1>8, <1>9, <1>10 DEF Next

(* An ack is credited to a message the peer has, unless its serial was     *)
(* reused.                                                                 *)
LEMMA NextDelivered ==
  TypeInv /\ WireInv /\ DeliveredWasReceived /\ [Next]_batapVars
    => DeliveredWasReceived'
  <1> SUFFICES ASSUME TypeInv, WireInv, DeliveredWasReceived,
                      [Next]_batapVars
               PROVE  DeliveredWasReceived'
    OBVIOUS
  <1>1. CASE processImaMessage
    <2> DEFINE acked == Head(toHere).serials \cap Pending
    <2>1. \A s \in signals' : \E id \in acked :
            s.serial = id /\ s.message = mPendingMessages[id].message
      BY <1>1 DEF processImaMessage
    <2>2. /\ 1 \in DOMAIN toHere
          /\ Head(toHere) = toHere[1]
      BY <1>1, TailElement DEF processImaMessage, TypeInv, TypeOK
    <2>3. \A id \in acked : id \in Serial /\ AckOutstanding(id)
      BY <2>2 DEF Pending, AckOutstanding
    <2>4. \A id \in acked :
            id \in reused \/ mPendingMessages[id].message \in peerReceived
      BY <2>3 DEF WireInv, AcksAreCurrent
    <2>5. reused' = reused /\ peerReceived' = peerReceived
      BY <1>1 DEF processImaMessage, peerVars
    <2> QED
      BY <2>1, <2>4, <2>5 DEF DeliveredWasReceived
  <1>2. ASSUME NEW id \in Serial, timerEvent(id)
        PROVE  DeliveredWasReceived'
    <2>1. CASE resend(id)
      BY <2>1 DEF resend, DeliveredWasReceived
    <2>2. CASE fail(id)
      <3>1. \E text : signals' = {[signal |-> "deliveryFailed", serial |-> id,
                                 message |-> mPendingMessages[id].message,
                                 reported |-> text]}
        BY <2>2 DEF fail
      <3>2. \A s \in signals' : s.signal = "deliveryFailed"
        BY <3>1
      <3> QED
        BY <3>2 DEF DeliveredWasReceived
    <2> QED
      BY <1>2, <2>1, <2>2 DEF timerEvent
  <1>3. CASE signals' = {}
    BY <1>3 DEF DeliveredWasReceived
  <1>4. CASE UNCHANGED batapVars
    BY <1>4 DEF batapVars, peerVars, DeliveredWasReceived
  <1> QED
    BY <1>1, <1>2, <1>3, <1>4
       DEF Next, start, stop, send, onStopTransmission, onResumeTransmission,
           processMessage, sendImaMessage, peerHoldsOrResumes,
           onSocketDisconnected, newSession

(* Batap never reports as delivered a message the peer's application has   *)
(* not been given, except under a serial that came round again while an    *)
(* earlier copy or ack was on its way; across resends, duplicates, grouped *)
(* acks, holds, lost connections and new sessions.                         *)
THEOREM DeliveryCorrect == Spec => []DeliveryInv
  <1>1. Init => DeliveredWasReceived
    BY DEF Init, DeliveredWasReceived
  <1>2. Init => WireInv
    BY InitWire
  <1>3. TypeInv /\ WireInv /\ [Next]_batapVars => WireInv'
    BY NextWire
  <1>4. TypeInv /\ WireInv /\ DeliveredWasReceived /\ [Next]_batapVars
          => DeliveredWasReceived'
    BY NextDelivered
  <1>5. TypeInv /\ WireInv /\ DeliveredWasReceived => DeliveryInv
    BY DEF TypeInv, WireInv, DeliveryInv
  <1> QED
    BY <1>1, <1>2, <1>3, <1>4, <1>5, TypeInvariant, PTL DEF Spec
----------------------------------------------------------------------------
(* Nothing is dropped in silence. *)

(* Which message a report is about.                                        *)
LEMMA SettledByReport ==
  ASSUME NEW reports, NEW r \in reports
  PROVE  r.message \in Settled(reports)
  BY DEF Settled

(* A step that leaves the entries alone, or ends their session, drops      *)
(* nothing; the others say so.                                             *)
LEMMA NextDropIsNoticed ==
  ASSUME SerialCount > 1, TypeInv, [Next]_batapVars
  PROVE  DropIsNoticed
  <1> USE DEF TypeInv
  <1>1. CASE UNCHANGED mPendingMessages
    BY <1>1 DEF DropIsNoticed, Pending
  <1>2. ASSUME NEW m \in Message, send(m) PROVE DropIsNoticed
    <2>1. NextSerial \in Serial /\ mCurrentSerialNumber' = NextSerial
      BY <1>2, NextSerialType DEF send, TypeOK
    <2>2. NextSerial # mCurrentSerialNumber
      BY BatapAssumption DEF NextSerial, TypeOK, Serial
    <2>3. \A id \in Serial : id # NextSerial =>
            mPendingMessages'[id] = mPendingMessages[id]
      BY <1>2 DEF send, sendMessage, TypeOK
    <2> QED
      BY <2>1, <2>2, <2>3 DEF DropIsNoticed, Pending
  <1>3. ASSUME NEW id \in Serial, timerEvent(id) PROVE DropIsNoticed
    <2>1. CASE fail(id)
      <3>1. PICK text \in {mPendingMessages[id].message, FreedMemory} :
              signals' = {[signal |-> "deliveryFailed", serial |-> id,
                           message |-> mPendingMessages[id].message,
                           reported |-> text]}
        BY <2>1 DEF fail
      <3>2. mPendingMessages[id].message \in Settled(signals')
        BY <3>1, SettledByReport
      <3>3. \A i \in Serial : i # id =>
              mPendingMessages'[i] = mPendingMessages[i]
        BY <2>1 DEF fail, TypeOK
      <3> QED
        BY <3>2, <3>3 DEF DropIsNoticed, Pending
    <2>2. CASE resend(id)
      <3>1. mPendingMessages' =
              [mPendingMessages EXCEPT
                 ![id] = [message |-> mPendingMessages[id].message,
                          retryCount |-> mPendingMessages[id].retryCount + 1]]
        BY <2>2 DEF resend, sendMessage
      <3>2. \A i \in Serial :
              /\ mPendingMessages'[i].message = mPendingMessages[i].message
              /\ mPendingMessages[i].retryCount > 0
                   => mPendingMessages'[i].retryCount > 0
        BY <3>1 DEF TypeOK, Entry
      <3> QED
        BY <3>2 DEF DropIsNoticed, Pending
    <2> QED
      BY <1>3, <2>1, <2>2 DEF timerEvent
  <1>4. CASE processImaMessage
    <2> DEFINE acked == Head(toHere).serials \cap Pending
               report(id) == [signal |-> "messageDelivered", serial |-> id,
                              message |-> mPendingMessages[id].message,
                              reported |-> mPendingMessages[id].message]
    <2>1. /\ mPendingMessages' =
               [id \in Serial |->
                  IF id \in acked
                    THEN [mPendingMessages[id] EXCEPT !.retryCount = 0]
                    ELSE mPendingMessages[id]]
          /\ signals' = {report(id) : id \in acked}
      BY <1>4 DEF processImaMessage
    <2>2. ASSUME NEW id \in acked
          PROVE  mPendingMessages[id].message \in Settled(signals')
      <3>1. report(id) \in signals'
        BY <2>1
      <3>2. report(id).message = mPendingMessages[id].message
        OBVIOUS
      <3> HIDE DEF report
      <3> QED
        BY <3>1, <3>2, SettledByReport
    <2>3. \A id \in Serial \ acked : mPendingMessages'[id] = mPendingMessages[id]
      BY <2>1
    <2> HIDE DEF acked
    <2> QED
      BY <2>2, <2>3 DEF DropIsNoticed, Pending
  <1>5. CASE newSession
    BY <1>5 DEF newSession, DropIsNoticed
  <1>6. CASE UNCHANGED batapVars
    BY <1>1, <1>6 DEF batapVars, senderVars
  <1> QED
    BY <1>1, <1>2, <1>3, <1>4, <1>5, <1>6
       DEF Next, start, stop, onStopTransmission, onResumeTransmission,
           processMessage, sendImaMessage, peerHoldsOrResumes,
           onSocketDisconnected, senderVars

(* With more than one serial (the code has 1000) no message is dropped in  *)
(* silence while its session lasts, unless a send() comes round to a       *)
(* serial whose message still waits for its acknowledgement.               *)
THEOREM DropsAreReported ==
  ASSUME SerialCount > 1
  PROVE  Spec => DropOnlyOnWrap
  <1>1. TypeInv /\ [Next]_batapVars => [DropIsNoticed]_batapVars
    BY NextDropIsNoticed
  <1> QED
    BY <1>1, TypeInvariant, PTL DEF Spec, DropOnlyOnWrap
=============================================================================
