------------------------------- MODULE Batap -------------------------------
(***************************************************************************)
(* One direction of a BATAP session (src/common/sita/batap): the sending   *)
(* half of the Batap object on this side, the receiving half of the Batap  *)
(* object of the peer, and the TCP connection between the two Matip        *)
(* objects.  The other direction is the mirror image and shares no state   *)
(* with this one, since mPendingMessages and mSerialNumbers never meet.    *)
(*                                                                         *)
(* A message is a member of Message.  Of its text the code looks only at   *)
(* whether it is empty and whether it starts with "IMA".  A timer started  *)
(* by sendMessage() runs exactly as long as its entry of mPendingMessages  *)
(* does; the timer of an overwritten entry finds no entry and does         *)
(* nothing, so it is left out.                                             *)
(***************************************************************************)
EXTENDS Integers, Sequences, FiniteSets

CONSTANTS
  Message,              (* the messages handed to Batap::send()             *)
  NoMessage,            (* the text of an entry that was never used         *)
  FreedMemory,          (* what is read from a freed map node               *)
  EmptyText,            (* the messages whose text is empty                 *)
  ImaLike,              (* the messages whose text starts with "IMA"        *)
  SerialCount,          (* 1000 in the code: serials run from 000 to 999    *)
  TransmissionWindow,   (* BatapConfig::transmissionWindow                  *)
  MaxRetryCount,        (* BatapConfig::maxRetryCount                       *)
  PromptPeer,           (* TRUE: noImaTime is longer than any round trip    *)
  MayHold,              (* TRUE: the peer may hold and resume transmission  *)
  MaxData,              (* bound: data packets on the wire                  *)
  MaxControl,           (* bound: packets on the wire back                  *)
  MaxCount              (* bound: retryCount of an entry, which only a      *)
                        (* reused serial takes past MaxRetryCount           *)

ASSUME BatapAssumption ==
  /\ SerialCount \in Nat \ {0}
  /\ TransmissionWindow \in Nat
  /\ MaxRetryCount \in Nat
  /\ MaxData \in Nat
  /\ MaxControl \in Nat
  /\ MaxCount \in Nat
  /\ EmptyText \subseteq Message
  /\ ImaLike \subseteq Message
  /\ NoMessage \notin Message
  /\ FreedMemory \notin Message
  /\ PromptPeer \in BOOLEAN
  /\ MayHold \in BOOLEAN

VARIABLES
  connected,               (* the TCP connection is up                      *)
  mIsStopped,              (* this side: start()/stop()                     *)
  mIsTransmissionStopped,  (* this side: the peer asked to hold the data    *)
  mCurrentSerialNumber,    (* this side: the last serial given to a message *)
  mPendingMessages,        (* this side: entry per serial; retryCount 0 is  *)
                           (* an absent entry                               *)
  toPeer,                  (* data packets on the wire to the peer          *)
  toHere,                  (* packets on the wire back                      *)
  peerSerialNumbers,       (* the peer: mSerialNumbers, still to be acked   *)
  peerReceived,            (* the peer: messages emitted by newMessage()    *)
  signals,                 (* this side: the messageDelivered() and         *)
                           (* deliveryFailed() emitted by the last step     *)
  reused                   (* history: serials given to a new message while *)
                           (* a copy or an ack of an earlier one was around *)

senderVars  == <<mIsStopped, mIsTransmissionStopped, mCurrentSerialNumber,
                 mPendingMessages>>
peerVars    == <<peerSerialNumbers, peerReceived>>
batapVars   == <<connected, senderVars, toPeer, toHere, peerVars, signals,
                 reused>>

Serial  == 0 .. SerialCount - 1
Entry   == [message: Message \cup {NoMessage}, retryCount: Nat]
Data    == [message: Message, pdm: BOOLEAN, serial: Serial]
Signal  == [signal: {"messageDelivered", "deliveryFailed"}, serial: Serial,
            message: Message, reported: Message \cup {FreedMemory}]
Control == [kind: {"ima", "stop", "resume"}, serials: SUBSET Serial]

TypeOK ==
  /\ connected \in BOOLEAN
  /\ mIsStopped \in BOOLEAN
  /\ mIsTransmissionStopped \in BOOLEAN
  /\ mCurrentSerialNumber \in Serial
  /\ mPendingMessages \in [Serial -> Entry]
  /\ toPeer \in Seq(Data)
  /\ toHere \in Seq(Control)
  /\ peerSerialNumbers \in SUBSET Serial
  /\ peerReceived \in SUBSET Message
  /\ signals \in SUBSET Signal
  /\ reused \in SUBSET Serial

Pending == {id \in Serial : mPendingMessages[id].retryCount > 0}

(* Faulty variant: the window is exceeded by one. *)
FaultyWindow ==
  /\ ~ mIsStopped
  /\ ~ mIsTransmissionStopped
  /\ Cardinality(Pending) <= TransmissionWindow

isReadyForTransmission ==
  /\ ~ mIsStopped
  /\ ~ mIsTransmissionStopped
  /\ Cardinality(Pending) < TransmissionWindow

NoEntry == [message |-> NoMessage, retryCount |-> 0]

(* A new Batap object on each side: what the constructor sets. *)
Init ==
  /\ connected = TRUE
  /\ mIsStopped = TRUE
  /\ mIsTransmissionStopped = FALSE
  /\ mCurrentSerialNumber = 0
  /\ mPendingMessages = [id \in Serial |-> NoEntry]
  /\ toPeer = <<>>
  /\ toHere = <<>>
  /\ peerSerialNumbers = {}
  /\ peerReceived = {}
  /\ signals = {}
  /\ reused = {}

CopyOutstanding(id) == \E i \in DOMAIN toPeer : toPeer[i].serial = id

AckOutstanding(id) ==
  \/ id \in peerSerialNumbers
  \/ \E i \in DOMAIN toHere : id \in toHere[i].serials

----------------------------------------------------------------------------
(* Actions of this side. *)

start ==
  /\ connected
  /\ mIsStopped' = FALSE
  /\ UNCHANGED <<connected, mIsTransmissionStopped, mCurrentSerialNumber,
                 mPendingMessages, toPeer, toHere, peerVars, reused>>
  /\ signals' = {}

stop ==
  /\ mIsStopped' = TRUE
  /\ UNCHANGED <<connected, mIsTransmissionStopped, mCurrentSerialNumber,
                 mPendingMessages, toPeer, toHere, peerVars, reused>>
  /\ signals' = {}

(* writeMessage() on a closed socket writes nothing. *)
writeMessage(packet) ==
  toPeer' = IF connected THEN Append(toPeer, packet) ELSE toPeer

sendMessage(m, id, isPdm) ==
  /\ Len(toPeer) < MaxData
  /\ mPendingMessages[id].retryCount < MaxCount
  /\ writeMessage([message |-> m, pdm |-> isPdm, serial |-> id])
  /\ mPendingMessages' =
       [mPendingMessages EXCEPT
          ![id] = [message |-> m, retryCount |-> @.retryCount + 1]]

NextSerial ==
  IF mCurrentSerialNumber + 1 > SerialCount - 1 THEN 0
                                                ELSE mCurrentSerialNumber + 1

(* send() of a message that is accepted. *)
send(m) ==
  /\ isReadyForTransmission
  /\ m \notin EmptyText
  /\ mCurrentSerialNumber' = NextSerial
  /\ sendMessage(m, NextSerial, FALSE)
  /\ reused' = IF CopyOutstanding(NextSerial) \/ AckOutstanding(NextSerial)
                 THEN reused \cup {NextSerial} ELSE reused
  /\ UNCHANGED <<connected, mIsStopped, mIsTransmissionStopped, toHere,
                 peerVars>>
  /\ signals' = {}

(* Faulty variant: the failure is not reported. *)
FaultyFail(id) ==
  /\ mIsStopped \/ mPendingMessages[id].retryCount >= MaxRetryCount
  /\ mPendingMessages' = [mPendingMessages EXCEPT ![id].retryCount = 0]
  /\ signals' = {}
  /\ toPeer' = toPeer

(* Faulty variant: a stopped Batap gives nothing up. *)
FaultyGiveUp(id) ==
  /\ ~ mIsStopped
  /\ mPendingMessages[id].retryCount >= MaxRetryCount
  /\ mPendingMessages' = [mPendingMessages EXCEPT ![id].retryCount = 0]
  /\ \E text \in {mPendingMessages[id].message, FreedMemory} :
       signals' = {[signal |-> "deliveryFailed", serial |-> id,
                    message |-> mPendingMessages[id].message,
                    reported |-> text]}
  /\ toPeer' = toPeer

(* The node is removed from the map before its text is read for the        *)
(* signal: the report carries the text or whatever the freed memory holds. *)
fail(id) ==
  /\ mIsStopped \/ mPendingMessages[id].retryCount >= MaxRetryCount
  /\ mPendingMessages' = [mPendingMessages EXCEPT ![id].retryCount = 0]
  /\ \E text \in {mPendingMessages[id].message, FreedMemory} :
       signals' = {[signal |-> "deliveryFailed", serial |-> id,
                    message |-> mPendingMessages[id].message,
                    reported |-> text]}
  /\ toPeer' = toPeer

resend(id) ==
  /\ ~ (mIsStopped \/ mPendingMessages[id].retryCount >= MaxRetryCount)
  /\ sendMessage(mPendingMessages[id].message, id, TRUE)
  /\ signals' = {}

(* The timer of one entry fires.  While the peer holds the transmission    *)
(* the handler returns at once and the timer keeps running.                *)
timerEvent(id) ==
  /\ ~ mIsTransmissionStopped
  /\ id \in Pending
  /\ PromptPeer => ~ (CopyOutstanding(id) \/ AckOutstanding(id))
  /\ fail(id) \/ resend(id)
  /\ UNCHANGED <<connected, mIsStopped, mIsTransmissionStopped,
                 mCurrentSerialNumber, toHere, peerVars, reused>>

(* onNewMessageFromMatip() for a message that starts with "IMA". *)
processImaMessage ==
  /\ toHere # <<>>
  /\ Head(toHere).kind = "ima"
  /\ LET acked == Head(toHere).serials \cap Pending
     IN /\ mPendingMessages' =
             [id \in Serial |->
                IF id \in acked
                  THEN [mPendingMessages[id] EXCEPT !.retryCount = 0]
                  ELSE mPendingMessages[id]]
        /\ signals' =
             {[signal |-> "messageDelivered", serial |-> id,
               message |-> mPendingMessages[id].message,
               reported |-> mPendingMessages[id].message] : id \in acked}
  /\ toHere' = Tail(toHere)
  /\ UNCHANGED <<connected, mIsStopped, mIsTransmissionStopped,
                 mCurrentSerialNumber, toPeer, peerVars, reused>>

onStopTransmission ==
  /\ toHere # <<>>
  /\ Head(toHere).kind = "stop"
  /\ mIsTransmissionStopped' = TRUE
  /\ toHere' = Tail(toHere)
  /\ UNCHANGED <<connected, mIsStopped, mCurrentSerialNumber,
                 mPendingMessages, toPeer, peerVars, reused>>
  /\ signals' = {}

onResumeTransmission ==
  /\ toHere # <<>>
  /\ Head(toHere).kind = "resume"
  /\ mIsTransmissionStopped' = FALSE
  /\ toHere' = Tail(toHere)
  /\ UNCHANGED <<connected, mIsStopped, mCurrentSerialNumber,
                 mPendingMessages, toPeer, peerVars, reused>>
  /\ signals' = {}

----------------------------------------------------------------------------
(* Actions of the peer. *)

(* Faulty variant: the serial is acknowledged whatever the text is. *)
FaultyProcessMessage ==
  /\ toPeer # <<>>
  /\ toPeer' = Tail(toPeer)
  /\ peerSerialNumbers' = peerSerialNumbers \cup {Head(toPeer).serial}
  /\ peerReceived' = IF Head(toPeer).message \in ImaLike
                       THEN peerReceived
                       ELSE peerReceived \cup {Head(toPeer).message}
  /\ UNCHANGED <<connected, senderVars, toHere, reused>>
  /\ signals' = {}

(* A data packet reaches the peer's Batap.  A message that starts with     *)
(* "IMA" is taken for an acknowledgement: the trailer makes its last group *)
(* of three no number, so error() is all that happens.                     *)
processMessage ==
  /\ toPeer # <<>>
  /\ toPeer' = Tail(toPeer)
  /\ IF Head(toPeer).message \in ImaLike
       THEN UNCHANGED peerVars
       ELSE /\ peerSerialNumbers' = peerSerialNumbers \cup {Head(toPeer).serial}
            /\ peerReceived' = peerReceived \cup {Head(toPeer).message}
  /\ UNCHANGED <<connected, senderVars, toHere, reused>>
  /\ signals' = {}

(* The group timer of the peer fires with serials to acknowledge. *)
sendImaMessage ==
  /\ peerSerialNumbers # {}
  /\ Len(toHere) < MaxControl
  /\ toHere' = IF connected
                 THEN Append(toHere, [kind |-> "ima",
                                      serials |-> peerSerialNumbers])
                 ELSE toHere
  /\ peerSerialNumbers' = {}
  /\ UNCHANGED <<connected, senderVars, toPeer, peerReceived, reused>>
  /\ signals' = {}

(* Matip::sendStopTransmission() and sendResumeTransmission() of the peer. *)
peerHoldsOrResumes(kind) ==
  /\ MayHold
  /\ connected
  /\ Len(toHere) < MaxControl
  /\ toHere' = Append(toHere, [kind |-> kind, serials |-> {}])
  /\ UNCHANGED <<connected, senderVars, toPeer, peerVars, reused>>
  /\ signals' = {}

----------------------------------------------------------------------------
(* The connection. *)

(* SitaConnection::onSocketDisconnected() stops the Batap object; what was *)
(* on the wire is lost.                                                    *)
onSocketDisconnected ==
  /\ connected
  /\ connected' = FALSE
  /\ mIsStopped' = TRUE
  /\ toPeer' = <<>>
  /\ toHere' = <<>>
  /\ UNCHANGED <<mIsTransmissionStopped, mCurrentSerialNumber,
                 mPendingMessages, peerVars, reused>>
  /\ signals' = {}

(* A new connection: acceptSession() makes a new Batap on each side.  What *)
(* the peer's application was given, and the reports made, remain.         *)
newSession ==
  /\ ~ connected
  /\ connected' = TRUE
  /\ mIsStopped' = TRUE
  /\ mIsTransmissionStopped' = FALSE
  /\ mCurrentSerialNumber' = 0
  /\ mPendingMessages' = [id \in Serial |-> NoEntry]
  /\ peerSerialNumbers' = {}
  /\ reused' = {}
  /\ UNCHANGED <<toPeer, toHere, peerReceived>>
  /\ signals' = {}

----------------------------------------------------------------------------
Next ==
  \/ start
  \/ stop
  \/ \E m \in Message : send(m)
  \/ \E id \in Serial : timerEvent(id)
  \/ processImaMessage
  \/ onStopTransmission
  \/ onResumeTransmission
  \/ processMessage
  \/ sendImaMessage
  \/ \E kind \in {"stop", "resume"} : peerHoldsOrResumes(kind)
  \/ onSocketDisconnected
  \/ newSession

Spec == Init /\ [][Next]_batapVars

----------------------------------------------------------------------------
(* Safety. *)

(* Batap never has more messages awaiting an acknowledgement than the      *)
(* configured window, whatever the order of sends, retries, acks, holds    *)
(* and reconnections (Batap.h, transmissionWindow).                        *)
WindowRespected == Cardinality(Pending) <= TransmissionWindow

(* A message reported by messageDelivered() reached the peer's application *)
(* although acks carry serials only, which wrap around: the one exception  *)
(* is a serial given to a new message while a copy or an ack of an earlier *)
(* message with that serial was still on its way.                          *)
DeliveredWasReceived ==
  \A s \in signals :
    s.signal = "messageDelivered" =>
      s.serial \in reused \/ s.message \in peerReceived

(* The strengthening that is inductive: under a serial that was not reused *)
(* every copy on the wire is the entry's message, and an ack on its way    *)
(* means that the peer has that message.                                   *)
CopiesAreCurrent ==
  \A i \in DOMAIN toPeer :
    \/ toPeer[i].serial \in reused
    \/ toPeer[i].message = mPendingMessages[toPeer[i].serial].message

AcksAreCurrent ==
  \A id \in Serial \ reused :
    AckOutstanding(id) => mPendingMessages[id].message \in peerReceived

(* A pending entry holds a message of the application, the one the timer   *)
(* would send again.                                                       *)
PendingHasMessage ==
  \A id \in Pending : mPendingMessages[id].message \in Message

(* Nothing is on the wire of a connection that is down, so that a new      *)
(* session starts with clean channels.                                     *)
DownIsSilent == ~ connected => toPeer = <<>> /\ toHere = <<>>

(* All of it together: acknowledgements are never credited to a message    *)
(* the peer has not got.                                                   *)
DeliveryInv ==
  /\ CopiesAreCurrent
  /\ AcksAreCurrent
  /\ PendingHasMessage
  /\ DownIsSilent
  /\ DeliveredWasReceived

(* Which messages the signals s report as settled. *)
Settled(s) == {r.message : r \in s}

(* An entry that disappears or is given another message is reported, while *)
(* the session lasts, or a send() has come round to its serial.            *)
DropIsNoticed ==
  \A id \in Pending :
    \/ /\ mPendingMessages'[id].retryCount > 0
       /\ mPendingMessages'[id].message = mPendingMessages[id].message
    \/ mPendingMessages[id].message \in Settled(signals')
    \/ ~ connected
    \/ mCurrentSerialNumber' = id /\ mCurrentSerialNumber # id

(* A message never leaves mPendingMessages unnoticed: an entry that        *)
(* disappears or is given another message is reported delivered or failed  *)
(* in that step (Batap.h: deliveryFailed "is emitted when the message      *)
(* can't be delivered"), as long as the session lasts.  The exception is a *)
(* send() that comes round to a serial whose message is still pending.     *)
DropOnlyOnWrap == [][DropIsNoticed]_batapVars

----------------------------------------------------------------------------
(* Liveness. *)

(* Fairness: the event loops of both ends run and the timers fire.  The    *)
(* bound MaxData may disable a resend for a moment, hence SF.              *)
FairSpec ==
  /\ Spec
  /\ WF_batapVars(processImaMessage)
  /\ WF_batapVars(onStopTransmission)
  /\ WF_batapVars(onResumeTransmission)
  /\ WF_batapVars(processMessage)
  /\ WF_batapVars(sendImaMessage)
  /\ \A id \in Serial : SF_batapVars(timerEvent(id))

(* Every message accepted by send() is settled in the end, also when the   *)
(* peer never acks it, the connection breaks or Batap is stopped: its      *)
(* timer survives a hold of the transmission and goes on afterwards.       *)
Settles ==
  \A id \in Serial :
    id \in Pending ~> id \notin Pending \/ mIsTransmissionStopped
=============================================================================
