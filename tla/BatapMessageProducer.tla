------------------------ MODULE BatapMessageProducer ------------------------
(***************************************************************************)
(* The BatapMessageProducer that feeds a Batap object from a message queue *)
(* kept in Redis (RedisBatapStorage behind RedisBatapMessageStorage).      *)
(*                                                                         *)
(* The producer and the Batap object live in one thread and call each      *)
(* other directly, so a Batap action and the producer's slots it triggers  *)
(* are one step here.  The storage is called through queued invocations    *)
(* (calls) and answers with signals (replies), both first in, first out.   *)
(* A key of the queue is a UUID made for one message, so a message stands  *)
(* for its key.                                                            *)
(***************************************************************************)
EXTENDS Batap, SequencesExt

CONSTANTS
  StorageErrors,  (* TRUE: a Redis command may fail                        *)
  MaxSessions     (* bound: reconnections                                  *)

ASSUME ProducerAssumption ==
  /\ StorageErrors \in BOOLEAN
  /\ MaxSessions \in Nat

VARIABLES
  mRunning,     (* the producer waits for requestedMessage()               *)
  mIdMap,       (* serial -> key of the message sent under it              *)
  calls,        (* queued removeMessage() and requestNextMessage() calls   *)
  replies,      (* queued hasMessage() and requestedMessage() signals      *)
  queue,        (* the Redis list                                          *)
  expired,      (* keys on the list whose message is gone from Redis       *)
  added,        (* history: the keys ever put on the list                  *)
  credited,     (* history: keys removed on the ack of a reused serial     *)
  missedWake,   (* history: there was room or a message and no signal said *)
                (* so since the last request                               *)
  storageFailed,(* history: a request of this session died of a Redis      *)
                (* error                                                   *)
  inherited,    (* history: this session began with a request of the       *)
                (* previous one on its way                                 *)
  sessions      (* history: reconnections so far                           *)

producerVars == <<mRunning, mIdMap>>
storageVars  == <<calls, replies, queue, expired>>
ghostVars    == <<added, credited, missedWake, storageFailed, inherited,
                  sessions>>
vars         == <<batapVars, producerVars, storageVars, ghostVars>>

NoIds == [id \in Serial |-> NoMessage]

ProducerInit ==
  /\ Init
  /\ mRunning = FALSE
  /\ mIdMap = NoIds
  /\ calls = <<>>
  /\ replies = <<>>
  /\ queue = <<>>
  /\ expired = {}
  /\ added = {}
  /\ credited = {}
  /\ missedWake = FALSE
  /\ storageFailed = FALSE
  /\ inherited = FALSE
  /\ sessions = 0

(* mIdMap.values() *)
Values(idMap) == {idMap[id] : id \in Serial} \ {NoMessage}

----------------------------------------------------------------------------
(* The producer's slots, as reactions to a step of Batap: they read the    *)
(* primed Batap and mIdMap.                                                *)

(* Faulty variant: the keys in flight are not left out. *)
FaultyRequest(earlier) ==
  /\ mRunning' = TRUE
  /\ calls' = Append(earlier, [op |-> "request", keys |-> {}])
  /\ missedWake' = FALSE

(* requestNextMessage(), after the calls queued earlier in the same step. *)
requestNextMessage(earlier) ==
  /\ mRunning' = TRUE
  /\ calls' = Append(earlier, [op |-> "request", keys |-> Values(mIdMap')])
  /\ missedWake' = FALSE

(* Faulty variant: a request that is on its way is repeated. *)
FaultyStartSlot(earlier) ==
  IF isReadyForTransmission'
    THEN requestNextMessage(earlier)
    ELSE calls' = earlier /\ UNCHANGED <<mRunning, missedWake>>

(* The slot start(), connected to readyForTransmission() and hasMessage(). *)
startSlot(earlier) ==
  IF ~ mRunning /\ isReadyForTransmission'
    THEN requestNextMessage(earlier)
    ELSE calls' = earlier /\ UNCHANGED <<mRunning, missedWake>>

NothingElse ==
  UNCHANGED <<added, credited, storageFailed, inherited, sessions>>

onStart ==
  /\ start
  /\ UNCHANGED <<mIdMap, replies, queue, expired>>
  /\ startSlot(calls)
  /\ NothingElse

onResume ==
  /\ onResumeTransmission
  /\ UNCHANGED <<mIdMap, replies, queue, expired>>
  /\ startSlot(calls)
  /\ NothingElse

(* Faulty variant: an ack does not wake the producer. *)
FaultyDelivered ==
  /\ processImaMessage
  /\ LET ids  == {s.serial : s \in signals'}
         keys == {mIdMap[id] : id \in ids} \ {NoMessage}
     IN /\ mIdMap' = [id \in Serial |-> IF id \in ids THEN NoMessage
                                                      ELSE mIdMap[id]]
        /\ calls' = IF keys = {} THEN calls
                    ELSE Append(calls, [op |-> "remove", keys |-> keys])
        /\ credited' = credited \cup
                         ({mIdMap[id] : id \in ids \cap reused} \ {NoMessage})
  /\ UNCHANGED <<mRunning, missedWake, replies, queue, expired, added,
                 storageFailed, inherited, sessions>>

(* messageDelivered() for each acknowledged serial, then                   *)
(* readyForTransmission().  A key goes with the removal of its serial.     *)
onMessageDelivered ==
  /\ processImaMessage
  /\ LET ids  == {s.serial : s \in signals'}
         keys == {mIdMap[id] : id \in ids} \ {NoMessage}
     IN /\ mIdMap' = [id \in Serial |-> IF id \in ids THEN NoMessage
                                                      ELSE mIdMap[id]]
        /\ startSlot(IF keys = {} THEN calls
                     ELSE Append(calls, [op |-> "remove", keys |-> keys]))
        /\ credited' = credited \cup
                         ({mIdMap[id] : id \in ids \cap reused} \ {NoMessage})
  /\ UNCHANGED <<replies, queue, expired, added, storageFailed, inherited,
                 sessions>>

(* Faulty variant: a message that was not delivered leaves the queue. *)
FaultyTimer(id) ==
  /\ timerEvent(id)
  /\ calls' = IF signals' = {} \/ mIdMap[id] = NoMessage THEN calls
              ELSE Append(calls, [op |-> "remove", keys |-> {mIdMap[id]}])
  /\ UNCHANGED <<producerVars, replies, queue, expired>>
  /\ missedWake' = (missedWake \/ (~ isReadyForTransmission /\ isReadyForTransmission'))
  /\ NothingElse

(* deliveryFailed() is connected to nothing: the entry is gone, its key    *)
(* stays in mIdMap, and no readyForTransmission() follows.                 *)
onTimer(id) ==
  /\ timerEvent(id)
  /\ UNCHANGED <<producerVars, storageVars>>
  /\ missedWake' = (missedWake \/ (~ isReadyForTransmission /\ isReadyForTransmission'))
  /\ NothingElse

HeadIs(signal) == replies # <<>> /\ Head(replies).signal = signal

onHasMessage ==
  /\ HeadIs("hasMessage")
  /\ replies' = Tail(replies)
  /\ UNCHANGED <<mIdMap, queue, expired, connected, senderVars, toPeer, toHere,
                 peerVars, reused>>
  /\ signals' = {}
  /\ startSlot(calls)
  /\ NothingElse

(* onRequestedMessage(): the key is null, or its message is handed to      *)
(* send(), which refuses it when Batap is not ready or the text is empty.  *)
onRequestedMessage ==
  /\ HeadIs("requestedMessage")
  /\ replies' = Tail(replies)
  /\ LET m == Head(replies).key
         accepted == /\ m # NoMessage
                     /\ isReadyForTransmission
                     /\ m \notin EmptyText
     IN /\ \/ /\ accepted
              /\ send(m)
              /\ mIdMap' = [mIdMap EXCEPT ![NextSerial] = m]
           \/ /\ ~ accepted
              /\ signals' = {}
              /\ UNCHANGED <<connected, senderVars, toPeer, toHere, peerVars,
                             reused, mIdMap>>
        /\ IF m # NoMessage /\ isReadyForTransmission'
             THEN requestNextMessage(calls)
             ELSE mRunning' = FALSE /\ UNCHANGED <<calls, missedWake>>
  /\ UNCHANGED <<queue, expired>>
  /\ NothingElse

----------------------------------------------------------------------------
(* The storage thread. *)

(* addMessage(): the transaction puts the key on the list and hasMessage() *)
(* tells the producer, unless the answer to EXEC is lost.                  *)
addMessage(m) ==
  /\ m \notin added
  /\ added' = added \cup {m}
  /\ queue' = Append(queue, m)
  /\ \/ /\ replies' = Append(replies, [signal |-> "hasMessage",
                                       key |-> NoMessage])
        /\ UNCHANGED missedWake
     \/ /\ StorageErrors
        /\ missedWake' = TRUE
        /\ UNCHANGED replies
  /\ signals' = {}
  /\ UNCHANGED <<connected, senderVars, toPeer, toHere, peerVars, reused,
                 producerVars, calls, expired, credited, storageFailed,
                 inherited, sessions>>

(* LREM of each of the keys gone: the others keep their order.            *)
Without(list, gone) ==
  LET kept[i \in 0 .. Len(list)] ==
        IF i = 0 THEN <<>>
        ELSE IF list[i] \in gone THEN kept[i - 1]
        ELSE Append(kept[i - 1], list[i])
  IN  kept[Len(list)]

(* The removals of one IMA; each is a transaction of its own and may fail. *)
removeMessage ==
  /\ calls # <<>> /\ Head(calls).op = "remove"
  /\ calls' = Tail(calls)
  /\ \E gone \in SUBSET Head(calls).keys :
       /\ StorageErrors \/ gone = Head(calls).keys
       /\ queue' = Without(queue, gone)
       /\ missedWake' = (missedWake \/ gone # Head(calls).keys)
  /\ signals' = {}
  /\ UNCHANGED <<connected, senderVars, toPeer, toHere, peerVars, reused,
                 producerVars, replies, expired, added, credited,
                 storageFailed, inherited, sessions>>

(* Faulty variant: only the head of the list is looked at. *)
FaultyFirstFree(keys) ==
  IF queue # <<>> /\ Head(queue) \notin keys \cup expired
    THEN 1 ELSE 0

(* requestNextMessage(): the first key of the list that is not in flight   *)
(* and still has a message; keys without one are dropped on the way.       *)
FirstFree(keys) ==
  LET free == {i \in DOMAIN queue : queue[i] \notin keys \cup expired}
  IN IF free = {} THEN Len(queue) + 1
     ELSE CHOOSE i \in free : \A j \in free : i <= j

answerRequest ==
  /\ calls # <<>> /\ Head(calls).op = "request"
  /\ calls' = Tail(calls)
  /\ LET keys  == Head(calls).keys
         first == FirstFree(keys)
         stale == {queue[i] : i \in 1 .. first - 1} \ keys
     IN /\ replies' = Append(replies,
                       [signal |-> "requestedMessage",
                        key |-> IF first \in DOMAIN queue THEN queue[first]
                                                          ELSE NoMessage])
        /\ queue' = Without(queue, stale)
  /\ signals' = {}
  /\ UNCHANGED <<connected, senderVars, toPeer, toHere, peerVars, reused,
                 producerVars, expired, ghostVars>>

(* After a Redis error nobody is told. *)
failRequest ==
  /\ StorageErrors
  /\ calls # <<>> /\ Head(calls).op = "request"
  /\ calls' = Tail(calls)
  /\ storageFailed' = TRUE
  /\ signals' = {}
  /\ UNCHANGED <<connected, senderVars, toPeer, toHere, peerVars, reused,
                 producerVars, replies, queue, expired, added, credited,
                 missedWake, inherited, sessions>>

(* Redis forgets the message of a key. *)
expire(m) ==
  /\ StorageErrors
  /\ m \in added \ expired
  /\ expired' = expired \cup {m}
  /\ signals' = {}
  /\ UNCHANGED <<connected, senderVars, toPeer, toHere, peerVars, reused,
                 producerVars, calls, replies, queue, ghostVars>>

----------------------------------------------------------------------------
(* The steps of Batap that no slot of the producer listens to. *)
BatapOnly ==
  /\ \/ stop
     \/ onStopTransmission
     \/ processMessage
     \/ sendImaMessage
     \/ \E kind \in {"stop", "resume"} : peerHoldsOrResumes(kind)
     \/ onSocketDisconnected
  /\ UNCHANGED <<producerVars, storageVars, ghostVars>>

(* A new SitaConnection: new Batap, producer and RedisBatapMessageStorage. *)
(* The calls that had reached RedisBatapStorage are still executed, and a  *)
(* request among them is answered to the new producer, whose queue has the *)
(* same name; the later calls and the replies die with the old objects.    *)
reconnect ==
  /\ sessions < MaxSessions
  /\ newSession
  /\ mRunning' = FALSE
  /\ mIdMap' = NoIds
  /\ \E n \in 0 .. Len(calls) : calls' = SubSeq(calls, 1, n)
  /\ replies' = <<>>
  /\ missedWake' = FALSE
  /\ storageFailed' = FALSE
  /\ inherited' = \E i \in DOMAIN calls' : calls'[i].op = "request"
  /\ sessions' = sessions + 1
  /\ UNCHANGED <<queue, expired, added, credited>>

ProducerNext ==
  \/ onStart
  \/ onResume
  \/ onMessageDelivered
  \/ \E id \in Serial : onTimer(id)
  \/ onHasMessage
  \/ onRequestedMessage
  \/ \E m \in Message : addMessage(m)
  \/ removeMessage
  \/ answerRequest
  \/ failRequest
  \/ \E m \in Message : expire(m)
  \/ BatapOnly
  \/ reconnect

ProducerSpec == ProducerInit /\ [][ProducerNext]_vars

----------------------------------------------------------------------------
(* Safety. *)

RequestCalls == {i \in DOMAIN calls : calls[i].op = "request"}
RequestReplies == {i \in DOMAIN replies :
                     replies[i].signal = "requestedMessage"}
Outstanding == Cardinality(RequestCalls) + Cardinality(RequestReplies)

(* mRunning tells the truth about the request that start() must not        *)
(* repeat: while it is set an answer is on its way, unless a Redis error   *)
(* swallowed it, and there is never a second request, unless the previous  *)
(* session left one behind.                                                *)
OneRequest ==
  /\ mRunning => Outstanding > 0 \/ storageFailed
  /\ ~ inherited => Outstanding <= 1 /\ (Outstanding = 1 => mRunning)

(* mIdMap says of every serial which message it stands for: what is        *)
(* pending in Batap is there under the same serial, so that its ack removes *)
(* the right key, and under one serial only: the storage never hands out a *)
(* message in flight, although the keys to leave out are read when the     *)
(* request is queued and used when it is executed (unless a call of the    *)
(* previous session was inherited).                                        *)
IdMapIsExact ==
  /\ \A id \in Pending : mIdMap[id] = mPendingMessages[id].message
  /\ inherited \/ \A i, j \in Serial :
                     mIdMap[i] = mIdMap[j] => i = j \/ mIdMap[i] = NoMessage

(* No wakeup is lost: when Batap could send, the producer is idle and no   *)
(* signal is on its way, every message of the queue is in flight, given up  *)
(* in this session or without a text; except after the events that signal  *)
(* nothing (a delivery failure that opens the window, and a Redis error).  *)
IdleMeansDrained ==
  /\ isReadyForTransmission
  /\ ~ mRunning
  /\ calls = <<>>
  /\ replies = <<>>
  => \/ missedWake
     \/ storageFailed
     \/ ToSet(queue) \subseteq Values(mIdMap) \cup expired

----------------------------------------------------------------------------
(* Refinement: the Redis list is the abstract store, and the messages that *)
(* Redis forgot or that the ack of a reused serial removed are written off.*)
Abstract == INSTANCE StoreAndForward
              WITH stored     <- ToSet(queue),
                   got        <- peerReceived,
                   writtenOff <- expired \cup credited

(* The sender keeps the promise of StoreAndForward: what leaves the queue  *)
(* was received first, nothing comes back to it, and the peer is given     *)
(* only messages that were put in the queue.                               *)
KeepsMessages == Abstract!AbstractSpec

----------------------------------------------------------------------------
(* Liveness. *)

(* Fairness: the event loops of both ends and of the storage thread keep   *)
(* running, timers fire, and the peer's acknowledgements go out.  Nothing  *)
(* is assumed of the applications, the connection or Redis.  The timers    *)
(* are strongly fair because the bounds MaxData and MaxControl can disable *)
(* them for a moment.                                                      *)
Fairness ==
  /\ WF_vars(onMessageDelivered)
  /\ WF_vars(onResume)
  /\ WF_vars(onHasMessage)
  /\ WF_vars(onRequestedMessage)
  /\ WF_vars(removeMessage)
  /\ WF_vars(answerRequest \/ failRequest)
  /\ WF_vars(BatapOnly /\ onStopTransmission)
  /\ WF_vars(BatapOnly /\ processMessage)
  /\ SF_vars(BatapOnly /\ sendImaMessage)
  /\ \A id \in Serial : SF_vars(onTimer(id))

FairProducerSpec == ProducerSpec /\ Fairness

SessionUp == connected /\ ~ mIsStopped /\ ~ mIsTransmissionStopped

(* While the session stays up, every ordinary message of the queue goes to *)
(* the peer and leaves the queue, also behind messages the peer cannot     *)
(* take (they look like an IMA and are given up after their retries).      *)
(* This needs that acks beat the noImaTime timer, that no request dies of  *)
(* a Redis error, and a signal after the last event that signals nothing.  *)
Drains ==
  <>[](SessionUp /\ ~ missedWake /\ ~ storageFailed) =>
    \A m \in Message \ (ImaLike \cup EmptyText) :
      m \in ToSet(queue) ~> m \notin ToSet(queue)
=============================================================================
