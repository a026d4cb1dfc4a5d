------------------------------- MODULE Matip -------------------------------
(***************************************************************************)
(* A MATIP session (src/common/sita/matip): the Matip objects at the two   *)
(* ends of a TCP connection, the client that opens the session and the     *)
(* server that accepts or refuses it.                                      *)
(*                                                                         *)
(* The connection is a stream of bytes that arrives in segments of any     *)
(* size.  A byte of a header knows its position, and a byte of a text the  *)
(* message it belongs to, so that a handler that gets out of step with the *)
(* stream is seen to misread it.  onReadyRead() calls itself as long as    *)
(* bytes are left; each of these calls is a step, and the event loop of    *)
(* that end runs nothing in between (reading), while slots of the signals  *)
(* it emits may call the object.                                           *)
(***************************************************************************)
EXTENDS Integers, Sequences, FiniteSets

CONSTANTS
  headerSize,                   (* 4 in the code                           *)
  OpenSize,                     (* payload of Session Open, 6 in the code  *)
  Width,                        (* 2^16: values of the length field        *)
  maxSessionStatusQueryNumber,  (* MatipConfig                             *)
  Lengths,                      (* lengths of the messages written         *)
  PromptPeer,                   (* TRUE: answers beat the query timeout    *)
  Holds,                        (* bound: hold and resume commands sent    *)
  Writers,                      (* bound: ends that write messages         *)
  Timers,                       (* bound: ends whose query timer fires     *)
  MayDisconnect,                (* bound: the connection may end           *)
  MaxMessages,                  (* bound: messages written by each end     *)
  MaxBytes                      (* bound: bytes on the wire to one end     *)

ASSUME MatipAssumption ==
  /\ headerSize \in Nat \ {0}
  /\ OpenSize \in Nat \ {0}
  /\ Width \in Nat
  /\ headerSize + OpenSize < Width
  /\ maxSessionStatusQueryNumber \in Nat
  /\ Lengths \subseteq Nat
  /\ PromptPeer \in BOOLEAN
  /\ Holds \subseteq {"StopTransmission", "ResumeTransmission"}
  /\ Writers \subseteq {"client", "server"}
  /\ Timers \subseteq {"client", "server"}
  /\ MayDisconnect \in BOOLEAN
  /\ MaxMessages \in Nat
  /\ MaxBytes \in Nat

VARIABLES
  connected,     (* the TCP connection is up                               *)
  mState,        (* end -> state of its Matip                              *)
  mBytesToRead,  (* end -> bytes of the text still to come                 *)
  mTempMessage,  (* end -> bytes of the text so far                        *)
  mQueryCounter, (* end -> queries sent since the last answer              *)
  inTransit,     (* end -> bytes on the wire to it                         *)
  available,     (* end -> bytes in its socket                             *)
  reading,       (* end -> onReadyRead() is running                        *)
  opened,        (* the client's application has opened the session        *)
  requested,     (* the server's application owes an answer to a request   *)
  written,       (* end -> history: texts given to writeMessage()          *)
  emitted,       (* end -> history: texts emitted by newMessage()          *)
  unanswered,    (* end -> history: queries sent and not answered          *)
  signals        (* the signals emitted by the last step, with their end   *)

sessionVars == <<mState, mBytesToRead, mTempMessage, mQueryCounter>>
userVars    == <<opened, requested, written>>
matipVars   == <<connected, sessionVars, inTransit, available, reading,
                 userVars, emitted, unanswered, signals>>

End == {"client", "server"}
Peer(e) == IF e = "client" THEN "server" ELSE "client"

(* Faulty variant: a session that is being opened counts. *)
FaultyInSession(e) == mState[e] # "Unconnected"

InSession(e) == mState[e] \in {"Idle", "DataTransfer"}

(* The commands, and the payload each carries after its header.  The code  *)
(* tells an accepting Open Confirm from a refusing one by its payload.     *)
PayloadSize ==
  [SessionOpen |-> OpenSize, OpenConfirm |-> 1, OpenRefuse |-> 1,
   SessionClose |-> 1, StatusQuery |-> 0, StatusResponse |-> 0,
   StopTransmission |-> 0, ResumeTransmission |-> 0]

(* MatipHeader::make(), whose size is a quint16. *)
make(command, size) ==
  [at \in 1 .. headerSize |->
     [command |-> command, size |-> size % Width, at |-> at]]

(* Faulty variant: the length is taken for the size of the text. *)
FaultyDataSize(header) == header.size

(* MatipHeader::dataSize(), a quint16 too. *)
dataSize(header) == (header.size - headerSize) % Width

Text(id, length) == [at \in 1 .. length |-> [text |-> id, at |-> at]]

ControlPacket(command) ==
  make(command, headerSize + PayloadSize[command])
    \o [at \in 1 .. PayloadSize[command] |-> [payload |-> command, at |-> at]]

DataPacket(text) == make("None", headerSize + Len(text)) \o text

Init ==
  /\ connected = TRUE
  /\ mState = [e \in End |-> IF e = "client" THEN "Unconnected"
                                             ELSE "Listening"]
  /\ mBytesToRead = [e \in End |-> 0]
  /\ mTempMessage = [e \in End |-> <<>>]
  /\ mQueryCounter = [e \in End |-> 0]
  /\ inTransit = [e \in End |-> <<>>]
  /\ available = [e \in End |-> <<>>]
  /\ reading = [e \in End |-> FALSE]
  /\ opened = FALSE
  /\ requested = FALSE
  /\ written = [e \in End |-> <<>>]
  /\ emitted = [e \in End |-> <<>>]
  /\ unanswered = [e \in End |-> 0]
  /\ signals = {}

(* write(): the bytes of e go to its peer; a closed socket takes none. *)
write(e, bytes) ==
  /\ Len(inTransit[Peer(e)]) + Len(bytes) <= MaxBytes
  /\ inTransit' = IF connected
                    THEN [inTransit EXCEPT ![Peer(e)] = @ \o bytes]
                    ELSE inTransit

Become(e, state) == mState' = [mState EXCEPT ![e] = state]

----------------------------------------------------------------------------
(* What the applications call, between two events or from a slot. *)

openSession ==
  /\ ~ opened
  /\ opened' = TRUE
  /\ Become("client", "Connecting")
  /\ write("client", ControlPacket("SessionOpen"))
  /\ signals' = {}
  /\ UNCHANGED <<connected, mBytesToRead, mTempMessage, mQueryCounter,
                 available, reading, requested, written, emitted, unanswered>>

acceptConnection ==
  /\ requested
  /\ requested' = FALSE
  /\ write("server", ControlPacket("OpenConfirm"))
  /\ Become("server", "Idle")
  /\ signals' = {}
  /\ UNCHANGED <<connected, mBytesToRead, mTempMessage, mQueryCounter,
                 available, reading, opened, written, emitted, unanswered>>

(* The state stays Listening. *)
refuseConnection ==
  /\ requested
  /\ requested' = FALSE
  /\ write("server", ControlPacket("OpenRefuse"))
  /\ signals' = {}
  /\ UNCHANGED <<connected, sessionVars, available, reading, opened, written,
                 emitted, unanswered>>

(* Faulty variant: the peer is not told. *)
FaultyCloseSession(e) ==
  /\ InSession(e)
  /\ Become(e, "Unconnected")
  /\ signals' = {}
  /\ UNCHANGED <<connected, mBytesToRead, mTempMessage, mQueryCounter,
                 inTransit, available, reading, userVars, emitted, unanswered>>

closeSession(e) ==
  /\ InSession(e)
  /\ Become(e, "Unconnected")
  /\ write(e, ControlPacket("SessionClose"))
  /\ signals' = {}
  /\ UNCHANGED <<connected, mBytesToRead, mTempMessage, mQueryCounter,
                 available, reading, userVars, emitted, unanswered>>

(* sendStopTransmission() and sendResumeTransmission(). *)
sendTransmission(e, command) ==
  /\ InSession(e)
  /\ write(e, ControlPacket(command))
  /\ signals' = {}
  /\ UNCHANGED <<connected, sessionVars, available, reading, userVars,
                 emitted, unanswered>>

writeMessage(e, length) ==
  /\ e \in Writers
  /\ InSession(e)
  /\ Len(written[e]) < MaxMessages
  /\ LET text == Text(Len(written[e]) + 1, length)
     IN /\ written' = [written EXCEPT ![e] = Append(@, text)]
        /\ write(e, DataPacket(text))
  /\ signals' = {}
  /\ UNCHANGED <<connected, sessionVars, available, reading, opened,
                 requested, emitted, unanswered>>

----------------------------------------------------------------------------
(* The socket. *)

(* A segment arrives, and readyRead() starts onReadyRead(). *)
arrive(e) ==
  /\ ~ reading[e]
  /\ \E n \in 1 .. Len(inTransit[e]) :
       /\ available' = [available EXCEPT
                          ![e] = @ \o SubSeq(inTransit[e], 1, n)]
       /\ inTransit' = [inTransit EXCEPT ![e] = SubSeq(@, n + 1, Len(@))]
  /\ reading' = [reading EXCEPT ![e] = TRUE]
  /\ signals' = {}
  /\ UNCHANGED <<connected, sessionVars, userVars, emitted, unanswered>>

(* The connection ends, and what was on the wire is lost. *)
disconnected ==
  /\ MayDisconnect
  /\ connected
  /\ connected' = FALSE
  /\ inTransit' = [e \in End |-> <<>>]
  /\ signals' = {}
  /\ UNCHANGED <<sessionVars, available, reading, userVars, emitted,
                 unanswered>>

----------------------------------------------------------------------------
(* onReadyRead() *)

(* Faulty variant: the handler does not go on. *)
FaultyConsume(e, n) ==
  LET rest == SubSeq(available[e], n + 1, Len(available[e]))
  IN /\ available' = [available EXCEPT ![e] = rest]
     /\ reading' = [reading EXCEPT ![e] = FALSE]

(* After n bytes were read the handler goes on if there are more. *)
Consume(e, n) ==
  LET rest == SubSeq(available[e], n + 1, Len(available[e]))
  IN /\ available' = [available EXCEPT ![e] = rest]
     /\ reading' = [reading EXCEPT ![e] = rest # <<>>]

discard(e) ==
  /\ mState[e] = "Unconnected"
  /\ Consume(e, Len(available[e]))
  /\ signals' = {}
  /\ UNCHANGED <<connected, inTransit, sessionVars, userVars, emitted,
                 unanswered>>

ExpectsHeader(e) == mState[e] \in {"Listening", "Connecting", "Idle"}
HasHeader(e) == ExpectsHeader(e) /\ Len(available[e]) >= headerSize
HeaderIn(e) == available[e][1]
IsValid(header) == "command" \in DOMAIN header /\ header.at = 1
HasPacket(e, isControl) ==
  /\ HasHeader(e)
  /\ IsValid(HeaderIn(e))
  /\ (HeaderIn(e).command # "None") = isControl

(* Too few bytes for a header, or for the payload of a command. *)
await(e) ==
  /\ \/ ExpectsHeader(e) /\ ~ HasHeader(e)
     \/ /\ HasPacket(e, TRUE)
        /\ Len(available[e]) < headerSize + dataSize(HeaderIn(e))
  /\ reading' = [reading EXCEPT ![e] = FALSE]
  /\ signals' = {}
  /\ UNCHANGED <<connected, inTransit, available, sessionVars, userVars,
                 emitted, unanswered>>

(* The bytes are no header: as many are skipped, and the handler returns   *)
(* even if there are more.                                                 *)
skipInvalidHeader(e) ==
  /\ HasHeader(e)
  /\ ~ IsValid(HeaderIn(e))
  /\ available' = [available EXCEPT
                     ![e] = SubSeq(@, headerSize + 1, Len(@))]
  /\ reading' = [reading EXCEPT ![e] = FALSE]
  /\ signals' = {<<e, "InvalidHeaderError">>}
  /\ UNCHANGED <<connected, inTransit, sessionVars, userVars, emitted,
                 unanswered>>

(* processListeningState(), processConnectingState(), processIdleState():  *)
(* what a command does to the state, the signal it emits, the answer.      *)
Moves(e, state, signal) ==
  /\ Become(e, state)
  /\ signals' = {<<e, signal>>}
  /\ UNCHANGED <<inTransit, mQueryCounter, unanswered>>
  /\ requested' = (requested \/ signal = "sessionRequested")

processListeningState(e, command) ==
  /\ mState[e] = "Listening"
  /\ IF command = "SessionOpen"
       THEN Moves(e, "Listening", "sessionRequested")
       ELSE /\ signals' = {}
            /\ UNCHANGED <<mState, requested, inTransit, mQueryCounter,
                           unanswered>>

processConnectingState(e, command) ==
  /\ mState[e] = "Connecting"
  /\ CASE command = "OpenConfirm" -> Moves(e, "Idle", "sessionAccepted")
       [] command = "OpenRefuse"  -> Moves(e, "Unconnected", "sessionRefused")
       [] OTHER -> Moves(e, "Connecting", "UnexpectedCommandError")

answerQuery(e) ==
  /\ write(e, ControlPacket("StatusResponse"))
  /\ signals' = {}
  /\ UNCHANGED <<mState, requested, mQueryCounter, unanswered>>

(* Faulty variant: an answer does not reset the counter. *)
FaultyTakeResponse(e) ==
  /\ mQueryCounter' = mQueryCounter
  /\ unanswered' = [unanswered EXCEPT ![e] = @ - 1]
  /\ signals' = {}
  /\ UNCHANGED <<inTransit, mState, requested>>

takeResponse(e) ==
  /\ mQueryCounter' = [mQueryCounter EXCEPT ![e] = 0]
  /\ unanswered' = [unanswered EXCEPT ![e] = @ - 1]
  /\ signals' = {}
  /\ UNCHANGED <<inTransit, mState, requested>>

processIdleState(e, command) ==
  /\ mState[e] = "Idle"
  /\ CASE command = "SessionClose"   -> Moves(e, "Unconnected", "sessionClosed")
       [] command = "StatusQuery"    -> answerQuery(e)
       [] command = "StatusResponse" -> takeResponse(e)
       [] command = "StopTransmission" -> Moves(e, "Idle", "stopTransmission")
       [] command = "ResumeTransmission" ->
            Moves(e, "Idle", "resumeTransmission")
       [] OTHER -> Moves(e, "Idle", "UnexpectedCommandError")

processCommand(e) ==
  /\ HasPacket(e, TRUE)
  /\ Len(available[e]) >= headerSize + dataSize(HeaderIn(e))
  /\ Consume(e, headerSize + dataSize(HeaderIn(e)))
  /\ \/ processListeningState(e, HeaderIn(e).command)
     \/ processConnectingState(e, HeaderIn(e).command)
     \/ processIdleState(e, HeaderIn(e).command)
  /\ UNCHANGED <<connected, mBytesToRead, mTempMessage, opened, written,
                 emitted>>

(* Faulty variant: the message is complete when a segment is. *)
FaultyAppendData(e, skip, size, text) ==
  LET there == Len(available[e]) - skip
      n     == IF size < there THEN size ELSE there
      whole == text \o SubSeq(available[e], skip + 1, skip + n)
  IN /\ Consume(e, skip + n)
     /\ mBytesToRead' = [mBytesToRead EXCEPT ![e] = size - n]
     /\ mTempMessage' = [mTempMessage EXCEPT ![e] = whole]
     /\ Become(e, "Idle")
     /\ emitted' = [emitted EXCEPT ![e] = Append(@, whole)]
     /\ signals' = {<<e, "newMessage">>}

(* appendData(): what is there of the text, after skip bytes, is added to  *)
(* it; the message is emitted when it is complete.                         *)
appendData(e, skip, size, text) ==
  LET there == Len(available[e]) - skip
      n     == IF size < there THEN size ELSE there
      whole == text \o SubSeq(available[e], skip + 1, skip + n)
  IN /\ Consume(e, skip + n)
     /\ mBytesToRead' = [mBytesToRead EXCEPT ![e] = size - n]
     /\ mTempMessage' = [mTempMessage EXCEPT ![e] = whole]
     /\ IF n = size
          THEN /\ Become(e, "Idle")
               /\ emitted' = [emitted EXCEPT ![e] = Append(@, whole)]
               /\ signals' = {<<e, "newMessage">>}
          ELSE /\ Become(e, "DataTransfer")
               /\ signals' = {}
               /\ UNCHANGED emitted

(* A data packet outside a session is not skipped: only its header is. *)
ignoreData(e) ==
  /\ mState[e] # "Idle"
  /\ Consume(e, headerSize)
  /\ signals' = IF mState[e] = "Connecting"
                  THEN {<<e, "UnexpectedCommandError">>} ELSE {}
  /\ UNCHANGED <<mState, mBytesToRead, mTempMessage, emitted>>

processData(e) ==
  /\ \/ /\ HasPacket(e, FALSE)
        /\ \/ ignoreData(e)
           \/ /\ mState[e] = "Idle"
              /\ appendData(e, headerSize, dataSize(HeaderIn(e)), <<>>)
     \/ /\ mState[e] = "DataTransfer"
        /\ appendData(e, 0, mBytesToRead[e], mTempMessage[e])
  /\ UNCHANGED <<connected, inTransit, mQueryCounter, userVars, unanswered>>

onReadyRead(e) ==
  /\ reading[e]
  /\ \/ discard(e)
     \/ await(e)
     \/ skipInvalidHeader(e)
     \/ processCommand(e)
     \/ processData(e)

----------------------------------------------------------------------------
(* The query timer. *)

Quiet == \A e \in End : inTransit[e] = <<>> /\ ~ reading[e]

(* Faulty variant: a query fewer than configured. *)
EarlyTimedOut(e) == mQueryCounter[e] + 1 >= maxSessionStatusQueryNumber

TimedOut(e) == mQueryCounter[e] = maxSessionStatusQueryNumber

onTimeout(e) ==
  /\ e \in Timers
  /\ InSession(e)
  /\ ~ reading[e]
  /\ PromptPeer /\ connected => Quiet
  /\ IF TimedOut(e)
       THEN /\ Become(e, "Unconnected")
            /\ write(e, ControlPacket("SessionClose"))
            /\ signals' = {<<e, "sessionTimeout">>}
            /\ UNCHANGED <<mQueryCounter, unanswered>>
       ELSE /\ write(e, ControlPacket("StatusQuery"))
            /\ mQueryCounter' = [mQueryCounter EXCEPT ![e] = @ + 1]
            /\ unanswered' = [unanswered EXCEPT ![e] = @ + 1]
            /\ signals' = {}
            /\ UNCHANGED mState
  /\ UNCHANGED <<connected, mBytesToRead, mTempMessage, available, reading,
                 userVars, emitted>>

----------------------------------------------------------------------------
ApplicationStep(e) ==
  \/ e = "client" /\ openSession
  \/ e = "server" /\ (acceptConnection \/ refuseConnection)
  \/ closeSession(e)
  \/ \E command \in Holds : sendTransmission(e, command)
  \/ \E length \in Lengths : writeMessage(e, length)

Next ==
  \/ \E e \in End : ApplicationStep(e) \/ arrive(e) \/ onReadyRead(e)
                      \/ onTimeout(e)
  \/ disconnected

Spec == Init /\ [][Next]_matipVars

(* Fairness: the network delivers what it does not lose with the           *)
(* connection, and the event loops run.  The bound MaxBytes may disable    *)
(* the answer to a query for a moment, hence SF.                           *)
FairSpec == Spec /\ \A e \in End : WF_matipVars(arrive(e))
                                     /\ SF_matipVars(onReadyRead(e))

----------------------------------------------------------------------------
(* Safety. *)

(* Both directions are message channels: whatever the segments, the        *)
(* commands in between and the moment of a close, each message is emitted  *)
(* whole, once and in order.                                               *)
ToServer == INSTANCE MessageChannel
              WITH written <- written["client"], emitted <- emitted["server"]
ToClient == INSTANCE MessageChannel
              WITH written <- written["server"], emitted <- emitted["client"]
IsMessageChannel == ToServer!ChannelSpec /\ ToClient!ChannelSpec

(* Two ends that follow the protocol never report an error: no command     *)
(* reaches a state that does not expect it, and no text is taken for a     *)
(* header, also when sessions are closed from both sides at once.          *)
NoProtocolError ==
  \A s \in signals :
    s[2] \notin {"InvalidHeaderError", "UnexpectedCommandError"}

OnTheWay(e, command) ==
  LET bytes == available[e] \o inTransit[e]
  IN \E i \in DOMAIN bytes :
       /\ IsValid(bytes[i])
       /\ bytes[i].command = command

(* The ends agree on the session as long as the connection is up: when one *)
(* end is in session, so is the other, or the packet that will bring it    *)
(* there, or that ends the session, is on its way.                         *)
EndsAgree ==
  connected =>
    /\ InSession("client") =>
         InSession("server") \/ OnTheWay("client", "SessionClose")
    /\ InSession("server") =>
         \/ InSession("client")
         \/ OnTheWay("client", "OpenConfirm")
         \/ OnTheWay("server", "SessionClose")

(* sessionTimeout() is emitted only after the configured number of queries *)
(* without an answer (Matip.h, sessionTimeout).                            *)
TimeoutMeansSilence ==
  \A s \in signals :
    s[2] = "sessionTimeout" =>
      unanswered[s[1]] >= maxSessionStatusQueryNumber

(* A peer that answers in time is never timed out. *)
LivePeerKeepsSession ==
  PromptPeer /\ connected /\ maxSessionStatusQueryNumber > 0 =>
    \A s \in signals : s[2] # "sessionTimeout"

----------------------------------------------------------------------------
(* Liveness. *)

(* A message written in a session is emitted by the other end, unless the  *)
(* session or the connection ends.                                         *)
MessagesArrive ==
  \A e \in End, n \in 1 .. MaxMessages :
    Len(written[e]) >= n ~>
      \/ Len(emitted[Peer(e)]) >= n
      \/ ~ connected
      \/ ~ InSession(Peer(e))

(* When one end leaves the session the other does, while the connection is *)
(* up: a close is not lost behind a message or a query.                    *)
CloseIsNoticed ==
  \A e \in End :
    opened /\ mState[e] = "Unconnected" ~> ~ connected \/ ~ InSession(Peer(e))
=============================================================================
