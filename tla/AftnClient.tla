----------------------------- MODULE AftnClient -----------------------------
(***************************************************************************)
(* The client of an AFTN server: its connection, the authorization, the    *)
(* telegrams it receives and its two timers.  The server is any that       *)
(* speaks in the order of the protocol, and it may fall silent at any      *)
(* time.  What it says arrives in segments cut anywhere: "success",        *)
(* "failed", "info", "text", "zero" (a ping), and "N" and "NNN" (the mark  *)
(* NNNN at the end of a telegram) are bytes as far as the client counts.   *)
(***************************************************************************)
EXTENDS Integers, FiniteSets, SequencesExt

CONSTANTS
  InfoSize,         (* sizeof(AftnAuthorizationInfo)                       *)
  MaxConnections,   (* bound: calls of connectToHost()                     *)
  MaxSaid           (* bound: telegrams and pings of one connection        *)

ASSUME AftnAssumption ==
  /\ InfoSize \in Nat \ {0}
  /\ MaxConnections \in Nat
  /\ MaxSaid \in Nat

VARIABLES
  socket,           (* state() of the QTcpSocket                           *)
  pendingClose,     (* disconnectFromHost() was called while connecting    *)
  aftnState,
  buffer,
  pingTimer,        (* the two timers run                                  *)
  pingTimeoutTimer,
  wire,             (* bytes of the server on their way                    *)
  step,             (* what the server says next                           *)
  connections,      (* bound counter                                       *)
  said,             (* bound counter                                       *)
  sent,             (* history: the server's telegrams and pings on this   *)
                    (* connection                                          *)
  got,              (* history: the bytes messages() has passed on         *)
  confirmed,        (* history: confirmations written for them             *)
  heard,            (* history: bytes were read on this connection         *)
  broken            (* history: a connection ended within a slot that went *)
                    (* on as if it had not                                 *)

serverVars  == <<step, said, sent>>
historyVars == <<got, confirmed, heard>>
vars == <<socket, pendingClose, aftnState, buffer, pingTimer,
          pingTimeoutTimer, wire, serverVars, historyVars, connections,
          broken>>

Init ==
  /\ socket = "Unconnected"
  /\ pendingClose = FALSE
  /\ aftnState = "Unconnected"
  /\ buffer = <<>>
  /\ pingTimer = FALSE
  /\ pingTimeoutTimer = FALSE
  /\ wire = <<>>
  /\ step = "reply"
  /\ connections = 0
  /\ said = 0
  /\ sent = <<>>
  /\ got = <<>>
  /\ confirmed = 0
  /\ heard = FALSE
  /\ broken = FALSE

EndMarks(bytes) ==
  Cardinality({i \in 1 .. Len(bytes) - 1 : bytes[i] = "N" /\ bytes[i + 1] = "NNN"})

----------------------------------------------------------------------------
(* The end of a connection. *)

(* Faulty variant: only the ping timer is stopped. *)
FaultyCloseChannel ==
  /\ buffer' = <<>>
  /\ pingTimer' = FALSE
  /\ UNCHANGED pingTimeoutTimer

closeChannel ==
  /\ buffer' = <<>>
  /\ pingTimer' = FALSE
  /\ pingTimeoutTimer' = FALSE

(* The socket is closed: its state changes to UnconnectedState. *)
Unconnect ==
  /\ socket' = "Unconnected"
  /\ aftnState' = "Unconnected"
  /\ pendingClose' = FALSE
  /\ wire' = <<>>

(* The socket closes when its last bytes are written. *)
Close ==
  /\ socket' = "Closing"
  /\ aftnState' = "Closing"
  /\ pendingClose' = FALSE
  /\ wire' = <<>>

disconnectFromHost ==
  \/ Unconnect /\ closeChannel
  \/ Close /\ UNCHANGED <<buffer, pingTimer, pingTimeoutTimer>>

(* The server or the network ends the connection, or the last bytes are    *)
(* written.                                                                *)
disconnected ==
  /\ socket # "Unconnected"
  /\ Unconnect
  /\ closeChannel
  /\ broken' = FALSE
  /\ UNCHANGED <<serverVars, historyVars, connections>>

----------------------------------------------------------------------------
(* The begin of a connection. *)

connectToHost ==
  /\ socket = "Unconnected"
  /\ connections < MaxConnections
  /\ connections' = connections + 1
  /\ socket' = "Connecting"
  /\ aftnState' = "Connecting"
  /\ step' = "reply"
  /\ said' = 0
  /\ sent' = <<>>
  /\ got' = <<>>
  /\ confirmed' = 0
  /\ heard' = FALSE
  /\ broken' = (broken /\ pingTimeoutTimer)
  /\ UNCHANGED <<pendingClose, buffer, pingTimer, pingTimeoutTimer, wire>>

(* The request is written and flushed.  A flush that fails ends the        *)
(* connection before the state is set.                                     *)
sendAuthorizationRequest ==
  /\ aftnState' = "Authorizating"
  /\ UNCHANGED <<pendingClose, wire>>
  /\ \/ /\ socket' = "Connected"
        /\ buffer' = <<>>
        /\ pingTimer' = TRUE
        /\ UNCHANGED <<pingTimeoutTimer, broken>>
     \/ /\ socket' = "Unconnected"
        /\ closeChannel
        /\ broken' = TRUE

(* The connection is established; a call of disconnectFromHost() that came *)
(* earlier is carried out after the slot for the new state.                *)
connected ==
  /\ socket = "Connecting"
  /\ \/ ~ pendingClose /\ sendAuthorizationRequest
     \/ /\ pendingClose
        /\ \/ Unconnect /\ closeChannel
           \/ /\ Close
              /\ buffer' = <<>>
              /\ pingTimer' = TRUE
              /\ UNCHANGED pingTimeoutTimer
        /\ broken' = (broken /\ pingTimeoutTimer')
  /\ UNCHANGED <<serverVars, historyVars, connections>>

----------------------------------------------------------------------------
(* What the server says. *)

replies ==
  /\ step = "reply"
  /\ \/ wire' = Append(wire, "success") /\ step' = "info"
     \/ wire' = Append(wire, "failed") /\ step' = "nothing"
  /\ UNCHANGED <<said, sent>>

informs ==
  /\ step = "info"
  /\ wire' = wire \o [i \in 1 .. InfoSize |-> "info"]
  /\ step' = "telegrams"
  /\ UNCHANGED <<said, sent>>

talks ==
  /\ step = "telegrams"
  /\ said < MaxSaid
  /\ said' = said + 1
  /\ \E bytes \in {<<"text", "N", "NNN">>, <<"zero">>} :
       /\ wire' = wire \o bytes
       /\ sent' = sent \o bytes
  /\ UNCHANGED step

serverSpeaks ==
  /\ socket = "Connected"
  /\ replies \/ informs \/ talks
  /\ UNCHANGED <<socket, pendingClose, aftnState, buffer, pingTimer,
                 pingTimeoutTimer, historyVars, connections, broken>>

----------------------------------------------------------------------------
(* What the client does with it. *)

(* The reply refuses the client: readSocket() goes on after the connection *)
(* has ended.                                                              *)
refused(data) ==
  /\ aftnState = "Authorizating" /\ Head(data) = "failed"
  /\ \/ Unconnect /\ buffer' = <<>> /\ pingTimer' = FALSE /\ broken' = TRUE
     \/ Close /\ buffer' = data /\ broken' = FALSE /\ UNCHANGED pingTimer
  /\ UNCHANGED <<got, confirmed>>

(* What is left of the reply and of the information. *)
HeaderSize == CASE aftnState = "Authorizating"            -> 1 + InfoSize
                [] aftnState = "WaitForAuthorizationInfo" -> InfoSize
                [] aftnState = "Receiving"                -> 0

(* The reply or the information is not complete. *)
awaitInfo(data) ==
  /\ Len(data) < HeaderSize
  /\ aftnState' = "WaitForAuthorizationInfo"
  /\ buffer' = IF aftnState = "Authorizating" THEN Tail(data) ELSE data
  /\ broken' = FALSE
  /\ UNCHANGED <<socket, pendingClose, pingTimer, got, confirmed>>

(* What there is is passed on, with the pings in it, and answered with a   *)
(* ping, flushed, and with a confirmation of each NNNN.  Only a ping that  *)
(* comes alone is dropped.                                                 *)
processMessages(telegrams) ==
  IF telegrams \in {<<>>, <<"zero">>}
    THEN /\ aftnState' = "Receiving"
         /\ buffer' = <<>>
         /\ broken' = FALSE
         /\ UNCHANGED <<socket, pendingClose, pingTimer, got, confirmed>>
    ELSE /\ got' = got \o telegrams
         /\ buffer' = <<>>
         /\ \/ /\ aftnState' = "Receiving"
               /\ confirmed' = confirmed + EndMarks(telegrams)
               /\ broken' = FALSE
               /\ UNCHANGED <<socket, pendingClose, pingTimer>>
            \/ /\ socket' = "Unconnected"
               /\ aftnState' = "Unconnected"
               /\ pingTimer' = FALSE
               /\ broken' = TRUE
               /\ UNCHANGED <<pendingClose, confirmed>>

(* Faulty variant: the information is cut as if it were a reply. *)
FaultyParseBuffer(data) ==
  \/ refused(data)
  \/ /\ aftnState = "Authorizating" => Head(data) = "success"
     /\ \/ awaitInfo(data)
        \/ /\ Len(data) >= HeaderSize
           /\ processMessages(IF HeaderSize = 0
                                THEN data
                                ELSE SubSeq(data, HeaderSize, Len(data)))

parseBuffer(data) ==
  \/ refused(data)
  \/ /\ aftnState = "Authorizating" => Head(data) = "success"
     /\ \/ awaitInfo(data)
        \/ /\ Len(data) >= HeaderSize
           /\ processMessages(SubSeq(data, HeaderSize + 1, Len(data)))

(* Faulty variant: a segment does not start the timer. *)
FaultyReadSocket ==
  \E n \in 1 .. Len(wire) :
    /\ parseBuffer(buffer \o SubSeq(wire, 1, n))
    /\ wire' = IF socket' = "Connected" THEN SubSeq(wire, n + 1, Len(wire)) ELSE <<>>
    /\ pingTimeoutTimer' = FALSE

(* Any number of bytes is read, and parsed as far as it is complete; the   *)
(* timer of missing answers starts again in any case.                      *)
readSocket ==
  \E n \in 1 .. Len(wire) :
    /\ parseBuffer(buffer \o SubSeq(wire, 1, n))
    /\ wire' = IF socket' = "Connected" THEN SubSeq(wire, n + 1, Len(wire)) ELSE <<>>
    /\ pingTimeoutTimer' = TRUE

onReadyRead ==
  /\ socket = "Connected"
  /\ readSocket
  /\ heard' = TRUE
  /\ UNCHANGED <<serverVars, connections>>

----------------------------------------------------------------------------
(* The timers, which fire again and again until they are stopped. *)

pingTimeout ==
  /\ pingTimeoutTimer
  /\ \/ /\ socket = "Connecting" /\ ~ pendingClose
        /\ pendingClose' = TRUE
        /\ UNCHANGED <<socket, aftnState, buffer, pingTimer,
                       pingTimeoutTimer, wire>>
     \/ socket = "Connected" /\ disconnectFromHost
  /\ broken' = (broken /\ pingTimeoutTimer')
  /\ UNCHANGED <<serverVars, historyVars, connections>>

Next ==
  \/ connectToHost
  \/ connected
  \/ serverSpeaks
  \/ onReadyRead
  \/ pingTimeout
  \/ disconnected

Spec == Init /\ [][Next]_vars

----------------------------------------------------------------------------
(* A connection leaves nothing behind: no state, timer or byte of it, and  *)
(* the timer of missing answers runs only where the server has answered.   *)
(* The exception is a connection that ends within a slot which then goes   *)
(* on, as after a refusal: its timer ends the next connection.             *)
EndIsClean ==
  ~ broken =>
    /\ socket = "Unconnected" =>
         aftnState = "Unconnected" /\ buffer = <<>> /\ ~ pingTimer
    /\ pingTimeoutTimer => socket # "Unconnected" /\ heard

(* Some bytes without the pings among them.                                *)
Pingless(bytes) ==
  LET kept[i \in 0 .. Len(bytes)] ==
        IF i = 0 THEN <<>>
        ELSE IF bytes[i] = "zero" THEN kept[i - 1]
        ELSE Append(kept[i - 1], bytes[i])
  IN  kept[Len(bytes)]

(* The telegrams are passed on as the server sent them, however they and   *)
(* the authorization are cut into segments, and none is confirmed that has *)
(* not been passed on.  The comparison leaves the pings out: one that      *)
(* comes alone is dropped, one that shares a segment is passed on with it  *)
(* (aftnclient.cpp, processMessages).                                      *)
TelegramsArrive ==
  /\ aftnState = "Receiving" => Pingless(sent) = Pingless(got \o wire)
  /\ confirmed <= EndMarks(got)

----------------------------------------------------------------------------
(* Fairness: the timer fires while it runs, and a socket that closes is    *)
(* closed in the end.  Nothing is assumed of the server.                   *)
FairSpec ==
  /\ Spec
  /\ WF_vars(pingTimeout)
  /\ WF_vars(socket = "Closing" /\ disconnected)

(* A server that has answered and then says nothing is given up.           *)
SilenceIsNoticed ==
  heard /\ socket = "Connected" ~> wire # <<>> \/ socket = "Unconnected"
=============================================================================
