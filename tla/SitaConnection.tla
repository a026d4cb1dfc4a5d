--------------------------- MODULE SitaConnection ---------------------------
(***************************************************************************)
(* The server's SitaConnection: it owns the Matip object of the server and *)
(* the Batap object of the session, and tells the application when the     *)
(* session and the connection are over.  Its slots run within the signals  *)
(* of Matip and of the socket, so they are part of those steps.  The       *)
(* client is any MATIP client.                                             *)
(***************************************************************************)
EXTENDS Matip

VARIABLES
  batap,     (* the Batap object: not made yet, stopped or started         *)
  closing,   (* disconnectFromHost() was called                            *)
  reports,   (* sessionClosed() emitted so far, up to 2                    *)
  closed     (* closed() was emitted                                       *)

sitaVars == <<batap, closing, reports, closed>>
vars     == <<matipVars, sitaVars>>

SitaInit ==
  /\ Init
  /\ batap = "none"
  /\ closing = FALSE
  /\ reports = 0
  /\ closed = FALSE

(* stop() *)
stop == batap' = IF batap = "none" THEN "none" ELSE "stopped"

sessionClosed == reports' = IF reports < 2 THEN reports + 1 ELSE reports

(* Connected to sessionClosed() and to sessionTimeout() of Matip. *)
onSessionClosed ==
  /\ stop
  /\ sessionClosed
  /\ closing' = TRUE

(* What a step of the server's Matip makes of the connection. *)
ServerSlots ==
  IF \E s \in signals' : s[2] \in {"sessionClosed", "sessionTimeout"}
    THEN onSessionClosed
    ELSE UNCHANGED <<batap, closing, reports>>

acceptSession ==
  /\ ~ closing /\ ~ closed
  /\ acceptConnection
  /\ batap' = "stopped"
  /\ UNCHANGED <<closing, reports, closed>>

(* Faulty variant: the socket of a refused client is kept. *)
FaultyRefuseSession ==
  /\ ~ closing /\ ~ closed
  /\ refuseConnection
  /\ UNCHANGED sitaVars

refuseSession ==
  /\ ~ closing /\ ~ closed
  /\ refuseConnection
  /\ closing' = TRUE
  /\ UNCHANGED <<batap, reports, closed>>

(* The application starts Batap once the session is accepted. *)
startBatap ==
  /\ batap = "stopped" /\ reports = 0 /\ ~ closed
  /\ batap' = "started"
  /\ signals' = {}
  /\ UNCHANGED <<connected, sessionVars, inTransit, available, reading,
                 userVars, emitted, unanswered, closing, reports, closed>>

(* Batap writes to Matip: messages once started, acknowledgements ever.    *)
batapWrites ==
  /\ batap # "none"
  /\ \E length \in Lengths : writeMessage("server", length)
  /\ UNCHANGED sitaVars

close ==
  /\ ~ closed
  /\ stop
  /\ closing' = TRUE
  /\ \/ InSession("server") /\ closeSession("server") /\ sessionClosed
     \/ /\ ~ InSession("server")
        /\ signals' = {}
        /\ UNCHANGED <<connected, sessionVars, inTransit, available, reading,
                       userVars, emitted, unanswered, reports>>
  /\ UNCHANGED closed

(* Faulty variant: the state of Matip is not looked at. *)
FaultyOnSocketDisconnected ==
  /\ disconnected
  /\ stop
  /\ sessionClosed
  /\ closed' = TRUE
  /\ UNCHANGED closing

(* The session is reported as closed unless Matip has ended it already.    *)
onSocketDisconnected ==
  /\ disconnected
  /\ stop
  /\ IF InSession("server") THEN sessionClosed ELSE UNCHANGED reports
  /\ closed' = TRUE
  /\ UNCHANGED closing

ServerMatip ==
  /\ arrive("server") \/ onReadyRead("server") \/ onTimeout("server")
  /\ ServerSlots
  /\ UNCHANGED closed

Client ==
  /\ ApplicationStep("client") \/ arrive("client") \/ onReadyRead("client")
       \/ onTimeout("client")
  /\ UNCHANGED sitaVars

SitaNext ==
  \/ acceptSession
  \/ refuseSession
  \/ startBatap
  \/ batapWrites
  \/ close
  \/ onSocketDisconnected
  \/ ServerMatip
  \/ Client

SitaSpec == SitaInit /\ [][SitaNext]_vars

(* The event loops of both ends run, the network delivers, and a socket    *)
(* that was told to disconnect does.  The bound MaxBytes may disable the   *)
(* answer to a query for a moment, hence SF.                               *)
FairSitaSpec ==
  /\ SitaSpec
  /\ WF_vars(ServerMatip /\ arrive("server"))
  /\ SF_vars(ServerMatip /\ onReadyRead("server"))
  /\ WF_vars(Client /\ arrive("client"))
  /\ SF_vars(Client /\ onReadyRead("client"))
  /\ WF_vars(closing /\ onSocketDisconnected)

----------------------------------------------------------------------------
SessionOver == batap # "none" /\ (~ InSession("server") \/ ~ connected)

(* The application is told of the end of each session it accepted, however *)
(* it ends (a close of either side, a time-out, a lost connection, several *)
(* of them at once), and of no other end; and it is told once as long as   *)
(* the connection exists for it: the query timer of a Matip that lost its  *)
(* socket in a session reports a time-out once more, unless the            *)
(* application deletes the object on closed().                             *)
EndIsReportedOnce ==
  /\ SessionOver <=> reports > 0
  /\ reports <= 1 \/ closed

(* A connection whose client left the session, or was refused, does not    *)
(* stay open.                                                              *)
ConnectionCloses ==
  closing \/ (opened /\ mState["client"] = "Unconnected") ~> closed
=============================================================================
