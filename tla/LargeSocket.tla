----------------------------- MODULE LargeSocket -----------------------------
(***************************************************************************)
(* Blocks of any size over a TCP connection: the sender cuts a block into  *)
(* packets with a signature and a header, the receiver collects the bytes, *)
(* takes one packet each time its timer fires and glues the parts.  The    *)
(* client keeps its LargeSocket when it connects anew, the server gets a   *)
(* new one with each connection.  Bytes are counted in words of four.      *)
(***************************************************************************)
EXTENDS Integers, SequencesExt

CONSTANTS
  MAX_DATA_SIZE,    (* words of data in a packet                           *)
  Lengths,          (* words in a block                                    *)
  IdentifierCount,  (* 2^32 - 1: identifiers before they start again       *)
  BAD_IDENTIFIER,
  Huge,             (* a number no buffer reaches                          *)
  MaxBlocks,        (* bound: blocks written                               *)
  MaxConnections    (* bound: connections                                  *)

ASSUME LargeSocketAssumption ==
  /\ MAX_DATA_SIZE \in Nat \ {0}
  /\ Lengths \subseteq Nat \ {0}
  /\ IdentifierCount \in Nat \ {0}
  /\ BAD_IDENTIFIER \in Int /\ BAD_IDENTIFIER \notin 0 .. IdentifierCount - 1
  /\ Huge \in Nat /\ MaxBlocks \in Nat /\ MaxConnections \in Nat

VARIABLES
  clientSends,    (* the client writes and the server reads, or vice versa *)
  connected,
  isOpen,         (* the writer's LargeSocket is an open device            *)
  sendIdentifier, (* mIdentifier of the LargeSender                        *)
  outgoing,       (* its parts                                             *)
  num,
  inTransit,      (* words on their way                                    *)
  buffer,         (* of the LargeReceiver, as the variables below          *)
  timer,          (* its timer runs                                        *)
  mIdentifier,
  parts,
  written,        (* history: lengths of the blocks                        *)
  delivered,      (* history: blocks that came, by number; 0 for another   *)
  current,        (* history: blocks written in this connection            *)
  resent,         (* history: blocks whose first part was sent again       *)
  leftovers,      (* history: how often a connection ended in a block that *)
                  (* a receiver had not read                               *)
  connections     (* bound counter                                         *)

senderVars   == <<isOpen, sendIdentifier, outgoing, num>>
receiverVars == <<buffer, timer, mIdentifier, parts>>
historyVars  == <<written, delivered, current, resent, leftovers>>
vars == <<clientSends, connected, senderVars, inTransit, receiverVars,
          historyVars, connections>>

----------------------------------------------------------------------------
(* Packets. *)

Word(kind, value) == [kind |-> kind, value |-> value]

SIG == <<Word("sig", 0), Word("sig", 1)>>

HeaderSize == 6

(* What a word is when it is read as a number: that of a signature is      *)
(* beyond any size, that of data may be anything.                          *)
NumberOf(word) ==
  CASE word.kind = "int"  -> {word.value}
    [] word.kind = "sig"  -> {Huge}
    [] word.kind = "data" -> {0, Huge}

(* The k-th word of the n-th block. *)
Data(n, k) == [kind |-> "data", block |-> n, value |-> k]

DataOf(n, length) == [k \in 1 .. length |-> Data(n, k)]

toByteArray(identifier, number, all) ==
  SIG \o <<Word("int", identifier), Word("int", number),
           Word("int", Len(all)), Word("int", Len(all[number + 1]))>>
      \o all[number + 1]

(* The block cut into parts. *)
Parts(data) ==
  [i \in 1 .. (Len(data) + MAX_DATA_SIZE - 1) \div MAX_DATA_SIZE |->
     SubSeq(data, (i - 1) * MAX_DATA_SIZE + 1,
            IF i * MAX_DATA_SIZE < Len(data) THEN i * MAX_DATA_SIZE ELSE Len(data))]

Drop(s, n) == SubSeq(s, n + 1, Len(s))

Init ==
  /\ clientSends \in BOOLEAN
  /\ connected = FALSE
  /\ isOpen = clientSends
  /\ sendIdentifier = BAD_IDENTIFIER
  /\ outgoing = <<>>
  /\ num = 0
  /\ inTransit = <<>>
  /\ buffer = <<>>
  /\ timer = FALSE
  /\ mIdentifier = BAD_IDENTIFIER
  /\ parts = <<>>
  /\ written = <<>>
  /\ delivered = <<>>
  /\ current = {}
  /\ resent = {}
  /\ leftovers = 0
  /\ connections = 0

----------------------------------------------------------------------------
(* LargeSender. *)

nextIdentifier(identifier) ==
  IF identifier = BAD_IDENTIFIER THEN 0 ELSE (identifier + 1) % IdentifierCount

Packets(identifier, all) ==
  FlattenSeq([i \in 1 .. Len(all) |-> toByteArray(identifier, i - 1, all)])

(* writeData(): all parts are written to the socket, which refuses them if *)
(* there is no connection.                                                 *)
writeData(length, sends) ==
  LET all == Parts(DataOf(Len(written) + 1, length))
  IN /\ Len(written) < MaxBlocks
     /\ written' = Append(written, length)
     /\ sendIdentifier' = nextIdentifier(sendIdentifier)
     /\ num' = Len(all)
     /\ IF sends THEN /\ inTransit' = inTransit \o Packets(sendIdentifier', all)
                      /\ current' = current \cup {Len(written')}
                 ELSE UNCHANGED <<inTransit, current>>

(* Written in vain or not, the parts stay.                                 *)
write(length) ==
  /\ isOpen
  /\ writeData(length, connected)
  /\ outgoing' = Parts(DataOf(Len(written) + 1, length))
  /\ UNCHANGED <<clientSends, connected, isOpen, receiverVars, delivered,
                 resent, leftovers, connections>>

(* onConnected() of the client's sender: the first part of the block that  *)
(* was last written in a connection is sent once more.                     *)
sendNextPart ==
  IF num >= Len(outgoing)
    THEN outgoing' = <<>> /\ UNCHANGED <<inTransit, resent>>
    ELSE /\ inTransit' = toByteArray(sendIdentifier, num, outgoing)
         /\ resent' = resent \cup {Len(written)}
         /\ UNCHANGED outgoing

----------------------------------------------------------------------------
(* Connections. *)

(* The server has a new receiver.  The client's application sees           *)
(* connected() before its sender does, and may write.                      *)
clientConnects ==
  /\ clientSends
  /\ \/ sendNextPart /\ UNCHANGED <<sendIdentifier, num, written, current>>
     \/ \E length \in Lengths :
          writeData(length, TRUE) /\ outgoing' = <<>> /\ UNCHANGED resent
  /\ buffer' = <<>>
  /\ timer' = FALSE
  /\ mIdentifier' = BAD_IDENTIFIER
  /\ parts' = <<>>

(* The server has a new sender, the client its old receiver. *)
serverConnects ==
  /\ ~ clientSends
  /\ sendIdentifier' = BAD_IDENTIFIER
  /\ outgoing' = <<>>
  /\ num' = 0
  /\ UNCHANGED <<inTransit, receiverVars, written, current, resent>>

onConnected ==
  /\ ~ connected
  /\ connections < MaxConnections
  /\ connections' = connections + 1
  /\ connected' = TRUE
  /\ isOpen' = TRUE
  /\ clientConnects \/ serverConnects
  /\ UNCHANGED <<clientSends, delivered, leftovers>>

(* The receiver forgets the parts, but not the bytes it has not read.      *)
onDisconnected ==
  /\ connected
  /\ connected' = FALSE
  /\ isOpen' = FALSE
  /\ num' = 0
  /\ inTransit' = <<>>
  /\ parts' = <<>>
  /\ mIdentifier' = BAD_IDENTIFIER
  /\ current' = {}
  /\ leftovers' = IF buffer # <<>> THEN leftovers + 1 ELSE leftovers
  /\ UNCHANGED <<clientSends, sendIdentifier, outgoing, buffer, timer,
                 written, delivered, resent, connections>>

----------------------------------------------------------------------------
(* LargeReceiver. *)

(* A receiver that looks at the bytes and leaves them in the socket. *)
FaultyReadyRead(k) ==
  /\ connected
  /\ Len(buffer) < MaxBlocks * HeaderSize
  /\ buffer' = buffer \o SubSeq(inTransit, 1, k)
  /\ timer' = (timer \/ Len(buffer') >= HeaderSize)
  /\ UNCHANGED <<clientSends, connected, senderVars, inTransit, mIdentifier,
                 parts, historyVars, connections>>

onReadyRead(k) ==
  /\ connected
  /\ buffer' = buffer \o SubSeq(inTransit, 1, k)
  /\ inTransit' = Drop(inTransit, k)
  /\ timer' = (timer \/ Len(buffer') >= HeaderSize)
  /\ UNCHANGED <<clientSends, connected, senderVars, mIdentifier, parts,
                 historyVars, connections>>

(* The buffer from the first signature on, if there is one. *)
Trimmed ==
  LET at == {i \in 1 .. Len(buffer) - 1 : <<buffer[i], buffer[i + 1]>> = SIG}
  IN IF at = {} THEN buffer
     ELSE Drop(buffer, (CHOOSE i \in at : \A j \in at : i <= j) - 1)

(* The number of the block this is, or 0. *)
BlockOf(data) ==
  LET n == {i \in 1 .. Len(written) : data = DataOf(i, written[i])}
  IN IF n = {} THEN 0 ELSE CHOOSE i \in n : TRUE

(* A receiver that does not look at the identifier. *)
FaultyProceedPacket(identifier, number, count, data) ==
  LET all == Append(parts, data)
  IN IF Len(parts) # number
       THEN /\ parts' = <<>>
            /\ mIdentifier' = identifier
            /\ UNCHANGED delivered
       ELSE IF count = Len(all)
       THEN /\ parts' = <<>>
            /\ mIdentifier' = BAD_IDENTIFIER
            /\ delivered' = Append(delivered, BlockOf(FlattenSeq(all)))
       ELSE /\ parts' = all
            /\ mIdentifier' = identifier
            /\ UNCHANGED delivered

(* proceed() of a packet. *)
proceedPacket(identifier, number, count, data) ==
  LET kept == IF mIdentifier \notin {BAD_IDENTIFIER, identifier} THEN <<>>
                                                                ELSE parts
      all  == Append(kept, data)
  IN IF Len(kept) # number
       THEN /\ parts' = <<>>
            /\ mIdentifier' = identifier
            /\ UNCHANGED delivered
       ELSE IF count = Len(all)
       THEN /\ parts' = <<>>
            /\ mIdentifier' = BAD_IDENTIFIER
            /\ delivered' = Append(delivered, BlockOf(FlattenSeq(all)))
       ELSE /\ parts' = all
            /\ mIdentifier' = identifier
            /\ UNCHANGED delivered

(* A packet that is not there as a whole is waited for. *)
await(bytes, size) ==
  /\ Len(bytes) < HeaderSize + size
  /\ buffer' = bytes
  /\ UNCHANGED <<timer, mIdentifier, parts, delivered>>

(* A receiver that takes a packet once its header is there. *)
FaultyTakePacket(bytes, identifier, number, count, size) ==
  LET size2 == IF Len(bytes) < HeaderSize + size THEN Len(bytes) - HeaderSize
                                                ELSE size
  IN /\ buffer' = Drop(bytes, HeaderSize + size2)
     /\ timer' = (Len(buffer') >= HeaderSize)
     /\ proceedPacket(identifier, number, count,
                      SubSeq(bytes, HeaderSize + 1, HeaderSize + size2))

takePacket(bytes, identifier, number, count, size) ==
  /\ Len(bytes) >= HeaderSize + size
  /\ buffer' = Drop(bytes, HeaderSize + size)
  /\ timer' = (Len(buffer') >= HeaderSize)
  /\ proceedPacket(identifier, number, count,
                   SubSeq(bytes, HeaderSize + 1, HeaderSize + size))

(* proceed() of the bytes. *)
proceed(bytes) ==
  IF Len(bytes) < HeaderSize
    THEN await(bytes, 0)
    ELSE \E identifier \in NumberOf(bytes[3]), number \in NumberOf(bytes[4]),
            count \in NumberOf(bytes[5]), size \in NumberOf(bytes[6]) :
           \/ await(bytes, size)
           \/ takePacket(bytes, identifier, number, count, size)

timerEvent ==
  /\ timer
  /\ proceed(Trimmed)
  /\ UNCHANGED <<clientSends, connected, senderVars, inTransit, written,
                 current, resent, leftovers, connections>>

----------------------------------------------------------------------------
Next ==
  \/ \E length \in Lengths : write(length)
  \/ onConnected
  \/ onDisconnected
  \/ \E k \in 1 .. Len(inTransit) : onReadyRead(k)
  \/ timerEvent

Spec == Init /\ [][Next]_vars

(* Only reading, be it word by word, and the receiver's timer have to go   *)
(* on: nobody has to connect, write or stay connected.                     *)
FairSpec ==
  /\ Spec
  /\ WF_vars(inTransit # <<>> /\ onReadyRead(1))
  /\ WF_vars(timerEvent)

(* Safety (LargeReceiver.cpp:39, 74): the bytes of an unfinished packet    *)
(* survive a disconnection of the client and swallow what the next         *)
(* connection brings.  The application gets a block nobody wrote only      *)
(* there, and never once a block of the connection has come through: the   *)
(* receiver has found the packets again.                                   *)
DamageEnds ==
  [][delivered' # delivered /\ Last(delivered') = 0 =>
       /\ ~ clientSends /\ leftovers > 0
       /\ current \cap ToSet(delivered) = {}]_vars

(* Safety (LargeSender.cpp:90): across reconnections, identifiers that     *)
(* start again and parts sent again, blocks come in the order in which     *)
(* they were written, and none twice but one whose first part the sender   *)
(* repeated after connecting.                                              *)
InOrder ==
  \A i, j \in DOMAIN delivered :
    i < j /\ delivered[i] # 0 /\ delivered[j] # 0 =>
      \/ delivered[i] < delivered[j]
      \/ delivered[i] = delivered[j] /\ delivered[i] \in resent

(* Liveness (LargeReceiver.cpp:90): the blocks of a connection that lasts  *)
(* arrive, however their packets are segmented, and though the receiver    *)
(* takes one packet with each tick and a repeated part of an older block   *)
(* precedes them; unless an earlier connection left bytes behind.          *)
BlocksArrive ==
  current # {} ~> current \subseteq ToSet(delivered) \/ leftovers > 0
=============================================================================
