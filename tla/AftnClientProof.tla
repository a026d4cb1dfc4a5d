--------------------------- MODULE AftnClientProof ---------------------------
(***************************************************************************)
(* Proofs about the AFTN client, for an authorization of any size and a    *)
(* server that sends any number of telegrams and pings, in segments cut    *)
(* anywhere, with refusals, failing flushes and lost connections.          *)
(***************************************************************************)
EXTENDS AftnClient, SequenceTheorems, FiniteSetTheorems, WellFoundedInduction,
        TLAPS

----------------------------------------------------------------------------
(* What a connection leaves behind. *)

(* The value of a variable is of its type.                                 *)
StateOK ==
  /\ socket \in {"Unconnected", "Connecting", "Connected", "Closing"}
  /\ pendingClose \in BOOLEAN
  /\ pingTimer \in BOOLEAN
  /\ pingTimeoutTimer \in BOOLEAN
  /\ heard \in BOOLEAN
  /\ broken \in BOOLEAN

CleanInv == StateOK /\ EndIsClean

(* What parseBuffer() does to the socket, whatever it has been given: the  *)
(* connection goes on or closes, or it has ended within the slot.          *)
LEMMA ParsedSocket ==
  ASSUME CleanInv, socket = "Connected", NEW data, parseBuffer(data)
  PROVE  /\ socket' \in {"Connected", "Closing", "Unconnected"}
         /\ pendingClose' \in BOOLEAN
         /\ pingTimer' \in BOOLEAN
         /\ broken' = (socket' = "Unconnected")
  <1> USE DEF CleanInv, StateOK
  <1>1. CASE refused(data)
    BY <1>1, Zenon DEF refused, Unconnect, Close
  <1>2. CASE awaitInfo(data)
    BY <1>2, Zenon DEF awaitInfo
  <1>3. CASE processMessages(SubSeq(data, HeaderSize + 1, Len(data)))
    <2> DEFINE telegrams == SubSeq(data, HeaderSize + 1, Len(data))
    <2>0. processMessages(telegrams)
      BY <1>3
    <2> HIDE DEF telegrams
    <2>1. CASE telegrams \in {<<>>, <<"zero">>}
      BY <2>0, <2>1, Zenon DEF processMessages
    <2>2. CASE telegrams \notin {<<>>, <<"zero">>}
      BY <2>0, <2>2, Zenon DEF processMessages
    <2> QED
      BY <2>1, <2>2
  <1> QED
    BY <1>1, <1>2, <1>3 DEF parseBuffer

LEMMA CleanStep ==
  ASSUME CleanInv, [Next]_vars
  PROVE  CleanInv'
  <1> USE DEF CleanInv, StateOK, EndIsClean
  <1>1. CASE connectToHost
    BY <1>1 DEF connectToHost
  <1>2. CASE connected
    <2>1. CASE sendAuthorizationRequest
      <3>1. UNCHANGED <<pendingClose, heard>> /\ socket = "Connecting"
        BY <1>2, <2>1 DEF connected, sendAuthorizationRequest, historyVars
      <3>2. CASE socket' = "Unconnected" /\ closeChannel /\ broken' = TRUE
        BY <3>1, <3>2 DEF closeChannel
      <3>3. CASE /\ socket' = "Connected" /\ pingTimer' = TRUE
                 /\ UNCHANGED <<pingTimeoutTimer, broken>>
        BY <3>1, <3>3
      <3> QED
        BY <2>1, <3>2, <3>3, Zenon DEF sendAuthorizationRequest
    <2>2. CASE Unconnect /\ closeChannel /\ broken' = (broken /\ pingTimeoutTimer')
      BY <1>2, <2>2 DEF connected, Unconnect, closeChannel, historyVars
    <2>3. CASE /\ Close /\ pingTimer' = TRUE /\ UNCHANGED pingTimeoutTimer
               /\ broken' = (broken /\ pingTimeoutTimer')
      BY <1>2, <2>3 DEF connected, Close, historyVars
    <2> QED
      BY <1>2, <2>1, <2>2, <2>3, Zenon DEF connected
  <1>3. CASE serverSpeaks
    BY <1>3 DEF serverSpeaks, historyVars
  <1>4. CASE onReadyRead
    <2>1. PICK n \in 1 .. Len(wire) :
            /\ parseBuffer(buffer \o SubSeq(wire, 1, n))
            /\ pingTimeoutTimer' = TRUE
      BY <1>4 DEF onReadyRead, readSocket
    <2>2. socket = "Connected" /\ heard' = TRUE
      BY <1>4 DEF onReadyRead
    <2>3. /\ socket' \in {"Connected", "Closing", "Unconnected"}
          /\ pendingClose' \in BOOLEAN
          /\ pingTimer' \in BOOLEAN
          /\ broken' = (socket' = "Unconnected")
      BY <2>1, <2>2, ParsedSocket
    <2> QED
      BY <2>1, <2>2, <2>3
  <1>5. CASE pingTimeout
    <2>1. CASE socket = "Connecting"
      BY <1>5, <2>1 DEF pingTimeout, historyVars
    <2>2. CASE Unconnect /\ closeChannel
      BY <1>5, <2>2 DEF pingTimeout, Unconnect, closeChannel, historyVars
    <2>3. CASE Close /\ UNCHANGED <<buffer, pingTimer, pingTimeoutTimer>>
      BY <1>5, <2>3 DEF pingTimeout, Close, historyVars
    <2> QED
      BY <1>5, <2>1, <2>2, <2>3, Zenon DEF pingTimeout, disconnectFromHost
  <1>6. CASE disconnected
    BY <1>6 DEF disconnected, Unconnect, closeChannel, historyVars
  <1>7. CASE UNCHANGED vars
    BY <1>7 DEF vars, historyVars
  <1> QED
    BY <1>1, <1>2, <1>3, <1>4, <1>5, <1>6, <1>7 DEF Next

(* A connection that has ended leaves no state, no byte and no running     *)
(* timer behind, unless it ended within a slot that went on as if it had   *)
(* not.                                                                    *)
THEOREM ConnectionsEndClean == Spec => []EndIsClean
  <1>1. Init => CleanInv
    BY DEF Init, CleanInv, StateOK, EndIsClean
  <1>2. CleanInv /\ [Next]_vars => CleanInv'
    BY CleanStep
  <1>3. CleanInv => EndIsClean
    BY DEF CleanInv
  <1> QED
    BY <1>1, <1>2, <1>3, PTL DEF Spec

----------------------------------------------------------------------------
(* Sequences of bytes. *)

Byte == {"success", "failed", "info", "text", "zero", "N", "NNN"}

(* A non-empty set of naturals has a least element.                        *)
LEMMA LeastNatural ==
  ASSUME NEW T, T \subseteq Nat, T # {}
  PROVE  \E x \in T : \A y \in T : x <= y
  <1> DEFINE R == OpToRel(<, Nat)
  <1>1. IsWellFoundedOn(R, Nat)
    BY NatLessThanWellFounded
  <1>2. \A x, y \in Nat : x < y => <<x, y>> \in R
    BY DEF OpToRel
  <1> HIDE DEF R
  <1>3. PICK x \in T : \A y \in T : ~ (<<y, x>> \in R)
    BY <1>1, WFMin
  <1>4. \A y \in T : ~ (y < x)
    BY <1>2, <1>3, Zenon
  <1>5. \A y \in T : x <= y
    BY <1>4
  <1> QED
    BY <1>3, <1>5

(* Induction on the naturals for a property given as the set of numbers    *)
(* that have it.                                                           *)
LEMMA NaturalsFromZero ==
  ASSUME NEW G, 0 \in G, \A n \in Nat : n \in G => n + 1 \in G
  PROVE  Nat \subseteq G
  <1> SUFFICES ASSUME Nat \ G # {} PROVE FALSE
    OBVIOUS
  <1>1. PICK x \in Nat \ G : \A y \in Nat \ G : x <= y
    BY LeastNatural
  <1>2. x # 0 /\ x - 1 \in Nat
    BY <1>1
  <1>3. x - 1 \in G
    BY <1>1, <1>2
  <1> QED
    BY <1>1, <1>2, <1>3

(* A set of byte sequences that has the empty one and, with each of its    *)
(* members, the sequences one byte longer, has them all.                   *)
LEMMA BytesFromEmpty ==
  ASSUME NEW G, <<>> \in G,
         \A s \in Seq(Byte), b \in Byte : s \in G => Append(s, b) \in G
  PROVE  Seq(Byte) \subseteq G
  <1> DEFINE Good == {n \in Nat : \A s \in Seq(Byte) : Len(s) = n => s \in G}
  <1>1. 0 \in Good
    BY EmptySeq
  <1>2. ASSUME NEW n \in Nat, n \in Good PROVE n + 1 \in Good
    <2> SUFFICES ASSUME NEW s \in Seq(Byte), Len(s) = n + 1 PROVE s \in G
      OBVIOUS
    <2> DEFINE front == SubSeq(s, 1, n)
    <2>1. front \in Seq(Byte) /\ Len(front) = n /\ s[n + 1] \in Byte
      BY LenProperties
    <2>2. s = Append(front, s[n + 1])
      BY LenProperties
    <2> HIDE DEF front
    <2>3. front \in G
      BY <1>2, <2>1
    <2> QED
      BY <2>1, <2>2, <2>3
  <1>3. Nat \subseteq Good
    <2> HIDE DEF Good
    <2> QED
      BY <1>1, <1>2, NaturalsFromZero
  <1> QED
    BY <1>3, LenProperties

(* The recursion of Pingless over the first n bytes of s.                  *)
RunStep(s, f, i) == IF i = 0 THEN <<>>
                    ELSE IF s[i] = "zero" THEN f[i - 1]
                    ELSE Append(f[i - 1], s[i])

IsRun(s, f, n) == f = [i \in 0 .. n |-> RunStep(s, f, i)]

LEMMA RunExists ==
  ASSUME NEW s, NEW n \in Nat
  PROVE  \E f : IsRun(s, f, n)
  <1> DEFINE Defined == {m \in Nat : \E f : IsRun(s, f, m)}
  <1>1. 0 \in Defined
    <2> DEFINE f == [i \in 0 .. 0 |-> <<>>]
    <2>1. IsRun(s, f, 0)
      BY DEF IsRun, RunStep
    <2> HIDE DEF f
    <2> QED
      BY <2>1
  <1>2. ASSUME NEW m \in Nat, m \in Defined PROVE m + 1 \in Defined
    <2>1. PICK f : IsRun(s, f, m)
      BY <1>2
    <2> DEFINE g == [i \in 0 .. m + 1 |-> IF i = m + 1 THEN RunStep(s, f, m + 1)
                                                       ELSE f[i]]
    <2>2. ASSUME NEW i \in 0 .. m + 1 PROVE g[i] = RunStep(s, g, i)
      <3>1. CASE i = m + 1
        BY <3>1 DEF RunStep
      <3>2. CASE i # m + 1
        <4>1. i \in 0 .. m
          BY <3>2
        <4>2. f[i] = RunStep(s, f, i)
          BY <2>1, <4>1 DEF IsRun
        <4>3. g[i] = f[i] /\ (i # 0 => g[i - 1] = f[i - 1])
          BY <4>1
        <4> QED
          BY <4>2, <4>3 DEF RunStep
      <3> QED
        BY <3>1, <3>2
    <2>3. IsRun(s, g, m + 1)
      BY <2>2 DEF IsRun
    <2> HIDE DEF g
    <2> QED
      BY <2>3
  <1> HIDE DEF Defined
  <1>3. n \in Defined
    BY <1>1, <1>2, NaturalsFromZero
  <1> QED
    BY <1>3 DEF Defined

LEMMA RunElement ==
  ASSUME NEW s, NEW n \in Nat, NEW f, IsRun(s, f, n)
  PROVE  /\ f[0] = <<>>
         /\ \A i \in Nat : i + 1 <= n =>
              f[i + 1] = IF s[i + 1] = "zero" THEN f[i] ELSE Append(f[i], s[i + 1])
  <1>1. \A i \in 0 .. n : f[i] = RunStep(s, f, i)
    BY DEF IsRun
  <1>2. f[0] = <<>>
    BY <1>1 DEF RunStep
  <1>3. ASSUME NEW i \in Nat, i + 1 <= n
        PROVE  f[i + 1] = IF s[i + 1] = "zero" THEN f[i] ELSE Append(f[i], s[i + 1])
    <2>1. i + 1 \in 0 .. n /\ i + 1 # 0 /\ (i + 1) - 1 = i
      BY <1>3
    <2> QED
      BY <1>1, <2>1 DEF RunStep
  <1> QED
    BY <1>2, <1>3

(* Two sequences run alike as far as they agree.                           *)
LEMMA RunsAgree ==
  ASSUME NEW s \in Seq(Byte), NEW t, NEW n \in Nat, NEW m \in Nat, NEW k \in Nat,
         n <= Len(s), k <= n, k <= m, NEW f, NEW g, IsRun(s, f, n), IsRun(t, g, m),
         \A i \in 1 .. k : s[i] = t[i]
  PROVE  f[k] = g[k] /\ f[k] \in Seq(Byte)
  <1> DEFINE G == {i \in Nat : i <= k => f[i] = g[i] /\ f[i] \in Seq(Byte)}
  <1>1. 0 \in G
    <2>1. f[0] = <<>>
      BY RunElement
    <2>2. g[0] = <<>>
      BY RunElement
    <2>3. <<>> \in Seq(Byte)
      OBVIOUS
    <2> QED
      BY <2>1, <2>2, <2>3
  <1>2. ASSUME NEW i \in Nat, i \in G PROVE i + 1 \in G
    <2> SUFFICES ASSUME i + 1 <= k
                 PROVE  f[i + 1] = g[i + 1] /\ f[i + 1] \in Seq(Byte)
      OBVIOUS
    <2>1. f[i] = g[i] /\ f[i] \in Seq(Byte)
      BY <1>2
    <2>2. s[i + 1] = t[i + 1] /\ s[i + 1] \in Byte
      BY ElementOfSeq
    <2>3. f[i + 1] = IF s[i + 1] = "zero" THEN f[i] ELSE Append(f[i], s[i + 1])
      BY RunElement
    <2>4. g[i + 1] = IF t[i + 1] = "zero" THEN g[i] ELSE Append(g[i], t[i + 1])
      BY RunElement
    <2> QED
      BY <2>1, <2>2, <2>3, <2>4
  <1> HIDE DEF G
  <1>3. k \in G
    BY <1>1, <1>2, NaturalsFromZero
  <1> QED
    BY <1>3 DEF G

LEMMA PinglessIsRun ==
  ASSUME NEW s \in Seq(Byte)
  PROVE  \E f : IsRun(s, f, Len(s)) /\ Pingless(s) = f[Len(s)]
  <1> DEFINE kept == CHOOSE f : IsRun(s, f, Len(s))
  <1>1. IsRun(s, kept, Len(s))
    BY RunExists, LenProperties
  <1>2. Pingless(s) = kept[Len(s)]
    BY DEF Pingless, IsRun, RunStep
  <1> HIDE DEF kept
  <1> QED
    BY <1>1, <1>2

(* The pings of a sequence are dropped byte by byte. *)
LEMMA PinglessByByte ==
  /\ Pingless(<<>>) = <<>>
  /\ \A s \in Seq(Byte) : Pingless(s) \in Seq(Byte)
  /\ \A s \in Seq(Byte), b \in Byte :
       Pingless(Append(s, b)) =
         IF b = "zero" THEN Pingless(s) ELSE Append(Pingless(s), b)
  <1>1. Pingless(<<>>) = <<>>
    <2>1. <<>> \in Seq(Byte) /\ Len(<<>>) = 0
      OBVIOUS
    <2>2. PICK f : IsRun(<<>>, f, 0) /\ Pingless(<<>>) = f[0]
      BY <2>1, PinglessIsRun
    <2> QED
      BY <2>2, RunElement
  <1>2. ASSUME NEW s \in Seq(Byte)
        PROVE  Pingless(s) \in Seq(Byte)
    <2>1. PICK f : IsRun(s, f, Len(s)) /\ Pingless(s) = f[Len(s)]
      BY PinglessIsRun
    <2> QED
      BY <2>1, RunsAgree, LenProperties
  <1>3. ASSUME NEW s \in Seq(Byte), NEW b \in Byte
        PROVE  Pingless(Append(s, b)) =
                 IF b = "zero" THEN Pingless(s) ELSE Append(Pingless(s), b)
    <2> DEFINE t == Append(s, b)
               n == Len(s)
    <2>1. /\ t \in Seq(Byte) /\ Len(t) = n + 1 /\ t[n + 1] = b /\ n \in Nat
          /\ n <= Len(s) /\ \A i \in 1 .. n : s[i] = t[i]
      BY LenProperties
    <2> HIDE DEF t
    <2>2. PICK f : IsRun(s, f, n) /\ Pingless(s) = f[n]
      BY PinglessIsRun
    <2>3. PICK g : IsRun(t, g, n + 1) /\ Pingless(t) = g[n + 1]
      BY <2>1, PinglessIsRun
    <2> HIDE DEF n
    <2>4. n + 1 \in Nat /\ n <= n + 1 /\ n <= n
      BY <2>1
    <2>5. f[n] = g[n]
      BY <2>1, <2>2, <2>3, <2>4, RunsAgree
    <2>6. \A i \in Nat : i + 1 <= n + 1 =>
            g[i + 1] = IF t[i + 1] = "zero" THEN g[i] ELSE Append(g[i], t[i + 1])
      <3> DEFINE m == n + 1
      <3>1. m \in Nat /\ IsRun(t, g, m)
        BY <2>3, <2>4
      <3> HIDE DEF m
      <3>2. \A i \in Nat : i + 1 <= m =>
              g[i + 1] = IF t[i + 1] = "zero" THEN g[i] ELSE Append(g[i], t[i + 1])
        BY <3>1, RunElement
      <3> QED
        BY <3>2 DEF m
    <2>7. g[n + 1] = IF t[n + 1] = "zero" THEN g[n] ELSE Append(g[n], t[n + 1])
      BY <2>1, <2>6
    <2> QED
      BY <2>1, <2>2, <2>3, <2>5, <2>7 DEF t
  <1> QED
    BY <1>1, <1>2, <1>3

(* Cutting a sequence in two does not change which of its bytes are pings. *)
LEMMA PinglessOfConcat ==
  \A s, t \in Seq(Byte) : Pingless(s \o t) = Pingless(s) \o Pingless(t)
  <1> SUFFICES ASSUME NEW s \in Seq(Byte)
               PROVE  \A t \in Seq(Byte) : Pingless(s \o t) = Pingless(s) \o Pingless(t)
    OBVIOUS
  <1> DEFINE G == {t \in Seq(Byte) : Pingless(s \o t) = Pingless(s) \o Pingless(t)}
  <1>1. Pingless(s) \in Seq(Byte)
    BY PinglessByByte
  <1>2. <<>> \in G
    <2>1. s \o <<>> = s /\ Pingless(s) \o <<>> = Pingless(s)
      BY <1>1, ConcatEmptySeq
    <2> QED
      BY <2>1, PinglessByByte, EmptySeq
  <1>3. ASSUME NEW t \in Seq(Byte), NEW b \in Byte, t \in G
        PROVE  Append(t, b) \in G
    <2>1. s \o Append(t, b) = Append(s \o t, b) /\ s \o t \in Seq(Byte)
      OBVIOUS
    <2>2. Pingless(t) \in Seq(Byte) /\ Append(t, b) \in Seq(Byte)
      BY PinglessByByte
    <2>3. Pingless(s) \o Append(Pingless(t), b) = Append(Pingless(s) \o Pingless(t), b)
      BY <1>1, <2>2
    <2>4. Pingless(s \o t) = Pingless(s) \o Pingless(t)
      BY <1>3
    <2>5. /\ Pingless(Append(s \o t, b)) =
               IF b = "zero" THEN Pingless(s \o t) ELSE Append(Pingless(s \o t), b)
          /\ Pingless(Append(t, b)) =
               IF b = "zero" THEN Pingless(t) ELSE Append(Pingless(t), b)
      BY <2>1, PinglessByByte
    <2>6. Pingless(s \o Append(t, b)) = Pingless(s) \o Pingless(Append(t, b))
      BY <2>1, <2>3, <2>4, <2>5
    <2> QED
      BY <2>2, <2>6
  <1>4. Seq(Byte) \subseteq G
    <2> HIDE DEF G
    <2> QED
      BY <1>2, <1>3, BytesFromEmpty
  <1> QED
    BY <1>4

(* The number of end marks of a sequence that grew by one byte.            *)
LEMMA MarksByByte ==
  /\ EndMarks(<<>>) = 0
  /\ \A s \in Seq(Byte) : EndMarks(s) \in Nat
  /\ \A s \in Seq(Byte), b \in Byte :
       EndMarks(Append(s, b)) =
         EndMarks(s) + (IF s # <<>> /\ s[Len(s)] = "N" /\ b = "NNN" THEN 1 ELSE 0)
  <1> DEFINE Marks(s) == {i \in 1 .. Len(s) - 1 : s[i] = "N" /\ s[i + 1] = "NNN"}
  <1>1. EndMarks(<<>>) = 0
    <2>1. Marks(<<>>) = {}
      OBVIOUS
    <2> QED
      BY <2>1, FS_EmptySet DEF EndMarks
  <1>2. ASSUME NEW s \in Seq(Byte)
        PROVE  IsFiniteSet(Marks(s)) /\ Cardinality(Marks(s)) \in Nat
    <2>1. IsFiniteSet(1 .. Len(s) - 1)
      BY FS_Interval, LenProperties
    <2> QED
      BY <2>1, FS_Subset, FS_CardinalityType
  <1>3. ASSUME NEW s \in Seq(Byte), NEW b \in Byte
        PROVE  EndMarks(Append(s, b)) =
                 EndMarks(s) + (IF s # <<>> /\ s[Len(s)] = "N" /\ b = "NNN"
                                  THEN 1 ELSE 0)
    <2> DEFINE t == Append(s, b)
               n == Len(s)
    <2>1. /\ t \in Seq(Byte) /\ Len(t) = n + 1 /\ t[n + 1] = b /\ n \in Nat
          /\ \A i \in 1 .. n : t[i] = s[i]
          /\ s = <<>> <=> n = 0
      BY LenProperties, EmptySeq
    <2>2. Marks(s) = {i \in 1 .. n - 1 : s[i] = "N" /\ s[i + 1] = "NNN"}
      OBVIOUS
    <2>3. Marks(t) = {i \in 1 .. n : t[i] = "N" /\ t[i + 1] = "NNN"}
      BY <2>1
    <2>4. EndMarks(s) = Cardinality(Marks(s)) /\ EndMarks(t) = Cardinality(Marks(t))
      BY DEF EndMarks
    <2> HIDE DEF t, n, Marks
    <2>5. CASE s # <<>> /\ s[n] = "N" /\ b = "NNN"
      <3>1. Marks(t) = Marks(s) \cup {n} /\ n \notin Marks(s)
        BY <2>1, <2>2, <2>3, <2>5
      <3>2. Cardinality(Marks(t)) = Cardinality(Marks(s)) + 1
        BY <1>2, <3>1, FS_AddElement
      <3> QED
        BY <2>4, <2>5, <3>2 DEF t, n
    <2>6. CASE ~ (s # <<>> /\ s[n] = "N" /\ b = "NNN")
      <3>1. Marks(t) = Marks(s)
        BY <2>1, <2>2, <2>3, <2>6
      <3>2. Cardinality(Marks(s)) \in Nat
        BY <1>2
      <3> QED
        BY <2>4, <2>6, <3>1, <3>2 DEF t, n
    <2> QED
      BY <2>5, <2>6
  <1> QED
    BY <1>1, <1>2, <1>3 DEF EndMarks

(* The parts of a sequence have no more end marks than the whole.          *)
LEMMA MarksOfConcat ==
  \A s, t \in Seq(Byte) : EndMarks(s) + EndMarks(t) <= EndMarks(s \o t)
  <1> SUFFICES ASSUME NEW s \in Seq(Byte)
               PROVE  \A t \in Seq(Byte) :
                        EndMarks(s) + EndMarks(t) <= EndMarks(s \o t)
    OBVIOUS
  <1> DEFINE G == {t \in Seq(Byte) : EndMarks(s) + EndMarks(t) <= EndMarks(s \o t)}
  <1>1. EndMarks(s) \in Nat
    BY MarksByByte
  <1>2. <<>> \in G
    <2>1. s \o <<>> = s /\ EndMarks(<<>>) = 0 /\ <<>> \in Seq(Byte)
      BY ConcatEmptySeq, MarksByByte
    <2> QED
      BY <1>1, <2>1
  <1>3. ASSUME NEW t \in Seq(Byte), NEW b \in Byte, t \in G
        PROVE  Append(t, b) \in G
    <2>1. /\ s \o Append(t, b) = Append(s \o t, b) /\ s \o t \in Seq(Byte)
          /\ Append(t, b) \in Seq(Byte)
      OBVIOUS
    <2>2. t # <<>> => s \o t # <<>> /\ (s \o t)[Len(s \o t)] = t[Len(t)]
      BY ConcatProperties, LenProperties, EmptySeq
    <2>3. /\ EndMarks(Append(s \o t, b)) =
               EndMarks(s \o t) +
                 (IF s \o t # <<>> /\ (s \o t)[Len(s \o t)] = "N" /\ b = "NNN"
                    THEN 1 ELSE 0)
          /\ EndMarks(Append(t, b)) =
               EndMarks(t) + (IF t # <<>> /\ t[Len(t)] = "N" /\ b = "NNN"
                                THEN 1 ELSE 0)
      BY <2>1, MarksByByte
    <2>4. EndMarks(t) \in Nat /\ EndMarks(s \o t) \in Nat
      BY <2>1, MarksByByte
    <2>5. EndMarks(s) + EndMarks(t) <= EndMarks(s \o t)
      BY <1>3
    <2>6. EndMarks(s) + EndMarks(Append(t, b)) <= EndMarks(Append(s \o t, b))
      BY <1>1, <2>2, <2>3, <2>4, <2>5
    <2> QED
      BY <2>1, <2>6
  <1>4. Seq(Byte) \subseteq G
    <2> HIDE DEF G
    <2> QED
      BY <1>2, <1>3, BytesFromEmpty
  <1> QED
    BY <1>4

----------------------------------------------------------------------------
(* The telegrams arrive. *)

(* What the client expects before the next telegram. *)
Success   == <<"success">>
Failed    == <<"failed">>
InfoBytes == [i \in 1 .. InfoSize |-> "info"]

Due(state) == CASE state = "Authorizating"            -> Success \o InfoBytes
                [] state = "WaitForAuthorizationInfo" -> InfoBytes
                [] state = "Receiving"                -> <<>>

Listening == {"Authorizating", "WaitForAuthorizationInfo", "Receiving"}

BytesOK ==
  /\ wire \in Seq(Byte) /\ buffer \in Seq(Byte)
  /\ sent \in Seq(Byte) /\ got \in Seq(Byte)
  /\ confirmed \in Nat
  /\ confirmed <= EndMarks(got)

(* The four things the server may have said: nothing, a refusal, a reply   *)
(* without the information, and all of it with some telegrams.  What is in *)
(* the buffer and on its way then is what has not been parsed.             *)
NothingSaid ==
  step = "reply" /\ aftnState = "Authorizating" /\ wire = <<>>
    /\ sent = <<>> /\ got = <<>>

Refusal == step = "nothing" /\ aftnState = "Authorizating" /\ wire = Failed

ReplyOnly ==
  /\ step = "info" /\ buffer = <<>> /\ sent = <<>> /\ got = <<>>
  /\ \/ aftnState = "Authorizating" /\ wire = Success
     \/ aftnState = "WaitForAuthorizationInfo" /\ wire = <<>>

Underway(tail) ==
  /\ buffer \o wire = Due(aftnState) \o tail
  /\ Pingless(sent) = Pingless(got \o tail)

Telegrams == step = "telegrams" /\ \E tail \in Seq(Byte) : Underway(tail)

(* Where no bytes come, and where they do. *)
Quiet ==
  socket # "Connected" =>
    wire = <<>> /\ aftnState \notin {"WaitForAuthorizationInfo", "Receiving"}

Fresh == socket = "Connecting" => step = "reply" /\ sent = <<>> /\ got = <<>>

Passing ==
  socket = "Connected" =>
    /\ aftnState \in Listening
    /\ aftnState # "WaitForAuthorizationInfo" => buffer = <<>>
    /\ NothingSaid \/ Refusal \/ ReplyOnly \/ Telegrams

ArriveInv == BytesOK /\ Quiet /\ Fresh /\ Passing

----------------------------------------------------------------------------
(* Where a stream is cut does not matter. *)

LEMMA JoinedBytes ==
  \A x, y \in Seq(Byte) :
    /\ x \o y \in Seq(Byte)
    /\ Len(x \o y) = Len(x) + Len(y)
    /\ \A i \in 1 .. Len(x) : (x \o y)[i] = x[i]
    /\ \A i \in 1 .. Len(y) : (x \o y)[Len(x) + i] = y[i]
  BY ConcatProperties, LenProperties

LEMMA JoinedThree ==
  \A x, y, z \in Seq(Byte) : (x \o y) \o z = x \o (y \o z)
  BY ConcatAssociative

LEMMA ReplyIsBytes ==
  /\ Success \in Seq(Byte) /\ Len(Success) = 1 /\ Success[1] = "success"
  /\ Failed \in Seq(Byte) /\ Len(Failed) = 1 /\ Failed[1] = "failed"
  <1>1. "success" \in Byte /\ "failed" \in Byte
    BY DEF Byte
  <1> QED
    BY <1>1 DEF Success, Failed

LEMMA SaidIsBytes ==
  <<"text", "N", "NNN">> \in Seq(Byte) /\ <<"zero">> \in Seq(Byte)
  <1>1. "text" \in Byte /\ "N" \in Byte /\ "NNN" \in Byte /\ "zero" \in Byte
    BY DEF Byte
  <1> QED
    BY <1>1

LEMMA InfoIsBytes == InfoBytes \in Seq(Byte) /\ Len(InfoBytes) = InfoSize
  <1>1. InfoBytes \in [1 .. InfoSize -> Byte]
    BY DEF InfoBytes, Byte
  <1> HIDE DEF InfoBytes
  <1> QED
    BY <1>1, AftnAssumption, LenProperties

LEMMA DueIsBytes ==
  ASSUME aftnState \in Listening
  PROVE  /\ Due(aftnState) \in Seq(Byte)
         /\ Len(Due(aftnState)) = HeaderSize
         /\ HeaderSize \in Nat
  <1>1. /\ InfoBytes \in Seq(Byte) /\ Len(InfoBytes) = InfoSize
        /\ InfoSize \in Nat
    BY InfoIsBytes, AftnAssumption
  <1>2. Success \in Seq(Byte) /\ Len(Success) = 1
    BY ReplyIsBytes
  <1>3. CASE aftnState = "Authorizating"
    <2>1. /\ Success \o InfoBytes \in Seq(Byte)
          /\ Len(Success \o InfoBytes) = Len(Success) + Len(InfoBytes)
      BY <1>1, <1>2, JoinedBytes
    <2> QED
      BY <1>1, <1>2, <1>3, <2>1 DEF Due, HeaderSize
  <1>4. CASE aftnState = "WaitForAuthorizationInfo"
    BY <1>1, <1>4 DEF Due, HeaderSize
  <1>5. CASE aftnState = "Receiving"
    BY <1>5 DEF Due, HeaderSize
  <1> QED
    BY <1>3, <1>4, <1>5 DEF Listening

(* A stream read as a and b whose header is h: what a has of it beyond the *)
(* header and all of b is what follows the header.                         *)
LEMMA BeyondHeader ==
  ASSUME NEW a \in Seq(Byte), NEW b \in Seq(Byte), NEW h \in Seq(Byte),
         NEW t \in Seq(Byte), a \o b = h \o t, Len(a) >= Len(h)
  PROVE  /\ SubSeq(a, Len(h) + 1, Len(a)) \in Seq(Byte)
         /\ SubSeq(a, Len(h) + 1, Len(a)) \o b = t
  <1> DEFINE rest == SubSeq(a, Len(h) + 1, Len(a))
             n == Len(h)
  <1>1. Len(a) \in Nat /\ Len(b) \in Nat /\ Len(t) \in Nat /\ n \in Nat /\ n <= Len(a)
    BY LenProperties
  <1>2. /\ rest \in Seq(Byte) /\ Len(rest) = Len(a) - n
        /\ \A i \in 1 .. Len(a) - n : rest[i] = a[n + i]
    BY LenProperties
  <1> HIDE DEF rest
  <1>3. /\ rest \o b \in Seq(Byte)
        /\ Len(rest \o b) = Len(rest) + Len(b)
        /\ \A i \in 1 .. Len(rest) : (rest \o b)[i] = rest[i]
        /\ \A i \in 1 .. Len(b) : (rest \o b)[Len(rest) + i] = b[i]
    BY <1>2, JoinedBytes
  <1>4. /\ Len(a \o b) = Len(a) + Len(b)
        /\ \A i \in 1 .. Len(a) : (a \o b)[i] = a[i]
        /\ \A i \in 1 .. Len(b) : (a \o b)[Len(a) + i] = b[i]
    BY JoinedBytes
  <1>5. /\ Len(h \o t) = n + Len(t)
        /\ \A i \in 1 .. Len(t) : (h \o t)[n + i] = t[i]
    BY JoinedBytes
  <1> HIDE DEF n
  <1>6. Len(rest \o b) = Len(t)
    BY <1>1, <1>2, <1>3, <1>4, <1>5
  <1>7. ASSUME NEW i \in 1 .. Len(t) PROVE (rest \o b)[i] = t[i]
    <2>1. t[i] = (a \o b)[n + i]
      BY <1>5
    <2>2. CASE i <= Len(a) - n
      <3>1. i \in 1 .. Len(rest) /\ n + i \in 1 .. Len(a) /\ i \in 1 .. Len(a) - n
        BY <1>1, <1>2, <2>2
      <3>2. (rest \o b)[i] = rest[i] /\ rest[i] = a[n + i] /\ (a \o b)[n + i] = a[n + i]
        BY <1>2, <1>3, <1>4, <3>1
      <3> QED
        BY <2>1, <3>2
    <2>3. CASE i > Len(a) - n
      <3> DEFINE k == i - (Len(a) - n)
      <3>1. /\ k \in 1 .. Len(b)
            /\ i = Len(rest) + k /\ n + i = Len(a) + k
        BY <1>1, <1>2, <1>3, <1>6, <2>3
      <3> HIDE DEF k
      <3>2. (rest \o b)[Len(rest) + k] = b[k] /\ (a \o b)[Len(a) + k] = b[k]
        BY <1>3, <1>4, <3>1
      <3> QED
        BY <2>1, <3>1, <3>2
    <2>4. i <= Len(a) - n \/ i > Len(a) - n
      BY <1>1
    <2> QED
      BY <2>2, <2>3, <2>4
  <1>8. rest \o b = t
    BY <1>3, <1>6, <1>7, SeqEqual
  <1> QED
    BY <1>2, <1>8 DEF rest, n

(* The bytes read and the bytes left are those that were on their way.     *)
LEMMA ReadAndLeft ==
  ASSUME NEW a \in Seq(Byte), NEW w \in Seq(Byte), NEW n \in 1 .. Len(w)
  PROVE  /\ a \o SubSeq(w, 1, n) \in Seq(Byte)
         /\ a \o SubSeq(w, 1, n) # <<>>
         /\ SubSeq(w, n + 1, Len(w)) \in Seq(Byte)
         /\ (a \o SubSeq(w, 1, n)) \o SubSeq(w, n + 1, Len(w)) = a \o w
  <1> DEFINE x == SubSeq(w, 1, n)
             y == SubSeq(w, n + 1, Len(w))
  <1>1. x \in Seq(Byte) /\ Len(x) = n /\ y \in Seq(Byte) /\ n \in Nat /\ n > 0
    BY LenProperties
  <1>2. x \o y = w
    BY LenProperties
  <1> HIDE DEF x, y
  <1>3. (a \o x) \o y = a \o (x \o y)
    BY <1>1, JoinedThree
  <1>4. a \o x \in Seq(Byte) /\ a \o x # <<>>
    BY <1>1, LenProperties, ConcatProperties
  <1> QED
    BY <1>1, <1>2, <1>3, <1>4 DEF x, y

(* So is the stream without its first byte.                                *)
(* What a and b hold after their first byte. *)
Follows(t, a, b) == Tail(a) \o b = t

LEMMA WithoutFirst ==
  ASSUME NEW a \in Seq(Byte), NEW b \in Seq(Byte), NEW h \in Seq(Byte),
         NEW t \in Seq(Byte), a # <<>>, Len(h) = 1, a \o b = h \o t
  PROVE  Head(a) = h[1] /\ Follows(t, a, b)
  <1>1. Len(a) >= 1 /\ Tail(a) = SubSeq(a, 2, Len(a))
    OBVIOUS
  <1>2. /\ SubSeq(a, Len(h) + 1, Len(a)) \in Seq(Byte)
        /\ SubSeq(a, Len(h) + 1, Len(a)) \o b = t
    <2>1. Len(a) >= Len(h)
      BY <1>1
    <2> QED
      BY <2>1, BeyondHeader
  <1>3. SubSeq(a, Len(h) + 1, Len(a)) = Tail(a)
    BY <1>1
  <1>4. (a \o b)[1] = a[1] /\ (h \o t)[1] = h[1] /\ Head(a) = a[1]
    BY <1>1, JoinedBytes
  <1> QED
    BY <1>2, <1>3, <1>4 DEF Follows

(* What it takes to be in order while bytes are parsed. *)
ParsedOK ==
  /\ buffer' \in Seq(Byte) /\ got' \in Seq(Byte)
  /\ confirmed' \in Nat /\ confirmed' <= EndMarks(got')

LEMMA ConfirmedOK ==
  \A s, t \in Seq(Byte) : \A n \in Nat :
    n <= EndMarks(s) => n + EndMarks(t) \in Nat
                        /\ n + EndMarks(t) <= EndMarks(s \o t)
                        /\ n <= EndMarks(s \o t)
  <1> SUFFICES ASSUME NEW s \in Seq(Byte), NEW t \in Seq(Byte), NEW n \in Nat,
                      n <= EndMarks(s)
               PROVE  /\ n + EndMarks(t) \in Nat
                      /\ n + EndMarks(t) <= EndMarks(s \o t)
                      /\ n <= EndMarks(s \o t)
    OBVIOUS
  <1>1. EndMarks(s) + EndMarks(t) <= EndMarks(s \o t)
    BY MarksOfConcat
  <1>2. s \o t \in Seq(Byte)
    OBVIOUS
  <1>3. EndMarks(s) \in Nat /\ EndMarks(t) \in Nat /\ EndMarks(s \o t) \in Nat
    BY <1>2, MarksByByte
  <1> QED
    BY <1>1, <1>3

(* Nothing is left of a lone ping, or of nothing, without the pings.       *)
LEMMA LonePing ==
  ASSUME NEW t, t \in {<<>>, <<"zero">>}
  PROVE  Pingless(t) = <<>>
  <1>1. CASE t = <<>>
    BY <1>1, PinglessByByte
  <1>2. CASE t = <<"zero">>
    <2>1. t = Append(<<>>, "zero") /\ <<>> \in Seq(Byte) /\ "zero" \in Byte
      BY <1>2 DEF Byte
    <2> QED
      BY <2>1, PinglessByByte
  <1> QED
    BY <1>1, <1>2

(* A lone ping between two sequences can be left out.                      *)
LEMMA LonePingBetween ==
  ASSUME NEW s \in Seq(Byte), NEW t \in Seq(Byte), NEW u \in Seq(Byte),
         t \in {<<>>, <<"zero">>}
  PROVE  Pingless(s \o (t \o u)) = Pingless(s \o u)
  <1>1. /\ Pingless(s) \in Seq(Byte) /\ Pingless(u) \in Seq(Byte)
        /\ t \o u \in Seq(Byte)
    BY PinglessByByte, JoinedBytes
  <1>2. Pingless(t \o u) = Pingless(t) \o Pingless(u)
    BY PinglessOfConcat
  <1>3. Pingless(t) = <<>>
    BY LonePing
  <1>4. Pingless(t \o u) = Pingless(u)
    BY <1>1, <1>2, <1>3, ConcatEmptySeq
  <1>5. /\ Pingless(s \o (t \o u)) = Pingless(s) \o Pingless(t \o u)
        /\ Pingless(s \o u) = Pingless(s) \o Pingless(u)
    BY <1>1, PinglessOfConcat
  <1> QED
    BY <1>4, <1>5

(* What there is is passed on, or dropped if it is a lone ping, and the    *)
(* connection ends or waits for more.                                      *)
LEMMA Processed ==
  ASSUME BytesOK, socket = "Connected", NEW telegrams \in Seq(Byte),
         processMessages(telegrams)
  PROVE  /\ ParsedOK
         /\ buffer' = <<>>
         /\ \A rest \in Seq(Byte) :
              Pingless(got' \o rest) = Pingless(got \o (telegrams \o rest))
         /\ \/ socket' = "Connected" /\ aftnState' = "Receiving"
            \/ socket' = "Unconnected" /\ aftnState' = "Unconnected"
  <1>1. got \in Seq(Byte) /\ confirmed \in Nat /\ confirmed <= EndMarks(got)
    BY DEF BytesOK
  <1>2. got \o telegrams \in Seq(Byte) /\ <<>> \in Seq(Byte)
    BY <1>1
  <1>3. /\ confirmed + EndMarks(telegrams) \in Nat
        /\ confirmed + EndMarks(telegrams) <= EndMarks(got \o telegrams)
        /\ confirmed <= EndMarks(got \o telegrams)
    BY <1>1, ConfirmedOK
  <1>4. CASE telegrams \in {<<>>, <<"zero">>}
    <2>1. /\ aftnState' = "Receiving" /\ buffer' = <<>>
          /\ UNCHANGED <<socket, got, confirmed>>
      BY <1>4, Zenon DEF processMessages
    <2>2. \A rest \in Seq(Byte) :
            Pingless(got \o rest) = Pingless(got \o (telegrams \o rest))
      BY <1>1, <1>4, LonePingBetween
    <2> QED
      BY <1>1, <1>2, <2>1, <2>2 DEF ParsedOK
  <1>5. CASE telegrams \notin {<<>>, <<"zero">>}
    <2>1. /\ got' = got \o telegrams
          /\ buffer' = <<>>
          /\ \/ /\ aftnState' = "Receiving"
                /\ confirmed' = confirmed + EndMarks(telegrams)
                /\ UNCHANGED socket
             \/ /\ socket' = "Unconnected"
                /\ aftnState' = "Unconnected"
                /\ UNCHANGED confirmed
      BY <1>5, Zenon DEF processMessages
    <2>2. \A rest \in Seq(Byte) :
            (got \o telegrams) \o rest = got \o (telegrams \o rest)
      BY <1>1, JoinedThree
    <2>3. \A rest \in Seq(Byte) :
            Pingless(got' \o rest) = Pingless(got \o (telegrams \o rest))
      BY <2>1, <2>2
    <2> QED
      BY <1>1, <1>2, <1>3, <2>1, <2>3 DEF ParsedOK
  <1> QED
    BY <1>4, <1>5

(* Bytes are read.  Data is what there was and has been read, left what    *)
(* has not been read of it.                                                *)
LEMMA ParsedArrives ==
  ASSUME ArriveInv, socket = "Connected", NEW data \in Seq(Byte), data # <<>>,
         NEW left \in Seq(Byte), data \o left = buffer \o wire,
         parseBuffer(data), UNCHANGED <<step, sent>>,
         wire' = IF socket' = "Connected" THEN left ELSE <<>>,
         wire # <<>>
  PROVE  ArriveInv'
  <1>1. /\ BytesOK /\ aftnState \in Listening
        /\ aftnState # "WaitForAuthorizationInfo" => buffer = <<>>
        /\ NothingSaid \/ Refusal \/ ReplyOnly \/ Telegrams
    BY DEF ArriveInv, Passing
  <1>2. /\ wire \in Seq(Byte) /\ buffer \in Seq(Byte)
        /\ sent \in Seq(Byte) /\ got \in Seq(Byte)
        /\ confirmed \in Nat /\ confirmed <= EndMarks(got)
    BY <1>1 DEF BytesOK
  <1>3. wire' \in Seq(Byte)
    BY EmptySeq
  <1>4. sent' \in Seq(Byte)
    BY <1>2
  (* A connection that does not go on has nothing left to say. *)
  <1>5. ASSUME ParsedOK, socket' \in {"Unconnected", "Closing"},
               aftnState' \in {"Unconnected", "Closing"}
        PROVE  ArriveInv'
    BY <1>3, <1>4, <1>5 DEF ArriveInv, BytesOK, Quiet, Fresh, Passing, ParsedOK
  (* And one that does is where the rest of the stream says. *)
  <1>6. ASSUME ParsedOK, socket' = "Connected", aftnState' \in Listening,
               aftnState' # "WaitForAuthorizationInfo" => buffer' = <<>>,
               Refusal' \/ ReplyOnly' \/ Telegrams'
        PROVE  ArriveInv'
    BY <1>3, <1>4, <1>6 DEF ArriveInv, BytesOK, Quiet, Fresh, Passing, ParsedOK
  <1>7. /\ Due(aftnState) \in Seq(Byte)
        /\ Len(Due(aftnState)) = HeaderSize
        /\ HeaderSize \in Nat
    BY <1>1, DueIsBytes
  <1>8. InfoBytes \in Seq(Byte) /\ Len(InfoBytes) = InfoSize /\ InfoSize > 0
    BY InfoIsBytes, AftnAssumption
  <1>9. CASE refused(data)
    <2>1. /\ socket' \in {"Unconnected", "Closing"}
          /\ aftnState' \in {"Unconnected", "Closing"}
          /\ buffer' \in {<<>>, data}
          /\ UNCHANGED <<got, confirmed>>
      BY <1>9, Zenon DEF refused, Unconnect, Close
    <2>2. ParsedOK
      BY <1>2, <2>1, EmptySeq DEF ParsedOK
    <2> QED
      BY <1>5, <2>1, <2>2
  <1>10. CASE awaitInfo(data) /\ (aftnState = "Authorizating" => Head(data) = "success")
    <2>1. /\ Len(data) < HeaderSize
          /\ aftnState' = "WaitForAuthorizationInfo"
          /\ buffer' = IF aftnState = "Authorizating" THEN Tail(data) ELSE data
          /\ UNCHANGED <<socket, got, confirmed>>
      BY <1>10, Zenon DEF awaitInfo
    <2>2. Tail(data) \in Seq(Byte)
      OBVIOUS
    <2>3. ParsedOK
      BY <1>2, <2>1, <2>2 DEF ParsedOK
    <2>4. wire' = left
      BY <2>1
    <2>5. CASE ReplyOnly
      <3>1. step = "info" /\ buffer = <<>> /\ sent = <<>> /\ got = <<>>
            /\ wire = Success /\ aftnState = "Authorizating"
        BY <1>8, <2>1, <2>5, EmptySeq DEF ReplyOnly, HeaderSize
      <3>2. <<>> \in Seq(Byte) /\ data \o left = Success \o <<>>
        BY <1>2, <3>1, ReplyIsBytes, ConcatEmptySeq
      <3>3. Tail(data) \o left = <<>>
        <4>1. Follows(<<>>, data, left)
          BY <3>2, ReplyIsBytes, WithoutFirst
        <4> QED
          BY <4>1 DEF Follows
      <3>4. Tail(data) = <<>> /\ left = <<>>
        BY <2>2, <3>3, JoinedBytes, EmptySeq, LenProperties
      <3>5. ReplyOnly'
        BY <2>1, <2>4, <3>1, <3>4 DEF ReplyOnly
      <3> QED
        BY <1>6, <2>1, <2>3, <3>5 DEF Listening
    <2>6. CASE Telegrams
      <3>1. PICK tail \in Seq(Byte) :
              /\ buffer \o wire = Due(aftnState) \o tail
              /\ Pingless(sent) = Pingless(got \o tail)
        BY <2>6 DEF Telegrams, Underway
      <3>2. InfoBytes \o tail \in Seq(Byte)
        BY <1>8
      <3>3. buffer' \o left = InfoBytes \o tail
        <4>1. CASE aftnState = "Authorizating"
          <5>1. Due(aftnState) = Success \o InfoBytes
            BY <4>1 DEF Due
          <5>2. (Success \o InfoBytes) \o tail = Success \o (InfoBytes \o tail)
            <6>1. InfoBytes \in Seq(Byte) /\ Success \in Seq(Byte)
              BY <1>8, ReplyIsBytes
            <6> QED
              BY <6>1, JoinedThree
          <5>3. data \o left = Success \o (InfoBytes \o tail)
            BY <3>1, <5>1, <5>2, Zenon
          <5>4. Tail(data) \o left = InfoBytes \o tail
            <6>1. Follows(InfoBytes \o tail, data, left)
              BY <3>2, <5>3, ReplyIsBytes, WithoutFirst
            <6> QED
              BY <6>1 DEF Follows
          <5> QED
            BY <2>1, <4>1, <5>4
        <4>2. CASE aftnState = "WaitForAuthorizationInfo"
          BY <2>1, <3>1, <4>2 DEF Due
        <4>3. CASE aftnState = "Receiving"
          <5>1. HeaderSize = 0 /\ Len(data) \in Nat
            BY <4>3, LenProperties DEF HeaderSize
          <5> QED
            BY <2>1, <5>1
        <4> QED
          BY <1>1, <4>1, <4>2, <4>3 DEF Listening
      <3>4. Due(aftnState') = InfoBytes
        BY <2>1 DEF Due
      <3>5. Underway(tail)'
        BY <2>1, <2>4, <3>1, <3>3, <3>4 DEF Underway
      <3>6. step' = "telegrams"
        BY <2>6 DEF Telegrams
      <3>7. Telegrams'
        BY <3>5, <3>6 DEF Telegrams
      <3> QED
        BY <1>6, <2>1, <2>3, <3>7 DEF Listening
    <2>7. CASE Refusal
      <3>1. aftnState = "Authorizating" /\ buffer = <<>> /\ wire = Failed
        BY <1>1, <2>7 DEF Refusal
      <3>2. <<>> \in Seq(Byte) /\ data \o left = Failed \o <<>>
        BY <1>2, <3>1, ReplyIsBytes, ConcatEmptySeq
      <3>3. Head(data) = "failed"
        BY <3>2, ReplyIsBytes, WithoutFirst
      <3> QED
        BY <1>10, <3>1, <3>3
    <2>8. ~ NothingSaid
      BY DEF NothingSaid
    <2> QED
      BY <1>1, <2>5, <2>6, <2>7, <2>8
  <1>11. CASE /\ aftnState = "Authorizating" => Head(data) = "success"
              /\ Len(data) >= HeaderSize
              /\ processMessages(SubSeq(data, HeaderSize + 1, Len(data)))
    <2> DEFINE telegrams == SubSeq(data, HeaderSize + 1, Len(data))
    <2>1. telegrams \in Seq(Byte)
      BY <1>7, LenProperties
    <2>2. processMessages(telegrams)
      BY <1>11
    <2>3. /\ ParsedOK
          /\ buffer' = <<>>
          /\ \A rest \in Seq(Byte) :
               Pingless(got' \o rest) = Pingless(got \o (telegrams \o rest))
          /\ \/ socket' = "Connected" /\ aftnState' = "Receiving"
             \/ socket' = "Unconnected" /\ aftnState' = "Unconnected"
      <3> HIDE DEF telegrams
      <3> QED
        BY <1>1, <2>1, <2>2, Processed
    <2>4. CASE Telegrams
      <3>1. PICK tail \in Seq(Byte) :
              /\ buffer \o wire = Due(aftnState) \o tail
              /\ Pingless(sent) = Pingless(got \o tail)
        BY <2>4 DEF Telegrams, Underway
      <3>2. telegrams \o left = tail
        <4> DEFINE h == Due(aftnState)
        <4>1. h \in Seq(Byte) /\ Len(h) = HeaderSize
          BY <1>7
        <4>2. data \o left = h \o tail
          BY <3>1
        <4> HIDE DEF h
        <4>3. Len(data) >= Len(h)
          BY <1>11, <4>1
        <4>4. SubSeq(data, Len(h) + 1, Len(data)) \o left = tail
          BY <4>1, <4>2, <4>3, BeyondHeader
        <4> QED
          BY <4>1, <4>4
      <3> HIDE DEF telegrams
      <3>3. Pingless(sent) = Pingless(got' \o left)
        BY <2>3, <3>1, <3>2
      <3>4. CASE socket' = "Connected" /\ aftnState' = "Receiving"
        <4>1. wire' = left
          BY <3>4
        <4>2. Due(aftnState') = <<>>
          BY <3>4 DEF Due
        <4>3. Underway(left)'
          BY <2>3, <3>3, <4>1, <4>2 DEF Underway
        <4>4. step' = "telegrams"
          BY <2>4 DEF Telegrams
        <4>5. Telegrams'
          BY <4>3, <4>4 DEF Telegrams
        <4> QED
          BY <1>6, <2>3, <3>4, <4>5 DEF Listening
      <3>5. CASE socket' = "Unconnected" /\ aftnState' = "Unconnected"
        BY <1>5, <2>3, <3>5
      <3> QED
        BY <2>3, <3>4, <3>5
    <2>5. CASE ReplyOnly
      <3>1. buffer = <<>> /\ wire = Success /\ aftnState = "Authorizating"
        BY <2>5 DEF ReplyOnly
      <3>2. Len(data) <= 1
        <4>1. data \o left = Success
          BY <1>2, <3>1, ConcatEmptySeq
        <4>2. Len(data \o left) = Len(data) + Len(left)
          BY JoinedBytes
        <4>3. Len(data) \in Nat /\ Len(left) \in Nat
          BY LenProperties
        <4>4. Len(Success) = 1
          BY ReplyIsBytes
        <4> QED
          BY <4>1, <4>2, <4>3, <4>4
      <3>3. HeaderSize = 1 + InfoSize
        BY <3>1 DEF HeaderSize
      <3> QED
        BY <1>8, <1>11, <3>2, <3>3, AftnAssumption, LenProperties
    <2>6. CASE Refusal
      <3>1. aftnState = "Authorizating" /\ buffer = <<>> /\ wire = Failed
        BY <1>1, <2>6 DEF Refusal
      <3>2. <<>> \in Seq(Byte) /\ data \o left = Failed \o <<>>
        BY <1>2, <3>1, ReplyIsBytes, ConcatEmptySeq
      <3>3. Head(data) = "failed"
        BY <3>2, ReplyIsBytes, WithoutFirst
      <3> QED
        BY <1>11, <3>1, <3>3
    <2>7. ~ NothingSaid
      BY DEF NothingSaid
    <2> QED
      BY <1>1, <2>4, <2>5, <2>6, <2>7
  <1> QED
    BY <1>9, <1>10, <1>11, Zenon DEF parseBuffer

LEMMA ArriveStep ==
  ASSUME ArriveInv, CleanInv, CleanInv', [Next]_vars
  PROVE  ArriveInv'
  <1>1. /\ wire \in Seq(Byte) /\ buffer \in Seq(Byte)
        /\ sent \in Seq(Byte) /\ got \in Seq(Byte)
        /\ confirmed \in Nat /\ confirmed <= EndMarks(got)
    BY DEF ArriveInv, BytesOK
  <1>2. Quiet /\ Fresh /\ Passing
    BY DEF ArriveInv
  <1>3. EndMarks(<<>>) = 0 /\ <<>> \in Seq(Byte)
    BY MarksByByte
  (* The end of a connection. *)
  <1>4. ASSUME wire' = <<>>, socket' \in {"Unconnected", "Closing"},
               aftnState' \in {"Unconnected", "Authorizating", "Closing"},
               buffer' \in {<<>>, buffer}, UNCHANGED <<sent, got, confirmed>>
        PROVE  ArriveInv'
    BY <1>1, <1>3, <1>4 DEF ArriveInv, BytesOK, Quiet, Fresh, Passing
  <1>5. CASE connectToHost
    <2>1. /\ socket = "Unconnected" /\ socket' = "Connecting"
          /\ aftnState' = "Connecting" /\ step' = "reply"
          /\ sent' = <<>> /\ got' = <<>> /\ confirmed' = 0
          /\ UNCHANGED <<buffer, wire>>
      BY <1>5 DEF connectToHost
    <2> QED
      BY <1>1, <1>2, <1>3, <2>1 DEF ArriveInv, BytesOK, Quiet, Fresh, Passing
  <1>6. CASE connected
    <2>1. socket = "Connecting" /\ UNCHANGED <<step, sent, got, confirmed>>
      BY <1>6 DEF connected, serverVars, historyVars
    <2>2. wire = <<>> /\ step = "reply" /\ sent = <<>> /\ got = <<>>
      BY <1>2, <2>1 DEF Quiet, Fresh
    <2>3. CASE /\ aftnState' = "Authorizating" /\ UNCHANGED wire
               /\ socket' = "Connected" /\ buffer' = <<>>
      <3>1. NothingSaid'
        BY <2>1, <2>2, <2>3 DEF NothingSaid
      <3> QED
        BY <1>1, <1>3, <2>1, <2>2, <2>3, <3>1
        DEF ArriveInv, BytesOK, Quiet, Fresh, Passing, Listening
    <2>4. CASE /\ aftnState' = "Authorizating" /\ UNCHANGED wire
               /\ socket' = "Unconnected" /\ closeChannel
      BY <1>4, <2>1, <2>2, <2>4 DEF closeChannel
    <2>5. CASE Unconnect /\ closeChannel
      BY <1>4, <2>1, <2>5 DEF Unconnect, closeChannel
    <2>6. CASE Close /\ buffer' = <<>>
      BY <1>4, <2>1, <2>6 DEF Close
    <2> QED
      BY <1>6, <2>3, <2>4, <2>5, <2>6, Zenon DEF connected, sendAuthorizationRequest
  <1>7. CASE serverSpeaks
    <2>1. /\ socket = "Connected"
          /\ UNCHANGED <<socket, aftnState, buffer, got, confirmed>>
      BY <1>7 DEF serverSpeaks, historyVars
    <2>2. /\ aftnState \in Listening
          /\ aftnState # "WaitForAuthorizationInfo" => buffer = <<>>
          /\ NothingSaid \/ Refusal \/ ReplyOnly \/ Telegrams
      BY <1>2, <2>1 DEF Passing
    <2>3. ASSUME wire' \in Seq(Byte), sent' \in Seq(Byte),
                 Refusal' \/ ReplyOnly' \/ Telegrams'
          PROVE  ArriveInv'
      BY <1>1, <2>1, <2>2, <2>3 DEF ArriveInv, BytesOK, Quiet, Fresh, Passing
    <2>4. CASE replies
      <3>1. NothingSaid /\ UNCHANGED sent
        BY <2>2, <2>4 DEF replies, Refusal, ReplyOnly, Telegrams
      <3>2. \/ wire' = Success /\ step' = "info"
            \/ wire' = Failed /\ step' = "nothing"
        BY <2>4, <3>1 DEF replies, NothingSaid, Success, Failed
      <3>3. wire' \in Seq(Byte)
        BY <3>2, ReplyIsBytes
      <3>4. Refusal' \/ ReplyOnly'
        BY <2>1, <2>2, <3>1, <3>2 DEF NothingSaid, Refusal, ReplyOnly
      <3> QED
        BY <1>1, <2>3, <3>1, <3>3, <3>4
    <2>5. CASE informs
      <3>1. ReplyOnly /\ UNCHANGED sent
        BY <2>2, <2>5 DEF informs, NothingSaid, Refusal, Telegrams
      <3>2. wire' = wire \o InfoBytes /\ step' = "telegrams" /\ InfoBytes \in Seq(Byte)
        BY <2>5, InfoIsBytes DEF informs, InfoBytes
      <3>3. wire' \in Seq(Byte)
        BY <1>1, <3>2
      <3>4. Underway(<<>>)'
        <4>1. Pingless(sent') = Pingless(got' \o <<>>)
          BY <1>3, <2>1, <3>1, ConcatEmptySeq DEF ReplyOnly
        <4>2. Due(aftnState') \o <<>> = Due(aftnState')
          BY <2>1, <2>2, DueIsBytes, ConcatEmptySeq
        <4>3. buffer' \o wire' = Due(aftnState')
          <5>1. CASE aftnState = "Authorizating" /\ wire = Success
            <6>1. Due(aftnState') = Success \o InfoBytes
              BY <2>1, <5>1 DEF Due
            <6>2. buffer' \o wire' = wire'
              BY <2>1, <3>1, <3>3, ConcatEmptySeq DEF ReplyOnly
            <6> QED
              BY <3>2, <5>1, <6>1, <6>2
          <5>2. CASE aftnState = "WaitForAuthorizationInfo" /\ wire = <<>>
            <6>1. Due(aftnState') = InfoBytes
              BY <2>1, <5>2 DEF Due
            <6>2. buffer' \o wire' = wire'
              BY <2>1, <3>1, <3>3, ConcatEmptySeq DEF ReplyOnly
            <6>3. wire' = InfoBytes
              BY <3>2, <5>2, ConcatEmptySeq
            <6> QED
              BY <6>1, <6>2, <6>3
          <5> QED
            BY <3>1, <5>1, <5>2 DEF ReplyOnly
        <4> QED
          BY <4>1, <4>2, <4>3 DEF Underway
      <3>5. Telegrams'
        BY <1>3, <3>2, <3>4 DEF Telegrams
      <3> QED
        BY <1>1, <2>3, <3>1, <3>3, <3>5
    <2>6. CASE talks
      <3>1. PICK bytes \in {<<"text", "N", "NNN">>, <<"zero">>} :
              wire' = wire \o bytes /\ sent' = sent \o bytes
        BY <2>6 DEF talks
      <3>2. step = "telegrams" /\ step' = "telegrams"
        BY <2>6 DEF talks
      <3>3. bytes \in Seq(Byte)
        BY <3>1, SaidIsBytes
      <3>4. Telegrams
        BY <2>2, <3>2 DEF NothingSaid, Refusal, ReplyOnly
      <3>5. PICK tail \in Seq(Byte) :
              /\ buffer \o wire = Due(aftnState) \o tail
              /\ Pingless(sent) = Pingless(got \o tail)
        BY <3>4 DEF Telegrams, Underway
      <3>6. /\ got \in Seq(Byte) /\ sent \in Seq(Byte)
            /\ tail \o bytes \in Seq(Byte) /\ got \o tail \in Seq(Byte)
        BY <1>1, <3>3, JoinedBytes
      <3>7. (got \o tail) \o bytes = got \o (tail \o bytes)
        <4>1. got \in Seq(Byte) /\ tail \in Seq(Byte) /\ bytes \in Seq(Byte)
          BY <3>3, <3>6
        <4> QED
          BY <4>1, ConcatAssociative
      <3>8. Pingless(sent') = Pingless(got' \o (tail \o bytes))
        <4>1. Pingless(sent \o bytes) = Pingless(sent) \o Pingless(bytes)
          BY <3>3, <3>6, PinglessOfConcat
        <4>2. Pingless((got \o tail) \o bytes) = Pingless(got \o tail) \o Pingless(bytes)
          BY <3>3, <3>6, PinglessOfConcat
        <4> QED
          BY <2>1, <3>1, <3>5, <3>7, <4>1, <4>2
      <3>9. buffer' \o wire' = Due(aftnState') \o (tail \o bytes)
        <4>1. Due(aftnState) \in Seq(Byte)
          BY <2>2, DueIsBytes
        <4>2. buffer \o (wire \o bytes) = (buffer \o wire) \o bytes
          <5>1. wire \in Seq(Byte) /\ buffer \in Seq(Byte)
            BY <1>1
          <5> QED
            BY <3>3, <5>1, ConcatAssociative
        <4>3. (Due(aftnState) \o tail) \o bytes = Due(aftnState) \o (tail \o bytes)
          BY <3>3, <4>1, JoinedThree, Zenon
        <4> QED
          BY <2>1, <3>1, <3>5, <4>2, <4>3
      <3>10. Telegrams'
        BY <3>2, <3>6, <3>8, <3>9 DEF Telegrams, Underway
      <3>11. wire' \in Seq(Byte) /\ sent' \in Seq(Byte)
        BY <1>1, <3>1, <3>3
      <3> QED
        BY <2>3, <3>10, <3>11
    <2> QED
      BY <1>7, <2>4, <2>5, <2>6 DEF serverSpeaks
  <1>8. CASE onReadyRead
    <2>1. PICK n \in 1 .. Len(wire) :
            /\ parseBuffer(buffer \o SubSeq(wire, 1, n))
            /\ wire' = IF socket' = "Connected" THEN SubSeq(wire, n + 1, Len(wire))
                                                ELSE <<>>
      BY <1>8 DEF onReadyRead, readSocket
    <2>2. socket = "Connected" /\ UNCHANGED <<step, sent>>
      BY <1>8 DEF onReadyRead, serverVars
    <2> DEFINE data == buffer \o SubSeq(wire, 1, n)
               left == SubSeq(wire, n + 1, Len(wire))
    <2>3. /\ data \in Seq(Byte) /\ data # <<>> /\ left \in Seq(Byte)
          /\ data \o left = buffer \o wire
      BY <1>1, <2>1, ReadAndLeft
    <2>4. wire # <<>>
      BY <2>1
    <2>5. parseBuffer(data) /\ wire' = IF socket' = "Connected" THEN left ELSE <<>>
      BY <2>1
    <2> HIDE DEF data, left
    <2> QED
      BY <2>2, <2>3, <2>4, <2>5, ParsedArrives
  <1>9. CASE pingTimeout
    <2>1. UNCHANGED <<step, sent, got, confirmed>>
      BY <1>9 DEF pingTimeout, serverVars, historyVars
    <2>2. CASE socket = "Connecting" /\ UNCHANGED <<socket, aftnState, buffer, wire>>
      BY <1>1, <1>2, <2>1, <2>2
      DEF ArriveInv, BytesOK, Quiet, Fresh, Passing
    <2>3. CASE Unconnect /\ closeChannel
      BY <1>4, <2>1, <2>3 DEF Unconnect, closeChannel
    <2>4. CASE Close /\ UNCHANGED <<buffer, pingTimer, pingTimeoutTimer>>
      BY <1>4, <2>1, <2>4 DEF Close
    <2> QED
      BY <1>9, <2>2, <2>3, <2>4, Zenon DEF pingTimeout, disconnectFromHost
  <1>10. CASE disconnected
    BY <1>4, <1>10 DEF disconnected, Unconnect, closeChannel, serverVars, historyVars
  <1>11. CASE UNCHANGED vars
    <2>1. UNCHANGED <<socket, aftnState, buffer, wire, step, sent, got, confirmed>>
      BY <1>11 DEF vars, serverVars, historyVars
    <2> QED
      BY <1>1, <1>2, <2>1 DEF ArriveInv, BytesOK, Quiet, Fresh, Passing,
         NothingSaid, Refusal, ReplyOnly, Telegrams, Underway
  <1> QED
    BY <1>5, <1>6, <1>7, <1>8, <1>9, <1>10, <1>11 DEF Next

(* While telegrams are received, what has been passed on and what is under *)
(* way are, but for pings, what the server has sent, in order, however the *)
(* stream was cut, and no more is confirmed than was passed on.            *)
THEOREM TelegramsPassedOn == Spec => []TelegramsArrive
  <1>1. Init => CleanInv /\ ArriveInv
    <2> SUFFICES ASSUME Init PROVE CleanInv /\ ArriveInv
      OBVIOUS
    <2>1. CleanInv
      BY DEF Init, CleanInv, StateOK, EndIsClean
    <2>2. EndMarks(<<>>) = 0 /\ <<>> \in Seq(Byte)
      BY MarksByByte
    <2>3. ArriveInv
      BY <2>2 DEF Init, ArriveInv, BytesOK, Quiet, Fresh, Passing
    <2> QED
      BY <2>1, <2>3
  <1>2. CleanInv /\ [Next]_vars => CleanInv'
    BY CleanStep
  <1>3. ArriveInv /\ CleanInv /\ CleanInv' /\ [Next]_vars => ArriveInv'
    BY ArriveStep
  <1>4. ArriveInv /\ CleanInv => TelegramsArrive
    <2> SUFFICES ASSUME ArriveInv, CleanInv, aftnState = "Receiving"
                 PROVE  Pingless(sent) = Pingless(got \o wire)
      BY DEF ArriveInv, BytesOK, TelegramsArrive
    <2>1. socket = "Connected"
      BY DEF ArriveInv, Quiet
    <2>2. Telegrams /\ buffer = <<>> /\ wire \in Seq(Byte)
      BY <2>1 DEF ArriveInv, BytesOK, Passing, NothingSaid, Refusal, ReplyOnly
    <2>3. PICK tail \in Seq(Byte) :
            /\ buffer \o wire = Due(aftnState) \o tail
            /\ Pingless(sent) = Pingless(got \o tail)
      BY <2>2 DEF Telegrams, Underway
    <2>4. Due(aftnState) = <<>>
      BY DEF Due
    <2>5. wire = tail
      BY <2>2, <2>3, <2>4, ConcatEmptySeq
    <2> QED
      BY <2>3, <2>5
  <1> QED
    BY <1>1, <1>2, <1>3, <1>4, PTL DEF Spec
=============================================================================
