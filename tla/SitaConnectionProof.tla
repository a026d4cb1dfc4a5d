------------------------ MODULE SitaConnectionProof ------------------------
(***************************************************************************)
(* Proofs about Matip and the SitaConnection above it, for headers of any  *)
(* size, any messages that fit the length field, wires of any length and   *)
(* segments cut anywhere.                                                  *)
(***************************************************************************)
EXTENDS SitaConnection, SequenceTheorems, TLAPS

----------------------------------------------------------------------------
(* Sequences. *)

LEMMA ConcatElement ==
  ASSUME NEW S, NEW s \in Seq(S), NEW t \in Seq(S)
  PROVE  /\ s \o t \in Seq(S)
         /\ Len(s \o t) = Len(s) + Len(t)
         /\ \A i \in 1 .. Len(s) : (s \o t)[i] = s[i]
         /\ \A i \in 1 .. Len(t) : (s \o t)[Len(s) + i] = t[i]
  BY ConcatProperties, LenProperties

(* What is left after n elements.                                          *)
LEMMA RestElement ==
  ASSUME NEW S, NEW s \in Seq(S), NEW n \in 0 .. Len(s)
  PROVE  /\ SubSeq(s, n + 1, Len(s)) \in Seq(S)
         /\ Len(SubSeq(s, n + 1, Len(s))) = Len(s) - n
         /\ \A i \in 1 .. Len(s) - n : SubSeq(s, n + 1, Len(s))[i] = s[n + i]
  BY LenProperties

LEMMA PrefixElement ==
  ASSUME NEW S, NEW s \in Seq(S), NEW a \in Nat, NEW n \in Nat, a + n <= Len(s)
  PROVE  /\ SubSeq(s, a + 1, a + n) \in Seq(S)
         /\ Len(SubSeq(s, a + 1, a + n)) = n
         /\ \A i \in 1 .. n : SubSeq(s, a + 1, a + n)[i] = s[a + i]
  BY LenProperties

----------------------------------------------------------------------------
(* Packets and their bytes. *)

Command == {"SessionOpen", "OpenConfirm", "OpenRefuse", "SessionClose",
            "StatusQuery", "StatusResponse", "StopTransmission",
            "ResumeTransmission"}

Header      == [command: Command \cup {"None"}, size: Nat, at: Nat]
TextByte    == [text: Nat, at: Nat]
PayloadByte == [payload: Command, at: Nat]
Byte        == Header \cup TextByte \cup PayloadByte

LEMMA JoinedBytes ==
  \A x, y \in Seq(Byte) :
    /\ x \o y \in Seq(Byte)
    /\ Len(x \o y) = Len(x) + Len(y)
    /\ \A i \in 1 .. Len(x) : (x \o y)[i] = x[i]
    /\ \A i \in 1 .. Len(y) : (x \o y)[Len(x) + i] = y[i]
  BY ConcatElement

LEMMA JoinedThree ==
  \A x, y, z \in Seq(Byte) : (x \o y) \o z = x \o (y \o z)
  BY ConcatAssociative

(* A message fits the length field. *)
Fits == {text \in Seq(Byte) : Len(text) < Width}

Packet == [command: Command \cup {"None"}, text: Fits]

Payload(p) == IF p.command = "None" THEN Len(p.text) ELSE PayloadSize[p.command]
Size(p)    == headerSize + Payload(p)
Wire(p)    == IF p.command = "None" THEN DataPacket(p.text)
                                    ELSE ControlPacket(p.command)

LEMMA PayloadType ==
  ASSUME NEW p \in Packet
  PROVE  Payload(p) \in Nat /\ Payload(p) < Width
  <1>1. CASE p.command = "None"
    BY <1>1, LenProperties DEF Payload, Packet, Fits
  <1>2. CASE p.command \in Command
    BY <1>2, MatipAssumption DEF Payload, Command, PayloadSize
  <1> QED
    BY <1>1, <1>2 DEF Packet

(* Subtraction undoes addition in the 16 bits of the length field.         *)
LEMMA LengthField ==
  ASSUME NEW n \in Nat, n < Width
  PROVE  /\ (headerSize + n) % Width \in Nat
         /\ (((headerSize + n) % Width) - headerSize) % Width = n
  <1> USE MatipAssumption
  <1>1. headerSize < Width /\ Width \in Nat \ {0}
    OBVIOUS
  <1>2. CASE headerSize + n < Width
    <2>1. (headerSize + n) % Width = headerSize + n
      BY <1>1, <1>2
    <2>2. (headerSize + n) - headerSize = n /\ n % Width = n
      BY <1>1
    <2> QED
      BY <2>1, <2>2
  <1>3. CASE headerSize + n >= Width
    <2>1. (headerSize + n) % Width = headerSize + n - Width
      BY <1>1, <1>3
    <2>2. (headerSize + n - Width) - headerSize = n - Width
      OBVIOUS
    <2>3. (n - Width) % Width = n
      BY <1>1
    <2> QED
      BY <1>3, <2>1, <2>2, <2>3
  <1> QED
    BY <1>2, <1>3

(* The bytes of a packet: its header first, which gives the command and    *)
(* the number of the bytes that follow.                                    *)
LEMMA WireBytes ==
  ASSUME NEW p \in Packet
  PROVE  /\ Wire(p) \in Seq(Byte)
         /\ Len(Wire(p)) = Size(p)
         /\ Size(p) \in Nat /\ Size(p) >= headerSize /\ headerSize \in Nat \ {0}
         /\ IsValid(Wire(p)[1])
         /\ Wire(p)[1].command = p.command
         /\ dataSize(Wire(p)[1]) = Payload(p)
         /\ p.command = "None" =>
              \A i \in 1 .. Len(p.text) : Wire(p)[headerSize + i] = p.text[i]
  <1> DEFINE header == make(p.command, headerSize + Payload(p))
             body == IF p.command = "None" THEN p.text
                     ELSE [at \in 1 .. PayloadSize[p.command] |->
                             [payload |-> p.command, at |-> at]]
  <1>1. Payload(p) \in Nat /\ Payload(p) < Width /\ headerSize \in Nat \ {0}
    BY PayloadType, MatipAssumption
  <1>2. Wire(p) = header \o body
    BY DEF Wire, DataPacket, ControlPacket, Payload
  <1>3. (headerSize + Payload(p)) % Width \in Nat
    BY <1>1, LengthField
  <1>4. header \in Seq(Byte) /\ Len(header) = headerSize
    <2>1. \A i \in 1 .. headerSize :
            [command |-> p.command, size |-> (headerSize + Payload(p)) % Width,
             at |-> i] \in Byte
      BY <1>3 DEF Byte, Header, Packet
    <2>2. header \in [1 .. headerSize -> Byte]
      BY <2>1 DEF make
    <2> HIDE DEF header
    <2> QED
      BY <1>1, <2>2, LenProperties
  <1>5. body \in Seq(Byte) /\ Len(body) = Payload(p)
    <2>1. CASE p.command = "None"
      BY <2>1 DEF Packet, Fits, Payload
    <2>2. CASE p.command # "None"
      <3>1. body \in [1 .. Payload(p) -> Byte]
        BY <2>2 DEF Payload, Byte, PayloadByte, Packet
      <3> HIDE DEF body
      <3> QED
        BY <1>1, <3>1, LenProperties
    <2> QED
      BY <2>1, <2>2
  <1>6. header[1] = [command |-> p.command,
                     size |-> (headerSize + Payload(p)) % Width, at |-> 1]
    BY <1>1 DEF make
  <1> HIDE DEF header, body
  <1>7. /\ header \o body \in Seq(Byte)
        /\ Len(header \o body) = headerSize + Payload(p)
        /\ (header \o body)[1] = header[1]
        /\ \A i \in 1 .. Payload(p) : (header \o body)[headerSize + i] = body[i]
    <2>1. 1 \in 1 .. Len(header)
      BY <1>1, <1>4
    <2>2. /\ header \o body \in Seq(Byte)
          /\ Len(header \o body) = Len(header) + Len(body)
          /\ \A i \in 1 .. Len(header) : (header \o body)[i] = header[i]
          /\ \A i \in 1 .. Len(body) :
               (header \o body)[Len(header) + i] = body[i]
      BY <1>4, <1>5, JoinedBytes, Zenon
    <2> QED
      BY <1>4, <1>5, <2>1, <2>2
  <1>8. /\ IsValid(Wire(p)[1])
        /\ Wire(p)[1].command = p.command
        /\ dataSize(Wire(p)[1]) = Payload(p)
    BY <1>1, <1>2, <1>6, <1>7, LengthField DEF IsValid, dataSize
  <1>9. p.command = "None" => body = p.text /\ Len(p.text) = Payload(p)
    BY DEF body, Payload
  <1>10. headerSize + Payload(p) >= headerSize /\ headerSize + Payload(p) \in Nat
    BY <1>1
  <1> QED
    BY <1>1, <1>2, <1>7, <1>8, <1>9, <1>10 DEF Size

----------------------------------------------------------------------------
(* The packets on their way to one end: those numbered first to last, of   *)
(* which it will read the next one first.  Before the k-th there are at[k] *)
(* bytes, no[k] messages, asks[k] queries and answers[k] answers to        *)
(* queries.                                                                *)
Track == [packets: [Nat -> Packet], at: [Nat -> Nat], no: [Nat -> Nat],
          asks: [Nat -> Nat], answers: [Nat -> Nat], first: Nat, last: Nat]

One(p, command) == IF p.command = command THEN 1 ELSE 0

Counts(t) ==
  \A k \in t.first .. t.last :
    /\ t.at[k + 1] = t.at[k] + Size(t.packets[k])
    /\ t.no[k + 1] = t.no[k] + One(t.packets[k], "None")
    /\ t.asks[k + 1] = t.asks[k] + One(t.packets[k], "StatusQuery")
    /\ t.answers[k + 1] = t.answers[k] + One(t.packets[k], "StatusResponse")

(* A running count.                                                        *)
Rises(f, a, b) == \A j, k \in a .. b : j <= k => f[j] <= f[k]

Ascends(t) ==
  /\ Rises(t.at, t.first, t.last + 1)
  /\ Rises(t.no, t.first, t.last + 1)
  /\ Rises(t.asks, t.first, t.last + 1)
  /\ Rises(t.answers, t.first, t.last + 1)

IsTrack(t) ==
  /\ t \in Track
  /\ t.first <= t.last + 1
  /\ Counts(t)
  /\ Ascends(t)

(* The count after one more.                                               *)
Next1(f, n, v) == [f EXCEPT ![n + 1] = f[n] + v]

(* A packet more, and the packets before the n-th read or given up.        *)
Grow(t, p) ==
  [packets |-> [t.packets EXCEPT ![t.last + 1] = p],
   at      |-> Next1(t.at, t.last + 1, Size(p)),
   no      |-> Next1(t.no, t.last + 1, One(p, "None")),
   asks    |-> Next1(t.asks, t.last + 1, One(p, "StatusQuery")),
   answers |-> Next1(t.answers, t.last + 1, One(p, "StatusResponse")),
   first   |-> t.first,
   last    |-> t.last + 1]

MoveTo(t, n) ==
  [packets |-> t.packets, at |-> t.at, no |-> t.no, asks |-> t.asks,
   answers |-> t.answers, first |-> n, last |-> t.last]

LEMMA Next1Rises ==
  ASSUME NEW f \in [Nat -> Nat], NEW n \in Nat, NEW v \in Nat,
         NEW a \in Nat, a <= n, Rises(f, a, n)
  PROVE  /\ Next1(f, n, v) \in [Nat -> Nat]
         /\ Rises(Next1(f, n, v), a, n + 1)
  <1> DEFINE g == Next1(f, n, v)
  <1>1. f[n] + v \in Nat
    OBVIOUS
  <1>2. /\ g \in [Nat -> Nat]
        /\ g[n + 1] = f[n] + v
        /\ \A k \in Nat : k # n + 1 => g[k] = f[k]
    BY <1>1 DEF Next1
  <1> HIDE DEF g
  <1>3. ASSUME NEW j \in a .. n + 1, NEW k \in a .. n + 1, j <= k
        PROVE  g[j] <= g[k]
    <2>1. CASE k # n + 1
      <3>1. j \in a .. n /\ k \in a .. n /\ j # n + 1
        BY <1>3, <2>1
      <3>2. f[j] <= f[k]
        BY <1>3, <3>1 DEF Rises
      <3> QED
        BY <1>2, <2>1, <3>1, <3>2
    <2>2. CASE k = n + 1 /\ j # n + 1
      <3>1. j \in a .. n /\ n \in a .. n
        BY <1>3, <2>2
      <3>2. f[j] <= f[n]
        BY <1>3, <3>1 DEF Rises
      <3>3. f[j] \in Nat /\ f[n] \in Nat
        BY <3>1
      <3> QED
        BY <1>2, <2>2, <3>1, <3>2, <3>3
    <2>3. CASE k = n + 1 /\ j = n + 1
      BY <1>2, <2>3
    <2> QED
      BY <2>1, <2>2, <2>3
  <1> QED
    BY <1>2, <1>3 DEF Rises, g

LEMMA GrowFacts ==
  ASSUME NEW t, IsTrack(t), NEW p \in Packet
  PROVE  LET g == Grow(t, p)
         IN /\ IsTrack(g)
            /\ g.first = t.first
            /\ g.last = t.last + 1
            /\ \A k \in t.first .. t.last : g.packets[k] = t.packets[k]
            /\ g.packets[t.last + 1] = p
            /\ \A k \in t.first .. t.last + 1 :
                 /\ g.at[k] = t.at[k] /\ g.no[k] = t.no[k]
                 /\ g.asks[k] = t.asks[k] /\ g.answers[k] = t.answers[k]
            /\ g.at[t.last + 2] = t.at[t.last + 1] + Size(p)
            /\ g.no[t.last + 2] = t.no[t.last + 1] + One(p, "None")
            /\ g.asks[t.last + 2] = t.asks[t.last + 1] + One(p, "StatusQuery")
            /\ g.answers[t.last + 2] =
                 t.answers[t.last + 1] + One(p, "StatusResponse")
  <1> DEFINE g == Grow(t, p)
             l == t.last + 1
  <1>1. /\ t.first \in Nat /\ t.last \in Nat /\ t.packets \in [Nat -> Packet]
        /\ t.at \in [Nat -> Nat] /\ t.no \in [Nat -> Nat]
        /\ t.asks \in [Nat -> Nat] /\ t.answers \in [Nat -> Nat]
        /\ t.first <= l /\ Counts(t) /\ l \in Nat /\ l = t.last + 1
        /\ Rises(t.at, t.first, l) /\ Rises(t.no, t.first, l)
        /\ Rises(t.asks, t.first, l) /\ Rises(t.answers, t.first, l)
    BY DEF IsTrack, Track, Ascends
  <1>2. /\ Size(p) \in Nat /\ One(p, "None") \in Nat
        /\ One(p, "StatusQuery") \in Nat /\ One(p, "StatusResponse") \in Nat
    BY WireBytes DEF One
  <1>3. /\ g.first = t.first /\ g.last = l
        /\ g.packets = [t.packets EXCEPT ![l] = p]
        /\ g.at = Next1(t.at, l, Size(p))
        /\ g.no = Next1(t.no, l, One(p, "None"))
        /\ g.asks = Next1(t.asks, l, One(p, "StatusQuery"))
        /\ g.answers = Next1(t.answers, l, One(p, "StatusResponse"))
        /\ g = [packets |-> g.packets, at |-> g.at, no |-> g.no,
                asks |-> g.asks, answers |-> g.answers, first |-> g.first,
                last |-> g.last]
    BY DEF Grow
  <1> HIDE DEF g, l
  <1>4. /\ g.packets \in [Nat -> Packet] /\ g.packets[l] = p
        /\ \A k \in Nat : k # l => g.packets[k] = t.packets[k]
    BY <1>1, <1>3
  <1>5. /\ g.at \in [Nat -> Nat] /\ g.at[l + 1] = t.at[l] + Size(p)
        /\ \A k \in Nat : k # l + 1 => g.at[k] = t.at[k]
        /\ Rises(g.at, t.first, l + 1)
    <2> DEFINE h == Next1(t.at, l, Size(p))
    <2>1. /\ h \in [Nat -> Nat] /\ h[l + 1] = t.at[l] + Size(p)
          /\ \A k \in Nat : k # l + 1 => h[k] = t.at[k]
      BY <1>1, <1>2, SMTT(30) DEF Next1
    <2>2. Rises(h, t.first, l + 1)
      BY <1>1, <1>2, Next1Rises
    <2>3. g.at = h
      BY <1>3
    <2> HIDE DEF h
    <2> QED
      BY <2>1, <2>2, <2>3
  <1>6. /\ g.no \in [Nat -> Nat] /\ g.no[l + 1] = t.no[l] + One(p, "None")
        /\ \A k \in Nat : k # l + 1 => g.no[k] = t.no[k]
        /\ Rises(g.no, t.first, l + 1)
    <2> DEFINE h == Next1(t.no, l, One(p, "None"))
    <2>1. /\ h \in [Nat -> Nat] /\ h[l + 1] = t.no[l] + One(p, "None")
          /\ \A k \in Nat : k # l + 1 => h[k] = t.no[k]
      BY <1>1, <1>2, SMTT(30) DEF Next1
    <2>2. Rises(h, t.first, l + 1)
      BY <1>1, <1>2, Next1Rises
    <2>3. g.no = h
      BY <1>3
    <2> HIDE DEF h
    <2> QED
      BY <2>1, <2>2, <2>3
  <1>7. /\ g.asks \in [Nat -> Nat]
        /\ g.asks[l + 1] = t.asks[l] + One(p, "StatusQuery")
        /\ \A k \in Nat : k # l + 1 => g.asks[k] = t.asks[k]
        /\ Rises(g.asks, t.first, l + 1)
    <2> DEFINE h == Next1(t.asks, l, One(p, "StatusQuery"))
    <2>1. /\ h \in [Nat -> Nat] /\ h[l + 1] = t.asks[l] + One(p, "StatusQuery")
          /\ \A k \in Nat : k # l + 1 => h[k] = t.asks[k]
      BY <1>1, <1>2, SMTT(30) DEF Next1
    <2>2. Rises(h, t.first, l + 1)
      BY <1>1, <1>2, Next1Rises
    <2>3. g.asks = h
      BY <1>3
    <2> HIDE DEF h
    <2> QED
      BY <2>1, <2>2, <2>3
  <1>8. /\ g.answers \in [Nat -> Nat]
        /\ g.answers[l + 1] = t.answers[l] + One(p, "StatusResponse")
        /\ \A k \in Nat : k # l + 1 => g.answers[k] = t.answers[k]
        /\ Rises(g.answers, t.first, l + 1)
    <2> DEFINE h == Next1(t.answers, l, One(p, "StatusResponse"))
    <2>1. /\ h \in [Nat -> Nat] /\ h[l + 1] = t.answers[l] + One(p, "StatusResponse")
          /\ \A k \in Nat : k # l + 1 => h[k] = t.answers[k]
      BY <1>1, <1>2, SMTT(30) DEF Next1
    <2>2. Rises(h, t.first, l + 1)
      BY <1>1, <1>2, Next1Rises
    <2>3. g.answers = h
      BY <1>3
    <2> HIDE DEF h
    <2> QED
      BY <2>1, <2>2, <2>3
  <1>9. g \in Track
    BY <1>1, <1>3, <1>4, <1>5, <1>6, <1>7, <1>8, Zenon DEF Track
  <1>10. ASSUME NEW k \in t.first .. l
         PROVE  /\ g.at[k + 1] = g.at[k] + Size(g.packets[k])
                /\ g.no[k + 1] = g.no[k] + One(g.packets[k], "None")
                /\ g.asks[k + 1] = g.asks[k] + One(g.packets[k], "StatusQuery")
                /\ g.answers[k + 1] =
                     g.answers[k] + One(g.packets[k], "StatusResponse")
    <2>1. CASE k = l
      <3>1. l # l + 1 /\ g.packets[k] = p
        BY <1>1, <1>4, <2>1
      <3> QED
        BY <1>1, <1>5, <1>6, <1>7, <1>8, <2>1, <3>1
    <2>2. CASE k # l
      <3>1. /\ k \in t.first .. t.last /\ k \in Nat /\ k + 1 \in Nat
            /\ k # l + 1 /\ k + 1 # l + 1
        <4>1. /\ t.first \in Nat /\ t.last \in Nat /\ l = t.last + 1
              /\ k \in t.first .. l
          BY <1>1
        <4> QED
          BY <2>2, <4>1
      <3>2. /\ t.at[k + 1] = t.at[k] + Size(t.packets[k])
            /\ t.no[k + 1] = t.no[k] + One(t.packets[k], "None")
            /\ t.asks[k + 1] = t.asks[k] + One(t.packets[k], "StatusQuery")
            /\ t.answers[k + 1] =
                 t.answers[k] + One(t.packets[k], "StatusResponse")
        BY <1>1, <3>1 DEF Counts
      <3> QED
        BY <1>4, <1>5, <1>6, <1>7, <1>8, <2>2, <3>1, <3>2
    <2> QED
      BY <2>1, <2>2
  <1>11. IsTrack(g)
    <2>1. Counts(g)
      BY <1>3, <1>10 DEF Counts
    <2>2. Ascends(g)
      BY <1>3, <1>5, <1>6, <1>7, <1>8 DEF Ascends
    <2> QED
      BY <1>1, <1>3, <1>9, <2>1, <2>2 DEF IsTrack
  <1>12. /\ l + 1 = t.last + 2
         /\ \A k \in t.first .. t.last : k \in Nat /\ k # l
         /\ \A k \in t.first .. t.last + 1 : k \in Nat /\ k # l + 1
    BY <1>1 DEF l
  <1>13. /\ \A k \in t.first .. t.last : g.packets[k] = t.packets[k]
         /\ \A k \in t.first .. t.last + 1 :
              /\ g.at[k] = t.at[k] /\ g.no[k] = t.no[k]
              /\ g.asks[k] = t.asks[k] /\ g.answers[k] = t.answers[k]
    BY <1>4, <1>5, <1>6, <1>7, <1>8, <1>12
  <1> QED
    BY <1>3, <1>4, <1>5, <1>6, <1>7, <1>8, <1>11, <1>12, <1>13 DEF g, l

LEMMA MoveFacts ==
  ASSUME NEW t, IsTrack(t), NEW n \in t.first .. t.last + 1
  PROVE  LET m == MoveTo(t, n)
         IN /\ IsTrack(m)
            /\ m.first = n /\ m.last = t.last
            /\ m.packets = t.packets /\ m.at = t.at /\ m.no = t.no
            /\ m.asks = t.asks /\ m.answers = t.answers
  <1> DEFINE m == MoveTo(t, n)
  <1>1. /\ t.first \in Nat /\ t.last \in Nat /\ t.packets \in [Nat -> Packet]
        /\ t.at \in [Nat -> Nat] /\ t.no \in [Nat -> Nat]
        /\ t.asks \in [Nat -> Nat] /\ t.answers \in [Nat -> Nat]
        /\ Counts(t) /\ Ascends(t)
    BY DEF IsTrack, Track
  <1>2. n \in Nat /\ n <= t.last + 1 /\ t.first <= n
    BY <1>1
  <1>3. m \in Track
    BY <1>1, <1>2, Zenon DEF MoveTo, Track
  <1>4. /\ m.first = n /\ m.last = t.last
        /\ m.packets = t.packets /\ m.at = t.at /\ m.no = t.no
        /\ m.asks = t.asks /\ m.answers = t.answers
    BY DEF MoveTo
  <1> HIDE DEF m
  <1>5. /\ \A k \in n .. t.last : k \in t.first .. t.last
        /\ \A k \in n .. t.last + 1 : k \in t.first .. t.last + 1
    BY <1>1, <1>2
  <1>6. Counts(m)
    BY <1>1, <1>4, <1>5 DEF Counts
  <1>7. Ascends(m)
    BY <1>1, <1>4, <1>5 DEF Ascends, Rises
  <1> QED
    BY <1>2, <1>3, <1>4, <1>6, <1>7 DEF IsTrack, m

----------------------------------------------------------------------------
(* The bytes on their way to one end: what is still to come of a message   *)
(* that is being read (base bytes), then the packets of the track, without *)
(* the end of it that was lost with the connection.                        *)
Framed(bytes, base, t, complete) ==
  /\ \A k \in t.first .. t.last : \A i \in 1 .. Size(t.packets[k]) :
       LET j == base + (t.at[k] - t.at[t.first]) + i
       IN  j <= Len(bytes) => bytes[j] = Wire(t.packets[k])[i]
  /\ Len(bytes) <= base + (t.at[t.last + 1] - t.at[t.first])
  /\ complete => Len(bytes) = base + (t.at[t.last + 1] - t.at[t.first])

LEMMA TrackFields ==
  ASSUME NEW t, IsTrack(t)
  PROVE  /\ t.first \in Nat /\ t.last \in Nat /\ t.first <= t.last + 1
         /\ \A k \in Nat : /\ t.packets[k] \in Packet /\ t.at[k] \in Nat
                           /\ t.no[k] \in Nat /\ t.asks[k] \in Nat
                           /\ t.answers[k] \in Nat
         /\ \A k \in t.first .. t.last :
              t.at[k + 1] = t.at[k] + Size(t.packets[k])
         /\ \A j, k \in t.first .. t.last + 1 : j <= k => t.at[j] <= t.at[k]
         /\ \A k \in t.first .. t.last : k \in Nat /\ Size(t.packets[k]) \in Nat
  <1>1. /\ t.first \in Nat /\ t.last \in Nat /\ t.first <= t.last + 1
        /\ t.packets \in [Nat -> Packet]
        /\ t.at \in [Nat -> Nat] /\ t.no \in [Nat -> Nat]
        /\ t.asks \in [Nat -> Nat] /\ t.answers \in [Nat -> Nat]
    BY DEF IsTrack, Track
  <1>2. \A k \in t.first .. t.last : k \in Nat
    BY <1>1
  <1>3. \A k \in Nat : t.packets[k] \in Packet /\ Size(t.packets[k]) \in Nat
    BY <1>1, WireBytes
  <1>4. \A j, k \in t.first .. t.last + 1 : j <= k => t.at[j] <= t.at[k]
    BY DEF IsTrack, Ascends, Rises
  <1>5. \A k \in t.first .. t.last : t.at[k + 1] = t.at[k] + Size(t.packets[k])
    BY DEF IsTrack, Counts
  <1> QED
    BY <1>1, <1>2, <1>3, <1>4, <1>5

(* A packet is written.                                                    *)
LEMMA FramedGrow ==
  ASSUME NEW bytes \in Seq(Byte), NEW base \in Nat, NEW t, IsTrack(t),
         NEW p \in Packet, Framed(bytes, base, t, TRUE)
  PROVE  Framed(bytes \o Wire(p), base, Grow(t, p), TRUE)
  <1> DEFINE g == Grow(t, p)
             all == bytes \o Wire(p)
  <1>1. /\ t.first \in Nat /\ t.last \in Nat /\ t.first <= t.last + 1
        /\ \A k \in Nat : t.packets[k] \in Packet /\ t.at[k] \in Nat
        /\ \A k \in t.first .. t.last :
             t.at[k + 1] = t.at[k] + Size(t.packets[k])
        /\ \A j, k \in t.first .. t.last + 1 : j <= k => t.at[j] <= t.at[k]
        /\ \A k \in t.first .. t.last : k \in Nat /\ Size(t.packets[k]) \in Nat
    BY TrackFields
  <1>2. Wire(p) \in Seq(Byte) /\ Len(Wire(p)) = Size(p) /\ Size(p) \in Nat
    BY WireBytes
  <1>3. /\ Len(all) = Len(bytes) + Size(p)
        /\ \A i \in 1 .. Len(bytes) : all[i] = bytes[i]
        /\ \A i \in 1 .. Size(p) : all[Len(bytes) + i] = Wire(p)[i]
    <2>1. /\ Len(all) = Len(bytes) + Len(Wire(p))
          /\ \A i \in 1 .. Len(bytes) : all[i] = bytes[i]
          /\ \A i \in 1 .. Len(Wire(p)) : all[Len(bytes) + i] = Wire(p)[i]
      BY <1>2, JoinedBytes, Zenon
    <2> QED
      BY <1>2, <2>1
  <1>4. /\ g.first = t.first /\ g.last = t.last + 1
        /\ \A k \in t.first .. t.last : g.packets[k] = t.packets[k]
        /\ g.packets[t.last + 1] = p
        /\ \A k \in t.first .. t.last + 1 : g.at[k] = t.at[k]
        /\ g.at[t.last + 2] = t.at[t.last + 1] + Size(p)
    BY GrowFacts
  <1>5. Len(bytes) = base + (t.at[t.last + 1] - t.at[t.first])
    BY DEF Framed
  <1> HIDE DEF g, all
  <1>6. Len(all) = base + (g.at[g.last + 1] - g.at[g.first])
    <2>1. g.last + 1 = t.last + 2 /\ t.first \in t.first .. t.last + 1
      BY <1>1, <1>4
    <2>2. g.at[g.last + 1] = t.at[t.last + 1] + Size(p) /\ g.at[g.first] = t.at[t.first]
      BY <1>4, <2>1
    <2>3. t.at[t.last + 1] \in Nat /\ t.at[t.first] \in Nat
      BY <1>1
    <2> QED
      BY <1>2, <1>3, <1>5, <2>2, <2>3
  <1>7. ASSUME NEW k \in t.first .. t.last, NEW i \in 1 .. Size(t.packets[k])
        PROVE  all[base + (t.at[k] - t.at[t.first]) + i] = Wire(t.packets[k])[i]
    <2>1. /\ k + 1 \in t.first .. t.last + 1 /\ t.last + 1 \in t.first .. t.last + 1
          /\ k \in t.first .. t.last + 1 /\ t.first \in t.first .. t.last + 1
      BY <1>1
    <2>2. t.at[k + 1] <= t.at[t.last + 1] /\ t.at[t.first] <= t.at[k]
      BY <1>1, <2>1
    <2>3. t.at[k + 1] = t.at[k] + Size(t.packets[k])
      BY <1>1
    <2>4. /\ t.at[k] \in Nat /\ t.at[k + 1] \in Nat /\ t.at[t.first] \in Nat
          /\ t.at[t.last + 1] \in Nat /\ Size(t.packets[k]) \in Nat
      BY <1>1
    <2>5. base + (t.at[k] - t.at[t.first]) + i \in 1 .. Len(bytes)
      <3>1. \A a, b, c, z, n \in Nat : \A m \in 1 .. n :
              a <= b /\ c = b + n /\ c <= z =>
                base + (b - a) + m \in 1 .. (base + (z - a))
        OBVIOUS
      <3> QED
        BY <1>5, <2>2, <2>3, <2>4, <3>1
    <2>6. bytes[base + (t.at[k] - t.at[t.first]) + i] = Wire(t.packets[k])[i]
      BY <2>5 DEF Framed
    <2> QED
      BY <1>3, <2>5, <2>6
  <1>8. ASSUME NEW k \in g.first .. g.last, NEW i \in 1 .. Size(g.packets[k])
        PROVE  all[base + (g.at[k] - g.at[g.first]) + i] = Wire(g.packets[k])[i]
    <2>1. CASE k = t.last + 1
      <3>1. /\ g.packets[k] = p /\ g.at[k] = t.at[t.last + 1]
            /\ g.at[g.first] = t.at[t.first]
        <4>1. t.first \in t.first .. t.last + 1
          BY <1>1
        <4> QED
          BY <1>4, <2>1, <4>1
      <3>2. i \in 1 .. Size(p)
        BY <3>1
      <3>3. base + (g.at[k] - g.at[g.first]) + i = Len(bytes) + i
        BY <1>5, <3>1
      <3> QED
        BY <1>3, <3>1, <3>2, <3>3
    <2>2. CASE k # t.last + 1
      <3>1. k \in t.first .. t.last /\ k \in t.first .. t.last + 1
            /\ t.first \in t.first .. t.last + 1
        BY <1>1, <1>4, <2>2
      <3>2. /\ g.packets[k] = t.packets[k] /\ g.at[k] = t.at[k]
            /\ g.at[g.first] = t.at[t.first]
        BY <1>4, <3>1
      <3> QED
        BY <1>7, <3>1, <3>2
    <2> QED
      BY <2>1, <2>2
  <1>9. Len(all) <= base + (g.at[g.last + 1] - g.at[g.first])
    <2>1. Len(all) \in Nat
      BY <1>2, <1>3, LenProperties
    <2> QED
      BY <1>6, <2>1
  <1>10. Framed(all, base, g, TRUE)
    BY <1>6, <1>8, <1>9 DEF Framed
  <1> QED
    BY <1>10 DEF g, all

(* m bytes of the next packet are read: what is to come of it is the base. *)
LEMMA FramedRead ==
  ASSUME NEW bytes \in Seq(Byte), NEW t, IsTrack(t), t.first <= t.last,
         NEW complete \in BOOLEAN, Framed(bytes, 0, t, complete),
         NEW m \in 0 .. Size(t.packets[t.first]), m <= Len(bytes)
  PROVE  Framed(SubSeq(bytes, m + 1, Len(bytes)),
                Size(t.packets[t.first]) - m, MoveTo(t, t.first + 1), complete)
  <1> DEFINE rest == SubSeq(bytes, m + 1, Len(bytes))
             u == MoveTo(t, t.first + 1)
             size == Size(t.packets[t.first])
  <1>1. /\ t.first \in Nat /\ t.last \in Nat
        /\ \A k \in Nat : t.packets[k] \in Packet /\ t.at[k] \in Nat
        /\ \A k \in t.first .. t.last :
             t.at[k + 1] = t.at[k] + Size(t.packets[k])
        /\ \A j, k \in t.first .. t.last + 1 : j <= k => t.at[j] <= t.at[k]
        /\ \A k \in t.first .. t.last : k \in Nat /\ Size(t.packets[k]) \in Nat
    BY TrackFields
  <1>2. m \in 0 .. Len(bytes) /\ Len(bytes) \in Nat /\ size \in Nat /\ m \in Nat
    BY <1>1, LenProperties
  <1>3. /\ Len(rest) = Len(bytes) - m
        /\ \A i \in 1 .. Len(bytes) - m : rest[i] = bytes[m + i]
    BY <1>2, RestElement
  <1>4. /\ u.first = t.first + 1 /\ u.last = t.last
        /\ u.packets = t.packets /\ u.at = t.at
    BY DEF MoveTo
  <1>5. t.at[t.first + 1] = t.at[t.first] + size
    <2>1. t.first \in t.first .. t.last
      BY <1>1
    <2> QED
      BY <1>1, <2>1
  <1>6. /\ t.at[t.first] \in Nat /\ t.at[t.last + 1] \in Nat
    BY <1>1
  <1> HIDE DEF rest, u, size
  <1>7. Len(rest) <= size - m + (u.at[u.last + 1] - u.at[u.first])
    BY <1>2, <1>3, <1>4, <1>5, <1>6 DEF Framed
  <1>8. ASSUME complete
        PROVE  Len(rest) = size - m + (u.at[u.last + 1] - u.at[u.first])
    <2>1. Len(bytes) = 0 + (t.at[t.last + 1] - t.at[t.first])
      BY <1>8 DEF Framed
    <2> QED
      BY <1>2, <1>3, <1>4, <1>5, <1>6, <2>1
  <1>9. ASSUME NEW k \in u.first .. u.last, NEW i \in 1 .. Size(u.packets[k]),
               size - m + (u.at[k] - u.at[u.first]) + i <= Len(rest)
        PROVE  rest[size - m + (u.at[k] - u.at[u.first]) + i] =
                 Wire(u.packets[k])[i]
    <2>1. /\ k \in t.first .. t.last /\ k \in t.first .. t.last + 1
          /\ t.first + 1 \in t.first .. t.last + 1 /\ t.first + 1 <= k
      BY <1>1, <1>4
    <2>2. t.at[t.first + 1] <= t.at[k] /\ t.at[k] \in Nat
      BY <1>1, <2>1
    <2>3. 0 + (t.at[k] - t.at[t.first]) + i =
            m + (size - m + (u.at[k] - u.at[u.first]) + i)
      <3>1. u.at[u.first] = t.at[t.first] + size /\ u.at[k] = t.at[k]
        BY <1>4, <1>5
      <3>2. i \in Int
        OBVIOUS
      <3>3. 0 + (t.at[k] - t.at[t.first]) + i =
              m + (size - m + (t.at[k] - (t.at[t.first] + size)) + i)
        BY <1>2, <1>6, <2>2, <3>2
      <3> QED
        BY <3>1, <3>3, Zenon
    <2>4. size - m + (u.at[k] - u.at[u.first]) + i \in 1 .. Len(bytes) - m
      BY <1>2, <1>3, <1>4, <1>5, <1>6, <1>9, <2>2 DEF size
    <2>5. bytes[0 + (t.at[k] - t.at[t.first]) + i] = Wire(t.packets[k])[i]
      <3>1. 0 + (t.at[k] - t.at[t.first]) + i <= Len(bytes)
        BY <1>2, <2>3, <2>4
      <3>2. i \in 1 .. Size(t.packets[k])
        BY <1>4
      <3> QED
        BY <2>1, <3>1, <3>2 DEF Framed
    <2> QED
      BY <1>3, <1>4, <2>3, <2>4, <2>5
  <1> QED
    BY <1>7, <1>8, <1>9 DEF Framed, rest, u, size

(* m more bytes of a message that is being read.                           *)
LEMMA FramedDrop ==
  ASSUME NEW bytes \in Seq(Byte), NEW base \in Nat, NEW t, IsTrack(t),
         NEW complete \in BOOLEAN, Framed(bytes, base, t, complete),
         NEW m \in 0 .. base, m <= Len(bytes)
  PROVE  Framed(SubSeq(bytes, m + 1, Len(bytes)), base - m, t, complete)
  <1> DEFINE rest == SubSeq(bytes, m + 1, Len(bytes))
  <1>1. /\ t.first \in Nat /\ t.last \in Nat /\ t.first <= t.last + 1
        /\ \A k \in Nat : t.packets[k] \in Packet /\ t.at[k] \in Nat
        /\ \A j, k \in t.first .. t.last + 1 : j <= k => t.at[j] <= t.at[k]
        /\ \A k \in t.first .. t.last : k \in Nat /\ Size(t.packets[k]) \in Nat
    BY TrackFields
  <1>2. m \in 0 .. Len(bytes) /\ Len(bytes) \in Nat /\ m \in Nat
    BY LenProperties
  <1>3. /\ Len(rest) = Len(bytes) - m
        /\ \A i \in 1 .. Len(bytes) - m : rest[i] = bytes[m + i]
    BY <1>2, RestElement
  <1>6. t.at[t.first] \in Nat /\ t.at[t.last + 1] \in Nat
    BY <1>1
  <1> HIDE DEF rest
  <1>7. Len(rest) <= base - m + (t.at[t.last + 1] - t.at[t.first])
    BY <1>2, <1>3, <1>6 DEF Framed
  <1>8. ASSUME complete
        PROVE  Len(rest) = base - m + (t.at[t.last + 1] - t.at[t.first])
    <2>1. Len(bytes) = base + (t.at[t.last + 1] - t.at[t.first])
      BY <1>8 DEF Framed
    <2> QED
      BY <1>2, <1>3, <1>6, <2>1
  <1>9. ASSUME NEW k \in t.first .. t.last, NEW i \in 1 .. Size(t.packets[k]),
               base - m + (t.at[k] - t.at[t.first]) + i <= Len(rest)
        PROVE  rest[base - m + (t.at[k] - t.at[t.first]) + i] =
                 Wire(t.packets[k])[i]
    <2>1. k \in t.first .. t.last + 1 /\ t.first \in t.first .. t.last + 1
          /\ t.first <= k
      BY <1>1
    <2>2. t.at[t.first] <= t.at[k] /\ t.at[k] \in Nat
      BY <1>1, <2>1
    <2>3. base + (t.at[k] - t.at[t.first]) + i =
            m + (base - m + (t.at[k] - t.at[t.first]) + i)
      BY <1>2, <1>6, <2>2
    <2>4. base - m + (t.at[k] - t.at[t.first]) + i \in 1 .. Len(bytes) - m
      <3>1. m <= base /\ i >= 1 /\ i \in Int
        OBVIOUS
      <3>2. base - m + (t.at[k] - t.at[t.first]) + i <= Len(bytes) - m
        BY <1>3, <1>9
      <3> QED
        BY <1>2, <1>6, <2>2, <3>1, <3>2
    <2>5. bytes[base + (t.at[k] - t.at[t.first]) + i] = Wire(t.packets[k])[i]
      <3>1. base + (t.at[k] - t.at[t.first]) + i <= Len(bytes)
        BY <1>2, <2>3, <2>4
      <3> QED
        BY <3>1 DEF Framed
    <2> QED
      BY <1>3, <2>3, <2>4, <2>5
  <1> QED
    BY <1>7, <1>8, <1>9 DEF Framed, rest

(* The end of the bytes is lost.                                           *)
LEMMA FramedCut ==
  ASSUME NEW bytes, NEW start, NEW base, NEW t, NEW complete,
         Framed(bytes, base, t, complete), Len(start) \in Nat,
         Len(bytes) \in Nat, Len(start) <= Len(bytes), base \in Nat, IsTrack(t),
         \A i \in 1 .. Len(start) : start[i] = bytes[i]
  PROVE  Framed(start, base, t, FALSE)
  <1>1. /\ t.first \in Nat /\ t.last \in Nat /\ t.first <= t.last + 1
        /\ \A k \in Nat : t.packets[k] \in Packet /\ t.at[k] \in Nat
        /\ \A j, k \in t.first .. t.last + 1 : j <= k => t.at[j] <= t.at[k]
    BY TrackFields
  <1>2. ASSUME NEW k \in t.first .. t.last, NEW i \in 1 .. Size(t.packets[k]),
               base + (t.at[k] - t.at[t.first]) + i <= Len(start)
        PROVE  start[base + (t.at[k] - t.at[t.first]) + i] =
                 Wire(t.packets[k])[i]
    <2>1. /\ k \in Nat /\ k \in t.first .. t.last + 1
          /\ t.first \in t.first .. t.last + 1 /\ t.first <= k
      BY <1>1
    <2>2. /\ t.at[t.first] <= t.at[k] /\ t.at[k] \in Nat /\ t.at[t.first] \in Nat
      BY <1>1, <2>1
    <2>3. base + (t.at[k] - t.at[t.first]) + i \in 1 .. Len(start)
      BY <1>2, <2>2
    <2>4. base + (t.at[k] - t.at[t.first]) + i <= Len(bytes)
      BY <2>3
    <2>5. bytes[base + (t.at[k] - t.at[t.first]) + i] = Wire(t.packets[k])[i]
      BY <2>4 DEF Framed
    <2> QED
      BY <2>3, <2>5
  <1>3. Len(start) <= base + (t.at[t.last + 1] - t.at[t.first])
    <2>1. t.at[t.last + 1] \in Nat /\ t.at[t.first] \in Nat
      BY <1>1
    <2> QED
      BY <2>1 DEF Framed
  <1> QED
    BY <1>2, <1>3 DEF Framed

(* At the start of a packet there is its header, and nothing at all when   *)
(* no packet is on its way.                                                *)
LEMMA FramedHead ==
  ASSUME NEW bytes \in Seq(Byte), NEW t, IsTrack(t), NEW complete,
         Framed(bytes, 0, t, complete)
  PROVE  /\ t.first > t.last => Len(bytes) = 0
         /\ Len(bytes) >= 1 =>
              /\ t.first <= t.last
              /\ bytes[1] = Wire(t.packets[t.first])[1]
  <1>1. /\ t.first \in Nat /\ t.last \in Nat /\ t.first <= t.last + 1
        /\ \A k \in Nat : t.packets[k] \in Packet /\ t.at[k] \in Nat
    BY TrackFields
  <1>2. t.first > t.last => Len(bytes) = 0
    <2>1. t.first > t.last => t.first = t.last + 1
      BY <1>1
    <2>2. t.at[t.first] \in Nat /\ Len(bytes) \in Nat
      BY <1>1, LenProperties
    <2> QED
      BY <2>1, <2>2 DEF Framed
  <1>3. ASSUME Len(bytes) >= 1
        PROVE  t.first <= t.last /\ bytes[1] = Wire(t.packets[t.first])[1]
    <2>1. t.first <= t.last
      BY <1>1, <1>2, <1>3
    <2>2. t.first \in t.first .. t.last /\ 1 \in 1 .. Size(t.packets[t.first])
      BY <1>1, <2>1, WireBytes
    <2>3. 0 + (t.at[t.first] - t.at[t.first]) + 1 = 1
      BY <1>1
    <2> QED
      BY <1>3, <2>1, <2>2, <2>3 DEF Framed
  <1> QED
    BY <1>2, <1>3

----------------------------------------------------------------------------
(* Types.                                                                  *)
State == {"Listening", "Connecting", "Idle", "DataTransfer", "Unconnected"}

MatipTypeOK ==
  /\ connected \in BOOLEAN
  /\ mState \in [End -> State]
  /\ mBytesToRead \in [End -> Nat]
  /\ mTempMessage \in [End -> Seq(Byte)]
  /\ mQueryCounter \in [End -> Nat]
  /\ inTransit \in [End -> Seq(Byte)]
  /\ available \in [End -> Seq(Byte)]
  /\ reading \in [End -> BOOLEAN]
  /\ opened \in BOOLEAN
  /\ requested \in BOOLEAN
  /\ written \in [End -> Seq(Fits)]
  /\ emitted \in [End -> Seq(Seq(Byte))]
  /\ unanswered \in [End -> Int]

(* The messages written fit the length field.                              *)
MessagesFit == \A length \in Lengths : length < Width

CommandPacket(command) == [command |-> command, text |-> <<>>]
MessagePacket(text)    == [command |-> "None", text |-> text]

LEMMA CommandPackets ==
  ASSUME NEW command \in Command
  PROVE  /\ CommandPacket(command) \in Packet
         /\ CommandPacket(command).command = command
         /\ Wire(CommandPacket(command)) = ControlPacket(command)
  <1>1. <<>> \in Fits
    <2>1. <<>> \in Seq(Byte) /\ Len(<<>>) = 0 /\ 0 < Width
      BY EmptySeq, MatipAssumption
    <2> QED
      BY <2>1 DEF Fits
  <1>2. command # "None"
    BY DEF Command
  <1> QED
    BY <1>1, <1>2 DEF CommandPacket, Packet, Wire

LEMMA MessagePackets ==
  ASSUME NEW text \in Fits
  PROVE  /\ MessagePacket(text) \in Packet
         /\ MessagePacket(text).command = "None"
         /\ MessagePacket(text).text = text
         /\ Wire(MessagePacket(text)) = DataPacket(text)
  BY DEF MessagePacket, Packet, Wire

LEMMA TextFits ==
  ASSUME MessagesFit, NEW id \in Nat, NEW length \in Lengths
  PROVE  Text(id, length) \in Fits
  <1> DEFINE text == Text(id, length)
  <1>1. length \in Nat /\ length < Width
    BY MatipAssumption DEF MessagesFit
  <1>2. text \in [1 .. length -> Byte]
    BY <1>1 DEF Text, Byte, TextByte
  <1> HIDE DEF text
  <1>3. text \in Seq(Byte) /\ Len(text) = length
    BY <1>1, <1>2, LenProperties
  <1>4. text \in Fits
    BY <1>1, <1>3 DEF Fits
  <1> QED
    BY <1>4 DEF text

LEMMA PeerFacts ==
  /\ "client" \in End /\ "server" \in End
  /\ Peer("client") = "server" /\ Peer("server") = "client"
  /\ \A e \in End : /\ Peer(e) \in End /\ Peer(e) # e /\ Peer(Peer(e)) = e
                    /\ e = "client" \/ e = "server"
                    /\ \A x \in End : x = e \/ x = Peer(e)
  BY DEF End, Peer

(* What a write does to the wires.                                         *)
LEMMA Written ==
  ASSUME MatipTypeOK, NEW e \in End, NEW p \in Packet, write(e, Wire(p))
  PROVE  /\ inTransit' \in [End -> Seq(Byte)]
         /\ inTransit'[e] = inTransit[e]
         /\ connected => inTransit'[Peer(e)] = inTransit[Peer(e)] \o Wire(p)
         /\ ~ connected => inTransit' = inTransit
  <1>1. Wire(p) \in Seq(Byte) /\ inTransit \in [End -> Seq(Byte)]
    BY WireBytes DEF MatipTypeOK
  <1>2. Peer(e) \in End /\ Peer(e) # e
    BY PeerFacts
  <1>3. inTransit[Peer(e)] \o Wire(p) \in Seq(Byte)
    BY <1>1, <1>2, ConcatElement
  <1> DEFINE more == inTransit[Peer(e)] \o Wire(p)
  <1>4. connected => inTransit' = [inTransit EXCEPT ![Peer(e)] = more]
    BY DEF write
  <1>5. ~ connected => inTransit' = inTransit
    BY DEF write
  <1> HIDE DEF more
  <1> QED
    BY <1>1, <1>2, <1>3, <1>4, <1>5 DEF more

(* What reading does to the bytes that are there.                          *)
LEMMA Consumed ==
  ASSUME MatipTypeOK, NEW e \in End, NEW n \in 0 .. Len(available[e]),
         Consume(e, n)
  PROVE  /\ available' \in [End -> Seq(Byte)]
         /\ available'[e] = SubSeq(available[e], n + 1, Len(available[e]))
         /\ available'[Peer(e)] = available[Peer(e)]
         /\ Len(available'[e]) = Len(available[e]) - n
         /\ reading' \in [End -> BOOLEAN]
         /\ reading'[e] <=> available'[e] # <<>>
         /\ reading'[Peer(e)] = reading[Peer(e)]
  <1> DEFINE rest == SubSeq(available[e], n + 1, Len(available[e]))
  <1>1. /\ available \in [End -> Seq(Byte)] /\ reading \in [End -> BOOLEAN]
        /\ available[e] \in Seq(Byte)
    BY DEF MatipTypeOK
  <1>2. Peer(e) \in End /\ Peer(e) # e
    BY PeerFacts
  <1>3. rest \in Seq(Byte) /\ Len(rest) = Len(available[e]) - n
    BY <1>1, RestElement
  <1>4. /\ available' = [available EXCEPT ![e] = rest]
        /\ reading' = [reading EXCEPT ![e] = rest # <<>>]
    BY DEF Consume
  <1> HIDE DEF rest
  <1>5. available' \in [End -> Seq(Byte)] /\ reading' \in [End -> BOOLEAN]
    BY <1>1, <1>3, <1>4
  <1>6. /\ available'[e] = rest /\ available'[Peer(e)] = available[Peer(e)]
        /\ reading'[e] = (rest # <<>>) /\ reading'[Peer(e)] = reading[Peer(e)]
    BY <1>1, <1>2, <1>4
  <1> QED
    BY <1>3, <1>5, <1>6 DEF rest

LEMMA HeaderThere ==
  ASSUME MatipTypeOK, NEW e \in End, HasHeader(e), IsValid(HeaderIn(e))
  PROVE  /\ HeaderIn(e) \in Header
         /\ dataSize(HeaderIn(e)) \in Nat
         /\ Len(available[e]) \in Nat /\ Len(available[e]) >= headerSize
         /\ headerSize \in Nat \ {0}
  <1>1. available[e] \in Seq(Byte) /\ Len(available[e]) >= headerSize
    BY DEF MatipTypeOK, HasHeader
  <1>2. headerSize \in Nat \ {0} /\ Width \in Nat \ {0}
    BY MatipAssumption
  <1>3. Len(available[e]) \in Nat /\ available[e][1] \in Byte
    BY <1>1, <1>2, LenProperties, ElementOfSeq
  <1>4. HeaderIn(e) \in Header
    BY <1>3 DEF HeaderIn, IsValid, Byte, Header, TextByte, PayloadByte
  <1>5. HeaderIn(e).size \in Nat
    BY <1>4 DEF Header
  <1>6. dataSize(HeaderIn(e)) \in Nat
    BY <1>2, <1>5 DEF dataSize
  <1> QED
    BY <1>1, <1>2, <1>3, <1>4, <1>6

(* appendData() takes n bytes of the text, its rest or all that are there, *)
(* and has the whole so far.                                               *)
Appends(e, skip, size, text, n, whole) ==
  /\ skip + n \in 0 .. Len(available[e])
  /\ n = size \/ skip + n = Len(available[e])
  /\ Consume(e, skip + n)
  /\ mBytesToRead' = [mBytesToRead EXCEPT ![e] = size - n]
  /\ mTempMessage' = [mTempMessage EXCEPT ![e] = whole]
  /\ Len(whole) = Len(text) + n
  /\ \A i \in 1 .. Len(text) : whole[i] = text[i]
  /\ \A i \in 1 .. n : whole[Len(text) + i] = available[e][skip + i]
  /\ IF n = size
       THEN /\ Become(e, "Idle")
            /\ emitted' = [emitted EXCEPT ![e] = Append(@, whole)]
            /\ signals' = {<<e, "newMessage">>}
       ELSE /\ Become(e, "DataTransfer")
            /\ signals' = {}
            /\ emitted' = emitted

LEMMA Appended ==
  ASSUME MatipTypeOK, NEW e \in End, NEW skip \in 0 .. Len(available[e]),
         NEW size \in Nat, NEW text \in Seq(Byte),
         appendData(e, skip, size, text)
  PROVE  \E n \in 0 .. size, whole \in Seq(Byte) :
           Appends(e, skip, size, text, n, whole)
  <1> DEFINE there == Len(available[e]) - skip
             n     == IF size < there THEN size ELSE there
             got   == SubSeq(available[e], skip + 1, skip + n)
             whole == text \o got
  <1>1. available[e] \in Seq(Byte) /\ Len(available[e]) \in Nat
    BY LenProperties DEF MatipTypeOK
  <1>2. there \in Nat /\ skip \in Nat
    BY <1>1
  <1>3. /\ n \in 0 .. size /\ n \in Nat /\ skip + n \in 0 .. Len(available[e])
        /\ n = size \/ skip + n = Len(available[e])
    BY <1>1, <1>2
  <1>4. /\ Consume(e, skip + n)
        /\ mBytesToRead' = [mBytesToRead EXCEPT ![e] = size - n]
        /\ mTempMessage' = [mTempMessage EXCEPT ![e] = whole]
        /\ IF n = size
             THEN /\ Become(e, "Idle")
                  /\ emitted' = [emitted EXCEPT ![e] = Append(@, whole)]
                  /\ signals' = {<<e, "newMessage">>}
             ELSE /\ Become(e, "DataTransfer")
                  /\ signals' = {}
                  /\ emitted' = emitted
    BY Zenon DEF appendData
  <1> HIDE DEF n
  <1>5. /\ got \in Seq(Byte) /\ Len(got) = n
        /\ \A i \in 1 .. n : got[i] = available[e][skip + i]
    BY <1>1, <1>2, <1>3, PrefixElement
  <1> HIDE DEF got
  <1>6. /\ whole \in Seq(Byte)
        /\ Len(whole) = Len(text) + n
        /\ \A i \in 1 .. Len(text) : whole[i] = text[i]
        /\ \A i \in 1 .. n : whole[Len(text) + i] = available[e][skip + i]
    <2>1. /\ whole \in Seq(Byte)
          /\ Len(whole) = Len(text) + Len(got)
          /\ \A i \in 1 .. Len(text) : whole[i] = text[i]
          /\ \A i \in 1 .. Len(got) : whole[Len(text) + i] = got[i]
      BY <1>5, JoinedBytes, Zenon
    <2> QED
      BY <1>5, <2>1
  <1> HIDE DEF whole
  <1> QED
    BY <1>3, <1>4, <1>6 DEF Appends

LEMMA MatipInitType == Init => MatipTypeOK
  <1> SUFFICES ASSUME Init
               PROVE  MatipTypeOK
    OBVIOUS
  <1>1. <<>> \in Seq(Byte) /\ <<>> \in Seq(Fits) /\ <<>> \in Seq(Seq(Byte))
    BY EmptySeq
  <1>2. /\ written \in [End -> Seq(Fits)] /\ emitted \in [End -> Seq(Seq(Byte))]
        /\ mTempMessage \in [End -> Seq(Byte)]
        /\ inTransit \in [End -> Seq(Byte)] /\ available \in [End -> Seq(Byte)]
    BY <1>1 DEF Init
  <1>3. mState \in [End -> State]
    BY DEF Init, State
  <1>4. connected \in BOOLEAN /\ opened \in BOOLEAN /\ requested \in BOOLEAN
    BY Zenon DEF Init
  <1>5. reading \in [End -> BOOLEAN]
    BY DEF Init
  <1>6. /\ mBytesToRead \in [End -> Nat] /\ mQueryCounter \in [End -> Nat]
        /\ unanswered \in [End -> Int]
    BY DEF Init
  <1> QED
    BY <1>2, <1>3, <1>4, <1>5, <1>6 DEF MatipTypeOK

LEMMA CommandTypeStep ==
  ASSUME MatipTypeOK, NEW e \in End, processCommand(e)
  PROVE  MatipTypeOK'
  <1> USE DEF MatipTypeOK
  <1> DEFINE n == headerSize + dataSize(HeaderIn(e))
             command == HeaderIn(e).command
  <1>1. HasHeader(e) /\ IsValid(HeaderIn(e)) /\ Len(available[e]) >= n
    BY DEF processCommand, HasPacket
  <1>2. n \in 0 .. Len(available[e])
    BY <1>1, HeaderThere
  <1>3. Consume(e, n)
    BY DEF processCommand
  <1>4. available' \in [End -> Seq(Byte)] /\ reading' \in [End -> BOOLEAN]
    BY <1>2, <1>3, Consumed
  <1>5. UNCHANGED <<connected, mBytesToRead, mTempMessage, opened, written, emitted>>
    BY DEF processCommand
  <1> HIDE DEF n
  <1>6. ASSUME NEW state \in State, NEW signal, Moves(e, state, signal)
        PROVE  MatipTypeOK'
    BY <1>4, <1>5, <1>6 DEF Moves, Become
  <1>7. CASE processListeningState(e, command)
    <2>1. CASE Moves(e, "Listening", "sessionRequested")
      BY <1>6, <2>1 DEF State
    <2>2. CASE UNCHANGED <<mState, requested, inTransit, mQueryCounter, unanswered>>
      BY <1>4, <1>5, <2>2
    <2> QED
      BY <1>7, <2>1, <2>2 DEF processListeningState
  <1>8. CASE processConnectingState(e, command)
    <2>1. \/ Moves(e, "Idle", "sessionAccepted")
          \/ Moves(e, "Unconnected", "sessionRefused")
          \/ Moves(e, "Connecting", "UnexpectedCommandError")
      BY <1>8 DEF processConnectingState
    <2> QED
      BY <1>6, <2>1 DEF State
  <1>9. CASE processIdleState(e, command)
    <2>1. \/ Moves(e, "Unconnected", "sessionClosed")
          \/ answerQuery(e)
          \/ takeResponse(e)
          \/ Moves(e, "Idle", "stopTransmission")
          \/ Moves(e, "Idle", "resumeTransmission")
          \/ Moves(e, "Idle", "UnexpectedCommandError")
      BY <1>9 DEF processIdleState
    <2>2. CASE answerQuery(e)
      <3>1. /\ CommandPacket("StatusResponse") \in Packet
            /\ write(e, Wire(CommandPacket("StatusResponse")))
        BY <2>2, CommandPackets DEF Command, answerQuery
      <3>2. inTransit' \in [End -> Seq(Byte)]
        BY <3>1, Written
      <3> QED
        BY <1>4, <1>5, <2>2, <3>2 DEF answerQuery
    <2>3. CASE takeResponse(e)
      BY <1>4, <1>5, <2>3 DEF takeResponse
    <2> QED
      BY <1>6, <2>1, <2>2, <2>3 DEF State
  <1> QED
    BY <1>7, <1>8, <1>9 DEF processCommand

LEMMA DataTypeStep ==
  ASSUME MatipTypeOK, NEW e \in End, processData(e)
  PROVE  MatipTypeOK'
  <1> USE DEF MatipTypeOK
  <1>1. UNCHANGED <<connected, inTransit, mQueryCounter, opened, requested,
                    written, unanswered>>
    BY DEF processData, userVars
  <1>2. ASSUME NEW skip \in 0 .. Len(available[e]), NEW size \in Nat,
               NEW text \in Seq(Byte), appendData(e, skip, size, text)
        PROVE  MatipTypeOK'
    <2>1. PICK n \in 0 .. size, whole \in Seq(Byte) :
            Appends(e, skip, size, text, n, whole)
      BY <1>2, Appended
    <2>3. available' \in [End -> Seq(Byte)] /\ reading' \in [End -> BOOLEAN]
      BY <2>1, Consumed DEF Appends
    <2>4. size - n \in Nat
      OBVIOUS
    <2>5. mBytesToRead' \in [End -> Nat] /\ mTempMessage' \in [End -> Seq(Byte)]
      BY <2>1, <2>4 DEF Appends
    <2>6. Append(emitted[e], whole) \in Seq(Seq(Byte))
      BY AppendProperties
    <2>7. emitted' \in [End -> Seq(Seq(Byte))]
      BY <2>1, <2>6 DEF Appends
    <2>8. mState' \in [End -> State]
      BY <2>1 DEF Appends, Become, State
    <2> QED
      BY <1>1, <2>3, <2>5, <2>7, <2>8
  <1>3. CASE HasPacket(e, FALSE) /\ ignoreData(e)
    <2>1. headerSize \in 0 .. Len(available[e])
      BY <1>3, HeaderThere DEF HasPacket
    <2>2. available' \in [End -> Seq(Byte)] /\ reading' \in [End -> BOOLEAN]
      BY <1>3, <2>1, Consumed DEF ignoreData
    <2> QED
      BY <1>1, <1>3, <2>2 DEF ignoreData
  <1>4. CASE /\ HasPacket(e, FALSE)
             /\ appendData(e, headerSize, dataSize(HeaderIn(e)), <<>>)
    <2>1. headerSize \in 0 .. Len(available[e]) /\ dataSize(HeaderIn(e)) \in Nat
      BY <1>4, HeaderThere DEF HasPacket
    <2>2. <<>> \in Seq(Byte)
      BY EmptySeq
    <2> QED
      BY <1>2, <1>4, <2>1, <2>2
  <1>5. CASE appendData(e, 0, mBytesToRead[e], mTempMessage[e])
    <2>1. 0 \in 0 .. Len(available[e])
      BY LenProperties
    <2> QED
      BY <1>2, <1>5, <2>1
  <1> QED
    BY <1>3, <1>4, <1>5 DEF processData

(* The steps of the SitaConnection that leave its Matip alone.             *)
Silent ==
  /\ signals' = {}
  /\ UNCHANGED <<connected, sessionVars, inTransit, available, reading,
                 userVars, emitted, unanswered>>

LEMMA ApplicationTypeStep ==
  ASSUME MessagesFit, MatipTypeOK, NEW e \in End, ApplicationStep(e)
  PROVE  MatipTypeOK'
  <1> DEFINE Rest == /\ connected \in BOOLEAN
                     /\ mBytesToRead \in [End -> Nat]
                     /\ mTempMessage \in [End -> Seq(Byte)]
                     /\ mQueryCounter \in [End -> Nat]
                     /\ available \in [End -> Seq(Byte)]
                     /\ reading \in [End -> BOOLEAN]
                     /\ emitted \in [End -> Seq(Seq(Byte))]
                     /\ unanswered \in [End -> Int]
  <1>1. Rest'
    <2>1. UNCHANGED <<connected, mBytesToRead, mTempMessage, mQueryCounter,
                      available, reading, emitted, unanswered>>
      BY DEF ApplicationStep, openSession, acceptConnection, refuseConnection,
             closeSession, sendTransmission, writeMessage, sessionVars, userVars
    <2>2. Rest
      BY DEF MatipTypeOK
    <2> QED
      BY <2>1, <2>2
  <1>2. \E command \in Command :
          \/ write(e, ControlPacket(command))
          \/ \E length \in Lengths : writeMessage(e, length)
    BY MatipAssumption DEF ApplicationStep, openSession, acceptConnection,
       refuseConnection, closeSession, sendTransmission, Command
  <1>3. inTransit' \in [End -> Seq(Byte)]
    <2>1. ASSUME NEW command \in Command, write(e, ControlPacket(command))
          PROVE  inTransit' \in [End -> Seq(Byte)]
      <3>1. /\ CommandPacket(command) \in Packet
            /\ write(e, Wire(CommandPacket(command)))
        BY <2>1, CommandPackets
      <3> QED
        BY <3>1, Written
    <2>2. ASSUME NEW length \in Lengths, writeMessage(e, length)
          PROVE  inTransit' \in [End -> Seq(Byte)]
      <3> DEFINE text == Text(Len(written[e]) + 1, length)
      <3>1. written[e] \in Seq(Fits)
        BY DEF MatipTypeOK
      <3>2. Len(written[e]) + 1 \in Nat
        BY <3>1, LenProperties
      <3>3. text \in Fits /\ write(e, DataPacket(text))
        BY <2>2, <3>2, TextFits DEF writeMessage
      <3> HIDE DEF text
      <3>4. MessagePacket(text) \in Packet /\ write(e, Wire(MessagePacket(text)))
        BY <3>3, MessagePackets
      <3> QED
        BY <3>4, Written
    <2> QED
      BY <1>2, <2>1, <2>2
  <1>4. mState' \in [End -> State] /\ opened' \in BOOLEAN /\ requested' \in BOOLEAN
    <2>1. /\ opened' = opened \/ opened' = TRUE
          /\ requested' = requested \/ requested' = FALSE
          /\ mState' = mState \/ \E state \in State, x \in End : Become(x, state)
      BY DEF ApplicationStep, openSession, acceptConnection, refuseConnection,
             closeSession, sendTransmission, writeMessage, sessionVars,
             userVars, State, End
    <2> QED
      BY <2>1 DEF MatipTypeOK, Become
  <1>5. written' \in [End -> Seq(Fits)]
    <2>1. CASE written' = written
      BY <2>1 DEF MatipTypeOK
    <2>2. CASE \E length \in Lengths : writeMessage(e, length)
      <3>1. PICK length \in Lengths : writeMessage(e, length)
        BY <2>2
      <3> DEFINE text == Text(Len(written[e]) + 1, length)
      <3>2. written \in [End -> Seq(Fits)] /\ written[e] \in Seq(Fits)
        BY DEF MatipTypeOK
      <3>3. Len(written[e]) + 1 \in Nat
        BY <3>2, LenProperties
      <3>4. text \in Fits /\ written' = [written EXCEPT ![e] = Append(@, text)]
        BY <3>1, <3>3, TextFits DEF writeMessage
      <3> HIDE DEF text
      <3>5. Append(written[e], text) \in Seq(Fits)
        BY <3>2, <3>4, AppendProperties
      <3> QED
        BY <3>2, <3>4, <3>5
    <2> QED
      BY <2>1, <2>2 DEF ApplicationStep, openSession, acceptConnection,
         refuseConnection, closeSession, sendTransmission, userVars
  <1> QED
    BY <1>1, <1>3, <1>4, <1>5 DEF MatipTypeOK

LEMMA SocketTypeStep ==
  ASSUME MatipTypeOK, NEW e \in End,
         arrive(e) \/ disconnected \/ discard(e) \/ await(e) \/ skipInvalidHeader(e)
  PROVE  MatipTypeOK'
  <1> USE DEF MatipTypeOK
  <1>1. CASE arrive(e)
    <2>1. PICK n \in 1 .. Len(inTransit[e]) :
            /\ available' = [available EXCEPT ![e] = @ \o SubSeq(inTransit[e], 1, n)]
            /\ inTransit' = [inTransit EXCEPT ![e] = SubSeq(@, n + 1, Len(@))]
      BY <1>1 DEF arrive
    <2>2. n \in Nat /\ n \in 0 .. Len(inTransit[e]) /\ 0 + n <= Len(inTransit[e])
      BY LenProperties
    <2>3. SubSeq(inTransit[e], n + 1, Len(inTransit[e])) \in Seq(Byte)
      BY <2>2, RestElement
    <2>4. SubSeq(inTransit[e], 1, n) \in Seq(Byte)
      BY <2>2, LenProperties
    <2>5. available[e] \o SubSeq(inTransit[e], 1, n) \in Seq(Byte)
      BY <2>4, ConcatElement
    <2>6. available' \in [End -> Seq(Byte)] /\ inTransit' \in [End -> Seq(Byte)]
      BY <2>1, <2>3, <2>5
    <2> QED
      BY <1>1, <2>6 DEF arrive, sessionVars, userVars
  <1>2. CASE disconnected
    <2>1. inTransit' \in [End -> Seq(Byte)]
      BY <1>2, EmptySeq DEF disconnected
    <2> QED
      BY <1>2, <2>1 DEF disconnected, sessionVars, userVars
  <1>3. CASE discard(e)
    <2>1. Len(available[e]) \in 0 .. Len(available[e])
      BY LenProperties
    <2>2. available' \in [End -> Seq(Byte)] /\ reading' \in [End -> BOOLEAN]
      BY <1>3, <2>1, Consumed DEF discard
    <2> QED
      BY <1>3, <2>2 DEF discard, sessionVars, userVars
  <1>4. CASE await(e)
    BY <1>4 DEF await, sessionVars, userVars
  <1>5. CASE skipInvalidHeader(e)
    <2>1. headerSize \in 0 .. Len(available[e])
      BY <1>5, LenProperties, MatipAssumption DEF skipInvalidHeader, HasHeader
    <2>2. SubSeq(available[e], headerSize + 1, Len(available[e])) \in Seq(Byte)
      BY <2>1, RestElement
    <2> QED
      BY <1>5, <2>2 DEF skipInvalidHeader, sessionVars, userVars
  <1> QED
    BY <1>1, <1>2, <1>3, <1>4, <1>5

LEMMA TimerTypeStep ==
  ASSUME MatipTypeOK, NEW e \in End, onTimeout(e)
  PROVE  MatipTypeOK'
  <1>1. \E command \in Command : write(e, ControlPacket(command))
    BY DEF onTimeout, Command
  <1>2. PICK command \in Command : write(e, ControlPacket(command))
    BY <1>1
  <1>3. CommandPacket(command) \in Packet /\ write(e, Wire(CommandPacket(command)))
    BY <1>2, CommandPackets
  <1>4. inTransit' \in [End -> Seq(Byte)]
    BY <1>3, Written
  <1>5. /\ mState' \in [End -> State]
        /\ mQueryCounter' \in [End -> Nat]
        /\ unanswered' \in [End -> Int]
    <2>1. /\ mState \in [End -> State] /\ mQueryCounter \in [End -> Nat]
          /\ unanswered \in [End -> Int] /\ "Unconnected" \in State
      BY DEF MatipTypeOK, State
    <2>2. CASE TimedOut(e)
      BY <2>1, <2>2 DEF onTimeout, Become
    <2>3. CASE ~ TimedOut(e)
      <3>1. /\ mState' = mState
            /\ mQueryCounter' = [mQueryCounter EXCEPT ![e] = @ + 1]
            /\ unanswered' = [unanswered EXCEPT ![e] = @ + 1]
        BY <2>3 DEF onTimeout
      <3>2. mQueryCounter[e] + 1 \in Nat /\ unanswered[e] + 1 \in Int
        BY <2>1
      <3> QED
        BY <2>1, <3>1, <3>2
    <2> QED
      BY <2>2, <2>3
  <1> QED
    BY <1>4, <1>5 DEF MatipTypeOK, onTimeout, userVars

LEMMA MatipTypeStep ==
  ASSUME MessagesFit, MatipTypeOK, [Next]_matipVars \/ Silent
  PROVE  MatipTypeOK'
  <1>1. ASSUME NEW e \in End, ApplicationStep(e)
        PROVE  MatipTypeOK'
    BY <1>1, ApplicationTypeStep
  <1>2. ASSUME NEW e \in End, arrive(e)
        PROVE  MatipTypeOK'
    BY <1>2, SocketTypeStep
  <1>3. ASSUME NEW e \in End, onReadyRead(e)
        PROVE  MatipTypeOK'
    BY <1>3, SocketTypeStep, CommandTypeStep, DataTypeStep DEF onReadyRead
  <1>4. ASSUME NEW e \in End, onTimeout(e)
        PROVE  MatipTypeOK'
    BY <1>4, TimerTypeStep
  <1>5. CASE disconnected
    BY <1>5, SocketTypeStep DEF End
  <1>6. CASE UNCHANGED matipVars \/ Silent
    BY <1>6 DEF MatipTypeOK, matipVars, Silent, sessionVars, userVars
  <1> QED
    BY <1>1, <1>2, <1>3, <1>4, <1>5, <1>6 DEF Next
----------------------------------------------------------------------------
(* One end: what it has, against the track of what is on its way to it.    *)

(* An end that reads what arrives.  The client does so from the start.     *)
Live(e) == mState[e] # "Unconnected" \/ (e = "client" /\ ~ opened)

Bytes(e) == available[e] \o inTransit[e]
Base(e)  == IF mState[e] = "DataTransfer" THEN mBytesToRead[e] ELSE 0

Frame(e, t) == Live(e) => Framed(Bytes(e), Base(e), t, connected)

(* The messages on their way are the next ones of those that were written, *)
(* and all of these while the connection is up; a message that is being    *)
(* read is not emitted yet.                                                *)
Texts(e, t) ==
  /\ \A k \in t.first .. t.last :
       t.packets[k].command = "None" =>
         t.packets[k].text = written[Peer(e)][t.no[k + 1]]
  /\ t.no[t.last + 1] <= Len(written[Peer(e)])
  /\ connected => t.no[t.last + 1] = Len(written[Peer(e)])
  /\ Live(e) => t.no[t.first] = Len(emitted[e])
                                  + (IF mState[e] = "DataTransfer" THEN 1 ELSE 0)

(* A message that is being read: what was read of it, and what is to come. *)
Partial(e, t) ==
  mState[e] = "DataTransfer" =>
    /\ mBytesToRead[e] > 0
    /\ Len(written[Peer(e)][t.no[t.first]]) = Len(mTempMessage[e]) + mBytesToRead[e]
    /\ \A i \in 1 .. Len(mTempMessage[e]) :
         mTempMessage[e][i] = written[Peer(e)][t.no[t.first]][i]
    /\ \A i \in 1 .. mBytesToRead[e] :
         i <= Len(Bytes(e)) =>
           Bytes(e)[i] = written[Peer(e)][t.no[t.first]][Len(mTempMessage[e]) + i]

(* An end that is not reading has read all it can.                         *)
Rested(e, t) ==
  Live(e) /\ ~ reading[e] =>
    IF mState[e] = "DataTransfer" THEN available[e] = <<>>
    ELSE t.first <= t.last => Len(available[e]) < Size(t.packets[t.first])

EndOK(e, t) ==
  /\ IsTrack(t)
  /\ Frame(e, t)
  /\ Texts(e, t)
  /\ Partial(e, t)
  /\ Rested(e, t)

(* What an end has written stays.                                          *)
Grown(e) ==
  /\ Len(written'[e]) \in Nat
  /\ Len(written'[e]) >= Len(written[e])
  /\ \A i \in 1 .. Len(written[e]) : written'[e][i] = written[e][i]

LEMMA TextPlaces ==
  ASSUME MatipTypeOK, NEW e \in End, NEW t, IsTrack(t), Texts(e, t)
  PROVE  /\ Len(written[Peer(e)]) \in Nat
         /\ \A k \in t.first .. t.last :
              t.packets[k].command = "None" =>
                t.no[k + 1] \in 1 .. Len(written[Peer(e)])
         /\ t.no[t.first] \in Nat
         /\ t.no[t.first] <= Len(written[Peer(e)])
  <1>1. /\ t.first \in Nat /\ t.last \in Nat /\ t.first <= t.last + 1
        /\ \A k \in Nat : t.no[k] \in Nat
    BY TrackFields
  <1>2. Len(written[Peer(e)]) \in Nat
    BY PeerFacts, LenProperties DEF MatipTypeOK
  <1>3. \A k \in t.first .. t.last + 1 : t.no[k] <= t.no[t.last + 1]
    <2>1. t.last + 1 \in t.first .. t.last + 1
      BY <1>1
    <2>2. \A k \in t.first .. t.last + 1 : k <= t.last + 1
      BY <1>1
    <2> QED
      BY <2>1, <2>2 DEF IsTrack, Ascends, Rises
  <1>4. t.no[t.last + 1] <= Len(written[Peer(e)])
    BY DEF Texts
  <1>5. ASSUME NEW k \in t.first .. t.last, t.packets[k].command = "None"
        PROVE  t.no[k + 1] \in 1 .. Len(written[Peer(e)])
    <2>1. k \in Nat /\ k + 1 \in t.first .. t.last + 1
      BY <1>1
    <2>2. t.no[k + 1] = t.no[k] + 1
      BY <1>5 DEF IsTrack, Counts, One
    <2>3. t.no[k] \in Nat /\ t.no[t.last + 1] \in Nat
      BY <1>1, <2>1
    <2> QED
      BY <1>2, <1>3, <1>4, <2>1, <2>2, <2>3
  <1>6. t.no[t.first] \in Nat /\ t.no[t.first] <= Len(written[Peer(e)])
    <2>1. t.first \in t.first .. t.last + 1
      BY <1>1
    <2>2. t.no[t.first] \in Nat /\ t.no[t.last + 1] \in Nat
      BY <1>1
    <2> QED
      BY <1>2, <1>3, <1>4, <2>1, <2>2
  <1> QED
    BY <1>2, <1>5, <1>6

LEMMA GrownTexts ==
  ASSUME MatipTypeOK, NEW e \in End, NEW t, IsTrack(t), Texts(e, t),
         Grown(Peer(e))
  PROVE  /\ \A k \in t.first .. t.last :
              t.packets[k].command = "None" =>
                t.packets[k].text = written'[Peer(e)][t.no[k + 1]]
         /\ t.no[t.last + 1] <= Len(written'[Peer(e)])
  <1>1. /\ Len(written[Peer(e)]) \in Nat
        /\ \A k \in t.first .. t.last :
             t.packets[k].command = "None" =>
               t.no[k + 1] \in 1 .. Len(written[Peer(e)])
    BY TextPlaces
  <1>2. t.no[t.last + 1] \in Nat /\ t.no[t.last + 1] <= Len(written[Peer(e)])
    BY TrackFields DEF Texts
  <1> QED
    BY <1>1, <1>2 DEF Texts, Grown

(* Nothing of an end that reads has changed, but for a state that expects  *)
(* packets before and after.                                               *)
Kept(e) ==
  /\ Live(e)
  /\ UNCHANGED <<mBytesToRead[e], mTempMessage[e], available[e], emitted[e]>>
  /\ \/ mState'[e] = mState[e]
     \/ mState[e] # "DataTransfer" /\ mState'[e] # "DataTransfer"

LEMMA EndKept ==
  ASSUME MatipTypeOK, NEW e \in End, NEW t, EndOK(e, t),
         connected' = connected, Grown(Peer(e)),
         connected => Len(written'[Peer(e)]) = Len(written[Peer(e)]),
         Live(e)' => Kept(e) /\ UNCHANGED <<inTransit[e], reading[e]>>
  PROVE  EndOK(e, t)'
  <1>1. IsTrack(t) /\ Frame(e, t) /\ Texts(e, t) /\ Partial(e, t) /\ Rested(e, t)
    BY DEF EndOK
  <1>2. /\ \A k \in t.first .. t.last :
              t.packets[k].command = "None" =>
                t.packets[k].text = written'[Peer(e)][t.no[k + 1]]
        /\ t.no[t.last + 1] <= Len(written'[Peer(e)])
    BY <1>1, GrownTexts
  <1>3. connected' => t.no[t.last + 1] = Len(written'[Peer(e)])
    BY <1>1 DEF Texts
  <1>4. CASE ~ Live(e)'
    <2>1. mState'[e] # "DataTransfer"
      BY <1>4 DEF Live
    <2> QED
      BY <1>1, <1>2, <1>3, <1>4, <2>1 DEF EndOK, Frame, Texts, Partial, Rested
  <1>5. CASE Live(e)'
    <2>1. /\ Kept(e) /\ inTransit'[e] = inTransit[e] /\ reading'[e] = reading[e]
      BY <1>5
    <2>2. /\ Bytes(e)' = Bytes(e) /\ Base(e)' = Base(e)
          /\ mState'[e] = "DataTransfer" <=> mState[e] = "DataTransfer"
      BY <2>1 DEF Kept, Bytes, Base
    <2>3. Frame(e, t)'
      BY <1>1, <2>1, <2>2 DEF Frame, Kept
    <2>4. Texts(e, t)'
      BY <1>1, <1>2, <1>3, <2>1, <2>2 DEF Texts, Kept
    <2>5. Partial(e, t)'
      <3>1. CASE mState[e] = "DataTransfer"
        <4>1. t.no[t.first] \in 1 .. Len(written[Peer(e)])
          <5>1. t.no[t.first] = Len(emitted[e]) + 1 /\ Len(emitted[e]) \in Nat
            BY <1>1, <2>1, <3>1, LenProperties DEF Texts, Kept, MatipTypeOK
          <5>2. /\ Len(written[Peer(e)]) \in Nat
                /\ t.no[t.first] <= Len(written[Peer(e)])
            BY <1>1, TextPlaces
          <5> QED
            BY <5>1, <5>2
        <4>2. written'[Peer(e)][t.no[t.first]] = written[Peer(e)][t.no[t.first]]
          BY <4>1 DEF Grown
        <4> QED
          BY <1>1, <2>1, <2>2, <3>1, <4>2 DEF Partial, Kept
      <3>2. CASE mState[e] # "DataTransfer"
        BY <2>2, <3>2 DEF Partial
      <3> QED
        BY <3>1, <3>2
    <2>6. Rested(e, t)'
      BY <1>1, <2>1, <2>2 DEF Rested, Kept
    <2> QED
      BY <1>1, <2>3, <2>4, <2>5, <2>6 DEF EndOK
  <1> QED
    BY <1>4, <1>5

LEMMA EqualBytes ==
  ASSUME NEW x \in Seq(Byte), NEW y \in Seq(Byte), Len(x) = Len(y),
         \A i \in 1 .. Len(x) : x[i] = y[i]
  PROVE  x = y
  BY SeqEqual

(* Reading from what is there, and what arrives of it, as reading from all *)
(* that is on its way.                                                     *)
LEMMA ConcatRest ==
  ASSUME NEW x \in Seq(Byte), NEW y \in Seq(Byte), NEW m \in 0 .. Len(x)
  PROVE  SubSeq(x, m + 1, Len(x)) \o y = SubSeq(x \o y, m + 1, Len(x \o y))
  <1> DEFINE a == SubSeq(x, m + 1, Len(x))
             all == x \o y
             b == SubSeq(all, m + 1, Len(all))
  <1>1. /\ Len(x) \in Nat /\ Len(y) \in Nat /\ m \in Nat /\ m <= Len(x)
    BY LenProperties
  <1>2. /\ all \in Seq(Byte) /\ Len(all) = Len(x) + Len(y)
        /\ \A i \in 1 .. Len(x) : all[i] = x[i]
        /\ \A i \in 1 .. Len(y) : all[Len(x) + i] = y[i]
    BY JoinedBytes, Zenon
  <1>3. /\ a \in Seq(Byte) /\ Len(a) = Len(x) - m
        /\ \A i \in 1 .. Len(x) - m : a[i] = x[m + i]
    BY RestElement
  <1> HIDE DEF all
  <1>4. m \in 0 .. Len(all)
    BY <1>1, <1>2
  <1>5. /\ b \in Seq(Byte) /\ Len(b) = Len(all) - m
        /\ \A i \in 1 .. Len(all) - m : b[i] = all[m + i]
    BY <1>2, <1>4, RestElement
  <1> HIDE DEF a, b
  <1>6. /\ a \o y \in Seq(Byte) /\ Len(a \o y) = Len(a) + Len(y)
        /\ \A i \in 1 .. Len(a) : (a \o y)[i] = a[i]
        /\ \A i \in 1 .. Len(y) : (a \o y)[Len(a) + i] = y[i]
    BY <1>3, JoinedBytes, Zenon
  <1> DEFINE c == a \o y
  <1>7. Len(c) = Len(b)
    BY <1>1, <1>2, <1>3, <1>5, <1>6
  <1>8. ASSUME NEW i \in 1 .. Len(c)
        PROVE  c[i] = b[i]
    <2>1. i \in 1 .. Len(all) - m /\ i \in Nat /\ i >= 1
      BY <1>1, <1>2, <1>5, <1>7
    <2>2. CASE i <= Len(a)
      <3>1. i \in 1 .. Len(a) /\ i \in 1 .. Len(x) - m /\ m + i \in 1 .. Len(x)
        BY <1>1, <1>3, <2>1, <2>2
      <3> QED
        BY <1>2, <1>3, <1>5, <1>6, <2>1, <3>1
    <2>3. CASE i > Len(a)
      <3>1. i - Len(a) \in 1 .. Len(y)
        BY <1>1, <1>3, <1>6, <2>1, <2>3
      <3>2. Len(a) + (i - Len(a)) = i /\ Len(x) + (i - Len(a)) = m + i
        BY <1>1, <1>3, <2>1
      <3>3. c[i] = y[i - Len(a)]
        BY <1>6, <3>1, <3>2
      <3>4. all[m + i] = y[i - Len(a)]
        BY <1>2, <3>1, <3>2
      <3> QED
        BY <1>5, <2>1, <3>3, <3>4
    <2> QED
      BY <1>1, <1>3, <2>1, <2>2, <2>3
  <1> HIDE DEF c
  <1>9. c = b
    <2>1. c \in Seq(Byte)
      BY <1>6 DEF c
    <2> QED
      BY <1>5, <1>7, <1>8, <2>1, EqualBytes
  <1> QED
    BY <1>9 DEF a, b, c, all

(* A segment moves from the wire to the socket.                            *)
LEMMA ConcatMoved ==
  ASSUME NEW x \in Seq(Byte), NEW y \in Seq(Byte), NEW n \in 0 .. Len(y)
  PROVE  (x \o SubSeq(y, 1, n)) \o SubSeq(y, n + 1, Len(y)) = x \o y
  <1> DEFINE a == SubSeq(y, 1, n)
             b == SubSeq(y, n + 1, Len(y))
  <1>1. Len(y) \in Nat /\ n \in Nat /\ n <= Len(y) /\ Len(x) \in Nat
    BY LenProperties
  <1>2. /\ a \in Seq(Byte) /\ Len(a) = n
        /\ \A i \in 1 .. n : a[i] = y[i]
    BY <1>1, LenProperties
  <1>3. /\ b \in Seq(Byte) /\ Len(b) = Len(y) - n
        /\ \A i \in 1 .. Len(y) - n : b[i] = y[n + i]
    BY RestElement
  <1> HIDE DEF a, b
  <1>4. a \o b = y
    <2> DEFINE z == a \o b
    <2>1. /\ z \in Seq(Byte) /\ Len(z) = Len(a) + Len(b)
          /\ \A i \in 1 .. Len(a) : z[i] = a[i]
          /\ \A i \in 1 .. Len(b) : z[Len(a) + i] = b[i]
      BY <1>2, <1>3, JoinedBytes, Zenon
    <2> HIDE DEF z
    <2>2. Len(z) = Len(y)
      BY <1>1, <1>2, <1>3, <2>1
    <2>3. ASSUME NEW i \in 1 .. Len(z)
          PROVE  z[i] = y[i]
      <3>1. i \in Nat /\ i >= 1 /\ i <= Len(y)
        BY <1>1, <2>2
      <3>2. CASE i <= n
        BY <1>2, <2>1, <3>1, <3>2
      <3>3. CASE i > n
        <4>1. i - n \in 1 .. Len(b) /\ Len(a) + (i - n) = i /\ n + (i - n) = i
          BY <1>1, <1>2, <1>3, <3>1, <3>3
        <4>2. z[i] = b[i - n]
          BY <2>1, <4>1
        <4> QED
          BY <1>3, <4>1, <4>2
      <3> QED
        BY <1>1, <3>1, <3>2, <3>3
    <2>4. z = y
      BY <2>1, <2>2, <2>3, EqualBytes
    <2> QED
      BY <2>4 DEF z
  <1>5. (x \o a) \o b = x \o (a \o b)
    BY <1>2, <1>3, JoinedThree, Zenon
  <1> QED
    BY <1>4, <1>5 DEF a, b

(* The message that is being read does not change.                         *)
LEMMA CurrentText ==
  ASSUME MatipTypeOK, NEW e \in End, NEW t, IsTrack(t), Texts(e, t),
         mState[e] = "DataTransfer"
  PROVE  /\ t.no[t.first] = Len(emitted[e]) + 1
         /\ Len(emitted[e]) \in Nat
         /\ t.no[t.first] \in 1 .. Len(written[Peer(e)])
         /\ Grown(Peer(e)) =>
              written'[Peer(e)][t.no[t.first]] = written[Peer(e)][t.no[t.first]]
  <1>1. Live(e)
    BY DEF Live
  <1>2. t.no[t.first] = Len(emitted[e]) + 1 /\ Len(emitted[e]) \in Nat
    BY <1>1, LenProperties DEF Texts, MatipTypeOK
  <1>3. Len(written[Peer(e)]) \in Nat /\ t.no[t.first] <= Len(written[Peer(e)])
    BY TextPlaces
  <1>4. t.no[t.first] \in 1 .. Len(written[Peer(e)])
    BY <1>2, <1>3
  <1> QED
    BY <1>2, <1>4 DEF Grown

(* Bytes arrive, or what had not arrived is lost, or the handler stops.    *)
LEMMA EndMoved ==
  ASSUME MatipTypeOK, MatipTypeOK', NEW e \in End, NEW t, EndOK(e, t),
         UNCHANGED <<mState[e], mBytesToRead[e], mTempMessage[e], emitted[e],
                     written, opened>>,
         connected' => connected /\ Bytes(e)' = Bytes(e),
         Len(Bytes(e)') <= Len(Bytes(e)),
         \A i \in 1 .. Len(Bytes(e)') : Bytes(e)'[i] = Bytes(e)[i],
         Rested(e, t)'
  PROVE  EndOK(e, t)'
  <1>1. IsTrack(t) /\ Frame(e, t) /\ Texts(e, t) /\ Partial(e, t)
    BY DEF EndOK
  <1>2. Live(e)' = Live(e) /\ Base(e)' = Base(e)
    BY DEF Live, Base
  <1>3. /\ Len(Bytes(e)') \in Nat /\ Len(Bytes(e)) \in Nat /\ Base(e) \in Nat
    <2>1. /\ available[e] \in Seq(Byte) /\ inTransit[e] \in Seq(Byte)
          /\ available'[e] \in Seq(Byte) /\ inTransit'[e] \in Seq(Byte)
          /\ mBytesToRead[e] \in Nat
      BY DEF MatipTypeOK
    <2>2. Bytes(e) \in Seq(Byte) /\ Bytes(e)' \in Seq(Byte)
      BY <2>1, JoinedBytes DEF Bytes
    <2> QED
      BY <2>1, <2>2, LenProperties DEF Base
  <1>4. Frame(e, t)'
    <2>1. CASE ~ Live(e)
      BY <1>2, <2>1 DEF Frame
    <2>2. CASE Live(e)
      <3>1. Framed(Bytes(e), Base(e), t, connected)
        BY <1>1, <2>2 DEF Frame
      <3>2. CASE connected'
        <4>1. connected' = connected
          BY <3>2 DEF MatipTypeOK
        <4> QED
          BY <1>2, <3>1, <3>2, <4>1 DEF Frame
      <3>3. CASE ~ connected'
        <4>1. connected \in BOOLEAN /\ connected' = FALSE
          BY <3>3 DEF MatipTypeOK
        <4>2. Framed(Bytes(e)', Base(e), t, FALSE)
          BY <1>1, <1>3, <3>1, <4>1, FramedCut
        <4> QED
          BY <1>2, <4>1, <4>2 DEF Frame
      <3> QED
        BY <3>2, <3>3
    <2> QED
      BY <2>1, <2>2
  <1>5. Texts(e, t)'
    BY <1>1, <1>2 DEF Texts
  <1>6. Partial(e, t)'
    <2>1. CASE mState[e] = "DataTransfer"
      <3>1. mBytesToRead[e] \in Nat
        BY DEF MatipTypeOK
      <3>2. \A i \in 1 .. mBytesToRead[e] : i <= Len(Bytes(e)') =>
              /\ i <= Len(Bytes(e))
              /\ Bytes(e)'[i] = Bytes(e)[i]
        BY <1>3, <3>1
      <3> QED
        BY <1>1, <2>1, <3>2 DEF Partial
    <2>2. CASE mState[e] # "DataTransfer"
      BY <2>2 DEF Partial
    <2> QED
      BY <2>1, <2>2
  <1> QED
    BY <1>1, <1>4, <1>5, <1>6 DEF EndOK

(* A packet is written to an end.                                          *)
LEMMA EndPut ==
  ASSUME MatipTypeOK, NEW e \in End, NEW t, EndOK(e, t),
         connected, connected', NEW p \in Packet, Grown(Peer(e)),
         Len(written'[Peer(e)]) = Len(written[Peer(e)]) + One(p, "None"),
         p.command = "None" => written'[Peer(e)][Len(written'[Peer(e)])] = p.text,
         Live(e)' => /\ Kept(e)
                     /\ reading'[e] = reading[e]
                     /\ inTransit'[e] = inTransit[e] \o Wire(p)
  PROVE  EndOK(e, Grow(t, p))'
  <1> DEFINE g == Grow(t, p)
  <1>1. IsTrack(t) /\ Frame(e, t) /\ Texts(e, t) /\ Partial(e, t) /\ Rested(e, t)
    BY DEF EndOK
  <1>2. /\ IsTrack(g)
        /\ g.first = t.first /\ g.last = t.last + 1
        /\ \A k \in t.first .. t.last : g.packets[k] = t.packets[k]
        /\ g.packets[t.last + 1] = p
        /\ \A k \in t.first .. t.last + 1 : g.no[k] = t.no[k]
        /\ g.no[t.last + 2] = t.no[t.last + 1] + One(p, "None")
    BY <1>1, GrowFacts
  <1>3. t.first \in Nat /\ t.last \in Nat /\ t.first <= t.last + 1
    BY <1>1, TrackFields
  <1>4. t.no[t.last + 1] = Len(written[Peer(e)]) /\ g.last + 1 = t.last + 2
    BY <1>1, <1>2, <1>3 DEF Texts
  <1>5. g.no[g.first] = t.no[t.first]
    <2>1. t.first \in t.first .. t.last + 1
      BY <1>3
    <2> QED
      BY <1>2, <2>1
  <1> HIDE DEF g
  <1>6. /\ \A k \in t.first .. t.last :
              t.packets[k].command = "None" =>
                t.packets[k].text = written'[Peer(e)][t.no[k + 1]]
    BY <1>1, GrownTexts
  <1>7. ASSUME NEW k \in g.first .. g.last, g.packets[k].command = "None"
        PROVE  g.packets[k].text = written'[Peer(e)][g.no[k + 1]]
    <2>1. CASE k = t.last + 1
      <3>1. g.packets[k] = p /\ k + 1 = t.last + 2 /\ One(p, "None") = 1
        BY <1>2, <1>3, <1>7, <2>1 DEF One
      <3>2. g.no[k + 1] = Len(written'[Peer(e)])
        BY <1>2, <1>4, <3>1
      <3> QED
        BY <1>7, <3>1, <3>2
    <2>2. CASE k # t.last + 1
      <3>1. k \in t.first .. t.last /\ k + 1 \in t.first .. t.last + 1
        BY <1>2, <1>3, <2>2
      <3>2. g.packets[k] = t.packets[k] /\ g.no[k + 1] = t.no[k + 1]
        BY <1>2, <3>1
      <3> QED
        BY <1>6, <1>7, <3>1, <3>2
    <2> QED
      BY <2>1, <2>2
  <1>8. /\ g.no[g.last + 1] = Len(written'[Peer(e)])
        /\ Len(written'[Peer(e)]) \in Nat
    BY <1>2, <1>4 DEF Grown
  <1>9. CASE ~ Live(e)'
    <2>1. mState'[e] # "DataTransfer"
      BY <1>9 DEF Live
    <2>2. Frame(e, g)' /\ Partial(e, g)' /\ Rested(e, g)'
      BY <1>9, <2>1 DEF Frame, Partial, Rested
    <2>3. Texts(e, g)'
      <3>1. g.no[g.last + 1] <= Len(written'[Peer(e)])
        BY <1>8
      <3> QED
        BY <1>7, <1>8, <1>9, <3>1 DEF Texts
    <2> QED
      BY <1>2, <2>2, <2>3 DEF EndOK, g
  <1>10. CASE Live(e)'
    <2>1. /\ Kept(e) /\ inTransit'[e] = inTransit[e] \o Wire(p)
          /\ reading'[e] = reading[e]
      BY <1>10
    <2>2. /\ available[e] \in Seq(Byte) /\ inTransit[e] \in Seq(Byte)
          /\ Wire(p) \in Seq(Byte) /\ mBytesToRead[e] \in Nat
      BY WireBytes DEF MatipTypeOK
    <2>3. /\ Base(e)' = Base(e) /\ Base(e) \in Nat
          /\ mState'[e] = "DataTransfer" <=> mState[e] = "DataTransfer"
      BY <2>1, <2>2 DEF Kept, Base
    <2>4. Bytes(e)' = Bytes(e) \o Wire(p) /\ Bytes(e) \in Seq(Byte)
      <3>2. Bytes(e)' = available[e] \o (inTransit[e] \o Wire(p))
        BY <2>1 DEF Bytes, Kept
      <3> QED
        BY <2>2, <3>2, JoinedThree, JoinedBytes DEF Bytes
    <2>5. Framed(Bytes(e), Base(e), t, TRUE)
      BY <1>1, <2>1 DEF Frame, Framed, Kept
    <2>6. Framed(Bytes(e) \o Wire(p), Base(e), g, TRUE)
      BY <1>1, <2>3, <2>4, <2>5, FramedGrow DEF g
    <2>7. Frame(e, g)'
      BY <2>3, <2>4, <2>6 DEF Frame, Framed
    <2>8. Texts(e, g)'
      <3>1. t.no[t.first] = Len(emitted[e])
                              + (IF mState[e] = "DataTransfer" THEN 1 ELSE 0)
        BY <1>1, <2>1 DEF Texts, Kept
      <3> QED
        <4>1. g.no[g.first] = Len(emitted'[e])
                                + (IF mState'[e] = "DataTransfer" THEN 1 ELSE 0)
          BY <1>5, <2>1, <2>3, <3>1 DEF Kept
        <4>2. g.no[g.last + 1] <= Len(written'[Peer(e)])
          BY <1>8
        <4> QED
          BY <1>7, <1>8, <4>1, <4>2 DEF Texts
    <2>9. Partial(e, g)'
      <3>1. CASE mState[e] = "DataTransfer"
        <4>1. written'[Peer(e)][g.no[g.first]] = written[Peer(e)][t.no[t.first]]
          BY <1>1, <1>5, <3>1, CurrentText
        <4>2. \A i \in 1 .. mBytesToRead[e] :
                i <= Len(Bytes(e)) /\ Bytes(e)'[i] = Bytes(e)[i]
          <5>1. Len(Bytes(e)) >= mBytesToRead[e] /\ Len(Bytes(e)) \in Nat
            <6>1. /\ Len(Bytes(e)) = Base(e) + (t.at[t.last + 1] - t.at[t.first])
                  /\ Base(e) = mBytesToRead[e]
              BY <2>5, <3>1 DEF Framed, Base
            <6>2. /\ t.first \in t.first .. t.last + 1
                  /\ t.last + 1 \in t.first .. t.last + 1
                  /\ t.first <= t.last + 1
              BY <1>3
            <6>3. /\ t.at[t.first] <= t.at[t.last + 1]
                  /\ t.at[t.first] \in Nat /\ t.at[t.last + 1] \in Nat
              BY <1>1, <6>2, TrackFields
            <6> QED
              BY <2>2, <6>1, <6>3
          <5>2. \A i \in 1 .. Len(Bytes(e)) : Bytes(e)'[i] = Bytes(e)[i]
            <6>1. \A i \in 1 .. Len(Bytes(e)) : (Bytes(e) \o Wire(p))[i] = Bytes(e)[i]
              BY <2>2, <2>4, JoinedBytes, Zenon
            <6> QED
              BY <2>4, <6>1
          <5> QED
            BY <2>2, <5>1, <5>2
        <4>3. mState'[e] = "DataTransfer"
          BY <2>3, <3>1
        <4>4. /\ mBytesToRead'[e] = mBytesToRead[e]
              /\ mTempMessage'[e] = mTempMessage[e]
          BY <2>1 DEF Kept
        <4> QED
          BY <1>1, <3>1, <4>1, <4>2, <4>3, <4>4 DEF Partial
      <3>2. CASE mState[e] # "DataTransfer"
        BY <2>3, <3>2 DEF Partial
      <3> QED
        BY <3>1, <3>2
    <2>10. Rested(e, g)'
      <3>1. CASE reading[e] \/ mState[e] = "DataTransfer"
        BY <1>1, <2>1, <2>3, <3>1 DEF Rested, Kept
      <3>2. CASE ~ reading[e] /\ mState[e] # "DataTransfer" /\ t.first <= t.last
        <4>1. t.first \in t.first .. t.last
          BY <1>3, <3>2
        <4>2. g.packets[g.first] = t.packets[t.first]
          BY <1>2, <4>1
        <4> QED
          BY <1>1, <2>1, <2>3, <3>2, <4>2 DEF Rested, Kept
      <3>3. CASE ~ reading[e] /\ mState[e] # "DataTransfer" /\ t.first > t.last
        <4>1. Framed(Bytes(e), 0, t, TRUE)
          BY <2>5, <3>3 DEF Base
        <4>2. Len(Bytes(e)) = 0
          BY <1>1, <2>4, <3>3, <4>1, FramedHead
        <4>3. Len(available[e]) = 0
          <5>1. Len(Bytes(e)) = Len(available[e]) + Len(inTransit[e])
            BY <2>2, JoinedBytes, Zenon DEF Bytes
          <5>2. Len(available[e]) \in Nat /\ Len(inTransit[e]) \in Nat
            BY <2>2, LenProperties
          <5>3. Len(available[e]) + Len(inTransit[e]) = 0
            BY <4>2, <5>1
          <5>4. \A a, b \in Nat : a + b = 0 => a = 0
            OBVIOUS
          <5> QED
            BY <5>2, <5>3, <5>4, Zenon
        <4>4. t.first = t.last + 1
          BY <1>3, <3>3
        <4>5. g.packets[g.first] = p /\ Size(p) \in Nat \ {0}
          BY <1>2, <4>4, WireBytes
        <4>6. available'[e] = available[e]
          BY <2>1 DEF Kept
        <4> QED
          BY <2>3, <3>3, <4>3, <4>5, <4>6 DEF Rested
      <3> QED
        BY <1>3, <3>1, <3>2, <3>3
    <2> QED
      BY <1>2, <2>7, <2>8, <2>9, <2>10 DEF EndOK, g
  <1> QED
    BY <1>9, <1>10

LEMMA AllBytes ==
  ASSUME MatipTypeOK, NEW e \in End
  PROVE  /\ Bytes(e) \in Seq(Byte)
         /\ Len(available[e]) \in Nat /\ Len(Bytes(e)) \in Nat
         /\ Len(available[e]) <= Len(Bytes(e))
         /\ Len(Bytes(e)) = Len(available[e]) + Len(inTransit[e])
         /\ \A i \in 1 .. Len(available[e]) : Bytes(e)[i] = available[e][i]
  <1>1. available[e] \in Seq(Byte) /\ inTransit[e] \in Seq(Byte)
    BY DEF MatipTypeOK
  <1>2. /\ Bytes(e) \in Seq(Byte)
        /\ Len(Bytes(e)) = Len(available[e]) + Len(inTransit[e])
        /\ \A i \in 1 .. Len(available[e]) : Bytes(e)[i] = available[e][i]
    BY <1>1, JoinedBytes, Zenon DEF Bytes
  <1>3. Len(available[e]) \in Nat /\ Len(inTransit[e]) \in Nat
    BY <1>1, LenProperties
  <1>4. \A a, b \in Nat : a <= a + b /\ a + b \in Nat
    OBVIOUS
  <1>5. /\ Len(available[e]) <= Len(available[e]) + Len(inTransit[e])
        /\ Len(available[e]) + Len(inTransit[e]) \in Nat
    BY <1>3, <1>4, Zenon
  <1>6. Len(available[e]) <= Len(Bytes(e)) /\ Len(Bytes(e)) \in Nat
    BY <1>2, <1>5, Zenon
  <1> QED
    BY <1>2, <1>3, <1>6, Zenon

(* An end that expects a packet finds the header of the next one.          *)
LEMMA HeadThere ==
  ASSUME MatipTypeOK, NEW e \in End, NEW t, EndOK(e, t), Live(e),
         mState[e] # "DataTransfer", Len(available[e]) >= headerSize
  PROVE  /\ t.first <= t.last
         /\ t.first \in t.first .. t.last
         /\ t.packets[t.first] \in Packet
         /\ IsValid(HeaderIn(e))
         /\ HeaderIn(e).command = t.packets[t.first].command
         /\ dataSize(HeaderIn(e)) = Payload(t.packets[t.first])
  <1>1. IsTrack(t) /\ Framed(Bytes(e), 0, t, connected) /\ connected \in BOOLEAN
    BY DEF EndOK, Frame, Base, MatipTypeOK
  <1>3. headerSize \in Nat \ {0}
    BY MatipAssumption
  <1>4. /\ Bytes(e) \in Seq(Byte)
        /\ Len(available[e]) \in Nat /\ Len(Bytes(e)) \in Nat
        /\ Len(available[e]) <= Len(Bytes(e))
        /\ \A i \in 1 .. Len(available[e]) : Bytes(e)[i] = available[e][i]
    BY AllBytes
  <1>5. Len(Bytes(e)) >= 1 /\ 1 \in 1 .. Len(available[e])
    BY <1>3, <1>4
  <1>6. t.first <= t.last /\ Bytes(e)[1] = Wire(t.packets[t.first])[1]
    BY <1>1, <1>4, <1>5, FramedHead
  <1>7. HeaderIn(e) = Wire(t.packets[t.first])[1]
    BY <1>4, <1>5, <1>6 DEF HeaderIn
  <1>8. t.first \in Nat /\ t.last \in Nat /\ t.packets[t.first] \in Packet
    BY <1>1, TrackFields
  <1> QED
    BY <1>6, <1>7, <1>8, WireBytes

(* The bytes an end has after it read n of those that were there.          *)
LEMMA BytesRead ==
  ASSUME MatipTypeOK, NEW e \in End, NEW n \in 0 .. Len(available[e]),
         Consume(e, n), inTransit'[e] = inTransit[e]
  PROVE  /\ Bytes(e) \in Seq(Byte)
         /\ Bytes(e)' = SubSeq(Bytes(e), n + 1, Len(Bytes(e)))
         /\ n \in Nat /\ n <= Len(Bytes(e)) /\ Len(Bytes(e)) \in Nat
         /\ \A i \in 1 .. Len(available[e]) : Bytes(e)[i] = available[e][i]
         /\ \A i \in 1 .. Len(Bytes(e)) - n : Bytes(e)'[i] = Bytes(e)[n + i]
         /\ Len(Bytes(e)') = Len(Bytes(e)) - n
  <1>1. available[e] \in Seq(Byte) /\ inTransit[e] \in Seq(Byte)
    BY DEF MatipTypeOK
  <1>2. available'[e] = SubSeq(available[e], n + 1, Len(available[e]))
    BY Consumed
  <1>3. /\ Bytes(e) \in Seq(Byte)
        /\ Len(available[e]) \in Nat /\ Len(Bytes(e)) \in Nat
        /\ Len(available[e]) <= Len(Bytes(e))
        /\ \A i \in 1 .. Len(available[e]) : Bytes(e)[i] = available[e][i]
    BY AllBytes
  <1>5. Bytes(e)' = SubSeq(Bytes(e), n + 1, Len(Bytes(e)))
    BY <1>1, <1>2, ConcatRest DEF Bytes
  <1>6. n \in Nat /\ n <= Len(Bytes(e)) /\ Len(Bytes(e)) \in Nat
    BY <1>3
  <1>7. n \in 0 .. Len(Bytes(e))
    BY <1>6
  <1>8. /\ Len(SubSeq(Bytes(e), n + 1, Len(Bytes(e)))) = Len(Bytes(e)) - n
        /\ \A i \in 1 .. Len(Bytes(e)) - n :
             SubSeq(Bytes(e), n + 1, Len(Bytes(e)))[i] = Bytes(e)[n + i]
    BY <1>3, <1>7, RestElement
  <1> QED
    BY <1>3, <1>5, <1>6, <1>8

(* A command is read.                                                      *)
LEMMA EndTakeCommand ==
  ASSUME MatipTypeOK, NEW e \in End, NEW t, EndOK(e, t), Live(e),
         mState[e] # "DataTransfer", t.first <= t.last,
         t.packets[t.first].command # "None",
         Size(t.packets[t.first]) <= Len(available[e]),
         Consume(e, Size(t.packets[t.first])),
         UNCHANGED <<connected, written, emitted, inTransit[e]>>,
         mState'[e] # "DataTransfer"
  PROVE  EndOK(e, MoveTo(t, t.first + 1))'
  <1> DEFINE u == MoveTo(t, t.first + 1)
             n == Size(t.packets[t.first])
  <1>1. IsTrack(t) /\ Frame(e, t) /\ Texts(e, t)
    BY DEF EndOK
  <1>2. /\ t.first \in Nat /\ t.last \in Nat
        /\ t.first + 1 \in t.first .. t.last + 1
        /\ t.first \in t.first .. t.last
    BY <1>1, TrackFields
  <1>3. t.packets[t.first] \in Packet /\ n \in Nat /\ n > 0
    BY <1>1, <1>2, TrackFields, WireBytes
  <1>4. /\ IsTrack(u) /\ u.first = t.first + 1 /\ u.last = t.last
        /\ u.packets = t.packets /\ u.no = t.no
    BY <1>1, <1>2, MoveFacts
  <1>5. Len(available[e]) \in Nat
    BY LenProperties DEF MatipTypeOK
  <1>6. n \in 0 .. Len(available[e])
    BY <1>3, <1>5
  <1>7. /\ Bytes(e) \in Seq(Byte)
        /\ Bytes(e)' = SubSeq(Bytes(e), n + 1, Len(Bytes(e)))
        /\ n <= Len(Bytes(e))
    BY <1>6, BytesRead
  <1>8. t.no[t.first + 1] = t.no[t.first] + 0 /\ t.no[t.first] \in Nat
    BY <1>1, <1>2, TrackFields DEF IsTrack, Counts, One
  <1> HIDE DEF u
  <1>9. Frame(e, u)'
    <2>1. Framed(Bytes(e), 0, t, connected) /\ connected \in BOOLEAN
      BY <1>1 DEF Frame, Base, MatipTypeOK
    <2>2. n \in 0 .. n
      BY <1>3
    <2>3. Framed(SubSeq(Bytes(e), n + 1, Len(Bytes(e))), n - n, u, connected)
      BY <1>1, <1>7, <2>1, <2>2, FramedRead DEF u
    <2>4. n - n = 0
      BY <1>3
    <2>5. Framed(Bytes(e)', 0, u, connected')
      BY <1>7, <2>3, <2>4
    <2> QED
      BY <2>5 DEF Frame, Base
  <1>10. Texts(e, u)'
    <2>1. \A k \in u.first .. u.last : k \in t.first .. t.last
      BY <1>2, <1>4
    <2>2. t.no[t.first] = Len(emitted[e]) + 0 /\ Len(emitted[e]) \in Nat
      BY <1>1, LenProperties DEF Texts, MatipTypeOK
    <2>3. u.no[u.first] = Len(emitted'[e]) + 0
      BY <1>4, <1>8, <2>2
    <2> QED
      BY <1>1, <1>4, <2>1, <2>3 DEF Texts
  <1>11. Partial(e, u)'
    BY DEF Partial
  <1>12. Rested(e, u)'
    <2>1. /\ reading'[e] <=> available'[e] # <<>>
      BY <1>6, Consumed
    <2>2. \A k \in Nat : Size(t.packets[k]) \in Nat /\ Size(t.packets[k]) > 0
      BY <1>1, TrackFields, WireBytes
    <2>3. u.first \in Nat
      BY <1>2, <1>4
    <2>4. available'[e] = <<>> => Len(available'[e]) < Size(u.packets[u.first])
      BY <1>4, <2>2, <2>3, EmptySeq
    <2> QED
      BY <2>1, <2>4 DEF Rested
  <1> QED
    BY <1>4, <1>9, <1>10, <1>11, <1>12 DEF EndOK, u

(* Of the next message, m, text was read before, and size bytes are to     *)
(* come, after skip.                                                       *)
ToCome(e, u, skip, size, text, m) ==
  /\ m = written[Peer(e)][u.no[u.first]]
  /\ Len(m) = Len(text) + size
  /\ \A i \in 1 .. Len(text) : text[i] = m[i]
  /\ \A i \in 1 .. size :
       skip + i <= Len(Bytes(e)) => Bytes(e)[skip + i] = m[Len(text) + i]
  /\ u.no[u.first] = Len(emitted[e]) + 1
  /\ \A k \in u.first .. u.last :
       u.packets[k].command = "None" =>
         u.packets[k].text = written[Peer(e)][u.no[k + 1]]
  /\ u.no[u.last + 1] <= Len(written[Peer(e)])
  /\ connected => u.no[u.last + 1] = Len(written[Peer(e)])

(* What was read of it is added to it.                                     *)
LEMMA EndAppends ==
  ASSUME MatipTypeOK, NEW e \in End, NEW u, IsTrack(u),
         NEW skip \in Nat, NEW size \in Nat, NEW text \in Seq(Byte),
         NEW n \in 0 .. size, NEW whole \in Seq(Byte), NEW m \in Seq(Byte),
         Appends(e, skip, size, text, n, whole),
         UNCHANGED <<connected, written, inTransit[e]>>,
         ToCome(e, u, skip, size, text, m),
         Framed(Bytes(e)', size - n, u, connected)
  PROVE  /\ EndOK(e, u)'
         /\ n = size => whole = m
  <1>0. /\ m = written[Peer(e)][u.no[u.first]]
        /\ Len(m) = Len(text) + size
        /\ \A i \in 1 .. Len(text) : text[i] = m[i]
        /\ \A i \in 1 .. size :
             skip + i <= Len(Bytes(e)) => Bytes(e)[skip + i] = m[Len(text) + i]
        /\ u.no[u.first] = Len(emitted[e]) + 1
        /\ \A k \in u.first .. u.last :
             u.packets[k].command = "None" =>
               u.packets[k].text = written[Peer(e)][u.no[k + 1]]
        /\ u.no[u.last + 1] <= Len(written[Peer(e)])
        /\ connected => u.no[u.last + 1] = Len(written[Peer(e)])
    BY DEF ToCome
  <1>1. /\ skip + n \in 0 .. Len(available[e])
        /\ n = size \/ skip + n = Len(available[e])
        /\ Consume(e, skip + n)
        /\ mBytesToRead' = [mBytesToRead EXCEPT ![e] = size - n]
        /\ mTempMessage' = [mTempMessage EXCEPT ![e] = whole]
        /\ Len(whole) = Len(text) + n
        /\ \A i \in 1 .. Len(text) : whole[i] = text[i]
        /\ \A i \in 1 .. n : whole[Len(text) + i] = available[e][skip + i]
    BY DEF Appends
  <1>2. /\ mState'[e] = IF n = size THEN "Idle" ELSE "DataTransfer"
        /\ n = size => emitted'[e] = Append(emitted[e], whole)
        /\ n # size => emitted'[e] = emitted[e]
    BY DEF Appends, Become, MatipTypeOK
  <1>3. mBytesToRead'[e] = size - n /\ mTempMessage'[e] = whole
    BY <1>1 DEF MatipTypeOK
  <1>4. /\ Len(available[e]) \in Nat /\ Len(Bytes(e)) \in Nat
        /\ Len(available[e]) <= Len(Bytes(e))
        /\ \A i \in 1 .. Len(available[e]) : Bytes(e)[i] = available[e][i]
        /\ \A i \in 1 .. Len(Bytes(e)) - (skip + n) :
             Bytes(e)'[i] = Bytes(e)[(skip + n) + i]
        /\ Len(Bytes(e)') = Len(Bytes(e)) - (skip + n)
    BY <1>1, AllBytes, BytesRead
  <1>5. Len(text) \in Nat /\ Len(emitted[e]) \in Nat /\ n \in Nat /\ n <= size
    BY LenProperties DEF MatipTypeOK
  <1>6. ASSUME NEW i \in 1 .. n
        PROVE  whole[Len(text) + i] = m[Len(text) + i]
    <2>1. i \in 1 .. size /\ skip + i \in 1 .. Len(available[e])
      BY <1>1, <1>4, <1>5
    <2>2. skip + i <= Len(Bytes(e))
      BY <1>4, <2>1
    <2>3. Bytes(e)[skip + i] = m[Len(text) + i]
      BY <1>0, <2>1, <2>2
    <2>4. Bytes(e)[skip + i] = available[e][skip + i]
      BY <1>4, <2>1
    <2> QED
      BY <1>1, <2>3, <2>4
  <1>7. ASSUME NEW i \in 1 .. Len(whole)
        PROVE  whole[i] = m[i]
    <2>1. i \in Nat /\ i >= 1 /\ i <= Len(text) + n
      BY <1>1, <1>5
    <2>2. CASE i <= Len(text)
      <3>1. i \in 1 .. Len(text)
        BY <1>5, <2>1, <2>2
      <3> QED
        BY <1>0, <1>1, <3>1
    <2>3. CASE i > Len(text)
      <3>1. i - Len(text) \in 1 .. n /\ Len(text) + (i - Len(text)) = i
        BY <1>5, <2>1, <2>3
      <3> QED
        BY <1>6, <3>1
    <2> QED
      BY <1>5, <2>1, <2>2, <2>3
  <1>8. n = size => whole = m
    <2>1. n = size => Len(whole) = Len(m)
      BY <1>0, <1>1
    <2> QED
      BY <1>7, <2>1, EqualBytes
  <1>9. Frame(e, u)'
    <2>1. Base(e)' = size - n
      BY <1>2, <1>3, <1>5 DEF Base
    <2> QED
      BY <2>1 DEF Frame
  <1>10. Texts(e, u)'
    <2>1. u.no[u.first] = Len(emitted'[e])
                            + (IF mState'[e] = "DataTransfer" THEN 1 ELSE 0)
      <3>1. CASE n = size
        <4>1. Len(emitted'[e]) = Len(emitted[e]) + 1
          BY <1>2, <3>1, AppendProperties DEF MatipTypeOK
        <4> QED
          BY <1>0, <1>2, <1>5, <3>1, <4>1
      <3>2. CASE n # size
        BY <1>0, <1>2, <1>5, <3>2
      <3> QED
        BY <3>1, <3>2
    <2> QED
      BY <1>0, <2>1 DEF Texts
  <1>11. Partial(e, u)'
    <2>1. CASE n = size
      BY <1>2, <2>1 DEF Partial
    <2>2. CASE n # size
      <3>1. size - n > 0 /\ Len(m) = Len(whole) + (size - n)
        BY <1>0, <1>1, <1>5, <2>2
      <3>2. ASSUME NEW i \in 1 .. size - n, i <= Len(Bytes(e)')
            PROVE  Bytes(e)'[i] = m[Len(whole) + i]
        <4>1. i \in 1 .. Len(Bytes(e)) - (skip + n)
          BY <1>4, <1>5, <3>2
        <4>2. Bytes(e)'[i] = Bytes(e)[(skip + n) + i]
          BY <1>4, <4>1
        <4>3. /\ n + i \in 1 .. size /\ skip + (n + i) <= Len(Bytes(e))
              /\ (skip + n) + i = skip + (n + i)
              /\ Len(text) + (n + i) = Len(whole) + i
          BY <1>1, <1>4, <1>5, <4>1
        <4>4. Bytes(e)[skip + (n + i)] = m[Len(text) + (n + i)]
          BY <1>0, <4>3
        <4> QED
          BY <4>2, <4>3, <4>4
      <3>3. written'[Peer(e)][u.no[u.first]] = m
        BY <1>0
      <3> QED
        BY <1>3, <1>7, <3>1, <3>2, <3>3 DEF Partial
    <2> QED
      BY <2>1, <2>2
  <1>12. Rested(e, u)'
    <2>1. reading'[e] <=> available'[e] # <<>>
      BY <1>1, Consumed
    <2>2. u.first \in Nat /\ u.packets[u.first] \in Packet
      BY TrackFields
    <2>3. Size(u.packets[u.first]) \in Nat /\ Size(u.packets[u.first]) > 0
      BY <2>2, WireBytes
    <2>4. available'[e] = <<>> => Len(available'[e]) < Size(u.packets[u.first])
      BY <2>3, EmptySeq
    <2> QED
      BY <1>2, <2>1, <2>4 DEF Rested
  <1> QED
    BY <1>8, <1>9, <1>10, <1>11, <1>12 DEF EndOK

(* A message begins.                                                       *)
LEMMA EndTakeData ==
  ASSUME MatipTypeOK, NEW e \in End, NEW t, EndOK(e, t), Live(e),
         mState[e] # "DataTransfer", t.first <= t.last,
         t.packets[t.first].command = "None",
         headerSize \in 0 .. Len(available[e]),
         appendData(e, headerSize, Payload(t.packets[t.first]), <<>>),
         UNCHANGED <<connected, written, inTransit[e]>>
  PROVE  /\ EndOK(e, MoveTo(t, t.first + 1))'
         /\ t.no[t.first + 1] = Len(emitted[e]) + 1
         /\ t.no[t.first + 1] \in 1 .. Len(written[Peer(e)])
         /\ \E n \in Nat, whole \in Seq(Byte) :
              /\ Appends(e, headerSize, Payload(t.packets[t.first]), <<>>, n, whole)
              /\ n = Payload(t.packets[t.first]) =>
                   whole = written[Peer(e)][Len(emitted[e]) + 1]
  <1> DEFINE u == MoveTo(t, t.first + 1)
             head == t.packets[t.first]
             size == Payload(head)
             m == head.text
             none == <<>>
  <1>1. IsTrack(t) /\ Frame(e, t) /\ Texts(e, t)
    BY DEF EndOK
  <1>2. /\ t.first \in Nat /\ t.last \in Nat
        /\ t.first + 1 \in t.first .. t.last + 1
        /\ t.first \in t.first .. t.last
    BY <1>1, TrackFields
  <1>3. /\ head \in Packet /\ size \in Nat
        /\ Size(head) = headerSize + size /\ headerSize \in Nat
        /\ m \in Seq(Byte) /\ Len(m) = size
        /\ \A i \in 1 .. Len(m) : Wire(head)[headerSize + i] = m[i]
    <2>1. head \in Packet
      BY <1>1, <1>2, TrackFields
    <2>2. m \in Seq(Byte)
      BY <2>1 DEF Packet, Fits
    <2> QED
      BY <2>1, <2>2, PayloadType, WireBytes DEF Size, Payload
  <1>4. /\ IsTrack(u) /\ u.first = t.first + 1 /\ u.last = t.last
        /\ u.packets = t.packets /\ u.no = t.no
    BY <1>1, <1>2, MoveFacts
  <1>5. /\ t.no[t.first + 1] = Len(emitted[e]) + 1
        /\ t.no[t.first + 1] \in 1 .. Len(written[Peer(e)])
        /\ m = written[Peer(e)][t.no[t.first + 1]]
    <2>1. t.no[t.first + 1] = t.no[t.first] + 1
      BY <1>1, <1>2 DEF IsTrack, Counts, One
    <2>2. t.no[t.first] = Len(emitted[e]) + 0 /\ Len(emitted[e]) \in Nat
      BY <1>1, LenProperties DEF Texts, MatipTypeOK
    <2>3. t.no[t.first + 1] \in 1 .. Len(written[Peer(e)])
      BY <1>1, <1>2, TextPlaces
    <2>4. m = written[Peer(e)][t.no[t.first + 1]]
      BY <1>1, <1>2 DEF Texts
    <2> QED
      BY <2>1, <2>2, <2>3, <2>4
  <1>6. none \in Seq(Byte) /\ Len(none) = 0
    BY EmptySeq
  <1>7. PICK n \in 0 .. size, whole \in Seq(Byte) :
          Appends(e, headerSize, size, none, n, whole)
    BY <1>3, <1>6, Appended
  <1>8. Framed(Bytes(e), 0, t, connected) /\ connected \in BOOLEAN
    BY <1>1 DEF Frame, Base, MatipTypeOK
  <1> HIDE DEF u, size, m, head, none
  <1>9. /\ headerSize + n \in 0 .. Len(available[e]) /\ Consume(e, headerSize + n)
    BY <1>7 DEF Appends
  <1>10. /\ Bytes(e) \in Seq(Byte)
         /\ Bytes(e)' = SubSeq(Bytes(e), (headerSize + n) + 1, Len(Bytes(e)))
         /\ headerSize + n <= Len(Bytes(e))
    BY <1>9, BytesRead
  <1>11. Framed(Bytes(e)', size - n, u, connected)
    <2>1. headerSize + n \in 0 .. Size(head)
      BY <1>3
    <2>2. Framed(SubSeq(Bytes(e), (headerSize + n) + 1, Len(Bytes(e))),
                 Size(head) - (headerSize + n), u, connected)
      BY <1>1, <1>8, <1>10, <2>1, FramedRead DEF u, head
    <2>3. Size(head) - (headerSize + n) = size - n
      BY <1>3
    <2> QED
      BY <1>10, <2>2, <2>3
  <1>12. \A i \in 1 .. size :
           headerSize + i <= Len(Bytes(e)) =>
             Bytes(e)[headerSize + i] = m[Len(none) + i]
    <2> SUFFICES ASSUME NEW i \in 1 .. size, headerSize + i <= Len(Bytes(e))
                 PROVE  Bytes(e)[headerSize + i] = m[Len(none) + i]
      OBVIOUS
    <2>1. /\ 0 + (t.at[t.first] - t.at[t.first]) + (headerSize + i) = headerSize + i
          /\ headerSize + i \in 1 .. Size(head)
          /\ 0 + i = i
      <3>1. t.at[t.first] \in Nat
        BY <1>1, <1>2, TrackFields
      <3> QED
        BY <1>3, <3>1
    <2>2. Bytes(e)[headerSize + i] = Wire(head)[headerSize + i]
      BY <1>2, <1>8, <2>1 DEF Framed, head
    <2> QED
      BY <1>3, <1>6, <2>1, <2>2
  <1>13. /\ \A k \in u.first .. u.last :
              u.packets[k].command = "None" =>
                u.packets[k].text = written[Peer(e)][u.no[k + 1]]
         /\ u.no[u.last + 1] <= Len(written[Peer(e)])
         /\ connected => u.no[u.last + 1] = Len(written[Peer(e)])
    <2>1. \A k \in u.first .. u.last : k \in t.first .. t.last
      BY <1>2, <1>4
    <2> QED
      BY <1>1, <1>4, <2>1 DEF Texts
  <1>14. /\ \A i \in 1 .. Len(none) : none[i] = m[i]
         /\ Len(m) = Len(none) + size
    BY <1>3, <1>6
  <1>15. u.no[u.first] = Len(emitted[e]) + 1 /\ m = written[Peer(e)][u.no[u.first]]
    BY <1>4, <1>5
  <1>16. EndOK(e, u)' /\ (n = size => whole = m)
    <2>1. ToCome(e, u, headerSize, size, none, m)
      BY <1>12, <1>13, <1>14, <1>15 DEF ToCome
    <2>2. /\ headerSize \in Nat /\ size \in Nat /\ m \in Seq(Byte)
          /\ none \in Seq(Byte) /\ IsTrack(u)
      BY <1>3, <1>4, <1>6
    <2> QED
      BY <1>7, <1>11, <2>1, <2>2, EndAppends
  <1>17. n = size => whole = written[Peer(e)][Len(emitted[e]) + 1]
    BY <1>5, <1>16
  <1> QED
    BY <1>5, <1>7, <1>16, <1>17 DEF u, size, head, none

(* A message that began goes on.                                           *)
LEMMA EndReadData ==
  ASSUME MatipTypeOK, NEW e \in End, NEW t, EndOK(e, t),
         mState[e] = "DataTransfer",
         appendData(e, 0, mBytesToRead[e], mTempMessage[e]),
         UNCHANGED <<connected, written, inTransit[e]>>
  PROVE  /\ EndOK(e, t)'
         /\ t.no[t.first] = Len(emitted[e]) + 1
         /\ t.no[t.first] \in 1 .. Len(written[Peer(e)])
         /\ \E n \in Nat, whole \in Seq(Byte) :
              /\ Appends(e, 0, mBytesToRead[e], mTempMessage[e], n, whole)
              /\ n = mBytesToRead[e] =>
                   whole = written[Peer(e)][Len(emitted[e]) + 1]
  <1> DEFINE size == mBytesToRead[e]
             text == mTempMessage[e]
             m == written[Peer(e)][t.no[t.first]]
  <1>1. IsTrack(t) /\ Frame(e, t) /\ Texts(e, t) /\ Partial(e, t)
    BY DEF EndOK
  <1>2. /\ size \in Nat /\ text \in Seq(Byte) /\ 0 \in 0 .. Len(available[e])
        /\ Live(e)
    BY LenProperties DEF MatipTypeOK, Live
  <1>3. /\ t.no[t.first] = Len(emitted[e]) + 1
        /\ t.no[t.first] \in 1 .. Len(written[Peer(e)])
    BY <1>1, CurrentText
  <1>4. m \in Seq(Byte)
    <2>1. written[Peer(e)] \in Seq(Fits)
      BY PeerFacts DEF MatipTypeOK
    <2>2. m \in Fits
      BY <1>3, <2>1, ElementOfSeq
    <2> QED
      BY <2>2 DEF Fits
  <1>5. PICK n \in 0 .. size, whole \in Seq(Byte) :
          Appends(e, 0, size, text, n, whole)
    BY <1>2, Appended
  <1>6. 0 + n \in 0 .. Len(available[e]) /\ Consume(e, 0 + n)
    BY <1>5 DEF Appends
  <1>7. /\ Bytes(e) \in Seq(Byte)
        /\ Bytes(e)' = SubSeq(Bytes(e), (0 + n) + 1, Len(Bytes(e)))
        /\ 0 + n <= Len(Bytes(e))
    BY <1>6, BytesRead
  <1>8. Framed(Bytes(e), size, t, connected) /\ connected \in BOOLEAN
    BY <1>1, <1>2 DEF Frame, Base, MatipTypeOK
  <1>9. /\ Len(m) = Len(text) + size
        /\ \A i \in 1 .. Len(text) : text[i] = m[i]
        /\ \A i \in 1 .. size : i <= Len(Bytes(e)) => Bytes(e)[i] = m[Len(text) + i]
    BY <1>1 DEF Partial
  <1>10. /\ \A k \in t.first .. t.last :
              t.packets[k].command = "None" =>
                t.packets[k].text = written[Peer(e)][t.no[k + 1]]
         /\ t.no[t.last + 1] <= Len(written[Peer(e)])
         /\ connected => t.no[t.last + 1] = Len(written[Peer(e)])
    BY <1>1 DEF Texts
  <1> HIDE DEF size, text, m
  <1>11. Framed(Bytes(e)', size - n, t, connected)
    <2>1. 0 + n = n /\ n \in 0 .. size
      OBVIOUS
    <2>2. Framed(SubSeq(Bytes(e), n + 1, Len(Bytes(e))), size - n, t, connected)
      BY <1>1, <1>2, <1>7, <1>8, <2>1, FramedDrop
    <2> QED
      BY <1>7, <2>1, <2>2
  <1>12. \A i \in 1 .. size :
           0 + i <= Len(Bytes(e)) => Bytes(e)[0 + i] = m[Len(text) + i]
    <2>1. \A i \in 1 .. size : 0 + i = i
      BY <1>2
    <2> QED
      BY <1>9, <2>1
  <1>13. EndOK(e, t)' /\ (n = size => whole = m)
    <2>1. ToCome(e, t, 0, size, text, m)
      BY <1>3, <1>9, <1>10, <1>12 DEF ToCome, m
    <2> QED
      BY <1>1, <1>2, <1>4, <1>5, <1>11, <2>1, EndAppends
  <1>14. n = size => whole = written[Peer(e)][Len(emitted[e]) + 1]
    BY <1>3, <1>13 DEF m
  <1> QED
    BY <1>3, <1>5, <1>13, <1>14 DEF size, text
----------------------------------------------------------------------------
(* What is on its way, as the protocol sees it.                            *)

Number(t)  == t.last + 1 - t.first
First(t)   == t.packets[t.first].command
Coming(t)  == {t.packets[k].command : k \in t.first .. t.last}
Later(t)   == {t.packets[k].command : k \in t.first + 1 .. t.last}
Asks(t)    == t.asks[t.last + 1] - t.asks[t.first]
Answers(t) == t.answers[t.last + 1] - t.answers[t.first]

Is(command, other) == IF command = other THEN 1 ELSE 0

(* A command more at the end, and one less at the start.                   *)
More(t, u, command) ==
  /\ Number(u) = Number(t) + 1
  /\ Coming(u) = Coming(t) \cup {command}
  /\ Number(t) = 0 => First(u) = command /\ Later(u) = {}
  /\ Number(t) > 0 => First(u) = First(t) /\ Later(u) = Later(t) \cup {command}
  /\ Asks(u) = Asks(t) + Is(command, "StatusQuery")
  /\ Answers(u) = Answers(t) + Is(command, "StatusResponse")

Less(t, u, command) ==
  /\ Number(t) = Number(u) + 1
  /\ First(t) = command
  /\ Coming(u) = Later(t)
  /\ Coming(t) = Coming(u) \cup {command}
  /\ Asks(t) = Asks(u) + Is(command, "StatusQuery")
  /\ Answers(t) = Answers(u) + Is(command, "StatusResponse")

LEMMA WayFacts ==
  ASSUME NEW t, IsTrack(t)
  PROVE  /\ Number(t) \in Nat /\ Asks(t) \in Nat /\ Answers(t) \in Nat
         /\ Number(t) = 0 => Coming(t) = {}
         /\ Number(t) > 0 => Coming(t) = Later(t) \cup {First(t)}
         /\ Later(t) \subseteq Coming(t)
  <1>1. t.first \in Nat /\ t.last \in Nat /\ t.first <= t.last + 1
    BY TrackFields
  <1>2. Number(t) \in Nat
    BY <1>1 DEF Number
  <1>3. /\ t.first \in t.first .. t.last + 1 /\ t.last + 1 \in t.first .. t.last + 1
    BY <1>1
  <1>4. /\ t.asks[t.first] <= t.asks[t.last + 1]
        /\ t.answers[t.first] <= t.answers[t.last + 1]
    BY <1>1, <1>3 DEF IsTrack, Ascends, Rises
  <1>5. /\ t.asks[t.first] \in Nat /\ t.asks[t.last + 1] \in Nat
        /\ t.answers[t.first] \in Nat /\ t.answers[t.last + 1] \in Nat
    BY <1>1, TrackFields
  <1>6. Asks(t) \in Nat /\ Answers(t) \in Nat
    BY <1>4, <1>5 DEF Asks, Answers
  <1>7. Number(t) = 0 => Coming(t) = {}
    BY <1>1 DEF Number, Coming
  <1>8. Number(t) > 0 => Coming(t) = Later(t) \cup {First(t)}
    <2>1. Number(t) > 0 =>
            \A k : k \in t.first .. t.last <=> k = t.first \/ k \in t.first + 1 .. t.last
      BY <1>1 DEF Number
    <2> QED
      BY <2>1 DEF Coming, Later, First
  <1>9. Later(t) \subseteq Coming(t)
    <2>1. \A k \in t.first + 1 .. t.last : k \in t.first .. t.last
      BY <1>1
    <2> QED
      BY <2>1 DEF Coming, Later
  <1> QED
    BY <1>2, <1>6, <1>7, <1>8, <1>9

LEMMA GrowIsMore ==
  ASSUME NEW t, IsTrack(t), NEW p \in Packet
  PROVE  More(t, Grow(t, p), p.command)
  <1> DEFINE g == Grow(t, p)
  <1>1. t.first \in Nat /\ t.last \in Nat /\ t.first <= t.last + 1
    BY TrackFields
  <1>2. /\ g.first = t.first /\ g.last = t.last + 1
        /\ \A k \in t.first .. t.last : g.packets[k] = t.packets[k]
        /\ g.packets[t.last + 1] = p
        /\ \A k \in t.first .. t.last + 1 :
             g.asks[k] = t.asks[k] /\ g.answers[k] = t.answers[k]
        /\ g.asks[t.last + 2] = t.asks[t.last + 1] + One(p, "StatusQuery")
        /\ g.answers[t.last + 2] = t.answers[t.last + 1] + One(p, "StatusResponse")
    BY GrowFacts
  <1> HIDE DEF g
  <1>3. Number(g) = Number(t) + 1 /\ g.last + 1 = t.last + 2
    BY <1>1, <1>2 DEF Number
  <1>4. /\ \A k : k \in g.first .. g.last <=> k = t.last + 1 \/ k \in t.first .. t.last
        /\ ~ (t.last + 1 \in t.first .. t.last)
    BY <1>1, <1>2
  <1>5. Coming(g) = Coming(t) \cup {p.command}
    BY <1>2, <1>4 DEF Coming
  <1>6. Number(t) = 0 => First(g) = p.command /\ Later(g) = {}
    <2>1. Number(t) = 0 => t.first = t.last + 1
      BY <1>1 DEF Number
    <2>2. Number(t) = 0 => g.first + 1 .. g.last = {}
      BY <1>1, <1>2, <2>1
    <2> QED
      BY <1>2, <2>1, <2>2 DEF First, Later
  <1>7. Number(t) > 0 => First(g) = First(t) /\ Later(g) = Later(t) \cup {p.command}
    <2> SUFFICES ASSUME Number(t) > 0
                 PROVE  First(g) = First(t) /\ Later(g) = Later(t) \cup {p.command}
      OBVIOUS
    <2>1. t.first <= t.last /\ t.first \in t.first .. t.last
      BY <1>1 DEF Number
    <2>2. \A k : k \in g.first + 1 .. g.last <=> k = t.last + 1 \/ k \in t.first + 1 .. t.last
      BY <1>1, <1>2, <2>1
    <2>3. \A k \in t.first + 1 .. t.last : g.packets[k] = t.packets[k]
      BY <1>1, <1>2
    <2>4. First(g) = First(t)
      BY <1>2, <2>1 DEF First
    <2>5. Later(g) = Later(t) \cup {p.command}
      BY <1>2, <2>2, <2>3 DEF Later
    <2> QED
      BY <2>4, <2>5
  <1>8. /\ t.first \in t.first .. t.last + 1 /\ t.last + 1 \in t.first .. t.last + 1
    BY <1>1
  <1>9. /\ t.asks[t.first] \in Nat /\ t.asks[t.last + 1] \in Nat
        /\ t.answers[t.first] \in Nat /\ t.answers[t.last + 1] \in Nat
    BY <1>1, TrackFields
  <1>10. Asks(g) = Asks(t) + Is(p.command, "StatusQuery")
    BY <1>2, <1>3, <1>8, <1>9 DEF Asks, One, Is
  <1>11. Answers(g) = Answers(t) + Is(p.command, "StatusResponse")
    BY <1>2, <1>3, <1>8, <1>9 DEF Answers, One, Is
  <1> QED
    BY <1>3, <1>5, <1>6, <1>7, <1>10, <1>11 DEF More, g

LEMMA MoveIsLess ==
  ASSUME NEW t, IsTrack(t), t.first <= t.last
  PROVE  Less(t, MoveTo(t, t.first + 1), First(t))
  <1> DEFINE u == MoveTo(t, t.first + 1)
  <1>1. t.first \in Nat /\ t.last \in Nat /\ t.first \in t.first .. t.last
    BY TrackFields
  <1>2. /\ u.first = t.first + 1 /\ u.last = t.last
        /\ u.packets = t.packets /\ u.asks = t.asks /\ u.answers = t.answers
    BY DEF MoveTo
  <1> HIDE DEF u
  <1>3. Number(t) = Number(u) + 1 /\ Number(t) > 0
    BY <1>1, <1>2 DEF Number
  <1>4. Coming(u) = Later(t)
    BY <1>2 DEF Coming, Later
  <1>5. Coming(t) = Coming(u) \cup {First(t)}
    BY <1>3, <1>4, WayFacts
  <1>6. /\ t.asks[t.first + 1] = t.asks[t.first] + One(t.packets[t.first], "StatusQuery")
        /\ t.answers[t.first + 1] =
             t.answers[t.first] + One(t.packets[t.first], "StatusResponse")
    BY <1>1 DEF IsTrack, Counts
  <1>7. /\ t.asks[t.first] \in Nat /\ t.asks[t.last + 1] \in Nat
        /\ t.answers[t.first] \in Nat /\ t.answers[t.last + 1] \in Nat
    BY <1>1, TrackFields
  <1>8. Asks(t) = Asks(u) + Is(First(t), "StatusQuery")
    BY <1>2, <1>6, <1>7 DEF Asks, One, Is, First
  <1>9. Answers(t) = Answers(u) + Is(First(t), "StatusResponse")
    BY <1>2, <1>6, <1>7 DEF Answers, One, Is, First
  <1> QED
    BY <1>3, <1>4, <1>5, <1>8, <1>9 DEF Less, u

----------------------------------------------------------------------------
(* The protocol: the states of the two ends, and what is on its way.       *)

(* What may come in a session.                                             *)
Ordinary == {"None", "SessionClose", "StatusQuery", "StatusResponse",
             "StopTransmission", "ResumeTransmission"}

Roles ==
  /\ mState["client"] # "Listening"
  /\ mState["server"] # "Connecting"
  /\ ~ opened => mState["client"] = "Unconnected" /\ mState["server"] = "Listening"

(* Until the server accepts there is one thing at most: the request on its *)
(* way, the request before the application, or its refusal on its way.     *)
Opening(w) ==
  mState["server"] = "Listening" =>
    /\ Coming(w["server"]) \subseteq {"SessionOpen"}
    /\ Coming(w["client"]) \subseteq {"OpenRefuse"}
    /\ mState["client"] \in {"Connecting", "Unconnected"}
    /\ Number(w["server"]) + Number(w["client"]) + (IF requested THEN 1 ELSE 0) <= 1
    /\ mState["client"] = "Unconnected" =>
         Number(w["server"]) = 0 /\ Number(w["client"]) = 0 /\ ~ requested

(* Then its acceptance comes before everything else.                       *)
Opened(w) ==
  mState["server"] # "Listening" =>
    /\ opened /\ ~ requested
    /\ Coming(w["server"]) \subseteq Ordinary
    /\ mState["client"] = "Connecting" =>
         /\ Number(w["server"]) = 0
         /\ connected => Number(w["client"]) > 0
         /\ Number(w["client"]) > 0 => First(w["client"]) = "OpenConfirm"
         /\ Later(w["client"]) \subseteq Ordinary
    /\ InSession("client") => Coming(w["client"]) \subseteq Ordinary

(* An end that left a session has told the other.                          *)
Closing(w) ==
  /\ connected /\ mState["server"] = "Unconnected" /\ mState["client"] # "Unconnected"
       => "SessionClose" \in Coming(w["client"])
  /\ connected /\ InSession("server") /\ mState["client"] = "Unconnected"
       => "SessionClose" \in Coming(w["server"])
  /\ "SessionClose" \in Coming(w["client"]) => mState["server"] = "Unconnected"
  /\ "SessionClose" \in Coming(w["server"]) => mState["client"] = "Unconnected"

(* A query without an answer: it is on its way, or the answer, or a close. *)
Queried(w) ==
  \A e \in End :
    connected /\ InSession(e) /\ mQueryCounter[e] > 0 =>
      \/ "StatusQuery" \in Coming(w[Peer(e)])
      \/ "StatusResponse" \in Coming(w[e])
      \/ "SessionClose" \in Coming(w[e])

(* No query is sent before the session.                                    *)
Fresh ==
  /\ mState["server"] = "Listening" => mQueryCounter["server"] = 0
  /\ ~ opened \/ mState["client"] = "Connecting" => mQueryCounter["client"] = 0

(* The queries sent since the last answer are not answered.                *)
Asked(w) ==
  \A e \in End :
    /\ mQueryCounter[e] <= unanswered[e]
    /\ Asks(w[Peer(e)]) + Answers(w[e]) <= unanswered[e]

Control(w) ==
  /\ Roles
  /\ Opening(w)
  /\ Opened(w)
  /\ Closing(w)
  /\ Fresh
  /\ Queried(w)
  /\ Asked(w)

Upheld(w) ==
  /\ w \in [End -> Track]
  /\ \A e \in End : EndOK(e, w[e])
  /\ Control(w)

----------------------------------------------------------------------------
(* Steps, on the tracks. *)

(* e sends a command: it is lost when the connection is.                   *)
Sends(w, v, e, command) ==
  /\ v[e] = w[e]
  /\ connected => More(w[Peer(e)], v[Peer(e)], command)
  /\ ~ connected => v[Peer(e)] = w[Peer(e)]

(* e reads a command.                                                      *)
Reads(w, v, e, command) ==
  /\ Less(w[e], v[e], command)
  /\ v[Peer(e)] = w[Peer(e)]

Ways(v) == v \in [End -> Track] /\ \A e \in End : IsTrack(v[e])

LEMMA TwoWays ==
  ASSUME NEW e \in End, NEW a, NEW b, IsTrack(a), IsTrack(b)
  PROVE  \E v \in [End -> Track] : v[e] = a /\ v[Peer(e)] = b
  <1> DEFINE v == [x \in End |-> IF x = e THEN a ELSE b]
  <1>1. a \in Track /\ b \in Track
    BY DEF IsTrack
  <1>2. v \in [End -> Track]
    BY <1>1
  <1>3. v[e] = a /\ v[Peer(e)] = b
    BY PeerFacts
  <1> QED
    BY <1>2, <1>3

LEMMA GrownStays ==
  ASSUME MatipTypeOK, NEW e \in End, written'[e] = written[e]
  PROVE  Grown(e)
  <1>1. Len(written[e]) \in Nat
    BY LenProperties DEF MatipTypeOK
  <1> QED
    BY <1>1 DEF Grown

LEMMA GrownAppends ==
  ASSUME MatipTypeOK, NEW e \in End, NEW text \in Fits,
         written' = [written EXCEPT ![e] = Append(@, text)]
  PROVE  /\ Grown(e)
         /\ Len(written'[e]) = Len(written[e]) + 1
         /\ written'[e][Len(written'[e])] = text
         /\ written'[Peer(e)] = written[Peer(e)]
  <1>1. written \in [End -> Seq(Fits)] /\ written[e] \in Seq(Fits)
    BY DEF MatipTypeOK
  <1>2. written'[e] = Append(written[e], text)
    BY <1>1
  <1>3. written'[Peer(e)] = written[Peer(e)]
    BY <1>1, PeerFacts
  <1>4. Len(written[e]) \in Nat
    BY <1>1, LenProperties
  <1>5. /\ Len(written'[e]) = Len(written[e]) + 1
        /\ \A i \in 1 .. Len(written[e]) : written'[e][i] = written[e][i]
        /\ written'[e][Len(written[e]) + 1] = text
    BY <1>1, <1>2, AppendProperties
  <1> QED
    BY <1>3, <1>4, <1>5 DEF Grown

(* e writes a packet, and its own state changes at most.                   *)
LEMMA SendEnds ==
  ASSUME MatipTypeOK, NEW w, Upheld(w), NEW e \in End, NEW p \in Packet,
         write(e, Wire(p)),
         \/ p.command # "None" /\ written' = written
         \/ /\ p.command = "None"
            /\ written' = [written EXCEPT ![e] = Append(@, p.text)],
         UNCHANGED <<connected, available, mBytesToRead, mTempMessage,
                     emitted, reading>>,
         mState'[Peer(e)] = mState[Peer(e)],
         Live(Peer(e))' => Live(Peer(e)),
         Live(e)' => Kept(e)
  PROVE  \E v \in [End -> Track] :
           /\ \A x \in End : EndOK(x, v[x])'
           /\ Sends(w, v, e, p.command)
  <1>1. /\ Peer(e) \in End /\ Peer(Peer(e)) = e /\ Peer(e) # e
        /\ \A x \in End : x = e \/ x = Peer(e)
    BY PeerFacts
  <1>2. EndOK(e, w[e]) /\ EndOK(Peer(e), w[Peer(e)])
    BY <1>1 DEF Upheld
  <1>3. IsTrack(w[e]) /\ IsTrack(w[Peer(e)])
    BY <1>2 DEF EndOK
  <1>4. /\ inTransit'[e] = inTransit[e]
        /\ connected => inTransit'[Peer(e)] = inTransit[Peer(e)] \o Wire(p)
        /\ ~ connected => inTransit' = inTransit
    BY Written
  <1>5. /\ Grown(e) /\ Grown(Peer(e))
        /\ Len(written'[e]) = Len(written[e]) + One(p, "None")
        /\ written'[Peer(e)] = written[Peer(e)]
        /\ p.command = "None" => written'[e][Len(written'[e])] = p.text
    <2>1. CASE p.command # "None" /\ written' = written
      <3>1. Len(written[e]) \in Nat
        BY LenProperties DEF MatipTypeOK
      <3> QED
        BY <1>1, <2>1, <3>1, GrownStays DEF One
    <2>2. CASE /\ p.command = "None"
               /\ written' = [written EXCEPT ![e] = Append(@, p.text)]
      <3>1. p.text \in Fits
        BY DEF Packet
      <3> QED
        BY <1>1, <2>2, <3>1, GrownStays, GrownAppends DEF One
    <2> QED
      BY <2>1, <2>2
  <1>6. EndOK(e, w[e])'
    <2>1. /\ Len(written'[Peer(e)]) = Len(written[Peer(e)])
          /\ inTransit'[e] = inTransit[e] /\ reading'[e] = reading[e]
          /\ Grown(Peer(e))
      BY <1>4, <1>5
    <2> QED
      BY <1>2, <2>1, EndKept
  <1>7. Live(Peer(e))' => Kept(Peer(e)) /\ reading'[Peer(e)] = reading[Peer(e)]
    BY DEF Kept
  <1>8. CASE connected
    <2>1. EndOK(Peer(e), Grow(w[Peer(e)], p))'
      <3>1. connected' /\ Grown(Peer(Peer(e)))
        BY <1>1, <1>5, <1>8
      <3>2. /\ Len(written'[Peer(Peer(e))]) =
                 Len(written[Peer(Peer(e))]) + One(p, "None")
            /\ p.command = "None" =>
                 written'[Peer(Peer(e))][Len(written'[Peer(Peer(e))])] = p.text
        BY <1>1, <1>5
      <3>3. Live(Peer(e))' => /\ Kept(Peer(e))
                              /\ reading'[Peer(e)] = reading[Peer(e)]
                              /\ inTransit'[Peer(e)] = inTransit[Peer(e)] \o Wire(p)
        BY <1>4, <1>7, <1>8
      <3> QED
        BY <1>1, <1>2, <1>8, <3>1, <3>2, <3>3, EndPut
    <2>2. IsTrack(Grow(w[Peer(e)], p)) /\ More(w[Peer(e)], Grow(w[Peer(e)], p), p.command)
      BY <1>3, GrowFacts, GrowIsMore
    <2>3. PICK v \in [End -> Track] : v[e] = w[e] /\ v[Peer(e)] = Grow(w[Peer(e)], p)
      BY <1>3, <2>2, TwoWays
    <2>4. \A x \in End : EndOK(x, v[x])'
      BY <1>1, <1>6, <2>1, <2>3
    <2>5. Sends(w, v, e, p.command)
      BY <1>8, <2>2, <2>3 DEF Sends
    <2> QED
      BY <2>4, <2>5
  <1>9. CASE ~ connected
    <2>1. EndOK(Peer(e), w[Peer(e)])'
      <3>1. /\ Grown(Peer(Peer(e)))
            /\ inTransit'[Peer(e)] = inTransit[Peer(e)]
        BY <1>1, <1>4, <1>5, <1>9
      <3> QED
        BY <1>1, <1>2, <1>7, <1>9, <3>1, EndKept
    <2>2. \A x \in End : EndOK(x, w[x])'
      BY <1>1, <1>6, <2>1
    <2>3. Sends(w, w, e, p.command) /\ w \in [End -> Track]
      BY <1>9 DEF Sends, Upheld
    <2> QED
      BY <2>2, <2>3
  <1> QED
    BY <1>8, <1>9

----------------------------------------------------------------------------
(* The protocol, step by step.                                             *)

Sound(t) ==
  /\ Number(t) \in Nat /\ Asks(t) \in Nat /\ Answers(t) \in Nat
  /\ Number(t) = 0 => Coming(t) = {}
  /\ Number(t) > 0 => Coming(t) = Later(t) \cup {First(t)}
  /\ Later(t) \subseteq Coming(t)

Counters ==
  /\ mState \in [End -> State]
  /\ mQueryCounter \in [End -> Nat]
  /\ unanswered \in [End -> Int]
  /\ connected \in BOOLEAN /\ requested \in BOOLEAN /\ opened \in BOOLEAN

LEMMA SoundWays ==
  ASSUME NEW w, \A e \in End : IsTrack(w[e])
  PROVE  Sound(w["client"]) /\ Sound(w["server"])
  BY WayFacts, PeerFacts DEF Sound

LEMMA OpenControl ==
  ASSUME Counters, NEW w, NEW v, Control(w), Sound(w["client"]), Sound(w["server"]),
         Sound(v["client"]), Sound(v["server"]),
         ~ opened, opened' = TRUE,
         mState' = [mState EXCEPT !["client"] = "Connecting"],
         UNCHANGED <<connected, requested, mQueryCounter, unanswered>>,
         Sends(w, v, "client", "SessionOpen")
  PROVE  Control(v)'
  <1>1. /\ mState["client"] = "Unconnected" /\ mState["server"] = "Listening"
        /\ mState'["client"] = "Connecting" /\ mState'["server"] = "Listening"
    BY PeerFacts DEF Counters, Control, Roles
  <1>2. /\ v["client"] = w["client"]
        /\ connected => More(w["server"], v["server"], "SessionOpen")
        /\ ~ connected => v["server"] = w["server"]
    BY PeerFacts DEF Sends
  <1>3. /\ Number(w["server"]) = 0 /\ Number(w["client"]) = 0 /\ ~ requested
        /\ Coming(w["server"]) = {} /\ Coming(w["client"]) = {}
    BY <1>1 DEF Control, Opening, Sound
  <1>4. /\ Number(v["server"]) = 1 \/ Number(v["server"]) = 0
        /\ Coming(v["server"]) \subseteq {"SessionOpen"}
        /\ Number(v["client"]) = 0 /\ Coming(v["client"]) = {}
        /\ Asks(v["server"]) = Asks(w["server"])
        /\ Answers(v["server"]) = Answers(w["server"])
    BY <1>2, <1>3 DEF More, Is, Sound
  <1>5. Roles' /\ Opening(v)' /\ Opened(v)'
    BY <1>1, <1>3, <1>4 DEF Roles, Opening, Opened
  <1>6. Closing(v)' /\ Queried(v)'
    BY <1>1, <1>4 DEF Closing, Queried, InSession, End
  <1>7. Asked(v)'
    BY <1>2, <1>4, PeerFacts DEF Asked, Control, End
  <1>8. Fresh'
    BY <1>1 DEF Fresh, Control
  <1> QED
    BY <1>5, <1>6, <1>7, <1>8 DEF Control

LEMMA AcceptControl ==
  ASSUME Counters, NEW w, NEW v, Control(w), Sound(w["client"]), Sound(w["server"]),
         Sound(v["client"]), Sound(v["server"]),
         requested, requested' = FALSE,
         mState' = [mState EXCEPT !["server"] = "Idle"],
         UNCHANGED <<connected, opened, mQueryCounter, unanswered>>,
         Sends(w, v, "server", "OpenConfirm")
  PROVE  Control(v)'
  <1>1. mState["server"] = "Listening"
    BY DEF Control, Opened
  <1>2. /\ mState["client"] = "Connecting"
        /\ Number(w["server"]) = 0 /\ Number(w["client"]) = 0
        /\ Coming(w["server"]) = {} /\ Coming(w["client"]) = {}
    BY <1>1 DEF Control, Opening, Sound
  <1>3. mState'["client"] = "Connecting" /\ mState'["server"] = "Idle"
    BY <1>2, PeerFacts DEF Counters
  <1>4. /\ v["server"] = w["server"]
        /\ connected => More(w["client"], v["client"], "OpenConfirm")
        /\ ~ connected => v["client"] = w["client"]
    BY PeerFacts DEF Sends
  <1>5. /\ Coming(v["client"]) \subseteq {"OpenConfirm"}
        /\ connected => Number(v["client"]) > 0
        /\ Number(v["client"]) > 0 => First(v["client"]) = "OpenConfirm"
        /\ Later(v["client"]) = {}
        /\ Number(v["server"]) = 0 /\ Coming(v["server"]) = {}
        /\ Asks(v["client"]) = Asks(w["client"])
        /\ Answers(v["client"]) = Answers(w["client"])
    BY <1>2, <1>4 DEF More, Is, Sound
  <1>6. opened
    BY <1>2 DEF Control, Roles
  <1>7. Roles' /\ Opening(v)' /\ Opened(v)'
    BY <1>3, <1>5, <1>6 DEF Roles, Opening, Opened, InSession
  <1>8. Closing(v)'
    BY <1>3, <1>5 DEF Closing, InSession
  <1>9. Queried(v)'
    BY <1>1, <1>3 DEF Queried, InSession, Control, Fresh, End
  <1>10. Asked(v)'
    BY <1>4, <1>5, PeerFacts DEF Asked, Control, End
  <1>11. Fresh'
    BY <1>2, <1>3 DEF Fresh, Control
  <1> QED
    BY <1>7, <1>8, <1>9, <1>10, <1>11 DEF Control

LEMMA RefuseControl ==
  ASSUME Counters, NEW w, NEW v, Control(w), Sound(w["client"]), Sound(w["server"]),
         Sound(v["client"]), Sound(v["server"]),
         requested, requested' = FALSE,
         UNCHANGED <<connected, opened, mState, mQueryCounter, unanswered>>,
         Sends(w, v, "server", "OpenRefuse")
  PROVE  Control(v)'
  <1>1. mState["server"] = "Listening"
    BY DEF Control, Opened
  <1>2. /\ mState["client"] = "Connecting"
        /\ Number(w["server"]) = 0 /\ Number(w["client"]) = 0
        /\ Coming(w["server"]) = {} /\ Coming(w["client"]) = {}
    BY <1>1 DEF Control, Opening, Sound
  <1>3. /\ v["server"] = w["server"]
        /\ connected => More(w["client"], v["client"], "OpenRefuse")
        /\ ~ connected => v["client"] = w["client"]
    BY PeerFacts DEF Sends
  <1>4. /\ Coming(v["client"]) \subseteq {"OpenRefuse"}
        /\ Number(v["client"]) <= 1 /\ Number(v["client"]) \in Nat
        /\ Number(v["server"]) = 0 /\ Coming(v["server"]) = {}
        /\ Asks(v["client"]) = Asks(w["client"])
        /\ Answers(v["client"]) = Answers(w["client"])
    BY <1>2, <1>3 DEF More, Is, Sound
  <1>5. Roles' /\ Opening(v)' /\ Opened(v)'
    BY <1>1, <1>2, <1>4 DEF Roles, Opening, Opened, Control
  <1>6. Closing(v)' /\ Queried(v)'
    BY <1>1, <1>2, <1>4 DEF Closing, Queried, InSession, End
  <1>7. Asked(v)'
    BY <1>3, <1>4, PeerFacts DEF Asked, Control, End
  <1>8. Fresh'
    BY DEF Fresh, Control
  <1> QED
    BY <1>5, <1>6, <1>7, <1>8 DEF Control

LEMMA CloseControl ==
  ASSUME Counters, NEW w, NEW v, Control(w), Sound(w["client"]), Sound(w["server"]),
         Sound(v["client"]), Sound(v["server"]),
         NEW e \in End, InSession(e),
         mState' = [mState EXCEPT ![e] = "Unconnected"],
         UNCHANGED <<connected, opened, requested, mQueryCounter, unanswered>>,
         Sends(w, v, e, "SessionClose")
  PROVE  Control(v)'
  <1>1. /\ mState'[e] = "Unconnected" /\ mState'[Peer(e)] = mState[Peer(e)]
        /\ mState[e] \in {"Idle", "DataTransfer"}
    BY PeerFacts DEF Counters, InSession
  <1>2. mState["server"] # "Listening" /\ opened /\ ~ requested
    BY <1>1, PeerFacts DEF Control, Opening, Opened
  <1>3. /\ v[e] = w[e]
        /\ connected => More(w[Peer(e)], v[Peer(e)], "SessionClose")
        /\ ~ connected => v[Peer(e)] = w[Peer(e)]
    BY DEF Sends
  <1>4. /\ Coming(v[Peer(e)]) \subseteq Coming(w[Peer(e)]) \cup {"SessionClose"}
        /\ connected => "SessionClose" \in Coming(v[Peer(e)])
        /\ Coming(w[Peer(e)]) \subseteq Coming(v[Peer(e)])
        /\ Asks(v[Peer(e)]) = Asks(w[Peer(e)])
        /\ Answers(v[Peer(e)]) = Answers(w[Peer(e)])
    BY <1>3, PeerFacts DEF More, Is, Sound
  <1>5. Roles'
    BY <1>1, <1>2, PeerFacts DEF Roles, Control
  <1>6. Opening(v)'
    BY <1>1, <1>2, PeerFacts DEF Opening
  <1>7. Opened(v)'
    <2>1. Coming(v["server"]) \subseteq Ordinary
      BY <1>2, <1>3, <1>4, PeerFacts DEF Opened, Control, Ordinary
    <2>2. CASE e = "client"
      BY <1>1, <1>2, <2>1, <2>2, PeerFacts DEF Opened, InSession
    <2>3. CASE e = "server"
      <3>1. /\ mState["client"] = "Connecting" =>
                 /\ Number(w["server"]) = 0
                 /\ connected => Number(w["client"]) > 0
                 /\ Number(w["client"]) > 0 => First(w["client"]) = "OpenConfirm"
                 /\ Later(w["client"]) \subseteq Ordinary
            /\ InSession("client") => Coming(w["client"]) \subseteq Ordinary
        BY <1>2 DEF Opened, Control
      <3>2. mState["client"] = "Connecting" =>
              /\ Number(v["server"]) = 0
              /\ connected => Number(v["client"]) > 0
              /\ Number(v["client"]) > 0 => First(v["client"]) = "OpenConfirm"
              /\ Later(v["client"]) \subseteq Ordinary
        BY <1>3, <2>3, <3>1, PeerFacts DEF More, Sound, Ordinary
      <3>3. InSession("client") => Coming(v["client"]) \subseteq Ordinary
        BY <1>4, <2>3, <3>1, PeerFacts DEF Ordinary
      <3> QED
        BY <1>1, <1>2, <2>1, <2>3, <3>2, <3>3, PeerFacts DEF Opened, InSession
    <2> QED
      BY <2>2, <2>3, PeerFacts
  <1>8. Closing(v)'
    BY <1>1, <1>3, <1>4, PeerFacts DEF Closing, InSession, Control
  <1>9. Queried(v)'
    BY <1>1, <1>3, <1>4, PeerFacts DEF Queried, InSession, Control
  <1>10. Asked(v)'
    BY <1>3, <1>4, PeerFacts DEF Asked, Control
  <1>11. Fresh'
    BY <1>1, <1>2, PeerFacts DEF Fresh, Control
  <1> QED
    BY <1>5, <1>6, <1>7, <1>8, <1>9, <1>10, <1>11 DEF Control

(* A message, or the command to stop or to resume.                         *)
LEMMA SendControl ==
  ASSUME Counters, NEW w, NEW v, Control(w), Sound(w["client"]), Sound(w["server"]),
         Sound(v["client"]), Sound(v["server"]),
         NEW e \in End, InSession(e),
         NEW command \in {"None", "StopTransmission", "ResumeTransmission"},
         UNCHANGED <<connected, mState, opened, requested, mQueryCounter, unanswered>>,
         Sends(w, v, e, command)
  PROVE  Control(v)'
  <1>1. mState[e] \in {"Idle", "DataTransfer"}
    BY DEF InSession
  <1>2. mState["server"] # "Listening" /\ opened /\ ~ requested
    BY <1>1, PeerFacts DEF Control, Opening, Opened
  <1>3. /\ v[e] = w[e]
        /\ connected => More(w[Peer(e)], v[Peer(e)], command)
        /\ ~ connected => v[Peer(e)] = w[Peer(e)]
    BY DEF Sends
  <1>4. /\ Coming(v[Peer(e)]) \subseteq Coming(w[Peer(e)]) \cup {command}
        /\ Coming(w[Peer(e)]) \subseteq Coming(v[Peer(e)])
        /\ Asks(v[Peer(e)]) = Asks(w[Peer(e)])
        /\ Answers(v[Peer(e)]) = Answers(w[Peer(e)])
        /\ command \in Ordinary /\ command # "SessionClose"
    BY <1>3, PeerFacts DEF More, Is, Sound, Ordinary
  <1>5. Roles' /\ Opening(v)' /\ Fresh'
    BY <1>2 DEF Roles, Control, Opening, Fresh
  <1>6. Opened(v)'
    <2>1. Coming(v["server"]) \subseteq Ordinary
      BY <1>2, <1>3, <1>4, PeerFacts DEF Opened, Control
    <2>2. CASE e = "client"
      BY <1>1, <1>2, <1>3, <2>1, <2>2, PeerFacts DEF Opened, InSession, Control
    <2>3. CASE e = "server"
      <3>1. /\ mState["client"] = "Connecting" =>
                 /\ Number(w["server"]) = 0
                 /\ connected => Number(w["client"]) > 0
                 /\ Number(w["client"]) > 0 => First(w["client"]) = "OpenConfirm"
                 /\ Later(w["client"]) \subseteq Ordinary
            /\ InSession("client") => Coming(w["client"]) \subseteq Ordinary
        BY <1>2 DEF Opened, Control
      <3>2. mState["client"] = "Connecting" =>
              /\ Number(v["server"]) = 0
              /\ connected => Number(v["client"]) > 0
              /\ Number(v["client"]) > 0 => First(v["client"]) = "OpenConfirm"
              /\ Later(v["client"]) \subseteq Ordinary
        BY <1>3, <1>4, <2>3, <3>1, PeerFacts DEF More, Sound
      <3>3. InSession("client") => Coming(v["client"]) \subseteq Ordinary
        BY <1>4, <2>3, <3>1, PeerFacts
      <3> QED
        BY <1>1, <1>2, <2>1, <2>3, <3>2, <3>3, PeerFacts DEF Opened, InSession
    <2> QED
      BY <2>2, <2>3, PeerFacts
  <1>7. Closing(v)'
    BY <1>1, <1>3, <1>4, PeerFacts DEF Closing, InSession, Control
  <1>8. Queried(v)'
    BY <1>1, <1>3, <1>4, PeerFacts DEF Queried, InSession, Control
  <1>9. Asked(v)'
    BY <1>3, <1>4, PeerFacts DEF Asked, Control
  <1> QED
    BY <1>5, <1>6, <1>7, <1>8, <1>9 DEF Control

LEMMA QueryControl ==
  ASSUME Counters, NEW w, NEW v, Control(w), Sound(w["client"]), Sound(w["server"]),
         Sound(v["client"]), Sound(v["server"]),
         NEW e \in End, InSession(e),
         mQueryCounter' = [mQueryCounter EXCEPT ![e] = @ + 1],
         unanswered' = [unanswered EXCEPT ![e] = @ + 1],
         UNCHANGED <<connected, mState, opened, requested>>,
         Sends(w, v, e, "StatusQuery")
  PROVE  Control(v)'
  <1>1. /\ mState[e] \in {"Idle", "DataTransfer"}
        /\ mQueryCounter'[e] = mQueryCounter[e] + 1
        /\ unanswered'[e] = unanswered[e] + 1
        /\ mQueryCounter'[Peer(e)] = mQueryCounter[Peer(e)]
        /\ unanswered'[Peer(e)] = unanswered[Peer(e)]
        /\ mQueryCounter[e] \in Nat /\ unanswered[e] \in Int
    BY PeerFacts DEF InSession, Counters
  <1>2. mState["server"] # "Listening" /\ opened /\ ~ requested
    BY <1>1, PeerFacts DEF Control, Opening, Opened
  <1>3. /\ v[e] = w[e]
        /\ connected => More(w[Peer(e)], v[Peer(e)], "StatusQuery")
        /\ ~ connected => v[Peer(e)] = w[Peer(e)]
    BY DEF Sends
  <1>4. /\ Coming(v[Peer(e)]) \subseteq Coming(w[Peer(e)]) \cup {"StatusQuery"}
        /\ connected => "StatusQuery" \in Coming(v[Peer(e)])
        /\ Coming(w[Peer(e)]) \subseteq Coming(v[Peer(e)])
        /\ Asks(v[Peer(e)]) \in Nat /\ Asks(v[Peer(e)]) <= Asks(w[Peer(e)]) + 1
        /\ Answers(v[Peer(e)]) = Answers(w[Peer(e)])
        /\ "StatusQuery" \in Ordinary
    BY <1>3, PeerFacts DEF More, Is, Sound, Ordinary
  <1>5. Roles' /\ Opening(v)'
    BY <1>2 DEF Roles, Control, Opening
  <1>6. Opened(v)'
    <2>1. Coming(v["server"]) \subseteq Ordinary
      BY <1>2, <1>3, <1>4, PeerFacts DEF Opened, Control
    <2>2. CASE e = "client"
      BY <1>1, <1>2, <1>3, <2>1, <2>2, PeerFacts DEF Opened, InSession, Control
    <2>3. CASE e = "server"
      <3>1. /\ mState["client"] = "Connecting" =>
                 /\ Number(w["server"]) = 0
                 /\ connected => Number(w["client"]) > 0
                 /\ Number(w["client"]) > 0 => First(w["client"]) = "OpenConfirm"
                 /\ Later(w["client"]) \subseteq Ordinary
            /\ InSession("client") => Coming(w["client"]) \subseteq Ordinary
        BY <1>2 DEF Opened, Control
      <3>2. mState["client"] = "Connecting" =>
              /\ Number(v["server"]) = 0
              /\ connected => Number(v["client"]) > 0
              /\ Number(v["client"]) > 0 => First(v["client"]) = "OpenConfirm"
              /\ Later(v["client"]) \subseteq Ordinary
        BY <1>3, <1>4, <2>3, <3>1, PeerFacts DEF More, Sound
      <3>3. InSession("client") => Coming(v["client"]) \subseteq Ordinary
        BY <1>4, <2>3, <3>1, PeerFacts
      <3> QED
        BY <1>1, <1>2, <2>1, <2>3, <3>2, <3>3, PeerFacts DEF Opened, InSession
    <2> QED
      BY <2>2, <2>3, PeerFacts
  <1>7. Closing(v)'
    BY <1>1, <1>3, <1>4, PeerFacts DEF Closing, InSession, Control
  <1>8. Queried(v)'
    BY <1>1, <1>3, <1>4, PeerFacts DEF Queried, InSession, Control
  <1>9. Asked(v)'
    <2>1. /\ mQueryCounter[e] <= unanswered[e]
          /\ Asks(w[Peer(e)]) + Answers(w[e]) <= unanswered[e]
          /\ mQueryCounter[Peer(e)] <= unanswered[Peer(e)]
          /\ Asks(w[e]) + Answers(w[Peer(e)]) <= unanswered[Peer(e)]
      BY PeerFacts DEF Asked, Control
    <2>2. /\ Asks(w[Peer(e)]) \in Nat /\ Answers(w[e]) \in Nat
      BY PeerFacts DEF Sound
    <2>3. /\ mQueryCounter'[e] <= unanswered'[e]
          /\ Asks(v[Peer(e)]) + Answers(v[e]) <= unanswered'[e]
      BY <1>1, <1>3, <1>4, <2>1, <2>2
    <2>4. /\ mQueryCounter'[Peer(e)] <= unanswered'[Peer(e)]
          /\ Asks(v[e]) + Answers(v[Peer(e)]) <= unanswered'[Peer(e)]
      BY <1>1, <1>3, <1>4, <2>1
    <2> QED
      BY <2>3, <2>4, PeerFacts DEF Asked
  <1>10. Fresh'
    BY <1>1, <1>2, PeerFacts DEF Fresh, Control, Counters
  <1> QED
    BY <1>5, <1>6, <1>7, <1>8, <1>9, <1>10 DEF Control

(* The server reads the request to open a session.                         *)
LEMMA RequestControl ==
  ASSUME Counters, NEW w, NEW v, Control(w), Sound(w["client"]), Sound(w["server"]),
         Sound(v["client"]), Sound(v["server"]),
         mState["server"] = "Listening",
         NEW command, Reads(w, v, "server", command),
         requested' = TRUE,
         UNCHANGED <<connected, mState, opened, mQueryCounter, unanswered>>
  PROVE  Control(v)'
  <1>1. Less(w["server"], v["server"], command) /\ v["client"] = w["client"]
    BY PeerFacts DEF Reads
  <1>2. /\ Number(w["server"]) = Number(v["server"]) + 1
        /\ Coming(v["server"]) \subseteq Coming(w["server"])
        /\ Asks(v["server"]) <= Asks(w["server"])
        /\ Answers(v["server"]) <= Answers(w["server"])
        /\ Number(v["server"]) \in Nat /\ Number(w["server"]) \in Nat
    BY <1>1 DEF Less, Is, Sound
  <1>3. /\ mState["client"] = "Connecting"
        /\ Number(v["server"]) = 0 /\ Number(v["client"]) = 0
        /\ Coming(v["server"]) \subseteq {"SessionOpen"}
        /\ Coming(v["client"]) \subseteq {"OpenRefuse"}
    BY <1>1, <1>2 DEF Control, Opening, Sound
  <1>4. Roles' /\ Opened(v)' /\ Fresh'
    BY DEF Roles, Opened, Fresh, Control
  <1>5. Opening(v)'
    BY <1>3 DEF Opening
  <1>6. Closing(v)' /\ Queried(v)'
    BY <1>3 DEF Closing, Queried, InSession, End
  <1>7. Asked(v)'
    <2>1. /\ Asks(w["server"]) \in Nat /\ Asks(w["client"]) \in Nat
          /\ Answers(w["server"]) \in Nat /\ Answers(w["client"]) \in Nat
          /\ Asks(v["server"]) \in Nat /\ Answers(v["server"]) \in Nat
          /\ unanswered \in [End -> Int]
      BY DEF Sound, Counters
    <2> QED
      BY <1>1, <1>2, <2>1, PeerFacts DEF Asked, Control, End
  <1> QED
    BY <1>4, <1>5, <1>6, <1>7 DEF Control

(* The client reads the answer.                                            *)
LEMMA AnswerControl ==
  ASSUME Counters, NEW w, NEW v, Control(w), Sound(w["client"]), Sound(w["server"]),
         Sound(v["client"]), Sound(v["server"]),
         mState["client"] = "Connecting",
         NEW command, Reads(w, v, "client", command),
         NEW state, mState' = [mState EXCEPT !["client"] = state],
         command = "OpenConfirm" => state = "Idle",
         command = "OpenRefuse" => state = "Unconnected",
         UNCHANGED <<connected, opened, requested, mQueryCounter, unanswered>>
  PROVE  /\ command \in {"OpenConfirm", "OpenRefuse"}
         /\ Control(v)'
  <1>1. Less(w["client"], v["client"], command) /\ v["server"] = w["server"]
    BY PeerFacts DEF Reads
  <1>2. /\ Number(w["client"]) = Number(v["client"]) + 1
        /\ Number(v["client"]) \in Nat /\ Number(w["client"]) \in Nat
        /\ First(w["client"]) = command
        /\ Coming(v["client"]) = Later(w["client"])
        /\ Coming(w["client"]) = Coming(v["client"]) \cup {command}
        /\ Asks(v["client"]) <= Asks(w["client"])
        /\ Answers(v["client"]) <= Answers(w["client"])
    BY <1>1 DEF Less, Is, Sound
  <1>3. mState'["client"] = state /\ mState'["server"] = mState["server"]
    BY PeerFacts DEF Counters
  <1>4. Asked(v)'
    <2>1. /\ Asks(w["server"]) \in Nat /\ Asks(w["client"]) \in Nat
          /\ Answers(w["server"]) \in Nat /\ Answers(w["client"]) \in Nat
          /\ Asks(v["client"]) \in Nat /\ Answers(v["client"]) \in Nat
          /\ unanswered \in [End -> Int]
      BY DEF Sound, Counters
    <2> QED
      BY <1>1, <1>2, <2>1, PeerFacts DEF Asked, Control, End
  <1>5. opened /\ mQueryCounter["client"] = 0
    BY DEF Control, Roles, Fresh
  <1>6. CASE mState["server"] = "Listening"
    <2>1. /\ command = "OpenRefuse" /\ ~ requested
          /\ Number(v["client"]) = 0 /\ Number(v["server"]) = 0
          /\ Coming(v["client"]) = {} /\ Coming(v["server"]) = {}
      BY <1>1, <1>2, <1>6 DEF Control, Opening, Sound
    <2>2. state = "Unconnected"
      BY <2>1
    <2>3. Roles' /\ Opening(v)' /\ Opened(v)' /\ Fresh'
      BY <1>3, <1>5, <1>6, <2>1, <2>2 DEF Roles, Opening, Opened, Fresh, Control
    <2>4. Closing(v)' /\ Queried(v)'
      BY <1>3, <1>6, <2>1, <2>2 DEF Closing, Queried, InSession, End
    <2> QED
      BY <1>4, <2>1, <2>3, <2>4 DEF Control
  <1>7. CASE mState["server"] # "Listening"
    <2>1. /\ command = "OpenConfirm" /\ ~ requested
          /\ Coming(v["client"]) \subseteq Ordinary
          /\ Coming(v["server"]) \subseteq Ordinary
      BY <1>1, <1>2, <1>7 DEF Control, Opened
    <2>2. state = "Idle"
      BY <2>1
    <2>3. Roles' /\ Opening(v)' /\ Opened(v)' /\ Fresh'
      BY <1>3, <1>5, <1>7, <2>1, <2>2 DEF Roles, Opening, Opened, Fresh, Control
    <2>4. Closing(v)'
      BY <1>1, <1>2, <1>3, <1>7, <2>1, <2>2 DEF Closing, InSession, Control
    <2>5. Queried(v)'
      BY <1>1, <1>2, <1>3, <1>5, <2>1, <2>2, PeerFacts
         DEF Queried, InSession, Control, End
    <2> QED
      BY <1>4, <2>1, <2>3, <2>4, <2>5 DEF Control
  <1> QED
    BY <1>6, <1>7

(* In a session: a close, a message or the command to stop or to resume.   *)
LEMMA TakeControl ==
  ASSUME Counters, NEW w, NEW v, Control(w), Sound(w["client"]), Sound(w["server"]),
         Sound(v["client"]), Sound(v["server"]),
         NEW e \in End, mState[e] = "Idle",
         NEW command, Reads(w, v, e, command),
         command \notin {"StatusQuery", "StatusResponse"},
         NEW state, mState' = [mState EXCEPT ![e] = state],
         IF command = "SessionClose" THEN state = "Unconnected"
                                     ELSE state \in {"Idle", "DataTransfer"},
         UNCHANGED <<connected, opened, requested, mQueryCounter, unanswered>>
  PROVE  command \in Ordinary /\ Control(v)'
  <1>1. Less(w[e], v[e], command) /\ v[Peer(e)] = w[Peer(e)]
    BY DEF Reads
  <1>2. /\ Coming(w[e]) = Coming(v[e]) \cup {command}
        /\ Asks(v[e]) = Asks(w[e]) /\ Answers(v[e]) = Answers(w[e])
    BY <1>1, PeerFacts DEF Less, Is, Sound
  <1>3. mState'[e] = state /\ mState'[Peer(e)] = mState[Peer(e)]
    BY PeerFacts DEF Counters
  <1>4. mState["server"] # "Listening" /\ opened /\ ~ requested
    BY PeerFacts DEF Control, Opening, Opened
  <1>5. Coming(w[e]) \subseteq Ordinary /\ command \in Ordinary
    BY <1>2, <1>4, PeerFacts DEF Control, Opened, InSession
  <1>6. e = "server" => mState["client"] # "Connecting"
    <2> SUFFICES ASSUME e = "server", mState["client"] = "Connecting"
                 PROVE  FALSE
      OBVIOUS
    <2>1. Number(w["server"]) = 0
      BY <1>4 DEF Control, Opened
    <2> QED
      BY <1>2, <2>1 DEF Sound
  <1>7. Roles' /\ Opening(v)' /\ Fresh'
    BY <1>3, <1>4, PeerFacts DEF Roles, Opening, Fresh, Control
  <1>8. Opened(v)'
    BY <1>1, <1>2, <1>3, <1>4, <1>5, <1>6, PeerFacts DEF Opened, InSession, Control
  <1>9. Closing(v)'
    BY <1>1, <1>2, <1>3, PeerFacts DEF Closing, InSession, Control
  <1>10. Queried(v)'
    BY <1>1, <1>2, <1>3, PeerFacts DEF Queried, InSession, Control
  <1>11. Asked(v)'
    BY <1>1, <1>2, PeerFacts DEF Asked, Control
  <1> QED
    BY <1>5, <1>7, <1>8, <1>9, <1>10, <1>11 DEF Control

LEMMA ResponseControl ==
  ASSUME Counters, NEW w, NEW v, Control(w), Sound(w["client"]), Sound(w["server"]),
         Sound(v["client"]), Sound(v["server"]),
         NEW e \in End, mState[e] = "Idle",
         Reads(w, v, e, "StatusResponse"),
         mQueryCounter' = [mQueryCounter EXCEPT ![e] = 0],
         unanswered' = [unanswered EXCEPT ![e] = @ - 1],
         UNCHANGED <<connected, mState, opened, requested>>
  PROVE  Control(v)'
  <1>1. Less(w[e], v[e], "StatusResponse") /\ v[Peer(e)] = w[Peer(e)]
    BY DEF Reads
  <1>2. /\ Coming(w[e]) = Coming(v[e]) \cup {"StatusResponse"}
        /\ Asks(v[e]) = Asks(w[e]) /\ Answers(w[e]) = Answers(v[e]) + 1
    BY <1>1, PeerFacts DEF Less, Is, Sound
  <1>3. /\ mQueryCounter'[e] = 0 /\ mQueryCounter'[Peer(e)] = mQueryCounter[Peer(e)]
        /\ unanswered'[e] = unanswered[e] - 1
        /\ unanswered'[Peer(e)] = unanswered[Peer(e)] /\ unanswered[e] \in Int
    BY PeerFacts DEF Counters
  <1>4. mState["server"] # "Listening" /\ opened /\ ~ requested
    BY PeerFacts DEF Control, Opening, Opened
  <1>5. e = "server" => mState["client"] # "Connecting"
    <2> SUFFICES ASSUME e = "server", mState["client"] = "Connecting"
                 PROVE  FALSE
      OBVIOUS
    <2>1. Number(w["server"]) = 0
      BY <1>4 DEF Control, Opened
    <2> QED
      BY <1>2, <2>1 DEF Sound
  <1>6. Roles' /\ Opening(v)' /\ Fresh'
    BY <1>3, <1>4, PeerFacts DEF Roles, Opening, Fresh, Control
  <1>7. Opened(v)'
    BY <1>1, <1>2, <1>4, <1>5, PeerFacts DEF Opened, InSession, Control
  <1>8. Closing(v)'
    BY <1>1, <1>2, PeerFacts DEF Closing, InSession, Control
  <1>9. Queried(v)'
    BY <1>1, <1>2, <1>3, PeerFacts DEF Queried, InSession, Control
  <1>10. Asked(v)'
    <2>1. /\ Asks(w[Peer(e)]) + Answers(w[e]) <= unanswered[e]
          /\ mQueryCounter[Peer(e)] <= unanswered[Peer(e)]
          /\ Asks(w[e]) + Answers(w[Peer(e)]) <= unanswered[Peer(e)]
      BY PeerFacts DEF Asked, Control
    <2>2. Asks(w[Peer(e)]) \in Nat /\ Answers(v[e]) \in Nat
      BY PeerFacts DEF Sound
    <2>3. /\ mQueryCounter'[e] <= unanswered'[e]
          /\ Asks(v[Peer(e)]) + Answers(v[e]) <= unanswered'[e]
      BY <1>1, <1>2, <1>3, <2>1, <2>2
    <2>4. /\ mQueryCounter'[Peer(e)] <= unanswered'[Peer(e)]
          /\ Asks(v[e]) + Answers(v[Peer(e)]) <= unanswered'[Peer(e)]
      BY <1>1, <1>2, <1>3, <2>1
    <2> QED
      BY <2>3, <2>4, PeerFacts DEF Asked
  <1> QED
    BY <1>6, <1>7, <1>8, <1>9, <1>10 DEF Control

(* A query is read and answered.                                           *)
LEMMA QueriedControl ==
  ASSUME Counters, NEW w, NEW v, Control(w), Sound(w["client"]), Sound(w["server"]),
         Sound(v["client"]), Sound(v["server"]),
         NEW e \in End, mState[e] = "Idle",
         Less(w[e], v[e], "StatusQuery"),
         connected => More(w[Peer(e)], v[Peer(e)], "StatusResponse"),
         ~ connected => v[Peer(e)] = w[Peer(e)],
         UNCHANGED <<connected, mState, opened, requested, mQueryCounter, unanswered>>
  PROVE  Control(v)'
  <1>1. /\ Coming(w[e]) = Coming(v[e]) \cup {"StatusQuery"}
        /\ Asks(w[e]) = Asks(v[e]) + 1 /\ Answers(v[e]) = Answers(w[e])
    BY PeerFacts DEF Less, Is, Sound
  <1>2. /\ Coming(v[Peer(e)]) \subseteq Coming(w[Peer(e)]) \cup {"StatusResponse"}
        /\ connected => "StatusResponse" \in Coming(v[Peer(e)])
        /\ Coming(w[Peer(e)]) \subseteq Coming(v[Peer(e)])
        /\ Asks(v[Peer(e)]) = Asks(w[Peer(e)])
        /\ Answers(v[Peer(e)]) <= Answers(w[Peer(e)]) + 1
        /\ "StatusResponse" \in Ordinary
    BY PeerFacts DEF More, Is, Sound, Ordinary
  <1>3. mState["server"] # "Listening" /\ opened /\ ~ requested
    BY PeerFacts DEF Control, Opening, Opened
  <1>4. e = "server" => mState["client"] # "Connecting"
    <2> SUFFICES ASSUME e = "server", mState["client"] = "Connecting"
                 PROVE  FALSE
      OBVIOUS
    <2>1. Number(w["server"]) = 0
      BY <1>3 DEF Control, Opened
    <2> QED
      BY <1>1, <2>1 DEF Sound
  <1>5. Roles' /\ Opening(v)' /\ Fresh'
    BY <1>3, PeerFacts DEF Roles, Opening, Fresh, Control
  <1>6. Opened(v)'
    BY <1>1, <1>2, <1>3, <1>4, PeerFacts DEF Opened, InSession, Control
  <1>7. Closing(v)'
    BY <1>1, <1>2, PeerFacts DEF Closing, InSession, Control
  <1>8. Queried(v)'
    BY <1>1, <1>2, PeerFacts DEF Queried, InSession, Control
  <1>9. Asked(v)'
    <2>1. /\ Asks(w[Peer(e)]) + Answers(w[e]) <= unanswered[e]
          /\ mQueryCounter[e] <= unanswered[e]
          /\ mQueryCounter[Peer(e)] <= unanswered[Peer(e)]
          /\ Asks(w[e]) + Answers(w[Peer(e)]) <= unanswered[Peer(e)]
      BY PeerFacts DEF Asked, Control
    <2>2. /\ Asks(v[e]) \in Nat /\ Answers(w[Peer(e)]) \in Nat
          /\ Answers(v[Peer(e)]) \in Nat
          /\ unanswered[e] \in Int /\ unanswered[Peer(e)] \in Int
      BY PeerFacts DEF Sound, Counters
    <2>3. Asks(v[e]) + Answers(v[Peer(e)]) <= unanswered[Peer(e)]
      BY <1>1, <1>2, <2>1, <2>2
    <2> QED
      BY <1>1, <1>2, <2>1, <2>3, PeerFacts DEF Asked
  <1> QED
    BY <1>5, <1>6, <1>7, <1>8, <1>9 DEF Control

(* Nothing of what the protocol sees, or the connection ends.              *)
LEMMA IdleControl ==
  ASSUME Counters, NEW w, Control(w),
         UNCHANGED <<opened, requested, mQueryCounter, unanswered>>,
         connected' => connected,
         \/ mState' = mState
         \/ \E e \in End, state \in {"Idle", "DataTransfer"} :
              mState[e] = "DataTransfer" /\ mState' = [mState EXCEPT ![e] = state]
  PROVE  Control(w)'
  <1>1. \A e \in End :
          \/ mState'[e] = mState[e]
          \/ InSession(e) /\ mState'[e] \in {"Idle", "DataTransfer"}
    BY DEF Counters, InSession
  <1>2. \A e \in End :
          /\ \A state \in {"Listening", "Connecting", "Unconnected"} :
               mState'[e] = state <=> mState[e] = state
          /\ InSession(e)' <=> InSession(e)
    BY <1>1 DEF InSession
  <1>3. Roles' /\ Opening(w)' /\ Fresh'
    BY <1>2, PeerFacts DEF Roles, Opening, Fresh, Control
  <1>4. Opened(w)'
    BY <1>2, PeerFacts DEF Opened, Control
  <1>5. Closing(w)' /\ Queried(w)' /\ Asked(w)'
    BY <1>2, PeerFacts DEF Closing, Queried, Asked, Control
  <1> QED
    BY <1>3, <1>4, <1>5 DEF Control

----------------------------------------------------------------------------
(* The invariant of a session, step by step.                               *)

LEMMA HoldsStart == Init => \E w \in [End -> Track] : Upheld(w)
  <1> SUFFICES ASSUME Init
               PROVE  \E w \in [End -> Track] : Upheld(w)
    OBVIOUS
  <1> DEFINE p == CommandPacket("SessionOpen")
             none == [k \in Nat |-> 0]
             t == [packets |-> [k \in Nat |-> p], at |-> none, no |-> none,
                   asks |-> none, answers |-> none, first |-> 1, last |-> 0]
             w == [e \in End |-> t]
  <1>1. p \in Packet
    BY CommandPackets DEF Command
  <1>2. none \in [Nat -> Nat] /\ \A k \in Nat : none[k] = 0
    OBVIOUS
  <1>3. [k \in Nat |-> p] \in [Nat -> Packet]
    BY <1>1
  <1> HIDE DEF none, p
  <1>4. /\ t.first = 1 /\ t.last = 0 /\ t.at = none /\ t.no = none
        /\ t.asks = none /\ t.answers = none
    OBVIOUS
  <1>5. t \in Track
    BY <1>2, <1>3, Zenon DEF Track
  <1> HIDE DEF t
  <1>6. 1 .. 0 = {} /\ 1 .. 0 + 1 = {1} /\ 0 + 1 = 1 /\ 1 <= 0 + 1
    OBVIOUS
  <1>7. IsTrack(t)
    BY <1>2, <1>4, <1>5, <1>6 DEF IsTrack, Counts, Ascends, Rises
  <1>8. /\ connected = TRUE /\ opened = FALSE /\ requested = FALSE
        /\ mState["client"] = "Unconnected" /\ mState["server"] = "Listening"
        /\ \A e \in End : /\ mBytesToRead[e] = 0 /\ mQueryCounter[e] = 0
                          /\ unanswered[e] = 0
                          /\ available[e] = <<>> /\ inTransit[e] = <<>>
                          /\ written[e] = <<>> /\ emitted[e] = <<>>
    BY PeerFacts DEF Init
  <1>9. /\ <<>> \in Seq(Byte) /\ Len(<<>>) = 0 /\ <<>> \o <<>> = <<>>
    BY EmptySeq, ConcatEmptySeq
  <1>10. ASSUME NEW e \in End
         PROVE  EndOK(e, t)
    <2>1. Base(e) = 0 /\ mState[e] # "DataTransfer"
      BY <1>8, PeerFacts DEF Base
    <2>2. Bytes(e) = <<>>
      BY <1>8, <1>9 DEF Bytes
    <2>3. t.no[1] = 0 /\ t.at[1] = 0
      BY <1>2, <1>4
    <2>4. Frame(e, t)
      BY <1>4, <1>6, <1>9, <2>1, <2>2, <2>3 DEF Frame, Framed
    <2>5. Texts(e, t)
      BY <1>4, <1>6, <1>8, <1>9, <2>1, <2>3, PeerFacts DEF Texts
    <2>6. Partial(e, t) /\ Rested(e, t)
      BY <1>4, <2>1 DEF Partial, Rested
    <2> QED
      BY <1>7, <2>4, <2>5, <2>6 DEF EndOK
  <1>11. w \in [End -> Track] /\ \A e \in End : w[e] = t
    BY <1>5
  <1> HIDE DEF w
  <1>12. Number(t) = 0 /\ Asks(t) = 0 /\ Answers(t) = 0
    BY <1>2, <1>4 DEF Number, Asks, Answers
  <1>13. Coming(t) = {}
    BY <1>7, <1>12, WayFacts
  <1>14. Control(w)
    <2>1. Roles /\ Fresh
      BY <1>8, PeerFacts DEF Roles, Fresh
    <2>2. Opening(w) /\ Opened(w)
      BY <1>8, <1>11, <1>12, <1>13, PeerFacts DEF Opening, Opened
    <2>3. Closing(w) /\ Queried(w) /\ Asked(w)
      BY <1>8, <1>11, <1>12, <1>13, PeerFacts DEF Closing, Queried, Asked, InSession
    <2> QED
      BY <2>1, <2>2, <2>3 DEF Control
  <1> QED
    BY <1>10, <1>11, <1>14 DEF Upheld

LEMMA HoldsNext ==
  ASSUME NEW v \in [End -> Track], \A x \in End : EndOK(x, v[x])', Control(v)'
  PROVE  \E u \in [End -> Track] : Upheld(u)'
  BY DEF Upheld

(* What the lemmas on the protocol need of a state and a next state.       *)
LEMMA Footing ==
  ASSUME MatipTypeOK, NEW w, Upheld(w), NEW v, \A x \in End : EndOK(x, v[x])'
  PROVE  /\ Counters /\ Control(w)
         /\ Sound(w["client"]) /\ Sound(w["server"])
         /\ Sound(v["client"]) /\ Sound(v["server"])
  <1>1. \A x \in End : IsTrack(w[x]) /\ IsTrack(v[x])
    BY DEF Upheld, EndOK
  <1> QED
    BY <1>1, SoundWays DEF MatipTypeOK, Counters, Upheld

LEMMA OpenStep ==
  ASSUME MatipTypeOK, NEW w, Upheld(w), openSession
  PROVE  \E v \in [End -> Track] : Upheld(v)'
  <1> DEFINE p == CommandPacket("SessionOpen")
  <1>1. /\ p \in Packet /\ p.command = "SessionOpen" /\ "client" \in End
        /\ write("client", Wire(p)) /\ Peer("client") = "server"
    BY CommandPackets, PeerFacts DEF Command, openSession
  <1> HIDE DEF p
  <1>2. /\ ~ opened /\ opened' = TRUE /\ written' = written
        /\ mState' = [mState EXCEPT !["client"] = "Connecting"]
        /\ UNCHANGED <<connected, available, mBytesToRead, mTempMessage,
                       emitted, reading, requested, mQueryCounter, unanswered>>
    BY DEF openSession, Become
  <1>3. mState["client"] = "Unconnected"
    BY <1>2 DEF Upheld, Control, Roles
  <1>4. /\ mState'["client"] = "Connecting" /\ mState'["server"] = mState["server"]
    BY <1>2, PeerFacts DEF MatipTypeOK
  <1>5. /\ Live("server")' => Live("server")
        /\ Live("client")' => Kept("client")
    BY <1>2, <1>3, <1>4 DEF Live, Kept
  <1>6. PICK v \in [End -> Track] :
          /\ \A x \in End : EndOK(x, v[x])'
          /\ Sends(w, v, "client", "SessionOpen")
    BY <1>1, <1>2, <1>4, <1>5, SendEnds
  <1>7. Control(v)'
    BY <1>2, <1>6, Footing, OpenControl
  <1> QED
    BY <1>6, <1>7, HoldsNext

LEMMA AcceptStep ==
  ASSUME MatipTypeOK, NEW w, Upheld(w), acceptConnection
  PROVE  \E v \in [End -> Track] : Upheld(v)'
  <1> DEFINE p == CommandPacket("OpenConfirm")
  <1>1. /\ p \in Packet /\ p.command = "OpenConfirm" /\ "server" \in End
        /\ write("server", Wire(p)) /\ Peer("server") = "client"
    BY CommandPackets, PeerFacts DEF Command, acceptConnection
  <1> HIDE DEF p
  <1>2. /\ requested /\ requested' = FALSE /\ written' = written
        /\ mState' = [mState EXCEPT !["server"] = "Idle"]
        /\ UNCHANGED <<connected, available, mBytesToRead, mTempMessage,
                       emitted, reading, opened, mQueryCounter, unanswered>>
    BY DEF acceptConnection, Become
  <1>3. mState["server"] = "Listening"
    BY <1>2 DEF Upheld, Control, Opened
  <1>4. /\ mState'["server"] = "Idle" /\ mState'["client"] = mState["client"]
    BY <1>2, PeerFacts DEF MatipTypeOK
  <1>5. /\ Live("client")' => Live("client")
        /\ Live("server")' => Kept("server")
    BY <1>2, <1>3, <1>4 DEF Live, Kept
  <1>6. PICK v \in [End -> Track] :
          /\ \A x \in End : EndOK(x, v[x])'
          /\ Sends(w, v, "server", "OpenConfirm")
    BY <1>1, <1>2, <1>4, <1>5, SendEnds
  <1>7. Control(v)'
    BY <1>2, <1>6, Footing, AcceptControl
  <1> QED
    BY <1>6, <1>7, HoldsNext

LEMMA RefuseStep ==
  ASSUME MatipTypeOK, NEW w, Upheld(w), refuseConnection
  PROVE  \E v \in [End -> Track] : Upheld(v)'
  <1> DEFINE p == CommandPacket("OpenRefuse")
  <1>1. /\ p \in Packet /\ p.command = "OpenRefuse" /\ "server" \in End
        /\ write("server", Wire(p)) /\ Peer("server") = "client"
    BY CommandPackets, PeerFacts DEF Command, refuseConnection
  <1> HIDE DEF p
  <1>2. /\ requested /\ requested' = FALSE
        /\ UNCHANGED <<connected, available, mState, mBytesToRead, mTempMessage,
                       written, emitted, reading, opened, mQueryCounter, unanswered>>
    BY DEF refuseConnection, sessionVars
  <1>3. /\ Live("client")' => Live("client")
        /\ Live("server")' => Kept("server")
    BY <1>2 DEF Live, Kept
  <1>4. PICK v \in [End -> Track] :
          /\ \A x \in End : EndOK(x, v[x])'
          /\ Sends(w, v, "server", "OpenRefuse")
    BY <1>1, <1>2, <1>3, SendEnds
  <1>5. Control(v)'
    BY <1>2, <1>4, Footing, RefuseControl
  <1> QED
    BY <1>4, <1>5, HoldsNext

(* A session is closed by an application or by the timer.                  *)
LEMMA CloseStep ==
  ASSUME MatipTypeOK, NEW w, Upheld(w), NEW e \in End, InSession(e),
         Become(e, "Unconnected"), write(e, ControlPacket("SessionClose")),
         UNCHANGED <<connected, mBytesToRead, mTempMessage, mQueryCounter,
                     available, reading, opened, requested, written, emitted,
                     unanswered>>
  PROVE  \E v \in [End -> Track] : Upheld(v)'
  <1> DEFINE p == CommandPacket("SessionClose")
  <1>1. /\ p \in Packet /\ p.command = "SessionClose" /\ write(e, Wire(p))
    BY CommandPackets DEF Command
  <1> HIDE DEF p
  <1>2. mState' = [mState EXCEPT ![e] = "Unconnected"]
    BY DEF Become
  <1>3. mState'[e] = "Unconnected" /\ mState'[Peer(e)] = mState[Peer(e)]
    BY <1>2, PeerFacts DEF MatipTypeOK
  <1>4. ~ Live(e)'
    <2>1. opened
      BY PeerFacts DEF Upheld, Control, Roles, InSession
    <2> QED
      BY <1>3, <2>1 DEF Live
  <1>5. Live(Peer(e))' => Live(Peer(e))
    BY <1>3 DEF Live
  <1>6. PICK v \in [End -> Track] :
          /\ \A x \in End : EndOK(x, v[x])'
          /\ Sends(w, v, e, "SessionClose")
    BY <1>1, <1>3, <1>4, <1>5, SendEnds
  <1>7. Control(v)'
    BY <1>2, <1>6, Footing, CloseControl
  <1> QED
    BY <1>6, <1>7, HoldsNext

(* A message is written, or the command to stop or to resume.              *)
LEMMA SendStep ==
  ASSUME MatipTypeOK, NEW w, Upheld(w), NEW e \in End, InSession(e),
         NEW p \in Packet, write(e, Wire(p)),
         p.command \in {"None", "StopTransmission", "ResumeTransmission"},
         \/ p.command # "None" /\ written' = written
         \/ /\ p.command = "None"
            /\ written' = [written EXCEPT ![e] = Append(@, p.text)],
         UNCHANGED <<connected, mState, mBytesToRead, mTempMessage,
                     mQueryCounter, available, reading, opened, requested,
                     emitted, unanswered>>
  PROVE  \E v \in [End -> Track] : Upheld(v)'
  <1>1. /\ mState'[Peer(e)] = mState[Peer(e)]
        /\ Live(Peer(e))' => Live(Peer(e))
        /\ Live(e)' => Kept(e)
    BY DEF Live, Kept
  <1>2. PICK v \in [End -> Track] :
          /\ \A x \in End : EndOK(x, v[x])'
          /\ Sends(w, v, e, p.command)
    BY <1>1, SendEnds
  <1>3. Control(v)'
    BY <1>2, Footing, SendControl
  <1> QED
    BY <1>2, <1>3, HoldsNext

LEMMA TransmissionStep ==
  ASSUME MatipTypeOK, NEW w, Upheld(w), NEW e \in End,
         NEW command \in Holds, sendTransmission(e, command)
  PROVE  \E v \in [End -> Track] : Upheld(v)'
  <1> DEFINE p == CommandPacket(command)
  <1>1. command \in {"StopTransmission", "ResumeTransmission"}
    BY MatipAssumption
  <1>2. p \in Packet /\ p.command = command /\ write(e, Wire(p))
    BY <1>1, CommandPackets DEF Command, sendTransmission
  <1> HIDE DEF p
  <1>3. InSession(e) /\ written' = written
    BY DEF sendTransmission, userVars
  <1>4. UNCHANGED <<connected, mState, mBytesToRead, mTempMessage,
                    mQueryCounter, available, reading, opened, requested,
                    emitted, unanswered>>
    BY DEF sendTransmission, userVars, sessionVars
  <1>5. /\ p.command \in {"None", "StopTransmission", "ResumeTransmission"}
        /\ p.command # "None" /\ written' = written
    BY <1>1, <1>2, <1>3
  <1> QED
    BY <1>2, <1>3, <1>4, <1>5, SendStep

LEMMA WriteStep ==
  ASSUME MessagesFit, MatipTypeOK, NEW w, Upheld(w), NEW e \in End,
         NEW length \in Lengths, writeMessage(e, length)
  PROVE  \E v \in [End -> Track] : Upheld(v)'
  <1> DEFINE text == Text(Len(written[e]) + 1, length)
             p == MessagePacket(text)
  <1>1. text \in Fits
    <2>1. Len(written[e]) + 1 \in Nat
      BY LenProperties DEF MatipTypeOK
    <2> QED
      BY <2>1, TextFits
  <1>2. /\ written' = [written EXCEPT ![e] = Append(@, text)]
        /\ write(e, DataPacket(text)) /\ InSession(e)
    BY DEF writeMessage
  <1>3. UNCHANGED <<connected, mState, mBytesToRead, mTempMessage,
                    mQueryCounter, available, reading, opened, requested,
                    emitted, unanswered>>
    BY DEF writeMessage, sessionVars
  <1> HIDE DEF text
  <1>4. /\ p \in Packet /\ p.command = "None" /\ p.text = text
        /\ write(e, Wire(p))
    BY <1>1, <1>2, MessagePackets
  <1> HIDE DEF p
  <1>5. /\ p.command = "None"
        /\ written' = [written EXCEPT ![e] = Append(@, p.text)]
    BY <1>2, <1>4
  <1> QED
    BY <1>2, <1>3, <1>4, <1>5, SendStep

(* The query timer fires, and the session goes on.                         *)
LEMMA QueryStep ==
  ASSUME MatipTypeOK, NEW w, Upheld(w), NEW e \in End,
         onTimeout(e), ~ TimedOut(e)
  PROVE  \E v \in [End -> Track] : Upheld(v)'
  <1> DEFINE p == CommandPacket("StatusQuery")
  <1>1. p \in Packet /\ p.command = "StatusQuery" /\ write(e, Wire(p))
    BY CommandPackets DEF Command, onTimeout
  <1> HIDE DEF p
  <1>2. /\ InSession(e) /\ written' = written
        /\ mQueryCounter' = [mQueryCounter EXCEPT ![e] = @ + 1]
        /\ unanswered' = [unanswered EXCEPT ![e] = @ + 1]
        /\ UNCHANGED <<connected, mState, mBytesToRead, mTempMessage, available,
                       reading, opened, requested, emitted>>
    BY DEF onTimeout, userVars
  <1>3. /\ mState'[Peer(e)] = mState[Peer(e)]
        /\ Live(Peer(e))' => Live(Peer(e))
        /\ Live(e)' => Kept(e)
    BY <1>2 DEF Live, Kept
  <1>4. PICK v \in [End -> Track] :
          /\ \A x \in End : EndOK(x, v[x])'
          /\ Sends(w, v, e, "StatusQuery")
    BY <1>1, <1>2, <1>3, SendEnds
  <1>5. Control(v)'
    BY <1>2, <1>4, Footing, QueryControl
  <1> QED
    BY <1>4, <1>5, HoldsNext

(* Nothing is written or read as the protocol sees it.                     *)
LEMMA StayStep ==
  ASSUME MatipTypeOK, NEW w, Upheld(w), \A x \in End : EndOK(x, w[x])',
         UNCHANGED <<mState, opened, requested, mQueryCounter, unanswered>>,
         connected' => connected
  PROVE  \E v \in [End -> Track] : Upheld(v)'
  <1>1. w \in [End -> Track] /\ Control(w) /\ Counters
    BY Footing DEF Upheld, MatipTypeOK, Counters
  <1>2. Control(w)'
    BY <1>1, IdleControl
  <1> QED
    BY <1>1, <1>2, HoldsNext

(* The other end is not concerned.                                         *)
LEMMA PeerKept ==
  ASSUME MatipTypeOK, NEW w, Upheld(w), NEW e \in End,
         UNCHANGED <<connected, opened, written>>,
         UNCHANGED <<mState[e], mBytesToRead[e], mTempMessage[e], available[e],
                     emitted[e], inTransit[e], reading[e]>>
  PROVE  EndOK(e, w[e])'
  <1>1. EndOK(e, w[e])
    BY DEF Upheld
  <1>2. Grown(Peer(e))
    BY PeerFacts, GrownStays
  <1>3. Live(e)' => Kept(e)
    BY DEF Live, Kept
  <1> QED
    BY <1>1, <1>2, <1>3, EndKept

LEMMA ArriveStep ==
  ASSUME MatipTypeOK, NEW w, Upheld(w), NEW e \in End, arrive(e)
  PROVE  \E v \in [End -> Track] : Upheld(v)'
  <1>1. PICK n \in 1 .. Len(inTransit[e]) :
          /\ available' = [available EXCEPT
                             ![e] = @ \o SubSeq(inTransit[e], 1, n)]
          /\ inTransit' = [inTransit EXCEPT ![e] = SubSeq(@, n + 1, Len(@))]
    BY DEF arrive
  <1>2. /\ available[e] \in Seq(Byte) /\ inTransit[e] \in Seq(Byte)
        /\ n \in 0 .. Len(inTransit[e])
    BY DEF MatipTypeOK
  <1>3. /\ UNCHANGED <<connected, written, opened, mState, mBytesToRead,
                       mTempMessage, emitted, requested, mQueryCounter, unanswered>>
        /\ reading' = [reading EXCEPT ![e] = TRUE]
    BY DEF arrive, sessionVars, userVars
  <1>4. /\ available'[e] = available[e] \o SubSeq(inTransit[e], 1, n)
        /\ inTransit'[e] = SubSeq(inTransit[e], n + 1, Len(inTransit[e]))
        /\ reading'[e] = TRUE
    BY <1>1, <1>3 DEF MatipTypeOK
  <1>5. /\ available'[Peer(e)] = available[Peer(e)]
        /\ inTransit'[Peer(e)] = inTransit[Peer(e)]
        /\ reading'[Peer(e)] = reading[Peer(e)] /\ Peer(e) \in End
    BY <1>1, <1>3, PeerFacts DEF MatipTypeOK
  <1>6. Bytes(e)' = Bytes(e)
    <2>1. (available[e] \o SubSeq(inTransit[e], 1, n))
             \o SubSeq(inTransit[e], n + 1, Len(inTransit[e]))
            = available[e] \o inTransit[e]
      BY <1>2, ConcatMoved
    <2> QED
      BY <1>4, <2>1, Zenon DEF Bytes
  <1>7. EndOK(e, w[e])'
    <2>1. MatipTypeOK'
      BY SocketTypeStep
    <2>2. /\ EndOK(e, w[e]) /\ Rested(e, w[e])'
          /\ connected' => connected /\ Bytes(e)' = Bytes(e)
      BY <1>3, <1>4, <1>6 DEF Upheld, Rested
    <2>3. /\ Len(Bytes(e)') <= Len(Bytes(e))
          /\ \A i \in 1 .. Len(Bytes(e)') : Bytes(e)'[i] = Bytes(e)[i]
      BY <1>6, AllBytes
    <2> QED
      BY <1>3, <2>1, <2>2, <2>3, EndMoved
  <1>8. EndOK(Peer(e), w[Peer(e)])'
    BY <1>3, <1>5, PeerKept
  <1> QED
    BY <1>3, <1>7, <1>8, PeerFacts, StayStep

LEMMA DisconnectStep ==
  ASSUME MatipTypeOK, NEW w, Upheld(w), disconnected
  PROVE  \E v \in [End -> Track] : Upheld(v)'
  <1>1. /\ UNCHANGED <<written, opened, mState, mBytesToRead, mTempMessage, emitted,
                       requested, mQueryCounter, unanswered, available, reading>>
        /\ connected' = FALSE /\ inTransit' = [x \in End |-> <<>>]
    BY DEF disconnected, sessionVars, userVars
  <1>2. MatipTypeOK'
    BY SocketTypeStep, PeerFacts
  <1>3. ASSUME NEW e \in End
        PROVE  EndOK(e, w[e])'
    <2>1. Bytes(e)' = available[e]
      <3>1. available[e] \in Seq(Byte)
        BY DEF MatipTypeOK
      <3>2. Bytes(e)' = available[e] \o <<>>
        BY <1>1 DEF Bytes
      <3> QED
        BY <3>1, <3>2, ConcatEmptySeq
    <2>2. /\ Len(Bytes(e)') <= Len(Bytes(e))
          /\ \A i \in 1 .. Len(Bytes(e)') : Bytes(e)'[i] = Bytes(e)[i]
      BY <2>1, AllBytes
    <2>3. EndOK(e, w[e]) /\ Rested(e, w[e])
      BY DEF Upheld, EndOK
    <2>4. Rested(e, w[e])'
      BY <1>1, <2>3 DEF Rested, Live
    <2> QED
      BY <1>1, <1>2, <2>2, <2>3, <2>4, EndMoved
  <1> QED
    BY <1>1, <1>3, StayStep

(* To an end of which nothing is on its way, no byte is.                   *)
LEMMA NothingComes ==
  ASSUME MatipTypeOK, NEW e \in End, NEW t, EndOK(e, t), Live(e),
         mState[e] # "DataTransfer", Number(t) = 0
  PROVE  Bytes(e) = <<>> /\ available[e] = <<>>
  <1>1. /\ t.first \in Nat /\ t.last \in Nat /\ t.first = t.last + 1
        /\ t.at[t.first] \in Nat
    BY TrackFields DEF EndOK, Number
  <1>2. Framed(Bytes(e), 0, t, connected)
    BY DEF EndOK, Frame, Base
  <1>3. Len(Bytes(e)) <= 0 + (t.at[t.last + 1] - t.at[t.first])
    BY <1>2 DEF Framed
  <1>4. /\ Bytes(e) \in Seq(Byte) /\ available[e] \in Seq(Byte)
        /\ Len(available[e]) \in Nat /\ Len(Bytes(e)) \in Nat
        /\ Len(available[e]) <= Len(Bytes(e))
    BY AllBytes DEF MatipTypeOK
  <1>5. Len(Bytes(e)) = 0 /\ Len(available[e]) = 0
    BY <1>1, <1>3, <1>4
  <1> QED
    BY <1>4, <1>5, EmptySeq

LEMMA DiscardStep ==
  ASSUME MatipTypeOK, NEW w, Upheld(w), NEW e \in End, discard(e)
  PROVE  \E v \in [End -> Track] : Upheld(v)'
  <1>1. /\ UNCHANGED <<connected, written, opened, mState, mBytesToRead,
                       mTempMessage, emitted, requested, mQueryCounter,
                       unanswered, inTransit>>
        /\ mState[e] = "Unconnected" /\ Consume(e, Len(available[e]))
    BY DEF discard, sessionVars, userVars
  <1>2. Len(available[e]) \in 0 .. Len(available[e])
    BY AllBytes
  <1>3. /\ available'[Peer(e)] = available[Peer(e)]
        /\ reading'[Peer(e)] = reading[Peer(e)] /\ Peer(e) \in End
        /\ available' \in [End -> Seq(Byte)]
        /\ Len(available'[e]) = Len(available[e]) - Len(available[e])
    BY <1>1, <1>2, Consumed, PeerFacts
  <1>4. EndOK(Peer(e), w[Peer(e)])'
    BY <1>1, <1>3, PeerKept
  <1>5. EndOK(e, w[e])'
    <2>1. EndOK(e, w[e])
      BY DEF Upheld
    <2>2. CASE Live(e)
      <3>1. e = "client" /\ ~ opened
        BY <1>1, <2>2 DEF Live
      <3>2. Number(w[e]) = 0
        BY <1>1, <3>1 DEF Upheld, Control, Roles, Opening
      <3>3. Bytes(e) = <<>> /\ available[e] = <<>>
        BY <1>1, <2>1, <2>2, <3>2, NothingComes
      <3>4. available'[e] = available[e]
        BY <1>3, <3>3, AllBytes, EmptySeq
      <3>5. Bytes(e)' = Bytes(e)
        BY <1>1, <3>4 DEF Bytes
      <3>6. Rested(e, w[e])'
        <4>1. w[e].first \in Nat /\ w[e].last \in Nat /\ ~ w[e].first <= w[e].last
          BY <2>1, <3>2, TrackFields DEF EndOK, Number
        <4> QED
          BY <1>1, <4>1 DEF Rested
      <3>7. MatipTypeOK'
        BY SocketTypeStep
      <3>8. /\ Len(Bytes(e)') <= Len(Bytes(e))
            /\ \A i \in 1 .. Len(Bytes(e)') : Bytes(e)'[i] = Bytes(e)[i]
        BY <3>5, AllBytes
      <3> QED
        BY <1>1, <2>1, <3>5, <3>6, <3>7, <3>8, EndMoved
    <2>3. CASE ~ Live(e)
      <3>1. ~ Live(e)'
        BY <1>1, <2>3 DEF Live
      <3> QED
        BY <1>1, <2>1, <3>1, PeerFacts, GrownStays, EndKept
    <2> QED
      BY <2>2, <2>3
  <1> QED
    BY <1>1, <1>4, <1>5, PeerFacts, StayStep

LEMMA AwaitStep ==
  ASSUME MatipTypeOK, NEW w, Upheld(w), NEW e \in End, await(e)
  PROVE  \E v \in [End -> Track] : Upheld(v)'
  <1>1. /\ UNCHANGED <<connected, written, opened, mState, mBytesToRead,
                       mTempMessage, emitted, requested, mQueryCounter,
                       unanswered, inTransit, available>>
        /\ reading' = [reading EXCEPT ![e] = FALSE]
    BY DEF await, sessionVars, userVars
  <1>2. reading'[Peer(e)] = reading[Peer(e)] /\ Peer(e) \in End
    BY <1>1, PeerFacts DEF MatipTypeOK
  <1>3. EndOK(Peer(e), w[Peer(e)])'
    BY <1>1, <1>2, PeerKept
  <1>4. ExpectsHeader(e) /\ Live(e) /\ mState[e] # "DataTransfer"
    BY DEF await, HasPacket, HasHeader, ExpectsHeader, Live
  <1>5. EndOK(e, w[e]) /\ Bytes(e)' = Bytes(e)
    BY <1>1 DEF Upheld, Bytes
  <1>6. ASSUME w[e].first <= w[e].last
        PROVE  Len(available[e]) < Size(w[e].packets[w[e].first])
    <2>1. w[e].packets[w[e].first] \in Packet
      BY <1>5, TrackFields DEF EndOK
    <2>2. /\ Size(w[e].packets[w[e].first]) \in Nat
          /\ Size(w[e].packets[w[e].first]) >= headerSize /\ headerSize \in Nat
          /\ Len(available[e]) \in Nat
      BY <2>1, WireBytes, AllBytes
    <2>3. CASE ~ HasHeader(e)
      BY <1>4, <2>2, <2>3 DEF HasHeader
    <2>4. CASE HasHeader(e)
      <3>1. Len(available[e]) < headerSize + dataSize(HeaderIn(e))
        BY <2>4 DEF await
      <3>2. dataSize(HeaderIn(e)) = Payload(w[e].packets[w[e].first])
        BY <1>4, <1>5, <2>4, HeadThere DEF HasHeader
      <3> QED
        BY <3>1, <3>2 DEF Size
    <2> QED
      BY <2>3, <2>4
  <1>7. Rested(e, w[e])'
    BY <1>1, <1>4, <1>6 DEF Rested
  <1>8. EndOK(e, w[e])'
    <2>1. MatipTypeOK'
      BY SocketTypeStep
    <2>2. /\ Len(Bytes(e)') <= Len(Bytes(e))
          /\ \A i \in 1 .. Len(Bytes(e)') : Bytes(e)'[i] = Bytes(e)[i]
      BY <1>5, AllBytes
    <2> QED
      BY <1>1, <1>5, <1>7, <2>1, <2>2, EndMoved
  <1> QED
    BY <1>1, <1>3, <1>8, PeerFacts, StayStep

(* No bytes that are no header are ever met.                               *)
LEMMA NoSkip ==
  ASSUME MatipTypeOK, NEW w, Upheld(w), NEW e \in End, skipInvalidHeader(e)
  PROVE  FALSE
  <1>1. /\ Live(e) /\ mState[e] # "DataTransfer" /\ Len(available[e]) >= headerSize
        /\ ~ IsValid(HeaderIn(e))
    BY DEF skipInvalidHeader, HasHeader, ExpectsHeader, Live
  <1>2. EndOK(e, w[e])
    BY DEF Upheld
  <1> QED
    BY <1>1, <1>2, HeadThere

----------------------------------------------------------------------------
(* No error and no time-out is reported.                                   *)
Calm ==
  \A s \in signals : s[2] \notin {"InvalidHeaderError", "UnexpectedCommandError",
                                  "sessionTimeout"}

LEMMA Silence == ASSUME signals = {} PROVE Calm
  BY DEF Calm

LEMMA OneSignal ==
  ASSUME NEW e, NEW signal, signals = {<<e, signal>>},
         signal \notin {"InvalidHeaderError", "UnexpectedCommandError",
                        "sessionTimeout"}
  PROVE  Calm
  BY DEF Calm

(* A command that is processed is the next one on its way.                 *)
LEMMA CommandThere ==
  ASSUME MatipTypeOK, NEW w, Upheld(w), NEW e \in End, processCommand(e)
  PROVE  /\ EndOK(e, w[e]) /\ Live(e) /\ mState[e] # "DataTransfer"
         /\ w[e].first <= w[e].last
         /\ First(w[e]) = HeaderIn(e).command /\ First(w[e]) # "None"
         /\ Size(w[e].packets[w[e].first]) <= Len(available[e])
         /\ Consume(e, Size(w[e].packets[w[e].first]))
         /\ UNCHANGED <<connected, mBytesToRead, mTempMessage, opened, written,
                        emitted, available[Peer(e)], reading[Peer(e)]>>
  <1>1. /\ Live(e) /\ mState[e] # "DataTransfer" /\ Len(available[e]) >= headerSize
        /\ HeaderIn(e).command # "None"
        /\ Len(available[e]) >= headerSize + dataSize(HeaderIn(e))
        /\ Consume(e, headerSize + dataSize(HeaderIn(e)))
    BY DEF processCommand, HasPacket, HasHeader, ExpectsHeader, Live
  <1>2. EndOK(e, w[e])
    BY DEF Upheld
  <1>3. /\ w[e].first <= w[e].last
        /\ w[e].packets[w[e].first] \in Packet
        /\ HeaderIn(e).command = First(w[e])
        /\ headerSize + dataSize(HeaderIn(e)) = Size(w[e].packets[w[e].first])
    BY <1>1, <1>2, HeadThere DEF First, Size
  <1>4. Size(w[e].packets[w[e].first]) \in 0 .. Len(available[e])
    BY <1>1, <1>3, WireBytes, AllBytes
  <1>5. Consume(e, Size(w[e].packets[w[e].first]))
    BY <1>1, <1>3
  <1>6. UNCHANGED <<available[Peer(e)], reading[Peer(e)]>>
    BY <1>4, <1>5, Consumed
  <1>7. UNCHANGED <<connected, mBytesToRead, mTempMessage, opened, written, emitted>>
    BY DEF processCommand
  <1>8. Size(w[e].packets[w[e].first]) <= Len(available[e])
    BY <1>1, <1>3
  <1> QED
    BY <1>1, <1>2, <1>3, <1>5, <1>6, <1>7, <1>8

(* It is read, and the other end is not concerned.                         *)
LEMMA CommandTaken ==
  ASSUME MatipTypeOK, NEW w, Upheld(w), NEW e \in End, processCommand(e),
         mState'[e] # "DataTransfer", mState'[Peer(e)] = mState[Peer(e)],
         inTransit' = inTransit
  PROVE  \E v \in [End -> Track] :
           /\ \A x \in End : EndOK(x, v[x])'
           /\ Reads(w, v, e, HeaderIn(e).command)
  <1> DEFINE m == MoveTo(w[e], w[e].first + 1)
  <1>1. /\ EndOK(e, w[e]) /\ Live(e) /\ mState[e] # "DataTransfer"
        /\ w[e].first <= w[e].last
        /\ First(w[e]) = HeaderIn(e).command /\ First(w[e]) # "None"
        /\ Size(w[e].packets[w[e].first]) <= Len(available[e])
        /\ Consume(e, Size(w[e].packets[w[e].first]))
        /\ UNCHANGED <<connected, mBytesToRead, mTempMessage, opened, written,
                       emitted, available[Peer(e)], reading[Peer(e)]>>
    BY CommandThere
  <1>2. EndOK(e, m)'
    BY <1>1, EndTakeCommand DEF First
  <1>3. Peer(e) \in End /\ EndOK(Peer(e), w[Peer(e)])'
    BY <1>1, PeerKept, PeerFacts
  <1>4. IsTrack(w[e]) /\ IsTrack(w[Peer(e)])
    BY <1>1, <1>3 DEF Upheld, EndOK
  <1>5. Less(w[e], m, First(w[e])) /\ IsTrack(m)
    BY <1>1, <1>2, <1>4, MoveIsLess DEF EndOK
  <1> HIDE DEF m
  <1>6. PICK v \in [End -> Track] : v[e] = m /\ v[Peer(e)] = w[Peer(e)]
    BY <1>4, <1>5, TwoWays
  <1>7. Reads(w, v, e, HeaderIn(e).command)
    BY <1>1, <1>5, <1>6 DEF Reads
  <1>8. \A x \in End : EndOK(x, v[x])'
    BY <1>2, <1>3, <1>6, PeerFacts
  <1> QED
    BY <1>7, <1>8

LEMMA ListeningStep ==
  ASSUME MatipTypeOK, NEW w, Upheld(w), NEW e \in End, processCommand(e),
         processListeningState(e, HeaderIn(e).command)
  PROVE  (\E v \in [End -> Track] : Upheld(v)') /\ Calm'
  <1>1. mState["server"] = "Listening" /\ e = "server" /\ mState[e] = "Listening"
    BY PeerFacts DEF processListeningState, Upheld, Control, Roles
  <1>2. /\ EndOK(e, w[e]) /\ w[e].first <= w[e].last
        /\ First(w[e]) = HeaderIn(e).command
        /\ UNCHANGED <<connected, opened>>
    BY CommandThere
  <1>3. HeaderIn(e).command = "SessionOpen"
    <2>1. Number(w[e]) > 0 /\ Number(w[e]) \in Nat
      BY <1>2, TrackFields DEF EndOK, Number
    <2>2. First(w[e]) \in Coming(w[e])
      BY <1>2, <2>1, WayFacts DEF EndOK
    <2> QED
      BY <1>1, <1>2, <2>2 DEF Upheld, Control, Opening
  <1>4. /\ mState' = [mState EXCEPT ![e] = "Listening"]
        /\ signals' = {<<e, "sessionRequested">>} /\ requested' = TRUE
        /\ UNCHANGED <<inTransit, mQueryCounter, unanswered>>
    BY <1>3 DEF processListeningState, Moves, Become
  <1>5. mState' = mState /\ mState'[e] # "DataTransfer"
    BY <1>1, <1>4 DEF MatipTypeOK
  <1>6. PICK v \in [End -> Track] :
          /\ \A x \in End : EndOK(x, v[x])'
          /\ Reads(w, v, e, HeaderIn(e).command)
    BY <1>4, <1>5, CommandTaken
  <1>7. Reads(w, v, "server", HeaderIn(e).command)
    BY <1>1, <1>6
  <1>8. Control(v)'
    BY <1>1, <1>2, <1>4, <1>5, <1>6, <1>7, Footing, RequestControl
  <1>9. Calm'
    BY <1>4 DEF Calm
  <1> QED
    BY <1>6, <1>8, <1>9, HoldsNext

LEMMA ConnectingStep ==
  ASSUME MatipTypeOK, NEW w, Upheld(w), NEW e \in End, processCommand(e),
         processConnectingState(e, HeaderIn(e).command)
  PROVE  (\E v \in [End -> Track] : Upheld(v)') /\ Calm'
  <1> DEFINE command == HeaderIn(e).command
             state == CASE command = "OpenConfirm" -> "Idle"
                        [] command = "OpenRefuse" -> "Unconnected"
                        [] OTHER -> "Connecting"
  <1>1. mState["client"] = "Connecting" /\ e = "client" /\ mState[e] = "Connecting"
    BY PeerFacts DEF processConnectingState, Upheld, Control, Roles
  <1>2. UNCHANGED <<connected, opened>>
    BY CommandThere
  <1>3. /\ mState' = [mState EXCEPT ![e] = state] /\ requested' = requested
        /\ command = "OpenConfirm" => signals' = {<<e, "sessionAccepted">>}
        /\ command = "OpenRefuse" => signals' = {<<e, "sessionRefused">>}
        /\ UNCHANGED <<inTransit, mQueryCounter, unanswered>>
    BY DEF processConnectingState, Moves, Become, MatipTypeOK
  <1>4. /\ state # "DataTransfer"
        /\ command = "OpenConfirm" => state = "Idle"
        /\ command = "OpenRefuse" => state = "Unconnected"
    OBVIOUS
  <1> HIDE DEF state
  <1>5. mState'[e] # "DataTransfer" /\ mState'[Peer(e)] = mState[Peer(e)]
    BY <1>3, <1>4, PeerFacts DEF MatipTypeOK
  <1>6. PICK v \in [End -> Track] :
          /\ \A x \in End : EndOK(x, v[x])'
          /\ Reads(w, v, e, command)
    BY <1>3, <1>5, CommandTaken
  <1> HIDE DEF command
  <1>7. /\ Reads(w, v, "client", command)
        /\ mState' = [mState EXCEPT !["client"] = state]
    BY <1>1, <1>3, <1>6
  <1>8. command \in {"OpenConfirm", "OpenRefuse"} /\ Control(v)'
    BY <1>1, <1>2, <1>3, <1>4, <1>6, <1>7, Footing, AnswerControl
  <1>9. Calm'
    BY <1>3, <1>8 DEF Calm
  <1> QED
    BY <1>6, <1>8, <1>9, HoldsNext

(* A query is read and answered.                                           *)
LEMMA AnswerStep ==
  ASSUME MatipTypeOK, NEW w, Upheld(w), NEW e \in End, processCommand(e),
         mState[e] = "Idle", HeaderIn(e).command = "StatusQuery", answerQuery(e)
  PROVE  \E v \in [End -> Track] : Upheld(v)'
  <1> DEFINE m == MoveTo(w[e], w[e].first + 1)
             p == CommandPacket("StatusResponse")
  <1>1. /\ p \in Packet /\ p.command = "StatusResponse" /\ write(e, Wire(p))
        /\ UNCHANGED <<mState, requested, mQueryCounter, unanswered>>
    BY CommandPackets DEF Command, answerQuery
  <1> HIDE DEF p
  <1>2. /\ inTransit'[e] = inTransit[e]
        /\ connected => inTransit'[Peer(e)] = inTransit[Peer(e)] \o Wire(p)
        /\ ~ connected => inTransit' = inTransit
    BY <1>1, Written
  <1>3. /\ EndOK(e, w[e]) /\ Live(e) /\ mState[e] # "DataTransfer"
        /\ w[e].first <= w[e].last
        /\ First(w[e]) = HeaderIn(e).command /\ First(w[e]) # "None"
        /\ Size(w[e].packets[w[e].first]) <= Len(available[e])
        /\ Consume(e, Size(w[e].packets[w[e].first]))
        /\ UNCHANGED <<connected, mBytesToRead, mTempMessage, opened, written,
                       emitted, available[Peer(e)], reading[Peer(e)]>>
    BY CommandThere
  <1>4. EndOK(e, m)'
    BY <1>1, <1>2, <1>3, EndTakeCommand DEF First
  <1>5. /\ Peer(e) \in End /\ Peer(Peer(e)) = e /\ \A x \in End : x = e \/ x = Peer(e)
        /\ EndOK(Peer(e), w[Peer(e)])
    BY PeerFacts DEF Upheld
  <1>6. IsTrack(w[e]) /\ IsTrack(w[Peer(e)])
    BY <1>3, <1>5 DEF EndOK
  <1>7. Less(w[e], m, "StatusQuery") /\ IsTrack(m)
    BY <1>3, <1>4, <1>6, MoveIsLess DEF EndOK
  <1> HIDE DEF m
  <1>8. PICK b : /\ EndOK(Peer(e), b)' /\ IsTrack(b)
                 /\ connected => More(w[Peer(e)], b, "StatusResponse")
                 /\ ~ connected => b = w[Peer(e)]
    <2>1. CASE connected
      <3>1. Live(Peer(e))' => /\ Kept(Peer(e))
                              /\ reading'[Peer(e)] = reading[Peer(e)]
                              /\ inTransit'[Peer(e)] = inTransit[Peer(e)] \o Wire(p)
        BY <1>1, <1>2, <1>3, <2>1 DEF Kept, Live
      <3>2. /\ Grown(Peer(Peer(e)))
            /\ Len(written'[e]) = Len(written[e]) + One(p, "None")
        <4>1. Len(written[e]) \in Nat
          BY LenProperties DEF MatipTypeOK
        <4> QED
          BY <1>1, <1>3, <1>5, <4>1, GrownStays DEF One
      <3>3. EndOK(Peer(e), Grow(w[Peer(e)], p))'
        BY <1>1, <1>3, <1>5, <2>1, <3>1, <3>2, EndPut
      <3>4. /\ IsTrack(Grow(w[Peer(e)], p))
            /\ More(w[Peer(e)], Grow(w[Peer(e)], p), p.command)
        BY <1>1, <1>6, GrowFacts, GrowIsMore
      <3> QED
        BY <1>1, <2>1, <3>3, <3>4
    <2>2. CASE ~ connected
      <3>1. EndOK(Peer(e), w[Peer(e)])'
        BY <1>1, <1>2, <1>3, <1>5, <2>2, PeerKept
      <3> QED
        BY <1>6, <2>2, <3>1
    <2> QED
      BY <2>1, <2>2
  <1>9. PICK v \in [End -> Track] : v[e] = m /\ v[Peer(e)] = b
    BY <1>7, <1>8, TwoWays
  <1>10. \A x \in End : EndOK(x, v[x])'
    BY <1>4, <1>5, <1>8, <1>9
  <1>11. /\ Less(w[e], v[e], "StatusQuery")
         /\ connected => More(w[Peer(e)], v[Peer(e)], "StatusResponse")
         /\ ~ connected => v[Peer(e)] = w[Peer(e)]
    BY <1>7, <1>8, <1>9
  <1>12. UNCHANGED <<connected, mState, opened, requested, mQueryCounter, unanswered>>
    BY <1>1, <1>3
  <1>13. Control(v)'
    BY <1>10, <1>11, <1>12, Footing, QueriedControl
  <1> QED
    BY <1>10, <1>13, HoldsNext

LEMMA ResponseStep ==
  ASSUME MatipTypeOK, NEW w, Upheld(w), NEW e \in End, processCommand(e),
         mState[e] = "Idle", HeaderIn(e).command = "StatusResponse", takeResponse(e)
  PROVE  \E v \in [End -> Track] : Upheld(v)'
  <1>1. /\ mQueryCounter' = [mQueryCounter EXCEPT ![e] = 0]
        /\ unanswered' = [unanswered EXCEPT ![e] = @ - 1]
        /\ UNCHANGED <<inTransit, mState, requested>>
    BY DEF takeResponse
  <1>2. UNCHANGED <<connected, opened>>
    BY CommandThere
  <1>3. PICK v \in [End -> Track] :
          /\ \A x \in End : EndOK(x, v[x])'
          /\ Reads(w, v, e, "StatusResponse")
    BY <1>1, CommandTaken
  <1>4. Control(v)'
    BY <1>1, <1>2, <1>3, Footing, ResponseControl
  <1> QED
    BY <1>3, <1>4, HoldsNext

LEMMA IdleStep ==
  ASSUME MatipTypeOK, NEW w, Upheld(w), NEW e \in End, processCommand(e),
         processIdleState(e, HeaderIn(e).command)
  PROVE  (\E v \in [End -> Track] : Upheld(v)') /\ Calm'
  <1> DEFINE command == HeaderIn(e).command
             state == IF command = "SessionClose" THEN "Unconnected" ELSE "Idle"
  <1>1. mState[e] = "Idle"
    BY DEF processIdleState
  <1>2. CASE command = "StatusQuery"
    <2>1. answerQuery(e)
      BY <1>2 DEF processIdleState
    <2>2. Calm'
      BY <2>1 DEF answerQuery, Calm
    <2> QED
      BY <1>1, <1>2, <2>1, <2>2, AnswerStep
  <1>3. CASE command = "StatusResponse"
    <2>1. takeResponse(e)
      BY <1>3 DEF processIdleState
    <2>2. Calm'
      BY <2>1 DEF takeResponse, Calm
    <2> QED
      BY <1>1, <1>3, <2>1, <2>2, ResponseStep
  <1>4. CASE command \notin {"StatusQuery", "StatusResponse"}
    <2>1. /\ mState' = [mState EXCEPT ![e] = state]
          /\ UNCHANGED <<inTransit, mQueryCounter, unanswered, requested>>
          /\ command \in Ordinary \ {"None"} => Calm'
      BY <1>4 DEF processIdleState, Moves, Become, MatipTypeOK, Ordinary, Calm
    <2>2. UNCHANGED <<connected, opened>> /\ command # "None"
      BY CommandThere
    <2>3. mState'[e] # "DataTransfer" /\ mState'[Peer(e)] = mState[Peer(e)]
      BY <2>1, PeerFacts DEF MatipTypeOK
    <2>4. PICK v \in [End -> Track] :
            /\ \A x \in End : EndOK(x, v[x])'
            /\ Reads(w, v, e, command)
      BY <2>1, <2>3, CommandTaken
    <2>5. IF command = "SessionClose" THEN state = "Unconnected"
                                      ELSE state \in {"Idle", "DataTransfer"}
      OBVIOUS
    <2> HIDE DEF command, state
    <2>6. command \in Ordinary /\ Control(v)'
      BY <1>1, <1>4, <2>1, <2>2, <2>4, <2>5, Footing, TakeControl
    <2> QED
      BY <2>1, <2>2, <2>4, <2>6, HoldsNext
  <1> QED
    BY <1>2, <1>3, <1>4

(* The next message is emitted, or none is.                                *)
Delivers(e) ==
  \/ emitted' = emitted
  \/ /\ Len(emitted[e]) < Len(written[Peer(e)])
     /\ emitted' = [emitted EXCEPT
                      ![e] = Append(@, written[Peer(e)][Len(emitted[e]) + 1])]

(* A part of a message is read: the state, the signal, the other end.      *)
LEMMA DataTaken ==
  ASSUME MatipTypeOK, NEW w, Upheld(w), NEW e \in End,
         NEW skip, NEW size, NEW text, NEW n, NEW whole,
         Appends(e, skip, size, text, n, whole),
         UNCHANGED <<connected, inTransit, opened, written>>,
         Len(emitted[e]) + 1 \in 1 .. Len(written[Peer(e)]),
         n = size => whole = written[Peer(e)][Len(emitted[e]) + 1]
  PROVE  /\ \E state \in {"Idle", "DataTransfer"} :
              mState' = [mState EXCEPT ![e] = state]
         /\ Calm'
         /\ Delivers(e)
         /\ EndOK(Peer(e), w[Peer(e)])'
  <1>1. \E state \in {"Idle", "DataTransfer"} :
          mState' = [mState EXCEPT ![e] = state]
    BY DEF Appends, Become
  <1>2. Calm'
    BY DEF Appends, Calm
  <1>3. Delivers(e)
    <2>1. Len(emitted[e]) \in Nat /\ Len(written[Peer(e)]) \in Nat
      BY PeerFacts, LenProperties DEF MatipTypeOK
    <2>2. Len(emitted[e]) < Len(written[Peer(e)])
      BY <2>1
    <2>3. CASE n = size
      <3>1. emitted' = [emitted EXCEPT ![e] = Append(@, whole)]
        BY <2>3 DEF Appends
      <3>2. whole = written[Peer(e)][Len(emitted[e]) + 1]
        BY <2>3
      <3> QED
        BY <2>2, <3>1, <3>2 DEF Delivers
    <2>4. CASE n # size
      BY <2>4 DEF Appends, Delivers
    <2> QED
      BY <2>3, <2>4
  <1>4. EndOK(Peer(e), w[Peer(e)])'
    <2>1. Consume(e, skip + n) /\ skip + n \in 0 .. Len(available[e])
      BY DEF Appends
    <2>2. UNCHANGED <<available[Peer(e)], reading[Peer(e)]>>
      BY <2>1, Consumed
    <2>3. UNCHANGED <<mBytesToRead[Peer(e)], mTempMessage[Peer(e)],
                      emitted[Peer(e)], mState[Peer(e)]>>
      BY PeerFacts DEF Appends, Become, MatipTypeOK
    <2> QED
      BY <2>2, <2>3, PeerFacts, PeerKept
  <1> QED
    BY <1>1, <1>2, <1>3, <1>4

(* A message is met in a session only.                                     *)
LEMMA NoIgnored ==
  ASSUME MatipTypeOK, NEW w, Upheld(w), NEW e \in End, HasPacket(e, FALSE),
         ignoreData(e)
  PROVE  FALSE
  <1>1. /\ mState[e] \in {"Listening", "Connecting"} /\ Live(e)
        /\ mState[e] # "DataTransfer" /\ Len(available[e]) >= headerSize
        /\ HeaderIn(e).command = "None"
    BY DEF HasPacket, HasHeader, ExpectsHeader, ignoreData, Live
  <1>2. EndOK(e, w[e])
    BY DEF Upheld
  <1>3. First(w[e]) = "None" /\ w[e].first <= w[e].last
    BY <1>1, <1>2, HeadThere DEF First
  <1>4. Number(w[e]) > 0 /\ First(w[e]) \in Coming(w[e])
    <2>1. IsTrack(w[e])
      BY <1>2 DEF EndOK
    <2>2. Number(w[e]) > 0
      BY <1>3, <2>1, TrackFields DEF Number
    <2> QED
      BY <2>1, <2>2, WayFacts
  <1>5. CASE mState[e] = "Listening"
    BY <1>3, <1>4, <1>5, PeerFacts DEF Upheld, Control, Roles, Opening
  <1>6. CASE mState[e] = "Connecting"
    <2>1. e = "client"
      BY <1>6, PeerFacts DEF Upheld, Control, Roles
    <2> QED
      BY <1>3, <1>4, <1>6, <2>1 DEF Upheld, Control, Opening, Opened
  <1> QED
    BY <1>1, <1>5, <1>6

LEMMA DataStep ==
  ASSUME MatipTypeOK, NEW w, Upheld(w), NEW e \in End, processData(e)
  PROVE  (\E v \in [End -> Track] : Upheld(v)') /\ Calm' /\ Delivers(e)
  <1> DEFINE t == w[e]
  <1>1. /\ UNCHANGED <<connected, inTransit, mQueryCounter, opened, requested,
                       written, unanswered>>
        /\ inTransit'[e] = inTransit[e]
    BY DEF processData, userVars
  <1>2. EndOK(e, t) /\ IsTrack(t) /\ t \in Track
    BY DEF Upheld, EndOK, IsTrack
  <1> HIDE DEF t
  <1>3. CASE HasPacket(e, FALSE) /\ mState[e] = "Idle"
             /\ appendData(e, headerSize, dataSize(HeaderIn(e)), <<>>)
    <2>1. /\ Live(e) /\ mState[e] # "DataTransfer" /\ Len(available[e]) >= headerSize
          /\ HeaderIn(e).command = "None"
      BY <1>3 DEF HasPacket, HasHeader, Live
    <2>2. /\ t.first <= t.last /\ t.packets[t.first].command = "None"
          /\ dataSize(HeaderIn(e)) = Payload(t.packets[t.first])
      BY <1>2, <2>1, HeadThere
    <2>3. headerSize \in 0 .. Len(available[e])
      BY <2>1, AllBytes, MatipAssumption
    <2>4. appendData(e, headerSize, Payload(t.packets[t.first]), <<>>)
      BY <1>3, <2>2
    <2>5. /\ EndOK(e, MoveTo(t, t.first + 1))'
          /\ t.no[t.first + 1] = Len(emitted[e]) + 1
          /\ t.no[t.first + 1] \in 1 .. Len(written[Peer(e)])
      BY <1>1, <1>2, <2>1, <2>2, <2>3, <2>4, EndTakeData
    <2>6. PICK n \in Nat, whole \in Seq(Byte) :
            /\ Appends(e, headerSize, Payload(t.packets[t.first]), <<>>, n, whole)
            /\ n = Payload(t.packets[t.first]) =>
                 whole = written[Peer(e)][Len(emitted[e]) + 1]
      BY <1>1, <1>2, <2>1, <2>2, <2>3, <2>4, EndTakeData
    <2>7. /\ \E state \in {"Idle", "DataTransfer"} :
               mState' = [mState EXCEPT ![e] = state]
          /\ Calm'
          /\ Delivers(e)
          /\ EndOK(Peer(e), w[Peer(e)])'
      BY <1>1, <2>5, <2>6, DataTaken
    <2>8. PICK state \in {"Idle", "DataTransfer"} :
            mState' = [mState EXCEPT ![e] = state]
      BY <2>7
    <2> DEFINE m == MoveTo(t, t.first + 1)
    <2>9. Less(t, m, First(t)) /\ IsTrack(m) /\ First(t) = "None"
      BY <1>2, <2>2, <2>5, MoveIsLess DEF EndOK, First
    <2>10. EndOK(e, m)' /\ IsTrack(w[Peer(e)])
      BY <2>5, <2>7 DEF EndOK
    <2> HIDE DEF m
    <2>11. PICK v \in [End -> Track] : v[e] = m /\ v[Peer(e)] = w[Peer(e)]
      BY <2>9, <2>10, TwoWays
    <2>12. \A x \in End : EndOK(x, v[x])'
      BY <2>7, <2>10, <2>11, PeerFacts
    <2>13. Reads(w, v, e, "None")
      BY <2>9, <2>11 DEF Reads, t
    <2>14. Control(v)'
      <3>1. /\ Counters /\ Control(w)
            /\ Sound(w["client"]) /\ Sound(w["server"])
            /\ Sound(v["client"]) /\ Sound(v["server"])
        BY <2>12, Footing
      <3>2. /\ "None" \notin {"StatusQuery", "StatusResponse"}
            /\ IF "None" = "SessionClose" THEN state = "Unconnected"
                                         ELSE state \in {"Idle", "DataTransfer"}
        OBVIOUS
      <3> QED
        BY <1>1, <1>3, <2>8, <2>13, <3>1, <3>2, TakeControl
    <2> QED
      BY <2>7, <2>12, <2>14, HoldsNext
  <1>4. CASE mState[e] = "DataTransfer"
             /\ appendData(e, 0, mBytesToRead[e], mTempMessage[e])
    <2>1. /\ EndOK(e, t)'
          /\ t.no[t.first] = Len(emitted[e]) + 1
          /\ t.no[t.first] \in 1 .. Len(written[Peer(e)])
      BY <1>1, <1>2, <1>4, EndReadData
    <2>2. PICK n \in Nat, whole \in Seq(Byte) :
            /\ Appends(e, 0, mBytesToRead[e], mTempMessage[e], n, whole)
            /\ n = mBytesToRead[e] => whole = written[Peer(e)][Len(emitted[e]) + 1]
      BY <1>1, <1>2, <1>4, EndReadData
    <2>3. /\ \E state \in {"Idle", "DataTransfer"} :
               mState' = [mState EXCEPT ![e] = state]
          /\ Calm'
          /\ Delivers(e)
          /\ EndOK(Peer(e), w[Peer(e)])'
      BY <1>1, <2>1, <2>2, DataTaken
    <2>4. \A x \in End : EndOK(x, w[x])'
      BY <2>1, <2>3, PeerFacts DEF t
    <2>5. Control(w) /\ w \in [End -> Track] /\ Counters
      BY Footing DEF Upheld, MatipTypeOK, Counters
    <2>6. Control(w)'
      BY <1>1, <1>4, <2>3, <2>5, IdleControl
    <2> QED
      BY <2>3, <2>4, <2>5, <2>6, HoldsNext
  <1>5. ~ (HasPacket(e, FALSE) /\ ignoreData(e))
    BY NoIgnored
  <1> QED
    BY <1>3, <1>4, <1>5 DEF processData

----------------------------------------------------------------------------
(* The signals.                                                            *)

Said == NoProtocolError /\ TimeoutMeansSilence /\ LivePeerKeepsSession

LEMMA CalmIsSaid == Calm => Said
  BY DEF Calm, Said, NoProtocolError, TimeoutMeansSilence, LivePeerKeepsSession

(* When the wires are quiet and no handler runs, an end that reads has     *)
(* read all that was sent to it.                                           *)
LEMMA QuietIsRead ==
  ASSUME MatipTypeOK, NEW e \in End, NEW t, EndOK(e, t), Live(e), connected, Quiet
  PROVE  Coming(t) = {}
  <1>1. inTransit[e] = <<>> /\ ~ reading[e]
    BY DEF Quiet
  <1>2. Len(Bytes(e)) = Len(available[e]) /\ Len(available[e]) \in Nat
    <2>1. Len(Bytes(e)) = Len(available[e]) + Len(inTransit[e])
      BY AllBytes
    <2>2. Len(available[e]) \in Nat
      BY AllBytes
    <2>3. Len(inTransit[e]) = 0
      BY <1>1
    <2> QED
      BY <2>1, <2>2, <2>3
  <1>3. /\ IsTrack(t) /\ Partial(e, t) /\ Rested(e, t)
        /\ Framed(Bytes(e), Base(e), t, connected)
    BY DEF EndOK, Frame
  <1>4. /\ t.first \in Nat /\ t.last \in Nat /\ t.first <= t.last + 1
        /\ \A k \in Nat : t.at[k] \in Nat
        /\ \A k \in t.first .. t.last : /\ t.at[k + 1] = t.at[k] + Size(t.packets[k])
                                        /\ Size(t.packets[k]) \in Nat
        /\ \A j, k \in t.first .. t.last + 1 : j <= k => t.at[j] <= t.at[k]
    BY <1>3, TrackFields
  <1>5. Len(Bytes(e)) = Base(e) + (t.at[t.last + 1] - t.at[t.first])
    BY <1>3 DEF Framed
  <1>6. t.at[t.first] <= t.at[t.last + 1]
    <2>1. t.first \in t.first .. t.last + 1 /\ t.last + 1 \in t.first .. t.last + 1
      BY <1>4
    <2> QED
      BY <1>4, <2>1
  <1>7. mState[e] # "DataTransfer"
    <2> SUFFICES ASSUME mState[e] = "DataTransfer"
                 PROVE  FALSE
      OBVIOUS
    <2>1. available[e] = <<>> /\ Base(e) = mBytesToRead[e] /\ mBytesToRead[e] > 0
      BY <1>1, <1>3 DEF Rested, Partial, Base
    <2>2. Len(Bytes(e)) = 0 /\ mBytesToRead[e] \in Nat
      BY <1>2, <2>1 DEF MatipTypeOK
    <2>3. t.at[t.first] \in Nat /\ t.at[t.last + 1] \in Nat
      BY <1>4
    <2> QED
      BY <1>5, <1>6, <2>1, <2>2, <2>3
  <1>8. ~ t.first <= t.last
    <2> SUFFICES ASSUME t.first <= t.last
                 PROVE  FALSE
      OBVIOUS
    <2>1. Len(available[e]) < Size(t.packets[t.first]) /\ Base(e) = 0
      BY <1>1, <1>3, <1>7 DEF Rested, Base
    <2>2. /\ t.first \in t.first .. t.last /\ t.first + 1 \in t.first .. t.last + 1
          /\ t.last + 1 \in t.first .. t.last + 1
      BY <1>4
    <2>3. /\ t.at[t.first + 1] = t.at[t.first] + Size(t.packets[t.first])
          /\ t.at[t.first + 1] <= t.at[t.last + 1]
          /\ Size(t.packets[t.first]) \in Nat
      BY <1>4, <2>2
    <2>4. t.at[t.first] \in Nat /\ t.at[t.last + 1] \in Nat
      BY <1>4
    <2> QED
      BY <1>2, <1>5, <2>1, <2>3, <2>4
  <1> QED
    BY <1>4, <1>8 DEF Coming

(* An end in session with queries that are not answered has one of them,   *)
(* an answer or a close on its way while the connection is up.             *)
LEMMA QuietIsAnswered ==
  ASSUME MatipTypeOK, NEW w, Upheld(w), NEW e \in End, InSession(e), connected,
         Quiet, mQueryCounter[e] > 0
  PROVE  FALSE
  <1>1. /\ Peer(e) \in End /\ EndOK(e, w[e]) /\ EndOK(Peer(e), w[Peer(e)])
    BY PeerFacts DEF Upheld
  <1>2. Live(e) /\ mState[e] \in {"Idle", "DataTransfer"}
    BY DEF Live, InSession
  <1>3. Coming(w[e]) = {}
    BY <1>1, <1>2, QuietIsRead
  <1>4. "StatusQuery" \in Coming(w[Peer(e)])
    BY <1>3 DEF Upheld, Control, Queried
  <1>5. ~ Live(Peer(e))
    BY <1>1, <1>4, QuietIsRead
  <1>6. mState[Peer(e)] = "Unconnected"
    BY <1>5 DEF Live
  <1>7. "SessionClose" \in Coming(w[e])
    BY <1>2, <1>6, PeerFacts DEF Upheld, Control, Closing, InSession
  <1> QED
    BY <1>3, <1>7

LEMMA TimedOutStep ==
  ASSUME MatipTypeOK, NEW w, Upheld(w), NEW e \in End, onTimeout(e), TimedOut(e)
  PROVE  (\E v \in [End -> Track] : Upheld(v)') /\ Said'
  <1>1. /\ InSession(e) /\ Become(e, "Unconnected")
        /\ write(e, ControlPacket("SessionClose"))
        /\ signals' = {<<e, "sessionTimeout">>}
        /\ UNCHANGED <<connected, mBytesToRead, mTempMessage, mQueryCounter,
                       available, reading, opened, requested, written, emitted,
                       unanswered>>
        /\ PromptPeer /\ connected => Quiet
    BY DEF onTimeout, userVars
  <1>2. \E v \in [End -> Track] : Upheld(v)'
    BY <1>1, CloseStep
  <1>3. NoProtocolError'
    BY <1>1 DEF NoProtocolError
  <1>4. TimeoutMeansSilence'
    <2>1. mQueryCounter[e] = maxSessionStatusQueryNumber
      BY DEF TimedOut
    <2>2. mQueryCounter[e] <= unanswered[e]
      BY DEF Upheld, Control, Asked
    <2>3. unanswered[e] >= maxSessionStatusQueryNumber
      BY <2>1, <2>2, MatipAssumption DEF MatipTypeOK
    <2> QED
      BY <1>1, <2>3 DEF TimeoutMeansSilence
  <1>5. LivePeerKeepsSession'
    <2>1. ASSUME PromptPeer, connected, maxSessionStatusQueryNumber > 0
          PROVE  FALSE
      BY <1>1, <2>1, QuietIsAnswered DEF TimedOut
    <2> QED
      BY <1>1, <2>1 DEF LivePeerKeepsSession
  <1> QED
    BY <1>2, <1>3, <1>4, <1>5 DEF Said

----------------------------------------------------------------------------
(* All steps.                                                              *)

(* A message is written, or one is emitted, or neither.                    *)
Passes ==
  \/ UNCHANGED <<written, emitted>>
  \/ /\ emitted' = emitted
     /\ \E e \in End, text \in Fits :
          written' = [written EXCEPT ![e] = Append(@, text)]
  \/ /\ written' = written
     /\ \E e \in End : Delivers(e)

MatipInv ==
  /\ MatipTypeOK
  /\ Said
  /\ \E w \in [End -> Track] : Upheld(w)

(* What every step of Matip does.                                          *)
Advances == (\E v \in [End -> Track] : Upheld(v)') /\ Said' /\ Passes

LEMMA Advance ==
  ASSUME \E v \in [End -> Track] : Upheld(v)', Calm', Passes
  PROVE  Advances
  <1>1. Said'
    BY CalmIsSaid DEF Calm, Said, NoProtocolError, TimeoutMeansSilence,
                      LivePeerKeepsSession
  <1> QED
    BY <1>1 DEF Advances

LEMMA ApplicationAdvances ==
  ASSUME MessagesFit, MatipTypeOK, NEW w, Upheld(w), NEW e \in End,
         ApplicationStep(e)
  PROVE  Advances
  <1>1. Calm'
    BY DEF ApplicationStep, openSession, acceptConnection, refuseConnection,
           closeSession, sendTransmission, writeMessage, Calm
  <1>2. CASE openSession
    <2>1. Passes
      BY <1>2 DEF openSession, Passes
    <2> QED
      BY <1>1, <1>2, <2>1, OpenStep, Advance
  <1>3. CASE acceptConnection
    <2>1. Passes
      BY <1>3 DEF acceptConnection, Passes
    <2> QED
      BY <1>1, <1>3, <2>1, AcceptStep, Advance
  <1>4. CASE refuseConnection
    <2>1. Passes
      BY <1>4 DEF refuseConnection, Passes
    <2> QED
      BY <1>1, <1>4, <2>1, RefuseStep, Advance
  <1>5. CASE closeSession(e)
    <2>1. /\ InSession(e) /\ Become(e, "Unconnected")
          /\ write(e, ControlPacket("SessionClose"))
          /\ UNCHANGED <<connected, mBytesToRead, mTempMessage, mQueryCounter,
                         available, reading, opened, requested, written, emitted,
                         unanswered>>
      BY <1>5 DEF closeSession, userVars
    <2>2. Passes
      BY <2>1 DEF Passes
    <2> QED
      BY <1>1, <2>1, <2>2, CloseStep, Advance
  <1>6. CASE \E command \in Holds : sendTransmission(e, command)
    <2>1. Passes
      BY <1>6 DEF sendTransmission, userVars, Passes
    <2> QED
      BY <1>1, <1>6, <2>1, TransmissionStep, Advance
  <1>7. CASE \E length \in Lengths : writeMessage(e, length)
    <2>1. PICK length \in Lengths : writeMessage(e, length)
      BY <1>7
    <2>2. Text(Len(written[e]) + 1, length) \in Fits
      <3>1. Len(written[e]) + 1 \in Nat
        BY LenProperties DEF MatipTypeOK
      <3> QED
        BY <3>1, TextFits
    <2>3. /\ emitted' = emitted
          /\ written' = [written EXCEPT
                           ![e] = Append(@, Text(Len(written[e]) + 1, length))]
      BY <2>1 DEF writeMessage
    <2>4. Passes
      BY <2>2, <2>3 DEF Passes
    <2> QED
      BY <1>1, <2>1, <2>4, WriteStep, Advance
  <1> QED
    BY <1>2, <1>3, <1>4, <1>5, <1>6, <1>7 DEF ApplicationStep

LEMMA ReadAdvances ==
  ASSUME MatipTypeOK, NEW w, Upheld(w), NEW e \in End, onReadyRead(e)
  PROVE  Advances
  <1>1. CASE discard(e)
    <2>1. Calm' /\ Passes
      BY <1>1 DEF discard, userVars, Calm, Passes
    <2> QED
      BY <1>1, <2>1, DiscardStep, Advance
  <1>2. CASE await(e)
    <2>1. Calm' /\ Passes
      BY <1>2 DEF await, userVars, Calm, Passes
    <2> QED
      BY <1>2, <2>1, AwaitStep, Advance
  <1>3. CASE processCommand(e)
    <2>1. (\E v \in [End -> Track] : Upheld(v)') /\ Calm'
      BY <1>3, ListeningStep, ConnectingStep, IdleStep DEF processCommand
    <2>2. Passes
      BY <1>3 DEF processCommand, Passes
    <2> QED
      BY <2>1, <2>2, Advance
  <1>4. CASE processData(e)
    <2>1. (\E v \in [End -> Track] : Upheld(v)') /\ Calm' /\ Delivers(e)
      BY <1>4, DataStep
    <2>2. written' = written
      BY <1>4 DEF processData, userVars
    <2>3. Passes
      BY <2>1, <2>2 DEF Passes
    <2> QED
      BY <2>1, <2>3, Advance
  <1>5. ~ skipInvalidHeader(e)
    BY NoSkip
  <1> QED
    BY <1>1, <1>2, <1>3, <1>4, <1>5 DEF onReadyRead

LEMMA TimerAdvances ==
  ASSUME MatipTypeOK, NEW w, Upheld(w), NEW e \in End, onTimeout(e)
  PROVE  Advances
  <1>1. Passes
    BY DEF onTimeout, userVars, Passes
  <1>2. CASE TimedOut(e)
    BY <1>1, <1>2, TimedOutStep DEF Advances
  <1>3. CASE ~ TimedOut(e)
    <2>1. Calm'
      BY <1>3 DEF onTimeout, Calm
    <2> QED
      BY <1>1, <1>3, <2>1, QueryStep, Advance
  <1> QED
    BY <1>2, <1>3

LEMMA MatipAdvances ==
  ASSUME MessagesFit, MatipTypeOK, NEW w, Upheld(w), Next
  PROVE  Advances
  <1>1. ASSUME NEW e \in End, arrive(e)
        PROVE  Advances
    <2>1. Calm' /\ Passes
      BY <1>1 DEF arrive, userVars, Calm, Passes
    <2> QED
      BY <1>1, <2>1, ArriveStep, Advance
  <1>2. CASE disconnected
    <2>1. Calm' /\ Passes
      BY <1>2 DEF disconnected, userVars, Calm, Passes
    <2> QED
      BY <1>2, <2>1, DisconnectStep, Advance
  <1> QED
    BY <1>1, <1>2, ApplicationAdvances, ReadAdvances, TimerAdvances DEF Next

(* Steps that leave Matip as it is.                                        *)
LEMMA StillAdvances ==
  ASSUME MatipTypeOK, Said, NEW w, Upheld(w), Silent \/ UNCHANGED matipVars
  PROVE  Advances
  <1>1. /\ UNCHANGED <<connected, mState, mBytesToRead, mTempMessage, mQueryCounter,
                       inTransit, available, reading, opened, requested, written,
                       emitted, unanswered>>
        /\ signals' = {} \/ signals' = signals
    BY DEF Silent, matipVars, sessionVars, userVars
  <1>2. \A x \in End : EndOK(x, w[x])'
    BY <1>1, PeerKept
  <1>3. \E v \in [End -> Track] : Upheld(v)'
    BY <1>1, <1>2, StayStep
  <1>4. Said'
    BY <1>1 DEF Said, NoProtocolError, TimeoutMeansSilence, LivePeerKeepsSession
  <1>5. Passes
    BY <1>1 DEF Passes
  <1> QED
    BY <1>3, <1>4, <1>5 DEF Advances

LEMMA MatipInvStep ==
  ASSUME MessagesFit, MatipInv, [Next]_matipVars \/ Silent
  PROVE  MatipInv' /\ Passes
  <1>1. PICK w \in [End -> Track] : Upheld(w)
    BY DEF MatipInv
  <1>2. MatipTypeOK /\ Said
    BY DEF MatipInv
  <1>3. Advances
    BY <1>1, <1>2, MatipAdvances, StillAdvances
  <1>4. MatipTypeOK'
    BY <1>2, MatipTypeStep
  <1> QED
    BY <1>3, <1>4 DEF Advances, MatipInv

LEMMA MatipInvStart == Init => MatipInv
  <1> SUFFICES ASSUME Init
               PROVE  MatipInv
    OBVIOUS
  <1>1. signals = {}
    BY DEF Init
  <1>2. Calm
    BY <1>1 DEF Calm
  <1> QED
    BY <1>2, MatipInitType, HoldsStart, CalmIsSaid DEF MatipInv

----------------------------------------------------------------------------
(* Two message channels.                                                   *)

(* What a step does to the messages from e to its peer.                    *)
ChannelStep(e) ==
  \/ /\ Len(written'[e]) = Len(written[e]) + 1
     /\ SubSeq(written'[e], 1, Len(written[e])) = written[e]
     /\ emitted'[Peer(e)] = emitted[Peer(e)]
  \/ /\ Len(emitted[Peer(e)]) < Len(written[e])
     /\ emitted'[Peer(e)] =
          Append(emitted[Peer(e)], written[e][Len(emitted[Peer(e)]) + 1])
     /\ written'[e] = written[e]
  \/ written'[e] = written[e] /\ emitted'[Peer(e)] = emitted[Peer(e)]

LEMMA AppendedPrefix ==
  \A s \in Seq(Fits), text \in Fits :
    /\ Len(Append(s, text)) = Len(s) + 1
    /\ SubSeq(Append(s, text), 1, Len(s)) = s
  <1> SUFFICES ASSUME NEW s \in Seq(Fits), NEW text \in Fits
               PROVE  /\ Len(Append(s, text)) = Len(s) + 1
                      /\ SubSeq(Append(s, text), 1, Len(s)) = s
    OBVIOUS
  <1> DEFINE a == Append(s, text)
  <1>1. /\ a \in Seq(Fits) /\ Len(a) = Len(s) + 1 /\ Len(s) \in Nat
        /\ \A i \in 1 .. Len(s) : a[i] = s[i]
    BY AppendProperties, LenProperties
  <1> HIDE DEF a
  <1>2. /\ SubSeq(a, 1, Len(s)) \in Seq(Fits) /\ Len(SubSeq(a, 1, Len(s))) = Len(s)
        /\ \A i \in 1 .. Len(s) : SubSeq(a, 1, Len(s))[i] = a[i]
    BY <1>1
  <1>3. SubSeq(a, 1, Len(s)) = s
    BY <1>1, <1>2, SeqEqual
  <1> QED
    BY <1>1, <1>3 DEF a

LEMMA ChannelSteps ==
  ASSUME MatipTypeOK, Passes, NEW e \in End
  PROVE  ChannelStep(e)
  <1>1. /\ Peer(e) \in End /\ Peer(Peer(e)) = e
        /\ written \in [End -> Seq(Fits)] /\ emitted \in [End -> Seq(Seq(Byte))]
    BY PeerFacts DEF MatipTypeOK
  <1>2. CASE UNCHANGED <<written, emitted>>
    BY <1>2 DEF ChannelStep
  <1>3. CASE /\ emitted' = emitted
             /\ \E x \in End, text \in Fits :
                  written' = [written EXCEPT ![x] = Append(@, text)]
    <2>1. PICK x \in End, text \in Fits :
            written' = [written EXCEPT ![x] = Append(@, text)]
      BY <1>3
    <2>2. CASE x = e
      <3>1. written'[e] = Append(written[e], text) /\ written[e] \in Seq(Fits)
        BY <1>1, <2>1, <2>2
      <3>2. /\ Len(written'[e]) = Len(written[e]) + 1
            /\ SubSeq(written'[e], 1, Len(written[e])) = written[e]
        BY <3>1, AppendedPrefix
      <3> QED
        BY <1>3, <3>2 DEF ChannelStep
    <2>3. CASE x # e
      <3>1. written'[e] = written[e]
        BY <1>1, <2>1, <2>3
      <3> QED
        BY <1>3, <3>1 DEF ChannelStep
    <2> QED
      BY <2>2, <2>3
  <1>4. CASE written' = written /\ \E x \in End : Delivers(x)
    <2>1. PICK x \in End : Delivers(x)
      BY <1>4
    <2>2. CASE emitted' = emitted
      BY <1>4, <2>2 DEF ChannelStep
    <2>3. CASE emitted' # emitted /\ x = Peer(e)
      <3>1. /\ Len(emitted[Peer(e)]) < Len(written[e])
            /\ emitted' = [emitted EXCEPT
                 ![Peer(e)] = Append(@, written[e][Len(emitted[Peer(e)]) + 1])]
        BY <1>1, <2>1, <2>3 DEF Delivers
      <3>2. emitted'[Peer(e)] =
              Append(emitted[Peer(e)], written[e][Len(emitted[Peer(e)]) + 1])
        BY <1>1, <3>1
      <3> QED
        BY <1>4, <3>1, <3>2 DEF ChannelStep
    <2>4. CASE emitted' # emitted /\ x # Peer(e)
      <3>1. emitted'[Peer(e)] = emitted[Peer(e)]
        BY <1>1, <2>1, <2>4 DEF Delivers
      <3> QED
        BY <1>4, <3>1 DEF ChannelStep
    <2> QED
      BY <2>2, <2>3, <2>4
  <1> QED
    BY <1>2, <1>3, <1>4 DEF Passes

LEMMA ChannelsStep ==
  ASSUME MatipTypeOK, Passes
  PROVE  /\ [ToServer!Write \/ ToServer!Emit]_ToServer!channelVars
         /\ [ToClient!Write \/ ToClient!Emit]_ToClient!channelVars
  <1>1. ChannelStep("client") /\ ChannelStep("server")
    BY ChannelSteps, PeerFacts
  <1>2. Peer("client") = "server" /\ Peer("server") = "client"
    BY PeerFacts
  <1>3. [ToServer!Write \/ ToServer!Emit]_ToServer!channelVars
    BY <1>1, <1>2 DEF ChannelStep, ToServer!Write, ToServer!Emit, ToServer!channelVars
  <1>4. [ToClient!Write \/ ToClient!Emit]_ToClient!channelVars
    BY <1>1, <1>2 DEF ChannelStep, ToClient!Write, ToClient!Emit, ToClient!channelVars
  <1> QED
    BY <1>3, <1>4

LEMMA ChannelsStart == Init => ToServer!ChannelInit /\ ToClient!ChannelInit
  BY PeerFacts DEF Init, ToServer!ChannelInit, ToClient!ChannelInit

----------------------------------------------------------------------------
(* The ends agree.                                                         *)

(* While the connection is up, every packet that comes has its bytes there *)
(* or on the wire.                                                         *)
LEMMA ComingIsThere ==
  ASSUME MatipTypeOK, NEW e \in End, NEW t, EndOK(e, t), Live(e), connected,
         NEW command \in Coming(t)
  PROVE  OnTheWay(e, command)
  <1>1. PICK k \in t.first .. t.last : t.packets[k].command = command
    BY DEF Coming
  <1>2. IsTrack(t) /\ Framed(Bytes(e), Base(e), t, connected)
    BY DEF EndOK, Frame
  <1>3. /\ t.first \in Nat /\ t.last \in Nat /\ k \in Nat
        /\ \A j \in Nat : t.packets[j] \in Packet /\ t.at[j] \in Nat
        /\ t.at[k + 1] = t.at[k] + Size(t.packets[k])
        /\ \A i, j \in t.first .. t.last + 1 : i <= j => t.at[i] <= t.at[j]
    BY <1>2, TrackFields
  <1>4. /\ Size(t.packets[k]) \in Nat /\ Size(t.packets[k]) >= 1
        /\ IsValid(Wire(t.packets[k])[1]) /\ Wire(t.packets[k])[1].command = command
    BY <1>1, <1>3, WireBytes
  <1>5. t.at[t.first] <= t.at[k] /\ t.at[k + 1] <= t.at[t.last + 1]
    <2>1. /\ t.first \in t.first .. t.last + 1 /\ k \in t.first .. t.last + 1
          /\ k + 1 \in t.first .. t.last + 1 /\ t.last + 1 \in t.first .. t.last + 1
          /\ t.first <= k /\ k + 1 <= t.last + 1
      BY <1>3
    <2> QED
      BY <1>3, <2>1
  <1>6. Base(e) \in Nat
    BY DEF Base, MatipTypeOK
  <1>7. Len(Bytes(e)) = Base(e) + (t.at[t.last + 1] - t.at[t.first])
    BY <1>2 DEF Framed
  <1> DEFINE j == Base(e) + (t.at[k] - t.at[t.first]) + 1
  <1>8. j \in 1 .. Len(Bytes(e))
    <2>1. /\ t.at[t.first] \in Nat /\ t.at[k] \in Nat /\ t.at[k + 1] \in Nat
          /\ t.at[t.last + 1] \in Nat
      BY <1>3
    <2>2. \A a, b, c, z, n, base \in Nat :
            a <= b /\ c = b + n /\ c <= z /\ n >= 1 =>
              base + (b - a) + 1 \in 1 .. (base + (z - a))
      OBVIOUS
    <2> QED
      BY <1>3, <1>4, <1>5, <1>6, <1>7, <2>1, <2>2
  <1>9. Bytes(e)[j] = Wire(t.packets[k])[1]
    <2>1. 1 \in 1 .. Size(t.packets[k]) /\ j <= Len(Bytes(e))
      BY <1>4, <1>8, AllBytes
    <2> QED
      BY <1>2, <2>1 DEF Framed
  <1> HIDE DEF j
  <1>10. j \in DOMAIN Bytes(e)
    BY <1>8, AllBytes, LenProperties
  <1> QED
    BY <1>4, <1>9, <1>10 DEF OnTheWay, Bytes

LEMMA MatipInvAgrees == MatipInv => EndsAgree
  <1> SUFFICES ASSUME MatipInv, connected
               PROVE  EndsAgree
    BY DEF EndsAgree
  <1>1. PICK w \in [End -> Track] : Upheld(w)
    BY DEF MatipInv
  <1>2. MatipTypeOK /\ Control(w)
    BY <1>1 DEF MatipInv, Upheld
  <1>3. ASSUME NEW e \in End, InSession(e) \/ mState[e] = "Connecting",
               NEW command \in Coming(w[e])
        PROVE  OnTheWay(e, command)
    <2>1. EndOK(e, w[e]) /\ Live(e)
      BY <1>1, <1>3 DEF Upheld, Live, InSession
    <2> QED
      BY <1>2, <2>1, ComingIsThere
  <1>4. mState["client"] \in State /\ mState["server"] \in State
    BY <1>2, PeerFacts DEF MatipTypeOK
  <1>5. ASSUME InSession("client")
        PROVE  InSession("server") \/ OnTheWay("client", "SessionClose")
    <2>1. mState["server"] \notin {"Listening", "Connecting"}
      BY <1>2, <1>5 DEF Control, Roles, Opening, InSession
    <2>2. mState["server"] = "Unconnected" =>
            "SessionClose" \in Coming(w["client"])
      BY <1>2, <1>5 DEF Control, Closing, InSession
    <2> QED
      BY <1>3, <1>4, <1>5, <2>1, <2>2, PeerFacts DEF State, InSession
  <1>6. ASSUME InSession("server")
        PROVE  \/ InSession("client")
               \/ OnTheWay("client", "OpenConfirm")
               \/ OnTheWay("server", "SessionClose")
    <2>1. mState["client"] # "Listening" /\ mState["server"] # "Listening"
      BY <1>2, <1>6 DEF Control, Roles, InSession
    <2>2. mState["client"] = "Connecting" =>
            "OpenConfirm" \in Coming(w["client"])
      <3> SUFFICES ASSUME mState["client"] = "Connecting"
                   PROVE  "OpenConfirm" \in Coming(w["client"])
        OBVIOUS
      <3>1. Number(w["client"]) > 0 /\ First(w["client"]) = "OpenConfirm"
        BY <1>2, <2>1 DEF Control, Opened
      <3>2. IsTrack(w["client"])
        BY <1>1, PeerFacts DEF Upheld, EndOK
      <3> QED
        BY <3>1, <3>2, WayFacts
    <2>3. mState["client"] = "Unconnected" =>
            "SessionClose" \in Coming(w["server"])
      BY <1>2, <1>6 DEF Control, Closing
    <2> QED
      BY <1>3, <1>4, <1>6, <2>1, <2>2, <2>3, PeerFacts DEF State, InSession
  <1> QED
    BY <1>5, <1>6 DEF EndsAgree

----------------------------------------------------------------------------
(* The server's SitaConnection.                                            *)

(* The Batap object is made when the session is accepted.  As long as the  *)
(* connection exists the end of the session has been reported when its     *)
(* Matip has left it; after that, if there was a session.                  *)
Reported ==
  /\ mState["server"] = "Listening" <=> batap = "none"
  /\ connected <=> ~ closed
  /\ connected => reports = IF mState["server"] = "Unconnected" THEN 1 ELSE 0
  /\ ~ connected => (reports > 0 <=> batap # "none")

SitaInv ==
  /\ mState \in [End -> State]
  /\ connected \in BOOLEAN /\ closed \in BOOLEAN
  /\ batap \in {"none", "stopped", "started"}
  /\ reports \in 0 .. 2
  /\ mState["server"] # "Connecting" /\ mState["client"] # "Listening"
  /\ requested => mState["server"] = "Listening"
  /\ Reported

(* What the server's connection sees of its Matip.                         *)
Over == {"sessionClosed", "sessionTimeout"}
EndTold == \E s \in signals : s[2] \in Over

Stays(e) ==
  /\ mState' = [mState EXCEPT ![e] = mState'[e]]
  /\ mState'[e] = mState[e] \/ (InSession(e) /\ mState'[e] \in {"Idle", "DataTransfer"})
  /\ ~ EndTold'

Leaves(e) ==
  /\ InSession(e)
  /\ mState' = [mState EXCEPT ![e] = "Unconnected"]
  /\ EndTold'

LEMMA ToldNow ==
  ASSUME NEW e, NEW signal \in Over, signals' = {<<e, signal>>}
  PROVE  EndTold'
  <1>1. <<e, signal>> \in signals' /\ <<e, signal>>[2] = signal
    OBVIOUS
  <1> QED
    BY <1>1, Zenon DEF EndTold

LEMMA ServerStates ==
  ASSUME mState \in [End -> State], NEW e \in End, mState[e] # "Connecting",
         arrive(e) \/ onReadyRead(e) \/ onTimeout(e)
  PROVE  /\ connected' = connected
         /\ Stays(e) \/ Leaves(e)
         /\ requested' => requested \/ mState[e] = "Listening"
  <1>1. CASE arrive(e) \/ discard(e) \/ await(e) \/ skipInvalidHeader(e)
    <2>1. /\ UNCHANGED <<mState, connected, requested>>
          /\ signals' \subseteq {<<e, "InvalidHeaderError">>}
      BY <1>1 DEF arrive, discard, await, skipInvalidHeader, sessionVars, userVars
    <2>2. ~ EndTold'
      BY <2>1 DEF EndTold, Over
    <2> QED
      BY <2>1, <2>2 DEF Stays
  <1>2. CASE processCommand(e)
    <2>1. connected' = connected /\ ~ processConnectingState(e, HeaderIn(e).command)
      BY <1>2 DEF processCommand, processConnectingState
    <2>2. CASE processListeningState(e, HeaderIn(e).command)
      <3>1. /\ mState' = mState /\ mState[e] = "Listening"
            /\ signals' \subseteq {<<e, "sessionRequested">>}
        BY <2>2 DEF processListeningState, Moves, Become
      <3>2. ~ EndTold'
        BY <3>1 DEF EndTold, Over
      <3> QED
        BY <2>1, <3>1, <3>2 DEF Stays
    <2>3. CASE processIdleState(e, HeaderIn(e).command)
      <3>1. mState[e] = "Idle" /\ InSession(e)
        BY <2>3 DEF processIdleState, InSession
      <3>2. CASE HeaderIn(e).command = "SessionClose"
        <4>1. /\ mState' = [mState EXCEPT ![e] = "Unconnected"]
              /\ signals' = {<<e, "sessionClosed">>}
          BY <2>3, <3>2 DEF processIdleState, Moves, Become
        <4>2. EndTold'
          BY <4>1, ToldNow DEF Over
        <4>3. Leaves(e)
          BY <3>1, <4>1, <4>2 DEF Leaves
        <4>4. requested' => requested
          BY <2>3, <3>2 DEF processIdleState, Moves
        <4> QED
          BY <2>1, <4>3, <4>4, Zenon
      <3>3. CASE HeaderIn(e).command # "SessionClose"
        <4>1. /\ mState' = mState
              /\ signals' \subseteq {<<e, "stopTransmission">>, <<e, "resumeTransmission">>,
                                     <<e, "UnexpectedCommandError">>}
          BY <2>3, <3>1, <3>3
             DEF processIdleState, Moves, Become, answerQuery, takeResponse
        <4>2. ~ EndTold'
          BY <4>1 DEF EndTold, Over
        <4>3. Stays(e)
          BY <4>1, <4>2 DEF Stays
        <4>4. requested' => requested
          BY <2>3, <3>3 DEF processIdleState, Moves, answerQuery, takeResponse
        <4> QED
          BY <2>1, <4>3, <4>4, Zenon
      <3> QED
        BY <3>2, <3>3
    <2> QED
      BY <1>2, <2>1, <2>2, <2>3 DEF processCommand
  <1>3. CASE processData(e)
    <2>1. connected' = connected /\ requested' = requested
      BY <1>3 DEF processData, userVars
    <2>2. CASE ignoreData(e)
      <3>1. mState' = mState /\ signals' \subseteq {<<e, "UnexpectedCommandError">>}
        BY <2>2 DEF ignoreData
      <3>2. ~ EndTold'
        BY <3>1 DEF EndTold, Over
      <3> QED
        BY <2>1, <3>1, <3>2 DEF Stays
    <2>3. ASSUME NEW skip, NEW size, NEW text, appendData(e, skip, size, text),
                 InSession(e)
          PROVE  Stays(e)
      <3>1. /\ Become(e, "Idle") \/ Become(e, "DataTransfer")
            /\ signals' \subseteq {<<e, "newMessage">>}
        BY <2>3 DEF appendData
      <3>2. ~ EndTold'
        BY <3>1 DEF EndTold, Over
      <3> QED
        BY <2>3, <3>1, <3>2 DEF Stays, Become
    <2> QED
      BY <1>3, <2>1, <2>2, <2>3 DEF processData, InSession
  <1>4. CASE onTimeout(e)
    <2>1. connected' = connected /\ requested' = requested /\ InSession(e)
      BY <1>4 DEF onTimeout, userVars
    <2>2. CASE TimedOut(e)
      <3>1. /\ mState' = [mState EXCEPT ![e] = "Unconnected"]
            /\ signals' = {<<e, "sessionTimeout">>}
        BY <1>4, <2>2 DEF onTimeout, Become
      <3>2. EndTold'
        BY <3>1, ToldNow DEF Over
      <3> QED
        BY <2>1, <3>1, <3>2 DEF Leaves
    <2>3. CASE ~ TimedOut(e)
      <3>1. mState' = mState /\ signals' = {}
        BY <1>4, <2>3 DEF onTimeout
      <3>2. ~ EndTold'
        BY <3>1 DEF EndTold
      <3> QED
        BY <2>1, <3>1, <3>2 DEF Stays
    <2> QED
      BY <2>2, <2>3
  <1> QED
    BY <1>1, <1>2, <1>3, <1>4 DEF onReadyRead

LEMMA ClientStates ==
  ASSUME mState \in [End -> State], mState["client"] # "Listening", Client
  PROVE  /\ connected' = connected
         /\ requested' => requested
         /\ \E state \in State \ {"Listening"} :
              mState' = [mState EXCEPT !["client"] = state]
  <1> DEFINE Goal == /\ connected' = connected
                     /\ requested' => requested
                     /\ \E state \in State \ {"Listening"} :
                          mState' = [mState EXCEPT !["client"] = state]
  <1> SUFFICES Goal
    OBVIOUS
  <1>1. mState["client"] \in State \ {"Listening"}
    BY PeerFacts
  <1>2. ASSUME UNCHANGED <<connected, mState, requested>>
        PROVE  Goal
    BY <1>1, <1>2
  <1>3. ASSUME UNCHANGED <<connected, requested>>,
               NEW state \in State \ {"Listening"}, Become("client", state)
        PROVE  Goal
    BY <1>3 DEF Become
  <1> HIDE DEF Goal
  <1>4. CASE ApplicationStep("client")
    <2>1. CASE openSession
      BY <2>1, <1>3 DEF openSession, State
    <2>2. CASE closeSession("client")
      BY <2>2, <1>3 DEF closeSession, userVars, State
    <2>3. CASE \E command \in Holds : sendTransmission("client", command)
      BY <2>3, <1>2 DEF sendTransmission, userVars, sessionVars
    <2>4. CASE \E length \in Lengths : writeMessage("client", length)
      BY <2>4, <1>2 DEF writeMessage, sessionVars
    <2> QED
      BY <1>4, <2>1, <2>2, <2>3, <2>4 DEF ApplicationStep
  <1>5. CASE \/ arrive("client") \/ discard("client") \/ await("client")
             \/ skipInvalidHeader("client")
    BY <1>2, <1>5 DEF arrive, discard, await, skipInvalidHeader, sessionVars, userVars
  <1>6. CASE processCommand("client")
    <2>1. /\ connected' = connected
          /\ ~ processListeningState("client", HeaderIn("client").command)
      BY <1>6 DEF processCommand, processListeningState
    <2>2. ASSUME NEW state \in State \ {"Listening"}, NEW signal,
                 Moves("client", state, signal), signal # "sessionRequested"
          PROVE  Goal
      BY <2>1, <2>2 DEF Moves, Become, Goal
    <2>3. CASE processConnectingState("client", HeaderIn("client").command)
      BY <2>2, <2>3 DEF processConnectingState, State
    <2>4. CASE processIdleState("client", HeaderIn("client").command)
      <3>1. answerQuery("client") \/ takeResponse("client") => Goal
        BY <1>2, <2>1 DEF answerQuery, takeResponse
      <3> QED
        BY <2>2, <2>4, <3>1 DEF processIdleState, State
    <2> QED
      BY <1>6, <2>1, <2>3, <2>4 DEF processCommand
  <1>7. CASE processData("client")
    <2>1. UNCHANGED <<connected, requested>>
      BY <1>7 DEF processData, userVars
    <2>2. CASE ignoreData("client")
      BY <1>2, <2>1, <2>2 DEF ignoreData
    <2>3. ASSUME NEW skip, NEW size, NEW text, appendData("client", skip, size, text)
          PROVE  Goal
      <3>1. Become("client", "Idle") \/ Become("client", "DataTransfer")
        BY <2>3 DEF appendData
      <3> QED
        BY <1>3, <2>1, <3>1 DEF State
    <2> QED
      BY <1>7, <2>2, <2>3 DEF processData
  <1>8. CASE onTimeout("client")
    <2>1. UNCHANGED <<connected, requested>>
      BY <1>8 DEF onTimeout, userVars
    <2>2. Become("client", "Unconnected") \/ mState' = mState
      BY <1>8 DEF onTimeout
    <2> QED
      BY <1>2, <1>3, <2>1, <2>2 DEF State
  <1> QED
    BY <1>4, <1>5, <1>6, <1>7, <1>8 DEF Client, onReadyRead

LEMMA SitaInitInv == SitaInit => SitaInv
  <1> SUFFICES ASSUME SitaInit
               PROVE  SitaInv
    OBVIOUS
  <1>1. /\ connected = TRUE /\ requested = FALSE /\ batap = "none"
        /\ reports = 0 /\ closed = FALSE
        /\ mState = [e \in End |-> IF e = "client" THEN "Unconnected"
                                                   ELSE "Listening"]
    BY DEF SitaInit, Init
  <1>2. /\ mState \in [End -> State]
        /\ mState["client"] = "Unconnected" /\ mState["server"] = "Listening"
    BY <1>1, PeerFacts DEF State
  <1>3. Reported
    BY <1>1, <1>2 DEF Reported
  <1>4. connected \in BOOLEAN /\ closed \in BOOLEAN /\ ~ requested
    BY DEF SitaInit, Init
  <1>5. reports \in 0 .. 2 /\ batap \in {"none", "stopped", "started"}
    BY DEF SitaInit
  <1> QED
    BY <1>2, <1>3, <1>4, <1>5 DEF SitaInv

(* The server's Matip keeps its state, or nearly, or leaves its session    *)
(* and tells the connection so.                                            *)
LEMMA ServerInvStep ==
  ASSUME SitaInv, ServerMatip
  PROVE  SitaInv'
  <1>1. /\ mState \in [End -> State] /\ mState["server"] # "Connecting"
        /\ mState["client"] # "Listening" /\ "server" \in End /\ "client" \in End
        /\ Peer("server") = "client"
    BY PeerFacts DEF SitaInv
  <1>2. /\ connected' = connected
        /\ Stays("server") \/ Leaves("server")
        /\ requested' => requested \/ mState["server"] = "Listening"
    BY <1>1, ServerStates DEF ServerMatip
  <1>3. closed' = closed /\ ServerSlots
    BY DEF ServerMatip
  <1>4. CASE Stays("server")
    <2>1. /\ mState' = [mState EXCEPT !["server"] = mState'["server"]]
          /\ \/ mState'["server"] = mState["server"]
             \/ /\ mState["server"] \in {"Idle", "DataTransfer"}
                /\ mState'["server"] \in {"Idle", "DataTransfer"}
      BY <1>4 DEF Stays, InSession
    <2>2. /\ mState' \in [End -> State] /\ mState'["client"] = mState["client"]
          /\ mState'["server"] # "Connecting"
          /\ mState'["server"] = "Listening" <=> mState["server"] = "Listening"
          /\ mState'["server"] = "Unconnected" <=> mState["server"] = "Unconnected"
      BY <1>1, <2>1 DEF State
    <2>3. UNCHANGED <<batap, reports>>
      BY <1>3, <1>4 DEF ServerSlots, Stays, EndTold, Over
    <2>4. Reported'
      BY <1>2, <1>3, <2>2, <2>3 DEF SitaInv, Reported
    <2>5. requested' => mState'["server"] = "Listening"
      BY <1>2, <2>2 DEF SitaInv
    <2> QED
      BY <1>1, <1>2, <1>3, <2>2, <2>3, <2>4, <2>5 DEF SitaInv
  <1>5. CASE Leaves("server")
    <2>1. /\ mState["server"] \in {"Idle", "DataTransfer"}
          /\ mState' = [mState EXCEPT !["server"] = "Unconnected"]
      BY <1>5 DEF Leaves, InSession
    <2>2. /\ mState' \in [End -> State] /\ mState'["client"] = mState["client"]
          /\ mState'["server"] = "Unconnected"
      BY <1>1, <2>1 DEF State
    <2>3. onSessionClosed
      BY <1>3, <1>5 DEF ServerSlots, Leaves, EndTold, Over
    <2>4. batap # "none" /\ batap \in {"none", "stopped", "started"}
      BY <2>1 DEF SitaInv, Reported
    <2>8. reports \in 0 .. 2
      BY DEF SitaInv
    <2>9. connected => reports = 0
      BY <2>1 DEF SitaInv, Reported
    <2>5. /\ batap' = "stopped" /\ reports' \in 1 .. 2
          /\ connected => reports' = 1
      <3>1. batap' = "stopped"
        BY <2>3, <2>4 DEF onSessionClosed, stop
      <3>2. reports' = IF reports < 2 THEN reports + 1 ELSE reports
        BY <2>3 DEF onSessionClosed, sessionClosed
      <3>3. reports' \in 1 .. 2
        BY <2>8, <3>2
      <3>4. ASSUME connected
            PROVE  reports' = 1
        BY <2>9, <3>2, <3>4
      <3> QED
        BY <3>1, <3>3, <3>4
    <2>6. Reported'
      BY <1>2, <1>3, <2>2, <2>5 DEF SitaInv, Reported
    <2>7. ~ requested'
      BY <1>2, <2>1 DEF SitaInv
    <2> QED
      BY <1>1, <1>2, <1>3, <2>2, <2>5, <2>6, <2>7 DEF SitaInv
  <1> QED
    BY <1>2, <1>4, <1>5

LEMMA SitaInvStep ==
  ASSUME SitaInv, [SitaNext]_vars
  PROVE  SitaInv'
  <1>1. /\ mState \in [End -> State] /\ mState["server"] # "Connecting"
        /\ mState["client"] # "Listening"
        /\ requested => mState["server"] = "Listening"
        /\ reports \in 0 .. 2 /\ batap \in {"none", "stopped", "started"}
        /\ connected \in BOOLEAN /\ closed \in BOOLEAN /\ Reported
        /\ "server" \in End /\ "client" \in End
    BY PeerFacts DEF SitaInv
  <1>2. CASE acceptSession
    <2>1. /\ requested /\ ~ requested' /\ ~ closed /\ batap' = "stopped"
          /\ mState' = [mState EXCEPT !["server"] = "Idle"]
          /\ UNCHANGED <<connected, reports, closed>>
      BY <1>2 DEF acceptSession, acceptConnection, Become
    <2>2. /\ mState' \in [End -> State] /\ mState'["server"] = "Idle"
          /\ mState'["client"] = mState["client"] /\ mState["server"] = "Listening"
      BY <1>1, <2>1 DEF State
    <2> QED
      BY <1>1, <2>1, <2>2 DEF SitaInv, Reported
  <1>3. CASE refuseSession
    <2>1. /\ ~ requested'
          /\ UNCHANGED <<connected, mState, batap, reports, closed>>
      BY <1>3 DEF refuseSession, refuseConnection, sessionVars
    <2> QED
      BY <1>1, <2>1 DEF SitaInv, Reported
  <1>4. CASE startBatap
    <2>1. /\ batap = "stopped" /\ batap' = "started"
          /\ UNCHANGED <<connected, mState, requested, reports, closed>>
      BY <1>4 DEF startBatap, sessionVars, userVars
    <2> QED
      BY <1>1, <2>1 DEF SitaInv, Reported
  <1>5. CASE batapWrites
    <2>1. UNCHANGED <<connected, mState, requested, batap, reports, closed>>
      BY <1>5 DEF batapWrites, writeMessage, sessionVars, sitaVars
    <2> QED
      BY <1>1, <2>1 DEF SitaInv, Reported
  <1>6. CASE close
    <2>1. ~ closed /\ closed' = closed /\ batap' = IF batap = "none" THEN "none" ELSE "stopped"
      BY <1>6 DEF close, stop
    <2>2. CASE InSession("server")
      <3>1. /\ mState["server"] \in {"Idle", "DataTransfer"}
            /\ mState' = [mState EXCEPT !["server"] = "Unconnected"]
            /\ UNCHANGED <<connected, requested>> /\ sessionClosed
        BY <1>6, <2>2 DEF close, closeSession, Become, InSession, userVars
      <3>2. /\ mState' \in [End -> State] /\ mState'["server"] = "Unconnected"
            /\ mState'["client"] = mState["client"]
        BY <1>1, <3>1 DEF State
      <3>3. reports = 0 /\ connected /\ batap # "none"
        BY <1>1, <2>1, <3>1 DEF Reported
      <3>4. reports' = 1 /\ batap' = "stopped"
        BY <2>1, <3>1, <3>3 DEF sessionClosed
      <3>5. ~ requested
        BY <1>1, <3>1
      <3> QED
        BY <1>1, <2>1, <3>1, <3>2, <3>3, <3>4, <3>5 DEF SitaInv, Reported
    <2>3. CASE ~ InSession("server")
      <3>1. UNCHANGED <<connected, mState, requested, reports>>
        BY <1>6, <2>3 DEF close, sessionVars, userVars
      <3> QED
        BY <1>1, <2>1, <3>1 DEF SitaInv, Reported
    <2> QED
      BY <2>2, <2>3
  <1>7. CASE onSocketDisconnected
    <2>1. /\ connected /\ connected' = FALSE /\ closed' = TRUE
          /\ UNCHANGED <<mState, requested>>
          /\ batap' = IF batap = "none" THEN "none" ELSE "stopped"
          /\ IF InSession("server") THEN sessionClosed ELSE UNCHANGED reports
      BY <1>7 DEF onSocketDisconnected, disconnected, stop, sessionVars, userVars
    <2>2. reports' \in 0 .. 2 /\ (reports' > 0 <=> batap' # "none")
      <3>1. CASE mState["server"] \in {"Idle", "DataTransfer"}
        <4>1. reports = 0 /\ batap # "none"
          BY <1>1, <2>1, <3>1 DEF Reported
        <4> QED
          BY <2>1, <3>1, <4>1 DEF InSession, sessionClosed
      <3>2. CASE mState["server"] \in {"Listening", "Unconnected"}
        BY <1>1, <2>1, <3>2 DEF InSession, Reported
      <3> QED
        BY <1>1, <3>1, <3>2 DEF State
    <2>3. mState["server"] = "Listening" <=> batap' = "none"
      BY <1>1, <2>1 DEF Reported
    <2>4. batap' \in {"none", "stopped", "started"}
      BY <2>1
    <2> QED
      BY <1>1, <2>1, <2>2, <2>3, <2>4 DEF SitaInv, Reported
  <1>8. CASE ServerMatip
    BY <1>8, ServerInvStep
  <1>9. CASE Client
    <2>1. UNCHANGED <<batap, reports, closed>>
      BY <1>9 DEF Client, sitaVars
    <2>2. /\ connected' = connected
          /\ requested' => requested
      BY <1>1, <1>9, ClientStates
    <2>3. PICK state \in State \ {"Listening"} :
            mState' = [mState EXCEPT !["client"] = state]
      BY <1>1, <1>9, ClientStates
    <2>4. /\ mState' \in [End -> State] /\ mState'["client"] # "Listening"
          /\ mState'["server"] = mState["server"]
      BY <1>1, <2>3
    <2> QED
      BY <1>1, <2>1, <2>2, <2>4 DEF SitaInv, Reported
  <1>10. CASE UNCHANGED vars
    <2>1. UNCHANGED <<connected, mState, requested, batap, reports, closed>>
      BY <1>10 DEF vars, matipVars, sitaVars, sessionVars, userVars
    <2> QED
      BY <1>1, <2>1 DEF SitaInv, Reported
  <1> QED
    BY <1>2, <1>3, <1>4, <1>5, <1>6, <1>7, <1>8, <1>9, <1>10 DEF SitaNext

LEMMA SitaInvReports == SitaInv => EndIsReportedOnce
  <1> SUFFICES ASSUME SitaInv
               PROVE  EndIsReportedOnce
    OBVIOUS
  <1>1. /\ mState["server"] \in State \ {"Connecting"} /\ reports \in 0 .. 2
        /\ connected \in BOOLEAN /\ closed \in BOOLEAN /\ Reported
    BY PeerFacts DEF SitaInv
  <1>2. CASE connected
    <2>1. reports > 0 <=> mState["server"] = "Unconnected"
      BY <1>1, <1>2 DEF Reported
    <2>2. SessionOver <=> mState["server"] = "Unconnected"
      BY <1>1, <1>2 DEF Reported, SessionOver, InSession, State
    <2>3. reports <= 1
      BY <1>1, <1>2 DEF Reported
    <2> QED
      BY <2>1, <2>2, <2>3 DEF EndIsReportedOnce
  <1>3. CASE ~ connected
    BY <1>1, <1>3 DEF Reported, SessionOver, EndIsReportedOnce
  <1> QED
    BY <1>2, <1>3

(* The connection adds no step to Matip's, but for steps that leave it as  *)
(* it is and emit nothing.                                                 *)
LEMMA SitaIsMatip ==
  ASSUME [SitaNext]_vars
  PROVE  [Next]_matipVars \/ Silent
  <1>1. CASE acceptSession
    BY <1>1, PeerFacts DEF acceptSession, Next, ApplicationStep
  <1>2. CASE refuseSession
    BY <1>2, PeerFacts DEF refuseSession, Next, ApplicationStep
  <1>3. CASE startBatap
    BY <1>3 DEF startBatap, Silent
  <1>4. CASE batapWrites
    BY <1>4, PeerFacts DEF batapWrites, Next, ApplicationStep
  <1>5. CASE close
    BY <1>5, PeerFacts DEF close, Next, ApplicationStep, Silent
  <1>6. CASE onSocketDisconnected
    BY <1>6 DEF onSocketDisconnected, Next
  <1>7. CASE ServerMatip
    BY <1>7, PeerFacts DEF ServerMatip, Next
  <1>8. CASE Client
    BY <1>8, PeerFacts DEF Client, Next
  <1>9. CASE UNCHANGED vars
    BY <1>9 DEF vars
  <1> QED
    BY <1>1, <1>2, <1>3, <1>4, <1>5, <1>6, <1>7, <1>8, <1>9 DEF SitaNext

----------------------------------------------------------------------------
(* Theorems.                                                               *)

(* The inductive invariant of a MATIP session: types, the signals of the   *)
(* last step, and two tracks that frame what is on its way and carry the   *)
(* protocol.                                                               *)
LEMMA MatipInvariant ==
  ASSUME MessagesFit
  PROVE  Spec => []MatipInv /\ [][Passes]_matipVars
  <1>1. Init => MatipInv
    BY MatipInvStart
  <1>2. MatipInv /\ [Next]_matipVars => MatipInv' /\ Passes
    BY MatipInvStep
  <1>3. Spec => []MatipInv
    BY <1>1, <1>2, PTL DEF Spec
  <1>4. MatipInv /\ [Next]_matipVars => [Passes]_matipVars
    BY <1>2
  <1> QED
    BY <1>3, <1>4, PTL DEF Spec

(* The server's connection keeps it.                                       *)
LEMMA SitaMatipInvariant ==
  ASSUME MessagesFit
  PROVE  SitaSpec => []MatipInv /\ [][Passes]_vars
  <1>1. SitaInit => MatipInv
    BY MatipInvStart DEF SitaInit
  <1>2. MatipInv /\ [SitaNext]_vars => MatipInv' /\ Passes
    BY MatipInvStep, SitaIsMatip
  <1>3. SitaSpec => []MatipInv
    BY <1>1, <1>2, PTL DEF SitaSpec
  <1>4. MatipInv /\ [SitaNext]_vars => [Passes]_vars
    BY <1>2
  <1> QED
    BY <1>3, <1>4, PTL DEF SitaSpec

(* Each direction of a session is a message channel: for headers, messages *)
(* and segments of any size, with any commands in between, closes, time-   *)
(* outs and a connection that ends at any moment, newMessage() emits each  *)
(* message whole, once and in the order of writeMessage() (appendData(),   *)
(* processData(), Matip.cpp).  The messages must fit the length field.     *)
THEOREM MessagesPass ==
  ASSUME MessagesFit
  PROVE  Spec => IsMessageChannel
  <1>1. Init => ToServer!ChannelInit /\ ToClient!ChannelInit
    BY ChannelsStart
  <1>2. MatipInv /\ [Next]_matipVars =>
          /\ [ToServer!Write \/ ToServer!Emit]_ToServer!channelVars
          /\ [ToClient!Write \/ ToClient!Emit]_ToClient!channelVars
    BY MatipInvStep, ChannelsStep DEF MatipInv
  <1>3. Spec => []MatipInv
    BY MatipInvariant, PTL
  <1> QED
    BY <1>1, <1>2, <1>3, PTL
       DEF Spec, IsMessageChannel, ToServer!ChannelSpec, ToClient!ChannelSpec

(* The same of the server's SitaConnection, which writes what Batap gives  *)
(* it and closes the session on its own account.                           *)
THEOREM SitaMessagesPass ==
  ASSUME MessagesFit
  PROVE  SitaSpec => IsMessageChannel
  <1>1. SitaInit => ToServer!ChannelInit /\ ToClient!ChannelInit
    BY ChannelsStart DEF SitaInit
  <1>2. MatipInv /\ [SitaNext]_vars =>
          /\ [ToServer!Write \/ ToServer!Emit]_ToServer!channelVars
          /\ [ToClient!Write \/ ToClient!Emit]_ToClient!channelVars
    BY MatipInvStep, SitaIsMatip, ChannelsStep DEF MatipInv
  <1>3. SitaSpec => []MatipInv
    BY SitaMatipInvariant, PTL
  <1> QED
    BY <1>1, <1>2, <1>3, PTL
       DEF SitaSpec, IsMessageChannel, ToServer!ChannelSpec, ToClient!ChannelSpec

(* A peer that answers before the query timer fires again is never timed   *)
(* out while the connection is up (onTimeout(), Matip.cpp): an end in      *)
(* session whose counter is not zero has a query, its answer or a close on *)
(* its way.                                                                *)
THEOREM LivePeerKept ==
  ASSUME MessagesFit
  PROVE  Spec => []LivePeerKeepsSession
  <1>1. MatipInv => LivePeerKeepsSession
    BY DEF MatipInv, Said
  <1> QED
    BY <1>1, MatipInvariant, PTL

(* No command reaches a state that does not expect it, and no byte of a    *)
(* text is taken for a header, also when both ends close at once           *)
(* (processHeader() and the process...State() handlers, Matip.cpp).        *)
THEOREM NoErrorReported ==
  ASSUME MessagesFit
  PROVE  SitaSpec => []NoProtocolError
  <1>1. MatipInv => NoProtocolError
    BY DEF MatipInv, Said
  <1> QED
    BY <1>1, SitaMatipInvariant, PTL

(* While the connection is up, when one end is in session the other is, or *)
(* the packet that brings it there or ends the session is on its way.      *)
THEOREM EndsStayAgreed ==
  ASSUME MessagesFit
  PROVE  SitaSpec => []EndsAgree
  BY MatipInvAgrees, SitaMatipInvariant, PTL

(* sessionTimeout() is emitted only after maxSessionStatusQueryNumber      *)
(* queries without an answer (onTimeout(), Matip.cpp).                     *)
THEOREM TimeoutsAreSilence ==
  ASSUME MessagesFit
  PROVE  SitaSpec => []TimeoutMeansSilence
  <1>1. MatipInv => TimeoutMeansSilence
    BY DEF MatipInv, Said
  <1> QED
    BY <1>1, SitaMatipInvariant, PTL

(* The application is told of the end of each session it accepted, however *)
(* it ends, and once as long as the connection exists (onSessionClosed(),  *)
(* close() and onSocketDisconnected(), SitaConnection.cpp).  The argument  *)
(* is about states and signals only: it takes nothing from the framing and *)
(* assumes nothing of the messages.                                        *)
THEOREM EndsAreReported == SitaSpec => []EndIsReportedOnce
  <1>1. SitaInit => SitaInv
    BY SitaInitInv
  <1>2. SitaInv /\ [SitaNext]_vars => SitaInv'
    BY SitaInvStep
  <1>3. SitaInv => EndIsReportedOnce
    BY SitaInvReports
  <1> QED
    BY <1>1, <1>2, <1>3, PTL DEF SitaSpec
=============================================================================
