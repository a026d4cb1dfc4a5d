--------------------------- MODULE LargeSocketProof ---------------------------
(***************************************************************************)
(* Proofs about LargeSocket, for packets and blocks of any length, any     *)
(* number of identifiers and every value of the bounds.                    *)
(*   Sequences and what FlattenSeq makes of them                           *)
(*   Words, packets and their order                                        *)
(*   InOrder                                                               *)
(*   DamageEnds                                                            *)
(***************************************************************************)
EXTENDS LargeSocket, SequenceTheorems, WellFoundedInduction, TLAPS

----------------------------------------------------------------------------
(* Sequences. *)

(* A non-empty set of naturals has a least element.                        *)
LEMMA LeastNatural ==
  ASSUME NEW T, T \subseteq Nat, T # {}
  PROVE  \E x \in T : \A y \in T : x <= y
  <1> DEFINE R == OpToRel(<, Nat)
  <1>1. IsWellFoundedOn(R, Nat)
    BY NatLessThanWellFounded
  <1>2. \A x, y \in Nat : x < y => <<x, y>> \in R
    BY DEF OpToRel
  <1> HIDE DEF R
  <1>3. PICK x \in T : \A y \in T : ~ (<<y, x>> \in R)
    BY <1>1, WFMin
  <1>4. \A y \in T : ~ (y < x)
    BY <1>2, <1>3, Zenon
  <1>5. \A y \in T : x <= y
    BY <1>4
  <1> QED
    BY <1>3, <1>5

(* Induction on the naturals for a property given as the set of numbers    *)
(* that have it.                                                           *)
LEMMA NaturalsFromZero ==
  ASSUME NEW G, 0 \in G, \A n \in Nat : n \in G => n + 1 \in G
  PROVE  Nat \subseteq G
  <1> SUFFICES ASSUME Nat \ G # {} PROVE FALSE
    OBVIOUS
  <1>1. PICK x \in Nat \ G : \A y \in Nat \ G : x <= y
    BY LeastNatural
  <1>2. x # 0 /\ x - 1 \in Nat
    BY <1>1
  <1>3. x - 1 \in G
    BY <1>1, <1>2
  <1> QED
    BY <1>1, <1>2, <1>3


LEMMA Regroup ==
  \A S : \A s, t, u \in Seq(S) : (s \o t) \o u = s \o (t \o u)
<1> SUFFICES ASSUME NEW S, NEW s \in Seq(S), NEW t \in Seq(S), NEW u \in Seq(S)
             PROVE  (s \o t) \o u = s \o (t \o u)
  OBVIOUS
<1> QED
  BY ConcatAssociative

LEMMA DropProperties ==
  ASSUME NEW S, NEW s \in Seq(S), NEW k \in 0 .. Len(s)
  PROVE  /\ Drop(s, k) \in Seq(S)
         /\ Len(Drop(s, k)) = Len(s) - k
         /\ \A i \in 1 .. Len(s) - k : Drop(s, k)[i] = s[i + k]
<1>1. Len(s) \in Nat /\ k \in Nat /\ \A i \in k + 1 .. Len(s) : s[i] \in S
  OBVIOUS
<1>2. /\ SubSeq(s, k + 1, Len(s)) \in Seq(S)
      /\ Len(SubSeq(s, k + 1, Len(s))) =
           IF k + 1 <= Len(s) THEN Len(s) - (k + 1) + 1 ELSE 0
      /\ \A i \in 1 .. Len(s) - (k + 1) + 1 :
           SubSeq(s, k + 1, Len(s))[i] = s[(k + 1) + i - 1]
  BY <1>1, SubSeqProperties
<1>3. Drop(s, k) = SubSeq(s, k + 1, Len(s))
  BY DEF Drop
<1> HIDE DEF Drop
<1>4. Len(s) - (k + 1) + 1 = Len(s) - k
      /\ (k + 1 <= Len(s) \/ Len(s) - k = 0)
  BY <1>1
<1>5. ASSUME NEW i \in 1 .. Len(s) - k PROVE Drop(s, k)[i] = s[i + k]
  <2>1. i \in 1 .. Len(s) - (k + 1) + 1 /\ (k + 1) + i - 1 = i + k
    BY <1>1
  <2> QED
    BY <1>2, <1>3, <2>1
<1> QED
  BY <1>2, <1>3, <1>4, <1>5

(* The beginning and what is left. *)
LEMMA DropRest ==
  ASSUME NEW S, NEW s \in Seq(S), NEW t \in Seq(S)
  PROVE  /\ Drop(s \o t, Len(s)) = t
         /\ \A k \in 0 .. Len(s) : Drop(s \o t, k) = Drop(s, k) \o t
         /\ \A k \in Len(s) .. Len(s) + Len(t) : Drop(s \o t, k) = Drop(t, k - Len(s))
<1>1. /\ s \o t \in Seq(S) /\ Len(s \o t) = Len(s) + Len(t)
      /\ Len(s) \in Nat /\ Len(t) \in Nat
      /\ \A i \in 1 .. Len(s) + Len(t) :
           (s \o t)[i] = IF i <= Len(s) THEN s[i] ELSE t[i - Len(s)]
  BY ConcatProperties
<1> DEFINE u == s \o t
<1> HIDE DEF u
<1>2. ASSUME NEW k \in Len(s) .. Len(s) + Len(t)
      PROVE  Drop(u, k) = Drop(t, k - Len(s))
  <2>1. k \in 0 .. Len(u) /\ k - Len(s) \in 0 .. Len(t)
        /\ Len(u) - k = Len(t) - (k - Len(s))
    BY <1>1 DEF u
  <2>2. /\ Drop(u, k) \in Seq(S) /\ Len(Drop(u, k)) = Len(u) - k
        /\ \A i \in 1 .. Len(u) - k : Drop(u, k)[i] = u[i + k]
    BY <1>1, <2>1, DropProperties DEF u
  <2>3. /\ Drop(t, k - Len(s)) \in Seq(S)
        /\ Len(Drop(t, k - Len(s))) = Len(t) - (k - Len(s))
        /\ \A i \in 1 .. Len(t) - (k - Len(s)) :
             Drop(t, k - Len(s))[i] = t[i + (k - Len(s))]
    BY <2>1, DropProperties
  <2>4. ASSUME NEW i \in 1 .. Len(u) - k
        PROVE  Drop(u, k)[i] = Drop(t, k - Len(s))[i]
    <3>1. i + k \in 1 .. Len(s) + Len(t) /\ ~ i + k <= Len(s)
          /\ (i + k) - Len(s) = i + (k - Len(s))
      BY <1>1, <2>1 DEF u
    <3>2. u[i + k] = t[i + (k - Len(s))]
      BY <1>1, <3>1 DEF u
    <3> QED
      BY <2>1, <2>2, <2>3, <3>2
  <2> QED
    BY <2>1, <2>2, <2>3, <2>4, SeqEqual
<1>3. ASSUME NEW k \in 0 .. Len(s)
      PROVE  Drop(u, k) = Drop(s, k) \o t
  <2>1. k \in 0 .. Len(u)
    BY <1>1 DEF u
  <2>2. /\ Drop(u, k) \in Seq(S) /\ Len(Drop(u, k)) = Len(u) - k
        /\ \A i \in 1 .. Len(u) - k : Drop(u, k)[i] = u[i + k]
    BY <1>1, <2>1, DropProperties DEF u
  <2> DEFINE v == Drop(s, k)
  <2>3. /\ v \in Seq(S) /\ Len(v) = Len(s) - k
        /\ \A i \in 1 .. Len(s) - k : v[i] = s[i + k]
    BY DropProperties
  <2> HIDE DEF v
  <2>4. /\ v \o t \in Seq(S) /\ Len(v \o t) = Len(v) + Len(t)
        /\ \A i \in 1 .. Len(v) + Len(t) :
             (v \o t)[i] = IF i <= Len(v) THEN v[i] ELSE t[i - Len(v)]
    BY <2>3, ConcatProperties
  <2>5. Len(u) - k = Len(v) + Len(t)
    BY <1>1, <2>3 DEF u
  <2>6. ASSUME NEW i \in 1 .. Len(u) - k
        PROVE  Drop(u, k)[i] = (v \o t)[i]
    <3>1. CASE i <= Len(v)
      <4>1. i \in 1 .. Len(s) - k /\ i + k \in 1 .. Len(s) + Len(t) /\ i + k <= Len(s)
            /\ i \in 1 .. Len(v) + Len(t)
        BY <1>1, <2>3, <3>1
      <4> QED
        BY <1>1, <2>2, <2>3, <2>4, <3>1, <4>1 DEF u
    <3>2. CASE ~ i <= Len(v)
      <4>1. i + k \in 1 .. Len(s) + Len(t) /\ ~ i + k <= Len(s)
            /\ i \in 1 .. Len(v) + Len(t) /\ (i + k) - Len(s) = i - Len(v)
        BY <1>1, <2>3, <2>5, <3>2
      <4> QED
        BY <1>1, <2>2, <2>4, <3>2, <4>1 DEF u
    <3> QED
      BY <3>1, <3>2
  <2> QED
    BY <2>2, <2>4, <2>5, <2>6, SeqEqual DEF v
<1>4. Drop(t, 0) = t
  <2>1. /\ Drop(t, 0) \in Seq(S) /\ Len(Drop(t, 0)) = Len(t) - 0
        /\ \A i \in 1 .. Len(t) - 0 : Drop(t, 0)[i] = t[i + 0]
    BY <1>1, DropProperties
  <2>2. Len(Drop(t, 0)) = Len(t) /\ \A i \in 1 .. Len(Drop(t, 0)) : Drop(t, 0)[i] = t[i]
    BY <1>1, <2>1
  <2> QED
    BY <2>1, <2>2, SeqEqual
<1>5. Drop(u, Len(s)) = t
  <2>1. Len(s) \in Len(s) .. Len(s) + Len(t) /\ Len(s) - Len(s) = 0
    BY <1>1
  <2> QED
    BY <1>2, <1>4, <2>1
<1> QED
  BY <1>2, <1>3, <1>5 DEF u

(* A sequence is its beginning and what is left. *)
LEMMA SplitAt ==
  ASSUME NEW S, NEW s \in Seq(S), NEW k \in 0 .. Len(s)
  PROVE  /\ SubSeq(s, 1, k) \in Seq(S) /\ Len(SubSeq(s, 1, k)) = k
         /\ \A i \in 1 .. k : SubSeq(s, 1, k)[i] = s[i]
         /\ s = SubSeq(s, 1, k) \o Drop(s, k)
<1>1. Len(s) \in Nat /\ k \in Nat /\ \A i \in 1 .. k : s[i] \in S
  OBVIOUS
<1>2. /\ SubSeq(s, 1, k) \in Seq(S)
      /\ Len(SubSeq(s, 1, k)) = IF 1 <= k THEN k - 1 + 1 ELSE 0
      /\ \A i \in 1 .. k - 1 + 1 : SubSeq(s, 1, k)[i] = s[1 + i - 1]
  BY <1>1, SubSeqProperties
<1> DEFINE a == SubSeq(s, 1, k)
           b == Drop(s, k)
<1>3. /\ a \in Seq(S) /\ Len(a) = k
      /\ \A i \in 1 .. k : a[i] = s[i]
  <2> HIDE DEF a
  <2>1. \A i \in 1 .. k : i \in 1 .. k - 1 + 1 /\ 1 + i - 1 = i
    BY <1>1
  <2>2. (IF 1 <= k THEN k - 1 + 1 ELSE 0) = k
    BY <1>1
  <2> QED
    BY <1>2, <2>1, <2>2 DEF a
<1>4. /\ b \in Seq(S) /\ Len(b) = Len(s) - k
      /\ \A i \in 1 .. Len(s) - k : b[i] = s[i + k]
  BY DropProperties
<1> HIDE DEF a, b
<1>5. /\ a \o b \in Seq(S) /\ Len(a \o b) = Len(a) + Len(b)
      /\ \A i \in 1 .. Len(a) + Len(b) :
           (a \o b)[i] = IF i <= Len(a) THEN a[i] ELSE b[i - Len(a)]
  BY <1>3, <1>4, ConcatProperties
<1>6. ASSUME NEW i \in 1 .. Len(s) PROVE s[i] = (a \o b)[i]
  <2>1. CASE i <= k
    BY <1>1, <1>3, <1>4, <1>5, <2>1
  <2>2. CASE ~ i <= k
    <3>1. i - k \in 1 .. Len(s) - k /\ (i - k) + k = i
          /\ i \in 1 .. Len(a) + Len(b) /\ ~ i <= Len(a)
      BY <1>1, <1>3, <1>4, <2>2
    <3> QED
      BY <1>3, <1>4, <1>5, <3>1
  <2> QED
    BY <2>1, <2>2
<1>7. Len(s) = Len(a \o b)
  BY <1>1, <1>3, <1>4, <1>5
<1>8. s = a \o b
  BY <1>5, <1>6, <1>7, SeqEqual
<1> QED
  BY <1>3, <1>8 DEF a, b

(* FlattenSeq() goes through the sequences from the first to the last.     *)
LEMMA FlattenIs ==
  ASSUME NEW T, NEW s \in Seq(Seq(T)), s # <<>>
  PROVE  \E f \in [1 .. Len(s) -> Seq(T)] :
           /\ FlattenSeq(s) = f[Len(s)]
           /\ f[1] = s[1]
           /\ \A i \in Nat \ {0} : i + 1 <= Len(s) => f[i + 1] = f[i] \o s[i + 1]
<1> DEFINE Step(f, i) == IF i = 1 THEN s[i] ELSE f[i - 1] \o s[i]
           Rec(f, n) == f = [i \in 1 .. n |-> Step(f, i)]
           Defined == {n \in Nat : \E f : Rec(f, n)}
<1>0. Len(s) \in Nat \ {0} /\ \A i \in 1 .. Len(s) : s[i] \in Seq(T)
  OBVIOUS
<1>1. 0 \in Defined
  <2> DEFINE f == [i \in 1 .. 0 |-> <<>>]
  <2>1. Rec(f, 0)
    OBVIOUS
  <2> HIDE DEF Rec, f
  <2> QED
    BY <2>1
<1>2. ASSUME NEW n \in Nat, n \in Defined PROVE n + 1 \in Defined
  <2>1. PICK f : Rec(f, n)
    BY <1>2
  <2> DEFINE g == [i \in 1 .. n + 1 |-> IF i = n + 1 THEN Step(f, n + 1)
                                                     ELSE f[i]]
  <2>2. ASSUME NEW i \in 1 .. n + 1 PROVE g[i] = Step(g, i)
    <3>1. CASE i = n + 1
      <4>1. n + 1 # 1 => g[n] = f[n] /\ (n + 1) - 1 = n
        OBVIOUS
      <4>2. g[n + 1] = Step(f, n + 1)
        OBVIOUS
      <4> HIDE DEF g
      <4> QED
        BY <3>1, <4>1, <4>2
    <3>2. CASE i # n + 1
      <4>1. i \in 1 .. n
        BY <3>2
      <4>2. f[i] = Step(f, i)
        <5> HIDE DEF Step
        <5> QED
          BY <2>1, <4>1
      <4>3. g[i] = f[i] /\ (i # 1 => g[i - 1] = f[i - 1])
        <5> HIDE DEF Step
        <5> QED
          BY <4>1
      <4> QED
        BY <4>2, <4>3
    <3> QED
      BY <3>1, <3>2
  <2>3. Rec(g, n + 1)
    <3> HIDE DEF Step
    <3> QED
      BY <2>2
  <2> HIDE DEF Rec, g
  <2> QED
    BY <2>3
<1>3. Len(s) \in Defined
  <2> HIDE DEF Defined
  <2> QED
    BY <1>0, <1>1, <1>2, NaturalsFromZero
<1> DEFINE f == CHOOSE f : Rec(f, Len(s))
<1>4. Rec(f, Len(s))
  <2> HIDE DEF Rec
  <2> QED
    BY <1>3
<1>5. FlattenSeq(s) = f[Len(s)]
  BY <1>0 DEF FlattenSeq
<1> HIDE DEF f
<1>6. \A i \in 1 .. Len(s) : f[i] = Step(f, i)
  <2> HIDE DEF Step
  <2> QED
    BY <1>4
<1>7. f[1] = s[1]
  BY <1>0, <1>6
<1>8. ASSUME NEW i \in Nat \ {0}, i + 1 <= Len(s) PROVE f[i + 1] = f[i] \o s[i + 1]
  <2>1. i + 1 \in 1 .. Len(s) /\ i + 1 # 1 /\ (i + 1) - 1 = i
    BY <1>0, <1>8
  <2>2. f[i + 1] = Step(f, i + 1)
    BY <1>6, <2>1
  <2> QED
    BY <2>1, <2>2
<1> DEFINE Good == {n \in Nat : n + 1 <= Len(s) => f[n + 1] \in Seq(T)}
<1>9. 0 \in Good
  BY <1>0, <1>7
<1>10. ASSUME NEW n \in Nat, n \in Good PROVE n + 1 \in Good
  <2> SUFFICES ASSUME (n + 1) + 1 <= Len(s)
               PROVE  f[(n + 1) + 1] \in Seq(T)
    OBVIOUS
  <2> DEFINE m == n + 1
  <2>1. m \in Nat \ {0} /\ m <= Len(s) /\ m + 1 \in 1 .. Len(s)
    BY <1>0
  <2>2. f[m] \in Seq(T)
    BY <1>10, <2>1
  <2>3. m + 1 <= Len(s)
    OBVIOUS
  <2> HIDE DEF m
  <2>4. f[m + 1] = f[m] \o s[m + 1] /\ s[m + 1] \in Seq(T)
    BY <1>0, <1>8, <2>1, <2>3
  <2>5. f[m + 1] \in Seq(T)
    BY <2>2, <2>4, ConcatProperties
  <2> QED
    BY <2>5 DEF m
<1>11. Nat \subseteq Good
  <2> HIDE DEF Good
  <2> QED
    BY <1>9, <1>10, NaturalsFromZero
<1>12. ASSUME NEW i \in 1 .. Len(s) PROVE f[i] \in Seq(T)
  <2>1. i - 1 \in Good /\ (i - 1) + 1 = i
    <3> HIDE DEF Good
    <3> QED
      BY <1>0, <1>11
  <2> QED
    BY <1>0, <2>1
<1>13. f \in [1 .. Len(s) -> Seq(T)]
  <2>1. f = [i \in 1 .. Len(s) |-> Step(f, i)]
    <3> HIDE DEF Step
    <3> QED
      BY <1>4
  <2> HIDE DEF Step
  <2>2. f = [i \in 1 .. Len(s) |-> f[i]]
    BY <2>1
  <2> QED
    BY <1>12, <2>2
<1> QED
  BY <1>5, <1>7, <1>8, <1>13

LEMMA FlattenEmpty == FlattenSeq(<<>>) = <<>>
BY DEF FlattenSeq

LEMMA FlattenType ==
  ASSUME NEW T, NEW s \in Seq(Seq(T))
  PROVE  FlattenSeq(s) \in Seq(T)
<1>1. CASE s = <<>>
  BY <1>1, FlattenEmpty, EmptySeq
<1>2. CASE s # <<>>
  <2>1. PICK f \in [1 .. Len(s) -> Seq(T)] : FlattenSeq(s) = f[Len(s)]
    BY <1>2, FlattenIs
  <2>2. Len(s) \in 1 .. Len(s)
    BY <1>2
  <2> QED
    BY <2>1, <2>2
<1> QED
  BY <1>1, <1>2

LEMMA FlattenOne ==
  ASSUME NEW T, NEW x \in Seq(T)
  PROVE  FlattenSeq(<<x>>) = x
<1> DEFINE s == <<x>>
<1>1. s \in Seq(Seq(T)) /\ s # <<>> /\ Len(s) = 1 /\ s[1] = x
  OBVIOUS
<1> HIDE DEF s
<1>2. PICK f \in [1 .. Len(s) -> Seq(T)] : FlattenSeq(s) = f[Len(s)] /\ f[1] = s[1]
  BY <1>1, FlattenIs
<1> QED
  BY <1>1, <1>2 DEF s

LEMMA FlattenAppend ==
  ASSUME NEW T, NEW s \in Seq(Seq(T)), NEW x \in Seq(T)
  PROVE  FlattenSeq(Append(s, x)) = FlattenSeq(s) \o x
<1>1. CASE s = <<>>
  <2>1. Append(s, x) = <<x>>
    BY <1>1
  <2>2. <<>> \o x = x
    BY ConcatEmptySeq
  <2> QED
    BY <1>1, <2>1, <2>2, FlattenEmpty, FlattenOne
<1>2. CASE s # <<>>
  <2> DEFINE t == Append(s, x)
  <2>1. /\ t \in Seq(Seq(T)) /\ t # <<>> /\ Len(t) = Len(s) + 1
        /\ Len(s) \in Nat \ {0}
        /\ \A i \in 1 .. Len(s) : t[i] = s[i]
        /\ t[Len(s) + 1] = x
    BY <1>2, AppendProperties
  <2> HIDE DEF t
  <2>2. PICK f \in [1 .. Len(s) -> Seq(T)] :
          /\ FlattenSeq(s) = f[Len(s)]
          /\ f[1] = s[1]
          /\ \A i \in Nat \ {0} : i + 1 <= Len(s) => f[i + 1] = f[i] \o s[i + 1]
    BY <1>2, FlattenIs
  <2>3. PICK g \in [1 .. Len(t) -> Seq(T)] :
          /\ FlattenSeq(t) = g[Len(t)]
          /\ g[1] = t[1]
          /\ \A i \in Nat \ {0} : i + 1 <= Len(t) => g[i + 1] = g[i] \o t[i + 1]
    BY <2>1, FlattenIs
  <2> DEFINE Good == {n \in Nat : n + 1 <= Len(s) => g[n + 1] = f[n + 1]}
  <2>4. 0 \in Good
    BY <2>1, <2>2, <2>3
  <2>5. ASSUME NEW n \in Nat, n \in Good PROVE n + 1 \in Good
    <3> SUFFICES ASSUME (n + 1) + 1 <= Len(s)
                 PROVE  g[(n + 1) + 1] = f[(n + 1) + 1]
      OBVIOUS
    <3> DEFINE m == n + 1
    <3>1. m \in Nat \ {0} /\ m <= Len(s) /\ m + 1 \in 1 .. Len(s)
          /\ m + 1 <= Len(s) /\ m + 1 <= Len(t)
      BY <2>1
    <3>2. g[m] = f[m]
      BY <2>5, <3>1
    <3> HIDE DEF m
    <3>3. /\ g[m + 1] = g[m] \o t[m + 1]
          /\ f[m + 1] = f[m] \o s[m + 1]
          /\ t[m + 1] = s[m + 1]
      BY <2>1, <2>2, <2>3, <3>1
    <3>4. g[m + 1] = f[m + 1]
      BY <3>2, <3>3
    <3> QED
      BY <3>4 DEF m
  <2>6. Nat \subseteq Good
    <3> HIDE DEF Good
    <3> QED
      BY <2>4, <2>5, NaturalsFromZero
  <2>7. g[Len(s)] = f[Len(s)]
    <3>1. Len(s) - 1 \in Good /\ (Len(s) - 1) + 1 = Len(s)
      <4> HIDE DEF Good
      <4> QED
        BY <2>1, <2>6
    <3> QED
      BY <2>1, <3>1
  <2>8. g[Len(s) + 1] = g[Len(s)] \o t[Len(s) + 1]
    <3> DEFINE m == Len(s)
    <3>1. m \in Nat \ {0} /\ m + 1 <= Len(t)
      BY <2>1
    <3> HIDE DEF m
    <3>2. g[m + 1] = g[m] \o t[m + 1]
      BY <2>3, <3>1
    <3> QED
      BY <3>2 DEF m
  <2> QED
    BY <2>1, <2>2, <2>3, <2>7, <2>8 DEF t
<1> QED
  BY <1>1, <1>2

LEMMA FlattenCons ==
  ASSUME NEW T, NEW x \in Seq(T), NEW s \in Seq(Seq(T))
  PROVE  FlattenSeq(<<x>> \o s) = x \o FlattenSeq(s)
<1> DEFINE Holds(n) == \A t \in Seq(Seq(T)) : Len(t) = n =>
                          FlattenSeq(<<x>> \o t) = x \o FlattenSeq(t)
           Good == {n \in Nat : Holds(n)}
<1>0. <<x>> \in Seq(Seq(T))
  OBVIOUS
<1>9. \A p, q, r \in Seq(T) : (p \o q) \o r = p \o (q \o r)
  BY Regroup
<1>1. 0 \in Good
  <2>1. <<x>> \o <<>> = <<x>> /\ x \o <<>> = x
    BY <1>0, ConcatEmptySeq
  <2>2. FlattenSeq(<<x>> \o <<>>) = x \o FlattenSeq(<<>>)
    BY <2>1, FlattenEmpty, FlattenOne
  <2>3. \A t \in Seq(Seq(T)) : Len(t) = 0 => t = <<>>
    OBVIOUS
  <2>4. 0 \in Nat
    OBVIOUS
  <2> QED
    BY <2>2, <2>3, <2>4, Zenon
<1>2. ASSUME NEW n \in Nat, n \in Good PROVE n + 1 \in Good
  <2> SUFFICES Holds(n + 1)
    <3> HIDE DEF Holds
    <3> QED
      BY DEF Good
  <2> SUFFICES ASSUME NEW t \in Seq(Seq(T)), Len(t) = n + 1
               PROVE  FlattenSeq(<<x>> \o t) = x \o FlattenSeq(t)
    BY Zenon
  <2>1. t # <<>>
    OBVIOUS
  <2>2. PICK u \in Seq(Seq(T)), y \in Seq(T) : t = Append(u, y)
    BY <2>1, SequenceEmptyOrAppend
  <2>3. Len(u) = n
    BY <2>2, AppendProperties
  <2>4. FlattenSeq(<<x>> \o u) = x \o FlattenSeq(u)
    BY <1>2, <2>3
  <2>5. <<x>> \o t = Append(<<x>> \o u, y) /\ <<x>> \o u \in Seq(Seq(T))
    <3>1. t = u \o <<y>> /\ <<y>> \in Seq(Seq(T))
      BY <2>2, AppendIsConcat
    <3>2. <<x>> \o (u \o <<y>>) = (<<x>> \o u) \o <<y>>
      BY <1>0, <3>1, ConcatAssociative
    <3>3. <<x>> \o u \in Seq(Seq(T))
      BY <1>0, ConcatProperties
    <3>4. Append(<<x>> \o u, y) = (<<x>> \o u) \o <<y>>
      BY <3>3, AppendIsConcat
    <3> QED
      BY <3>1, <3>2, <3>3, <3>4
  <2>6. FlattenSeq(<<x>> \o t) = FlattenSeq(<<x>> \o u) \o y
    BY <2>5, FlattenAppend
  <2>7. FlattenSeq(t) = FlattenSeq(u) \o y /\ FlattenSeq(u) \in Seq(T)
    BY <2>2, FlattenAppend, FlattenType
  <2> DEFINE b == FlattenSeq(u)
  <2>8. (x \o b) \o y = x \o (b \o y)
    <3>1. x \in Seq(T) /\ b \in Seq(T) /\ y \in Seq(T)
      BY <2>2, <2>7
    <3> HIDE DEF b
    <3> QED
      BY <1>9, <3>1, Zenon
  <2> QED
    BY <2>4, <2>6, <2>7, <2>8, Zenon DEF b
<1>3. Len(s) \in Good
  <2> HIDE DEF Good
  <2> QED
    BY <1>1, <1>2, NaturalsFromZero, LenProperties
<1> QED
  BY <1>3

----------------------------------------------------------------------------
(* Words and their order. *)

AnyWord ==
  [kind : {"sig"}, value : {0, 1}]
    \cup [kind : {"int"}, value : Nat]
    \cup [kind : {"data"}, block : Nat, value : Nat]

DataIn(s) == {w \in ToSet(s) : w.kind = "data"}

(* The words of a block before those of the next one, each in its order.   *)
Earlier(v, w) ==
  \/ v.block < w.block
  \/ v.block = w.block /\ v.value < w.value

Before(s, t) == \A v \in DataIn(s), w \in DataIn(t) : Earlier(v, w)

Rising(s) ==
  \A i, j \in 1 .. Len(s) :
    i < j /\ s[i].kind = "data" /\ s[j].kind = "data" => Earlier(s[i], s[j])

LEMMA WordsRegroup ==
  \A s, t, u \in Seq(AnyWord) : (s \o t) \o u = s \o (t \o u)
BY Regroup

LEMMA DataIndex ==
  ASSUME NEW s \in Seq(AnyWord)
  PROVE  /\ \A i \in 1 .. Len(s) : s[i].kind = "data" => s[i] \in DataIn(s)
         /\ \A w \in DataIn(s) :
              w.kind = "data" /\ \E i \in 1 .. Len(s) : s[i] = w
<1>1. DOMAIN s = 1 .. Len(s)
  OBVIOUS
<1> QED
  BY <1>1 DEF DataIn, ToSet

LEMMA DataConcat ==
  ASSUME NEW s \in Seq(AnyWord), NEW t \in Seq(AnyWord)
  PROVE  DataIn(s \o t) = DataIn(s) \cup DataIn(t)
<1>1. /\ s \o t \in Seq(AnyWord) /\ Len(s \o t) = Len(s) + Len(t)
      /\ Len(s) \in Nat /\ Len(t) \in Nat
      /\ \A i \in 1 .. Len(s) + Len(t) :
           (s \o t)[i] = IF i <= Len(s) THEN s[i] ELSE t[i - Len(s)]
  BY ConcatProperties
<1> DEFINE u == s \o t
<1>2. /\ u \in Seq(AnyWord) /\ Len(u) = Len(s) + Len(t)
      /\ \A i \in 1 .. Len(s) : i \in 1 .. Len(u) /\ u[i] = s[i]
      /\ \A i \in 1 .. Len(t) : i + Len(s) \in 1 .. Len(u) /\ u[i + Len(s)] = t[i]
  <2>1. \A i \in 1 .. Len(s) : i \in 1 .. Len(s) + Len(t) /\ i <= Len(s)
    BY <1>1
  <2>2. \A i \in 1 .. Len(t) :
          /\ i + Len(s) \in 1 .. Len(s) + Len(t) /\ ~ i + Len(s) <= Len(s)
          /\ (i + Len(s)) - Len(s) = i
    BY <1>1
  <2> QED
    BY <1>1, <2>1, <2>2
<1> HIDE DEF u
<1>3. \A i \in 1 .. Len(u) : \/ i \in 1 .. Len(s) /\ u[i] = s[i]
                             \/ i - Len(s) \in 1 .. Len(t) /\ u[i] = t[i - Len(s)]
  BY <1>1, <1>2 DEF u
<1>4. ASSUME NEW w \in DataIn(u) PROVE w \in DataIn(s) \cup DataIn(t)
  <2>1. PICK i \in 1 .. Len(u) : u[i] = w
    BY <1>2, DataIndex
  <2>2. w.kind = "data"
    BY <1>2, DataIndex
  <2>3. CASE i \in 1 .. Len(s) /\ u[i] = s[i]
    BY <2>1, <2>2, <2>3, DataIndex
  <2>4. CASE i - Len(s) \in 1 .. Len(t) /\ u[i] = t[i - Len(s)]
    BY <2>1, <2>2, <2>4, DataIndex
  <2> QED
    BY <1>3, <2>3, <2>4
<1>5. ASSUME NEW w \in DataIn(s) PROVE w \in DataIn(u)
  <2>1. PICK i \in 1 .. Len(s) : s[i] = w
    BY DataIndex
  <2>2. w.kind = "data"
    BY DataIndex
  <2> QED
    BY <1>2, <2>1, <2>2, DataIndex
<1>6. ASSUME NEW w \in DataIn(t) PROVE w \in DataIn(u)
  <2>1. PICK i \in 1 .. Len(t) : t[i] = w
    BY DataIndex
  <2>2. w.kind = "data"
    BY DataIndex
  <2>3. i + Len(s) \in 1 .. Len(u) /\ u[i + Len(s)] = w
    BY <1>2, <2>1
  <2> QED
    BY <1>2, <2>2, <2>3, DataIndex
<1> QED
  BY <1>4, <1>5, <1>6 DEF u

LEMMA RisingConcat ==
  ASSUME NEW s \in Seq(AnyWord), NEW t \in Seq(AnyWord)
  PROVE  Rising(s \o t) <=> Rising(s) /\ Rising(t) /\ Before(s, t)
<1> DEFINE u == s \o t
<1>1. /\ u \in Seq(AnyWord) /\ Len(u) = Len(s) + Len(t)
      /\ Len(s) \in Nat /\ Len(t) \in Nat
      /\ \A i \in 1 .. Len(s) + Len(t) :
           u[i] = IF i <= Len(s) THEN s[i] ELSE t[i - Len(s)]
  BY ConcatProperties
<1> HIDE DEF u
<1>2. /\ \A i \in 1 .. Len(s) : i \in 1 .. Len(u) /\ u[i] = s[i]
      /\ \A i \in 1 .. Len(t) : i + Len(s) \in 1 .. Len(u) /\ u[i + Len(s)] = t[i]
  <2>1. \A i \in 1 .. Len(s) : i \in 1 .. Len(s) + Len(t) /\ i <= Len(s)
    BY <1>1
  <2>2. \A i \in 1 .. Len(t) :
          /\ i + Len(s) \in 1 .. Len(s) + Len(t) /\ ~ i + Len(s) <= Len(s)
          /\ (i + Len(s)) - Len(s) = i
    BY <1>1
  <2> QED
    BY <1>1, <2>1, <2>2
<1>3. ASSUME Rising(u) PROVE Rising(s) /\ Rising(t) /\ Before(s, t)
  <2>1. Rising(s)
    BY <1>2, <1>3 DEF Rising
  <2>2. Rising(t)
    <3> SUFFICES ASSUME NEW i \in 1 .. Len(t), NEW j \in 1 .. Len(t), i < j,
                        t[i].kind = "data", t[j].kind = "data"
                 PROVE  Earlier(t[i], t[j])
      BY DEF Rising
    <3>1. i + Len(s) < j + Len(s)
      BY <1>1
    <3> QED
      BY <1>2, <1>3, <3>1 DEF Rising
  <2>3. Before(s, t)
    <3> SUFFICES ASSUME NEW v \in DataIn(s), NEW w \in DataIn(t)
                 PROVE  Earlier(v, w)
      BY DEF Before
    <3>1. PICK i \in 1 .. Len(s) : s[i] = v
      BY DataIndex
    <3>2. PICK j \in 1 .. Len(t) : t[j] = w
      BY DataIndex
    <3>3. v.kind = "data" /\ w.kind = "data"
      BY DataIndex
    <3>4. i < j + Len(s)
      BY <1>1
    <3> QED
      BY <1>2, <1>3, <3>1, <3>2, <3>3, <3>4 DEF Rising
  <2> QED
    BY <2>1, <2>2, <2>3
<1>4. ASSUME Rising(s), Rising(t), Before(s, t),
             NEW i \in 1 .. Len(u), NEW j \in 1 .. Len(u), i < j,
             u[i].kind = "data", u[j].kind = "data"
      PROVE  Earlier(u[i], u[j])
  <2>1. CASE j <= Len(s)
    <3>1. i \in 1 .. Len(s) /\ j \in 1 .. Len(s) /\ i <= Len(s)
      BY <1>1, <1>4, <2>1
    <3> QED
      BY <1>2, <1>4, <3>1 DEF Rising
  <2>2. CASE i <= Len(s) /\ ~ j <= Len(s)
    <3>1. i \in 1 .. Len(s) /\ j - Len(s) \in 1 .. Len(t)
      BY <1>1, <2>2
    <3>2. u[i] = s[i] /\ u[j] = t[j - Len(s)]
      BY <1>1, <2>2, <3>1
    <3> QED
      BY <1>4, <3>1, <3>2, DataIndex DEF Before
  <2>3. CASE ~ i <= Len(s)
    <3>1. i - Len(s) \in 1 .. Len(t) /\ j - Len(s) \in 1 .. Len(t)
          /\ i - Len(s) < j - Len(s) /\ ~ j <= Len(s)
      BY <1>1, <1>4, <2>3
    <3>2. u[i] = t[i - Len(s)] /\ u[j] = t[j - Len(s)]
      BY <1>1, <2>3, <3>1
    <3> QED
      BY <1>4, <3>1, <3>2 DEF Rising
  <2> QED
    BY <1>1, <2>1, <2>2, <2>3
<1> QED
  BY <1>3, <1>4 DEF Rising, u

LEMMA EmptyFlow ==
  DataIn(<<>>) = {} /\ Rising(<<>>) /\ <<>> \in Seq(AnyWord)
BY DEF DataIn, Rising, ToSet

----------------------------------------------------------------------------
(* The parts of a block and their packets. *)

LEMMA Division ==
  ASSUME NEW a \in Nat, NEW m \in Nat \ {0}
  PROVE  /\ a \div m \in Nat
         /\ m * (a \div m) <= a
         /\ a < m * (a \div m) + m
OBVIOUS

(* Where the i-th part of a block of so many words ends. *)
EndOf(i, length) ==
  IF i * MAX_DATA_SIZE < length THEN i * MAX_DATA_SIZE ELSE length

Count(length) == (length + MAX_DATA_SIZE - 1) \div MAX_DATA_SIZE

LEMMA Chunks ==
  ASSUME NEW length \in Nat \ {0}
  PROVE  /\ Count(length) \in Nat \ {0}
         /\ EndOf(0, length) = 0
         /\ EndOf(Count(length), length) = length
         /\ \A i \in 1 .. Count(length) :
              /\ i - 1 \in Nat
              /\ EndOf(i - 1, length) = (i - 1) * MAX_DATA_SIZE
              /\ EndOf(i - 1, length) \in 0 .. length - 1
              /\ EndOf(i, length) \in EndOf(i - 1, length) + 1 .. length
              /\ i = Count(length) \/ EndOf(i, length) < length
<1> DEFINE m == MAX_DATA_SIZE
           c == Count(length)
<1>1. m \in Nat \ {0}
  BY LargeSocketAssumption
<1>2. length + m - 1 \in Nat
  BY <1>1
<1>3. /\ c \in Nat /\ m * c <= length + m - 1
      /\ length + m - 1 < m * c + m
  BY <1>1, <1>2, Division DEF Count
<1> HIDE DEF c
<1>4. m * c \in Nat /\ length <= m * c
  <2>1. m * c \in Nat
    BY <1>1, <1>3
  <2> DEFINE mc == m * c
  <2> HIDE DEF mc
  <2>2. length <= mc
    BY <1>1, <1>3, <2>1 DEF mc
  <2> QED
    BY <2>1, <2>2 DEF mc
<1>5. c # 0
  <2>1. m * 0 = 0
    BY <1>1
  <2> QED
    BY <1>4, <2>1
<1>6. ASSUME NEW i \in 1 .. c
      PROVE  /\ i - 1 \in Nat /\ (i - 1) * m \in Nat /\ i * m \in Nat
             /\ (i - 1) * m < length /\ i * m = (i - 1) * m + m
  <2>1. i - 1 \in Nat /\ i \in Nat /\ i <= c
    BY <1>3
  <2>2. (i - 1) * m \in Nat /\ i * m \in Nat /\ i * m = (i - 1) * m + m
    BY <1>1, <2>1
  <2>3. i * m <= m * c
    BY <1>1, <1>3, <2>1
  <2> DEFINE a == (i - 1) * m
             b == i * m
             d == m * c
  <2>4. a \in Nat /\ b \in Nat /\ d \in Nat /\ b = a + m /\ b <= d
        /\ d <= length + m - 1
    BY <1>3, <1>4, <2>2, <2>3
  <2> HIDE DEF a, b, d
  <2>5. a < length
    BY <1>1, <2>4
  <2> QED
    BY <2>1, <2>2, <2>5 DEF a
<1>7. 0 * m = 0
  BY <1>1
<1>8. EndOf(0, length) = 0
  BY <1>7 DEF EndOf
<1>9. EndOf(c, length) = length
  <2>1. c * m = m * c
    BY <1>1, <1>3
  <2> DEFINE d == m * c
  <2> HIDE DEF d
  <2>2. length <= d /\ c * m = d /\ d \in Nat
    BY <1>4, <2>1 DEF d
  <2> QED
    BY <2>2 DEF EndOf
<1>10. ASSUME NEW i \in 1 .. c
       PROVE  /\ i - 1 \in Nat
              /\ EndOf(i - 1, length) = (i - 1) * m
              /\ EndOf(i - 1, length) \in 0 .. length - 1
              /\ EndOf(i, length) \in EndOf(i - 1, length) + 1 .. length
              /\ i = c \/ EndOf(i, length) < length
  <2> DEFINE a == (i - 1) * m
             b == i * m
  <2>1. a \in Nat /\ b \in Nat /\ a < length /\ b = a + m
    BY <1>6
  <2>2. i # c => b < length
    <3> SUFFICES ASSUME i # c PROVE b < length
      OBVIOUS
    <3>1. i + 1 \in 1 .. c /\ (i + 1) - 1 = i
      BY <1>3
    <3>2. ((i + 1) - 1) * m < length
      BY <1>6, <3>1
    <3> QED
      BY <3>1, <3>2
  <2>3. /\ EndOf(i - 1, length) = IF a < length THEN a ELSE length
        /\ EndOf(i, length) = IF b < length THEN b ELSE length
    BY DEF EndOf
  <2> HIDE DEF a, b
  <2>4. /\ EndOf(i - 1, length) = a
        /\ EndOf(i - 1, length) \in 0 .. length - 1
        /\ EndOf(i, length) \in EndOf(i - 1, length) + 1 .. length
        /\ i = c \/ EndOf(i, length) < length
    BY <1>1, <2>1, <2>2, <2>3
  <2> QED
    BY <1>6, <2>4 DEF a
<1> QED
  BY <1>3, <1>5, <1>8, <1>9, <1>10 DEF c

(* The words of a block. *)
LEMMA BlockIs ==
  ASSUME NEW n \in Nat, NEW length \in Nat
  PROVE  /\ DataOf(n, length) \in Seq(AnyWord)
         /\ Len(DataOf(n, length)) = length
         /\ \A k \in 1 .. length : DataOf(n, length)[k] = Data(n, k)
<1>1. \A k \in 1 .. length : Data(n, k) \in AnyWord
  BY DEF Data, AnyWord
<1>2. DataOf(n, length) \in [1 .. length -> AnyWord]
  BY <1>1 DEF DataOf
<1>3. DataOf(n, length) \in Seq(AnyWord) /\ Len(DataOf(n, length)) = length
  BY <1>2, IsASeq
<1> QED
  BY <1>3 DEF DataOf

(* And of a piece of it. *)
Piece(n, a, b) == [k \in 1 .. b - a |-> Data(n, a + k)]

LEMMA PieceIs ==
  ASSUME NEW n \in Nat, NEW a \in Nat, NEW b \in Nat, a <= b
  PROVE  /\ Piece(n, a, b) \in Seq(AnyWord)
         /\ Len(Piece(n, a, b)) = b - a
         /\ \A k \in 1 .. b - a : Piece(n, a, b)[k] = Data(n, a + k)
         /\ Rising(Piece(n, a, b))
         /\ \A w \in DataIn(Piece(n, a, b)) : w.block = n /\ w.value \in a + 1 .. b
<1> DEFINE s == Piece(n, a, b)
<1>1. \A k \in 1 .. b - a : Data(n, a + k) \in AnyWord
  BY DEF Data, AnyWord
<1>2. s \in [1 .. b - a -> AnyWord] /\ \A k \in 1 .. b - a : s[k] = Data(n, a + k)
  BY <1>1 DEF Piece
<1>3. s \in Seq(AnyWord) /\ Len(s) = b - a
  <2>1. b - a \in Nat
    OBVIOUS
  <2> HIDE DEF s
  <2> QED
    BY <1>2, <2>1, IsASeq
<1> HIDE DEF s
<1>4. Rising(s)
  BY <1>2, <1>3 DEF Rising, Earlier, Data
<1>5. ASSUME NEW w \in DataIn(s) PROVE w.block = n /\ w.value \in a + 1 .. b
  <2>1. PICK k \in 1 .. Len(s) : s[k] = w
    BY <1>3, DataIndex
  <2> QED
    BY <1>2, <1>3, <2>1 DEF Data
<1> QED
  BY <1>2, <1>3, <1>4, <1>5 DEF s

LEMMA EveryPiece ==
  \A n, a, b \in Nat : a <= b =>
    /\ Piece(n, a, b) \in Seq(AnyWord)
    /\ Len(Piece(n, a, b)) = b - a
    /\ \A k \in 1 .. b - a : Piece(n, a, b)[k] = Data(n, a + k)
BY PieceIs, Zenon

LEMMA PiecesJoin ==
  ASSUME NEW n \in Nat, NEW a \in Nat, NEW b \in Nat, NEW c \in Nat, a <= b, b <= c
  PROVE  Piece(n, a, b) \o Piece(n, b, c) = Piece(n, a, c)
<1> DEFINE s == Piece(n, a, b)
           t == Piece(n, b, c)
           u == Piece(n, a, c)
<1>1. /\ s \in Seq(AnyWord) /\ Len(s) = b - a
      /\ \A k \in 1 .. b - a : s[k] = Data(n, a + k)
  BY EveryPiece
<1>2. /\ t \in Seq(AnyWord) /\ Len(t) = c - b
      /\ \A k \in 1 .. c - b : t[k] = Data(n, b + k)
  BY EveryPiece
<1>3. /\ u \in Seq(AnyWord) /\ Len(u) = c - a
      /\ \A k \in 1 .. c - a : u[k] = Data(n, a + k)
  <2>1. a <= c
    OBVIOUS
  <2> QED
    BY <2>1, EveryPiece
<1> HIDE DEF s, t, u
<1>4. /\ s \o t \in Seq(AnyWord) /\ Len(s \o t) = Len(s) + Len(t)
      /\ \A k \in 1 .. Len(s) + Len(t) :
           (s \o t)[k] = IF k <= Len(s) THEN s[k] ELSE t[k - Len(s)]
  BY <1>1, <1>2, ConcatProperties
<1>5. ASSUME NEW k \in 1 .. c - a PROVE (s \o t)[k] = Data(n, a + k)
  <2>1. CASE k <= b - a
    BY <1>1, <1>2, <1>4, <2>1
  <2>2. CASE ~ k <= b - a
    <3>1. k - (b - a) \in 1 .. c - b /\ b + (k - (b - a)) = a + k
          /\ k \in 1 .. Len(s) + Len(t)
      BY <1>1, <1>2, <2>2
    <3> QED
      BY <1>1, <1>2, <1>4, <2>2, <3>1
  <2> QED
    BY <2>1, <2>2
<1>6. Len(s \o t) = Len(u)
  BY <1>1, <1>2, <1>3, <1>4
<1>7. s \o t = u
  BY <1>3, <1>4, <1>5, <1>6, SeqEqual
<1> QED
  BY <1>7 DEF s, t, u

LEMMA WholePiece ==
  ASSUME NEW n \in Nat, NEW length \in Nat
  PROVE  Piece(n, 0, length) = DataOf(n, length) /\ Piece(n, length, length) = <<>>
<1>1. length - 0 = length /\ \A k \in 1 .. length : 0 + k = k
  OBVIOUS
<1>2. Piece(n, 0, length) = DataOf(n, length)
  BY <1>1 DEF Piece, DataOf
<1>3. Len(Piece(n, length, length)) = 0 /\ Piece(n, length, length) \in Seq(AnyWord)
  BY PieceIs
<1> QED
  BY <1>2, <1>3

(* The parts of a block are its pieces. *)
LEMMA PartsAre ==
  ASSUME NEW n \in Nat, NEW length \in Nat \ {0}
  PROVE  LET all == Parts(DataOf(n, length))
         IN /\ all \in Seq(Seq(AnyWord))
            /\ Len(all) = Count(length)
            /\ \A i \in 1 .. Count(length) :
                 all[i] = Piece(n, EndOf(i - 1, length), EndOf(i, length))
<1> DEFINE data == DataOf(n, length)
           all == Parts(data)
           c == Count(length)
<1>1. /\ data \in Seq(AnyWord) /\ Len(data) = length
      /\ \A k \in 1 .. length : data[k] = Data(n, k)
  BY BlockIs
<1> HIDE DEF data
<1>2. all = [i \in 1 .. c |-> SubSeq(data, (i - 1) * MAX_DATA_SIZE + 1, EndOf(i, length))]
  BY <1>1 DEF Parts, Count, EndOf
<1>3. ASSUME NEW i \in 1 .. c
      PROVE  /\ all[i] = Piece(n, EndOf(i - 1, length), EndOf(i, length))
             /\ Piece(n, EndOf(i - 1, length), EndOf(i, length)) \in Seq(AnyWord)
  <2> DEFINE a == EndOf(i - 1, length)
             b == EndOf(i, length)
             p == Piece(n, a, b)
             s == SubSeq(data, a + 1, b)
  <2>1. a \in Nat /\ b \in Nat /\ a < b /\ b <= length /\ a = (i - 1) * MAX_DATA_SIZE
    BY Chunks
  <2>2. all[i] = s
    BY <1>2, <2>1
  <2> HIDE DEF a, b
  <2>3. \A k \in a + 1 .. b : data[k] \in AnyWord
    BY <1>1, <2>1
  <2>4. /\ s \in Seq(AnyWord)
        /\ Len(s) = IF a + 1 <= b THEN b - (a + 1) + 1 ELSE 0
        /\ \A k \in 1 .. b - (a + 1) + 1 : s[k] = data[(a + 1) + k - 1]
    BY <2>1, <2>3, SubSeqProperties
  <2>5. /\ p \in Seq(AnyWord) /\ Len(p) = b - a
        /\ \A k \in 1 .. b - a : p[k] = Data(n, a + k)
    <3>1. a <= b
      BY <2>1
    <3> QED
      BY <2>1, <3>1, EveryPiece, Zenon
  <2> HIDE DEF s, p
  <2>6. Len(s) = b - a
    BY <2>1, <2>4
  <2>7. ASSUME NEW k \in 1 .. b - a PROVE s[k] = p[k]
    <3>1. k \in 1 .. b - (a + 1) + 1 /\ (a + 1) + k - 1 = a + k /\ a + k \in 1 .. length
      BY <2>1
    <3> QED
      BY <1>1, <2>4, <2>5, <3>1
  <2>8. s = p
    BY <2>4, <2>5, <2>6, <2>7, SeqEqual
  <2> QED
    BY <2>2, <2>5, <2>8 DEF a, b, p
<1>4. c \in Nat
  BY Chunks
<1>5. all \in [1 .. c -> Seq(AnyWord)]
  <2>1. all = [i \in 1 .. c |-> all[i]]
    BY <1>2
  <2> HIDE DEF all, c
  <2> QED
    BY <1>3, <2>1
<1> HIDE DEF all, c
<1>6. all \in Seq(Seq(AnyWord)) /\ Len(all) = c
  BY <1>4, <1>5, IsASeq
<1> QED
  BY <1>3, <1>6 DEF all, c, data

(* One part more. *)
LEMMA FirstNext ==
  ASSUME NEW S, NEW s \in Seq(S), NEW k \in Nat, k + 1 <= Len(s)
  PROVE  /\ SubSeq(s, 1, k + 1) = Append(SubSeq(s, 1, k), s[k + 1])
         /\ SubSeq(s, 1, k) \in Seq(S) /\ s[k + 1] \in S
<1> DEFINE a == SubSeq(s, 1, k)
           b == SubSeq(s, 1, k + 1)
<1>1. Len(s) \in Nat /\ k \in 0 .. Len(s) /\ k + 1 \in 0 .. Len(s) /\ s[k + 1] \in S
  OBVIOUS
<1>2. a \in Seq(S) /\ Len(a) = k /\ \A i \in 1 .. k : a[i] = s[i]
  BY <1>1, SplitAt
<1>3. b \in Seq(S) /\ Len(b) = k + 1 /\ \A i \in 1 .. k + 1 : b[i] = s[i]
  BY <1>1, SplitAt
<1> HIDE DEF a, b
<1>4. /\ Append(a, s[k + 1]) \in Seq(S) /\ Len(Append(a, s[k + 1])) = Len(a) + 1
      /\ \A i \in 1 .. Len(a) : Append(a, s[k + 1])[i] = a[i]
      /\ Append(a, s[k + 1])[Len(a) + 1] = s[k + 1]
  BY <1>1, <1>2, AppendProperties
<1> DEFINE c == Append(a, s[k + 1])
<1> HIDE DEF c
<1>5. /\ c \in Seq(S) /\ Len(c) = k + 1 /\ \A i \in 1 .. k + 1 : c[i] = s[i]
  BY <1>2, <1>4 DEF c
<1>6. b = c
  <2>1. Len(b) = Len(c) /\ \A i \in 1 .. Len(b) : b[i] = c[i]
    BY <1>3, <1>5
  <2> QED
    BY <1>3, <1>5, <2>1, SeqEqual
<1> QED
  BY <1>1, <1>2, <1>6 DEF a, b, c

LEMMA FirstAll ==
  ASSUME NEW S, NEW s \in Seq(S)
  PROVE  SubSeq(s, 1, Len(s)) = s /\ SubSeq(s, 1, 0) = <<>>
<1>1. Len(s) \in 0 .. Len(s) /\ 0 \in 0 .. Len(s) /\ Len(s) \in Nat
  BY LenProperties
<1>2. /\ SubSeq(s, 1, Len(s)) \in Seq(S) /\ Len(SubSeq(s, 1, Len(s))) = Len(s)
      /\ \A i \in 1 .. Len(s) : SubSeq(s, 1, Len(s))[i] = s[i]
  BY <1>1, SplitAt
<1>3. SubSeq(s, 1, 0) \in Seq(S) /\ Len(SubSeq(s, 1, 0)) = 0
  BY <1>1, SplitAt
<1>4. SubSeq(s, 1, Len(s)) = s
  BY <1>2, SeqEqual
<1>5. SubSeq(s, 1, 0) = <<>>
  BY <1>3, EmptySeq
<1> QED
  BY <1>4, <1>5

(* A head, the words behind it and the rest. *)
Begin(s, k) == SubSeq(s, 1, k)
Between(s, h, k) == SubSeq(s, h + 1, h + k)

LEMMA Middle ==
  ASSUME NEW S, NEW s \in Seq(S), NEW h \in Nat, NEW k \in Nat, h + k <= Len(s)
  PROVE  /\ Between(s, h, k) \in Seq(S)
         /\ Len(Between(s, h, k)) = k
         /\ \A i \in 1 .. k : Between(s, h, k)[i] = s[h + i]
         /\ Begin(s, h) \in Seq(S) /\ Drop(s, h + k) \in Seq(S)
         /\ s = Begin(s, h) \o (Between(s, h, k) \o Drop(s, h + k))
<1> DEFINE d == SubSeq(s, h + 1, h + k)
           r == Drop(s, h)
           e == SubSeq(r, 1, k)
           x == Drop(s, h + k)
           y == Drop(r, k)
<1>1. Len(s) \in Nat /\ h \in 0 .. Len(s) /\ h + k \in 0 .. Len(s)
      /\ \A i \in h + 1 .. h + k : s[i] \in S
  OBVIOUS
<1>2. /\ d \in Seq(S)
      /\ Len(d) = IF h + 1 <= h + k THEN h + k - (h + 1) + 1 ELSE 0
      /\ \A i \in 1 .. h + k - (h + 1) + 1 : d[i] = s[(h + 1) + i - 1]
  <2>1. h + 1 \in Int /\ h + k \in Int
    OBVIOUS
  <2> QED
    BY <1>1, <2>1, SubSeqProperties
<1> HIDE DEF d
<1>3. Len(d) = k /\ \A i \in 1 .. k : d[i] = s[h + i]
  <2>1. \A i \in 1 .. k : i \in 1 .. h + k - (h + 1) + 1 /\ (h + 1) + i - 1 = h + i
    OBVIOUS
  <2>2. (IF h + 1 <= h + k THEN h + k - (h + 1) + 1 ELSE 0) = k
    OBVIOUS
  <2> QED
    BY <1>2, <2>1, <2>2
<1>4. /\ r \in Seq(S) /\ Len(r) = Len(s) - h
      /\ \A i \in 1 .. Len(s) - h : r[i] = s[i + h]
      /\ SubSeq(s, 1, h) \in Seq(S) /\ s = SubSeq(s, 1, h) \o r
  BY <1>1, DropProperties, SplitAt
<1>5. /\ x \in Seq(S) /\ Len(x) = Len(s) - (h + k)
      /\ \A i \in 1 .. Len(s) - (h + k) : x[i] = s[i + (h + k)]
  BY <1>1, DropProperties
<1> HIDE DEF r, x
<1>6. k \in 0 .. Len(r)
  BY <1>1, <1>4
<1>7. /\ e \in Seq(S) /\ Len(e) = k
      /\ \A i \in 1 .. k : e[i] = r[i]
      /\ r = e \o y
  BY <1>4, <1>6, SplitAt
<1>8. /\ y \in Seq(S) /\ Len(y) = Len(r) - k
      /\ \A i \in 1 .. Len(r) - k : y[i] = r[i + k]
  BY <1>4, <1>6, DropProperties
<1> HIDE DEF e, y
<1>9. d = e
  <2>1. \A i \in 1 .. k : i \in 1 .. Len(s) - h /\ i + h = h + i
    BY <1>1
  <2>2. Len(d) = Len(e) /\ \A i \in 1 .. Len(d) : d[i] = e[i]
    BY <1>3, <1>4, <1>7, <2>1
  <2> QED
    BY <1>2, <1>7, <2>2, SeqEqual
<1>10. x = y
  <2>1. Len(x) = Len(y)
    BY <1>1, <1>4, <1>5, <1>8
  <2>2. ASSUME NEW i \in 1 .. Len(x) PROVE x[i] = y[i]
    <3>1. i \in 1 .. Len(s) - (h + k) /\ i \in 1 .. Len(r) - k
          /\ i + k \in 1 .. Len(s) - h /\ (i + k) + h = i + (h + k)
      BY <1>1, <1>4, <1>5
    <3> QED
      BY <1>4, <1>5, <1>8, <3>1
  <2> QED
    BY <1>5, <1>8, <2>1, <2>2, SeqEqual
<1> QED
  BY <1>2, <1>3, <1>4, <1>5, <1>7, <1>9, <1>10
  DEF d, x, r, e, y, Begin, Between

(* The parts of a block joined. *)
LEMMA FlattenParts ==
  ASSUME NEW n \in Nat, NEW length \in Nat \ {0}
  PROVE  LET all == Parts(DataOf(n, length))
         IN /\ FlattenSeq(all) = DataOf(n, length)
            /\ \A j \in 0 .. Count(length) :
                 FlattenSeq(SubSeq(all, 1, j)) = Piece(n, 0, EndOf(j, length))
<1> DEFINE all == Parts(DataOf(n, length))
           c == Count(length)
           E(i) == EndOf(i, length)
           Holds(j) == j <= c => FlattenSeq(SubSeq(all, 1, j)) = Piece(n, 0, E(j))
           Good == {j \in Nat : Holds(j)}
<1>1. /\ all \in Seq(Seq(AnyWord)) /\ Len(all) = c
      /\ \A i \in 1 .. c : all[i] = Piece(n, E(i - 1), E(i))
  BY PartsAre
<1>2. /\ c \in Nat \ {0} /\ E(0) = 0 /\ E(c) = length
      /\ \A i \in 1 .. c : /\ E(i - 1) \in 0 .. length - 1
                           /\ E(i) \in E(i - 1) + 1 .. length
  BY Chunks
<1> HIDE DEF all, c, E
<1>3. 0 \in Good
  <2>1. SubSeq(all, 1, 0) = <<>>
    BY <1>1, FirstAll
  <2>2. Piece(n, 0, 0) = <<>>
    BY WholePiece
  <2> QED
    BY <1>2, <2>1, <2>2, FlattenEmpty
<1>4. ASSUME NEW j \in Nat, j \in Good PROVE j + 1 \in Good
  <2> SUFFICES ASSUME j + 1 <= c
               PROVE  FlattenSeq(SubSeq(all, 1, j + 1)) = Piece(n, 0, E(j + 1))
    OBVIOUS
  <2>1. FlattenSeq(SubSeq(all, 1, j)) = Piece(n, 0, E(j))
    BY <1>2, <1>4
  <2>2. /\ SubSeq(all, 1, j + 1) = Append(SubSeq(all, 1, j), all[j + 1])
        /\ SubSeq(all, 1, j) \in Seq(Seq(AnyWord)) /\ all[j + 1] \in Seq(AnyWord)
    BY <1>1, FirstNext
  <2>3. FlattenSeq(SubSeq(all, 1, j + 1)) = Piece(n, 0, E(j)) \o all[j + 1]
    BY <2>1, <2>2, FlattenAppend
  <2>4. j + 1 \in 1 .. c /\ (j + 1) - 1 = j
    BY <1>2
  <2>5. all[j + 1] = Piece(n, E(j), E(j + 1))
    BY <1>1, <2>4
  <2>6. E(j) \in Nat /\ E(j + 1) \in Nat /\ E(j) <= E(j + 1) /\ 0 <= E(j) /\ 0 \in Nat
    BY <1>2, <2>4
  <2>7. Piece(n, 0, E(j)) \o Piece(n, E(j), E(j + 1)) = Piece(n, 0, E(j + 1))
    BY <2>6, PiecesJoin
  <2> QED
    BY <2>3, <2>5, <2>7
<1>5. \A j \in 0 .. c : FlattenSeq(SubSeq(all, 1, j)) = Piece(n, 0, E(j))
  <2>1. Nat \subseteq Good
    <3> HIDE DEF Good
    <3> QED
      BY <1>3, <1>4, NaturalsFromZero
  <2> QED
    BY <2>1
<1>6. FlattenSeq(all) = DataOf(n, length)
  <2>1. SubSeq(all, 1, c) = all
    BY <1>1, FirstAll
  <2>2. c \in 0 .. c
    BY <1>2
  <2>3. FlattenSeq(all) = Piece(n, 0, length)
    BY <1>2, <1>5, <2>1, <2>2
  <2> QED
    BY <2>3, WholePiece
<1> QED
  BY <1>5, <1>6 DEF all, c, E

LEMMA JoinSix ==
  ASSUME NEW S, NEW a \in S, NEW b \in S, NEW c \in S, NEW d \in S,
         NEW e \in S, NEW f \in S
  PROVE  <<a, b>> \o <<c, d, e, f>> = <<a, b, c, d, e, f>>
<1> DEFINE x == <<a, b>>
           y == <<c, d, e, f>>
           z == <<a, b, c, d, e, f>>
<1>1. x \in Seq(S) /\ Len(x) = 2 /\ x[1] = a /\ x[2] = b
  OBVIOUS
<1>2. /\ y \in Seq(S) /\ Len(y) = 4
      /\ y[1] = c /\ y[2] = d /\ y[3] = e /\ y[4] = f
  OBVIOUS
<1>3. /\ z \in Seq(S) /\ Len(z) = 6
      /\ z[1] = a /\ z[2] = b /\ z[3] = c /\ z[4] = d /\ z[5] = e /\ z[6] = f
  OBVIOUS
<1> HIDE DEF x, y, z
<1>4. /\ x \o y \in Seq(S) /\ Len(x \o y) = Len(x) + Len(y)
      /\ \A i \in 1 .. Len(x) + Len(y) :
           (x \o y)[i] = IF i <= Len(x) THEN x[i] ELSE y[i - Len(x)]
  BY <1>1, <1>2, ConcatProperties
<1> DEFINE u == x \o y
<1> HIDE DEF u
<1>5. /\ u[1] = x[1] /\ u[2] = x[2]
      /\ u[3] = y[1] /\ u[4] = y[2] /\ u[5] = y[3] /\ u[6] = y[4]
  BY <1>1, <1>2, <1>4 DEF u
<1>6. \A i \in 1 .. 6 : u[i] = z[i]
  <2>1. \A i \in 1 .. 6 : i = 1 \/ i = 2 \/ i = 3 \/ i = 4 \/ i = 5 \/ i = 6
    OBVIOUS
  <2> QED
    BY <1>1, <1>2, <1>3, <1>5, <2>1
<1>7. u \in Seq(S) /\ Len(u) = Len(z)
  BY <1>1, <1>2, <1>3, <1>4 DEF u
<1>8. u = z
  BY <1>3, <1>6, <1>7, SeqEqual
<1> QED
  BY <1>8 DEF u, x, y, z

(* The words of a packet. *)
LEMMA PacketIs ==
  ASSUME NEW all \in Seq(Seq(AnyWord)), NEW number \in Nat, number + 1 <= Len(all),
         NEW identifier \in Nat
  PROVE  LET p == toByteArray(identifier, number, all)
             part == all[number + 1]
         IN /\ p \in Seq(AnyWord)
            /\ part \in Seq(AnyWord)
            /\ Len(p) = 6 + Len(part)
            /\ p[1] = Word("sig", 0) /\ p[2] = Word("sig", 1)
            /\ p[3] = Word("int", identifier)
            /\ p[4] = Word("int", number)
            /\ p[5] = Word("int", Len(all))
            /\ p[6] = Word("int", Len(part))
            /\ \A i \in 1 .. Len(part) : p[6 + i] = part[i]
            /\ DataIn(p) = DataIn(part)
            /\ Rising(part) => Rising(p)
<1> DEFINE part == all[number + 1]
           h == <<Word("sig", 0), Word("sig", 1),
                  Word("int", identifier), Word("int", number),
                  Word("int", Len(all)), Word("int", Len(part))>>
           p == h \o part
<1>1. number + 1 \in 1 .. Len(all) /\ Len(all) \in Nat
  OBVIOUS
<1>2. part \in Seq(AnyWord) /\ Len(part) \in Nat
  BY <1>1
<1>3. toByteArray(identifier, number, all) = p
  <2> DEFINE l == Len(all)
             m == Len(part)
  <2>0. /\ Word("sig", 0) \in AnyWord /\ Word("sig", 1) \in AnyWord
        /\ Word("int", identifier) \in AnyWord /\ Word("int", number) \in AnyWord
        /\ Word("int", l) \in AnyWord /\ Word("int", m) \in AnyWord
    <3>1. l \in Nat /\ m \in Nat
      BY <1>1, <1>2
    <3> HIDE DEF l, m
    <3> QED
      BY <3>1 DEF Word, AnyWord
  <2> HIDE DEF part
  <2>1. SIG \o <<Word("int", identifier), Word("int", number),
                 Word("int", Len(all)), Word("int", Len(part))>> = h
    BY <2>0, JoinSix DEF SIG
  <2>2. toByteArray(identifier, number, all) =
          (SIG \o <<Word("int", identifier), Word("int", number),
                    Word("int", Len(all)), Word("int", Len(part))>>) \o part
    BY DEF toByteArray, part
  <2> HIDE DEF h
  <2> QED
    BY <2>1, <2>2
<1>4. /\ h \in Seq(AnyWord) /\ Len(h) = 6
      /\ h[1] = Word("sig", 0) /\ h[2] = Word("sig", 1)
      /\ h[3] = Word("int", identifier) /\ h[4] = Word("int", number)
      /\ h[5] = Word("int", Len(all)) /\ h[6] = Word("int", Len(part))
  <2> DEFINE x == Len(all)
             y == Len(part)
  <2>1. x \in Nat /\ y \in Nat
    BY <1>1, <1>2
  <2> HIDE DEF x, y
  <2>2. /\ Word("sig", 0) \in AnyWord /\ Word("sig", 1) \in AnyWord
        /\ \A i \in Nat : Word("int", i) \in AnyWord
    BY DEF Word, AnyWord
  <2>3. h = <<Word("sig", 0), Word("sig", 1), Word("int", identifier),
              Word("int", number), Word("int", x), Word("int", y)>>
    BY DEF x, y
  <2> HIDE DEF h
  <2> QED
    BY <2>1, <2>2, <2>3 DEF x, y
<1>5. DataIn(h) = {}
  <2>1. \A i \in 1 .. 6 : h[i].kind # "data"
    <3> HIDE DEF h, part
    <3>1. \A i \in 1 .. 6 : i = 1 \/ i = 2 \/ i = 3 \/ i = 4 \/ i = 5 \/ i = 6
      OBVIOUS
    <3> QED
      BY <1>4, <3>1 DEF Word
  <2> HIDE DEF h
  <2>2. SUFFICES ASSUME NEW w \in DataIn(h) PROVE FALSE
    OBVIOUS
  <2>3. PICK i \in 1 .. Len(h) : h[i] = w
    BY <1>4, DataIndex
  <2>4. w.kind = "data"
    BY <1>4, DataIndex
  <2> QED
    BY <1>4, <2>1, <2>3, <2>4
<1>6. Rising(h)
  <2> HIDE DEF h
  <2>1. \A i \in 1 .. Len(h) : h[i].kind # "data"
    BY <1>4, <1>5, DataIndex
  <2> QED
    BY <2>1 DEF Rising
<1> HIDE DEF h, part
<1>7. /\ p \in Seq(AnyWord) /\ Len(p) = Len(h) + Len(part)
      /\ \A i \in 1 .. Len(h) + Len(part) :
           p[i] = IF i <= Len(h) THEN h[i] ELSE part[i - Len(h)]
  BY <1>2, <1>4, ConcatProperties
<1>8. DataIn(p) = DataIn(part)
  <2>1. DataIn(h \o part) = DataIn(h) \cup DataIn(part)
    BY <1>2, <1>4, DataConcat
  <2> QED
    BY <1>5, <2>1
<1>9. Rising(part) => Rising(p)
  <2>1. Before(h, part)
    BY <1>5 DEF Before
  <2> QED
    BY <1>2, <1>4, <1>6, <2>1, RisingConcat
<1> HIDE DEF p
<1>10. \A i \in 1 .. 6 : p[i] = h[i]
  BY <1>2, <1>4, <1>7
<1>11. \A i \in 1 .. Len(part) : p[6 + i] = part[i]
  <2>1. \A i \in 1 .. Len(part) : /\ 6 + i \in 1 .. 6 + Len(part) /\ ~ 6 + i <= 6
                                  /\ (6 + i) - 6 = i
    BY <1>2
  <2> QED
    BY <1>4, <1>7, <2>1
<1>12. p[1] = h[1] /\ p[2] = h[2] /\ p[3] = h[3] /\ p[4] = h[4] /\ p[5] = h[5]
       /\ p[6] = h[6] /\ Len(p) = 6 + Len(part)
  BY <1>4, <1>7, <1>10
<1>13. /\ p[1] = Word("sig", 0) /\ p[2] = Word("sig", 1)
       /\ p[3] = Word("int", identifier) /\ p[4] = Word("int", number)
       /\ p[5] = Word("int", Len(all)) /\ p[6] = Word("int", Len(part))
  BY <1>4, <1>12, Zenon
<1> QED
  BY <1>2, <1>3, <1>7, <1>8, <1>9, <1>11, <1>12, <1>13, Zenon DEF part

LEMMA PacketData ==
  \A all \in Seq(Seq(AnyWord)), number, identifier \in Nat : number + 1 <= Len(all) =>
    /\ toByteArray(identifier, number, all) \in Seq(AnyWord)
    /\ DataIn(toByteArray(identifier, number, all)) = DataIn(all[number + 1])
    /\ Rising(all[number + 1]) => Rising(toByteArray(identifier, number, all))
<1> SUFFICES ASSUME NEW all \in Seq(Seq(AnyWord)), NEW number \in Nat, NEW identifier \in Nat,
                    number + 1 <= Len(all)
             PROVE  /\ toByteArray(identifier, number, all) \in Seq(AnyWord)
                    /\ DataIn(toByteArray(identifier, number, all)) = DataIn(all[number + 1])
                    /\ Rising(all[number + 1]) => Rising(toByteArray(identifier, number, all))
  OBVIOUS
<1> QED
  BY PacketIs

(* A packet of a block. *)
LEMMA PacketOfBlock ==
  ASSUME NEW n \in Nat, NEW length \in Nat \ {0}, NEW identifier \in Nat,
         NEW number \in Nat, number + 1 <= Count(length)
  PROVE  LET p == toByteArray(identifier, number, Parts(DataOf(n, length)))
         IN /\ p \in Seq(AnyWord) /\ Rising(p)
            /\ EndOf(number, length) \in Nat /\ EndOf(number + 1, length) <= length
            /\ EndOf(number + 1, length) \in Nat
            /\ \A w \in DataIn(p) :
                 /\ w.block = n
                 /\ w.value \in EndOf(number, length) + 1 .. EndOf(number + 1, length)
<1> DEFINE all == Parts(DataOf(n, length))
           c == Count(length)
           E(i) == EndOf(i, length)
           p == toByteArray(identifier, number, all)
<1>1. /\ all \in Seq(Seq(AnyWord)) /\ Len(all) = c
      /\ \A i \in 1 .. c : all[i] = Piece(n, E(i - 1), E(i))
  BY PartsAre
<1>2. /\ c \in Nat \ {0}
      /\ \A i \in 1 .. c : /\ E(i - 1) \in 0 .. length - 1
                           /\ E(i) \in E(i - 1) + 1 .. length
  BY Chunks
<1>3. number + 1 \in 1 .. c /\ (number + 1) - 1 = number
  BY <1>2
<1> HIDE DEF all, c, E
<1>4. all[number + 1] = Piece(n, E(number), E(number + 1))
  BY <1>1, <1>3
<1>5. E(number) \in Nat /\ E(number + 1) \in Nat /\ E(number) <= E(number + 1)
      /\ E(number + 1) <= length
  BY <1>2, <1>3
<1>6. /\ Rising(all[number + 1])
      /\ \A w \in DataIn(all[number + 1]) :
           w.block = n /\ w.value \in E(number) + 1 .. E(number + 1)
  <2> DEFINE a == E(number)
             b == E(number + 1)
  <2>1. a \in Nat /\ b \in Nat /\ a <= b /\ all[number + 1] = Piece(n, a, b)
    BY <1>4, <1>5
  <2> HIDE DEF a, b
  <2>2. /\ Rising(Piece(n, a, b))
        /\ \A w \in DataIn(Piece(n, a, b)) : w.block = n /\ w.value \in a + 1 .. b
    BY <2>1, PieceIs
  <2> QED
    BY <2>1, <2>2 DEF a, b
<1>7. number + 1 <= Len(all)
  BY <1>1, <1>3
<1>8. p \in Seq(AnyWord) /\ Rising(p) /\ DataIn(p) = DataIn(all[number + 1])
  <2>1. /\ p \in Seq(AnyWord) /\ DataIn(p) = DataIn(all[number + 1])
        /\ Rising(all[number + 1]) => Rising(p)
    <3>1. all \in Seq(Seq(AnyWord))
      BY <1>1
    <3>2. /\ toByteArray(identifier, number, all) \in Seq(AnyWord)
          /\ DataIn(toByteArray(identifier, number, all)) = DataIn(all[number + 1])
          /\ Rising(all[number + 1]) => Rising(toByteArray(identifier, number, all))
      BY <1>7, <3>1, PacketData
    <3> QED
      BY <3>2
  <2> QED
    BY <1>6, <2>1
<1> HIDE DEF p
<1> QED
  BY <1>5, <1>6, <1>8 DEF p, all, E

(* All packets of a block. *)
PacketList(identifier, all) ==
  [i \in 1 .. Len(all) |-> toByteArray(identifier, i - 1, all)]

LEMMA PacketListIs ==
  ASSUME NEW n \in Nat, NEW length \in Nat \ {0}, NEW identifier \in Nat
  PROVE  LET all == Parts(DataOf(n, length))
         IN /\ PacketList(identifier, all) \in Seq(Seq(AnyWord))
            /\ Len(PacketList(identifier, all)) = Count(length)
            /\ \A i \in 1 .. Count(length) :
                 PacketList(identifier, all)[i] = toByteArray(identifier, i - 1, all)
<1> DEFINE all == Parts(DataOf(n, length))
           c == Count(length)
           list == PacketList(identifier, all)
<1>1. Len(all) = c
  BY PartsAre
<1>2. c \in Nat
  BY Chunks
<1>3. ASSUME NEW i \in 1 .. c PROVE toByteArray(identifier, i - 1, all) \in Seq(AnyWord)
  <2> DEFINE j == i - 1
  <2>1. j \in Nat /\ j + 1 <= c
    BY <1>2
  <2> HIDE DEF j
  <2>2. toByteArray(identifier, j, all) \in Seq(AnyWord)
    BY <2>1, PacketOfBlock
  <2> QED
    BY <2>2 DEF j
<1> HIDE DEF c, all
<1>4. list = [i \in 1 .. c |-> toByteArray(identifier, i - 1, all)]
  BY <1>1 DEF PacketList
<1> HIDE DEF list
<1>5. list \in [1 .. c -> Seq(AnyWord)]
  BY <1>3, <1>4
<1>6. list \in Seq(Seq(AnyWord)) /\ Len(list) = c
  BY <1>2, <1>5, IsASeq
<1> QED
  BY <1>4, <1>6 DEF c, all, list

LEMMA PacketsRise ==
  ASSUME NEW n \in Nat, NEW length \in Nat \ {0}, NEW identifier \in Nat
  PROVE  LET p == Packets(identifier, Parts(DataOf(n, length)))
         IN /\ p \in Seq(AnyWord) /\ Rising(p)
            /\ \A w \in DataIn(p) : w.block = n /\ w.value \in 1 .. length
<1> DEFINE all == Parts(DataOf(n, length))
           c == Count(length)
           E(i) == EndOf(i, length)
           list == PacketList(identifier, all)
           F(j) == FlattenSeq(SubSeq(list, 1, j))
           Upto(j) == /\ F(j) \in Seq(AnyWord) /\ Rising(F(j))
                      /\ \A w \in DataIn(F(j)) : w.block = n /\ w.value \in 1 .. E(j)
           Good == {j \in Nat : j <= c => Upto(j)}
<1>1. /\ list \in Seq(Seq(AnyWord)) /\ Len(list) = c
      /\ \A i \in 1 .. c : list[i] = toByteArray(identifier, i - 1, all)
  BY PacketListIs
<1>2. /\ c \in Nat \ {0} /\ E(0) = 0 /\ E(c) = length
      /\ \A i \in 1 .. c : /\ E(i - 1) \in 0 .. length - 1
                           /\ E(i) \in E(i - 1) + 1 .. length
  BY Chunks
<1>3. ASSUME NEW j \in Nat, j + 1 <= c
      PROVE  /\ toByteArray(identifier, j, all) \in Seq(AnyWord)
             /\ Rising(toByteArray(identifier, j, all))
             /\ \A w \in DataIn(toByteArray(identifier, j, all)) :
                  w.block = n /\ w.value \in E(j) + 1 .. E(j + 1)
  BY <1>3, PacketOfBlock
<1>4. Packets(identifier, all) = FlattenSeq(list)
  BY DEF Packets, PacketList
<1> HIDE DEF all, c, E, list
<1>5. 0 \in Good
  <2>1. SubSeq(list, 1, 0) = <<>>
    BY <1>1, FirstAll
  <2>2. F(0) = <<>>
    BY <2>1, FlattenEmpty
  <2>3. Upto(0)
    BY <2>2, EmptyFlow
  <2> HIDE DEF Upto
  <2> QED
    BY <2>3
<1>6. ASSUME NEW j \in Nat, j \in Good PROVE j + 1 \in Good
  <2> SUFFICES ASSUME j + 1 <= c PROVE Upto(j + 1)
    <3> HIDE DEF Upto
    <3> QED
      OBVIOUS
  <2> DEFINE p == toByteArray(identifier, j, all)
  <2>1. Upto(j)
    <3> HIDE DEF Upto
    <3> QED
      BY <1>2, <1>6
  <2>2. /\ SubSeq(list, 1, j + 1) = Append(SubSeq(list, 1, j), list[j + 1])
        /\ SubSeq(list, 1, j) \in Seq(Seq(AnyWord)) /\ list[j + 1] \in Seq(AnyWord)
    BY <1>1, FirstNext
  <2>3. j + 1 \in 1 .. c /\ (j + 1) - 1 = j
    BY <1>2
  <2>4. list[j + 1] = p
    BY <1>1, <2>3
  <2>5. /\ p \in Seq(AnyWord) /\ Rising(p)
        /\ \A w \in DataIn(p) : w.block = n /\ w.value \in E(j) + 1 .. E(j + 1)
    BY <1>3
  <2>6. E(j) \in Nat /\ E(j + 1) \in Nat /\ E(j) <= E(j + 1)
    BY <1>2, <2>3
  <2>7. F(j + 1) = F(j) \o p
    BY <2>2, <2>4, FlattenAppend
  <2> DEFINE f == F(j)
             g == F(j + 1)
  <2>8. /\ f \in Seq(AnyWord) /\ Rising(f)
        /\ \A w \in DataIn(f) : w.block = n /\ w.value \in 1 .. E(j)
    BY <2>1
  <2>9. g = f \o p
    BY <2>7
  <2> HIDE DEF f, g, p
  <2>10. Before(f, p)
    BY <2>5, <2>6, <2>8 DEF Before, Earlier
  <2>11. g \in Seq(AnyWord) /\ Rising(g) /\ DataIn(g) = DataIn(f) \cup DataIn(p)
    BY <2>5, <2>8, <2>9, <2>10, RisingConcat, DataConcat, ConcatProperties
  <2>12. \A w \in DataIn(g) : w.block = n /\ w.value \in 1 .. E(j + 1)
    BY <2>5, <2>6, <2>8, <2>11
  <2> QED
    BY <2>11, <2>12 DEF g
<1>7. Upto(c)
  <2>1. Nat \subseteq Good
    <3> HIDE DEF Good
    <3> QED
      BY <1>5, <1>6, NaturalsFromZero
  <2> HIDE DEF Upto
  <2> QED
    BY <1>2, <2>1
<1>8. F(c) = FlattenSeq(list)
  BY <1>1, FirstAll
<1> QED
  BY <1>2, <1>4, <1>7, <1>8 DEF all

LEMMA BeforeConcat ==
  ASSUME NEW s \in Seq(AnyWord), NEW t \in Seq(AnyWord), NEW u
  PROVE  /\ Before(s \o t, u) <=> Before(s, u) /\ Before(t, u)
         /\ Before(u, s \o t) <=> Before(u, s) /\ Before(u, t)
<1>1. DataIn(s \o t) = DataIn(s) \cup DataIn(t)
  BY DataConcat
<1> QED
  BY <1>1 DEF Before

(* What is left of the words when some are taken out of the middle. *)
LEMMA Excerpts ==
  ASSUME NEW a \in Seq(AnyWord), NEW f \in Seq(AnyWord), NEW d \in Seq(AnyWord),
         NEW b \in Seq(AnyWord), NEW t \in Seq(AnyWord),
         Rising(a \o ((f \o (d \o b)) \o t))
  PROVE  /\ Rising(a \o ((d \o b) \o t))
         /\ Rising((a \o d) \o (b \o t))
         /\ Rising(d \o (b \o t))
         /\ Rising(b \o t)
         /\ Before(a \o d, b \o t)
         /\ Before(d, b \o t)
         /\ DataIn(a \o ((f \o (d \o b)) \o t)) =
              DataIn(a) \cup DataIn(f) \cup DataIn(d) \cup DataIn(b) \cup DataIn(t)
         /\ DataIn(a \o ((d \o b) \o t)) =
              DataIn(a) \cup DataIn(d) \cup DataIn(b) \cup DataIn(t)
         /\ DataIn((a \o d) \o (b \o t)) =
              DataIn(a) \cup DataIn(d) \cup DataIn(b) \cup DataIn(t)
         /\ DataIn(b \o t) = DataIn(b) \cup DataIn(t)
         /\ DataIn(d \o (b \o t)) = DataIn(d) \cup DataIn(b) \cup DataIn(t)
<1> DEFINE db == d \o b
           fdb == f \o db
           fdbt == fdb \o t
           dbt == db \o t
           bt == b \o t
           ad == a \o d
<1>1. db \in Seq(AnyWord) /\ bt \in Seq(AnyWord) /\ ad \in Seq(AnyWord)
  BY ConcatProperties
<1>2. /\ DataIn(db) = DataIn(d) \cup DataIn(b)
      /\ Rising(db) <=> Rising(d) /\ Rising(b) /\ Before(d, b)
      /\ DataIn(bt) = DataIn(b) \cup DataIn(t)
      /\ Rising(bt) <=> Rising(b) /\ Rising(t) /\ Before(b, t)
      /\ DataIn(ad) = DataIn(a) \cup DataIn(d)
      /\ Rising(ad) <=> Rising(a) /\ Rising(d) /\ Before(a, d)
  BY DataConcat, RisingConcat
<1>3. \A u : /\ Before(db, u) <=> Before(d, u) /\ Before(b, u)
             /\ Before(u, db) <=> Before(u, d) /\ Before(u, b)
             /\ Before(u, bt) <=> Before(u, b) /\ Before(u, t)
             /\ Before(ad, u) <=> Before(a, u) /\ Before(d, u)
  BY BeforeConcat
<1> HIDE DEF db, bt, ad
<1>4. fdb \in Seq(AnyWord) /\ dbt \in Seq(AnyWord)
  BY <1>1, ConcatProperties
<1>5. /\ DataIn(fdb) = DataIn(f) \cup DataIn(db)
      /\ Rising(fdb) <=> Rising(f) /\ Rising(db) /\ Before(f, db)
      /\ DataIn(dbt) = DataIn(db) \cup DataIn(t)
      /\ Rising(dbt) <=> Rising(db) /\ Rising(t) /\ Before(db, t)
  BY <1>1, DataConcat, RisingConcat
<1>6. \A u : /\ Before(fdb, u) <=> Before(f, u) /\ Before(db, u)
             /\ Before(u, fdb) <=> Before(u, f) /\ Before(u, db)
             /\ Before(u, dbt) <=> Before(u, db) /\ Before(u, t)
  BY <1>1, BeforeConcat
<1> HIDE DEF fdb, dbt
<1>7. fdbt \in Seq(AnyWord)
  BY <1>4, ConcatProperties
<1>8. /\ DataIn(fdbt) = DataIn(fdb) \cup DataIn(t)
      /\ Rising(fdbt) <=> Rising(fdb) /\ Rising(t) /\ Before(fdb, t)
      /\ \A u : Before(u, fdbt) <=> Before(u, fdb) /\ Before(u, t)
  BY <1>4, DataConcat, RisingConcat, BeforeConcat
<1> HIDE DEF fdbt
<1>9. /\ DataIn(a \o fdbt) = DataIn(a) \cup DataIn(fdbt)
      /\ Rising(a \o fdbt) <=> Rising(a) /\ Rising(fdbt) /\ Before(a, fdbt)
      /\ Rising(a \o dbt) <=> Rising(a) /\ Rising(dbt) /\ Before(a, dbt)
      /\ DataIn(a \o dbt) = DataIn(a) \cup DataIn(dbt)
      /\ Rising(ad \o bt) <=> Rising(ad) /\ Rising(bt) /\ Before(ad, bt)
      /\ DataIn(ad \o bt) = DataIn(ad) \cup DataIn(bt)
      /\ Rising(d \o bt) <=> Rising(d) /\ Rising(bt) /\ Before(d, bt)
      /\ DataIn(d \o bt) = DataIn(d) \cup DataIn(bt)
  BY <1>1, <1>4, <1>7, DataConcat, RisingConcat
<1>10. Rising(a \o fdbt)
  BY DEF fdbt, fdb, db
<1>11. /\ Rising(a) /\ Rising(d) /\ Rising(b) /\ Rising(t)
       /\ Before(a, d) /\ Before(a, b) /\ Before(a, t)
       /\ Before(d, b) /\ Before(d, t) /\ Before(b, t)
  BY <1>2, <1>3, <1>5, <1>6, <1>8, <1>9, <1>10
<1>12. /\ Rising(a \o dbt) /\ Rising(ad \o bt) /\ Rising(d \o bt) /\ Rising(bt)
       /\ Before(ad, bt) /\ Before(d, bt)
  BY <1>2, <1>3, <1>5, <1>6, <1>9, <1>11
<1>13. /\ DataIn(a \o fdbt) =
              DataIn(a) \cup DataIn(f) \cup DataIn(d) \cup DataIn(b) \cup DataIn(t)
       /\ DataIn(a \o dbt) =
              DataIn(a) \cup DataIn(d) \cup DataIn(b) \cup DataIn(t)
       /\ DataIn(ad \o bt) =
              DataIn(a) \cup DataIn(d) \cup DataIn(b) \cup DataIn(t)
       /\ DataIn(bt) = DataIn(b) \cup DataIn(t)
       /\ DataIn(d \o bt) = DataIn(d) \cup DataIn(b) \cup DataIn(t)
  BY <1>2, <1>5, <1>8, <1>9
<1> QED
  BY <1>12, <1>13 DEF fdbt, fdb, db, dbt, ad, bt

----------------------------------------------------------------------------
(* Blocks come in order. *)

TypeInv ==
  /\ buffer \in Seq(AnyWord) /\ inTransit \in Seq(AnyWord)
  /\ parts \in Seq(Seq(AnyWord))
  /\ written \in Seq(Nat \ {0}) /\ delivered \in Seq(Nat)
  /\ sendIdentifier \in Nat \cup {BAD_IDENTIFIER}
  /\ num \in Nat
  /\ \/ outgoing = <<>>
     \/ /\ written # <<>>
        /\ outgoing = Parts(DataOf(Len(written), written[Len(written)]))
        /\ sendIdentifier \in Nat
  /\ ~ connected => inTransit = <<>>

(* What the receiver still has to hand on, as far as it has got it. *)
Flow == FlattenSeq(parts) \o (buffer \o inTransit)

(* The words are words of blocks that were written. *)
Known == \A w \in DataIn(Flow) : /\ w.block \in 1 .. Len(written)
                                 /\ w.value \in 1 .. written[w.block]

(* What comes is behind what has come, but for parts sent again. *)
Ahead ==
  \A i \in 1 .. Len(delivered) : delivered[i] # 0 =>
    /\ delivered[i] \in 1 .. Len(written)
    /\ \A w \in DataIn(Flow) :
         \/ w.block > delivered[i]
         \/ w.block = delivered[i] /\ delivered[i] \in resent

FlowInv == Rising(Flow) /\ Known /\ Ahead /\ InOrder

(* The signature found is the first one: what is in front of it is passed  *)
(* over.                                                                   *)
LEMMA TrimmedIs ==
  ASSUME buffer \in Seq(AnyWord)
  PROVE  /\ Trimmed \in Seq(AnyWord)
         /\ \E h \in 0 .. Len(buffer) :
              /\ Trimmed = Drop(buffer, h)
              /\ buffer = SubSeq(buffer, 1, h) \o Trimmed
              /\ SubSeq(buffer, 1, h) \in Seq(AnyWord)
              /\ h = 0 \/ h + 2 <= Len(buffer)
              /\ \A i \in 1 .. h : ~ (buffer[i] = Word("sig", 0) /\ buffer[i + 1] = Word("sig", 1))
<1> DEFINE at == {i \in 1 .. Len(buffer) - 1 : <<buffer[i], buffer[i + 1]>> = SIG}
<1>1. CASE at = {}
  <2>1. Trimmed = buffer
    BY <1>1 DEF Trimmed
  <2>2. Drop(buffer, 0) = buffer /\ buffer = SubSeq(buffer, 1, 0) \o buffer
        /\ SubSeq(buffer, 1, 0) \in Seq(AnyWord)
    <3>1. <<>> \o buffer = buffer /\ Len(<<>>) = 0
          /\ <<>> \in Seq(AnyWord) /\ SubSeq(buffer, 1, 0) = <<>>
      BY ConcatEmptySeq, EmptySeq, FirstAll
    <3>2. Drop(<<>> \o buffer, Len(<<>>)) = buffer
      BY <3>1, DropRest
    <3> QED
      BY <3>1, <3>2
  <2>3. 0 \in 0 .. Len(buffer)
    BY LenProperties
  <2>4. \A i \in 1 .. 0 : FALSE
    OBVIOUS
  <2> QED
    BY <2>1, <2>2, <2>3, <2>4
<1>2. CASE at # {}
  <2> DEFINE first == CHOOSE i \in at : \A j \in at : i <= j
  <2>1. at \subseteq Nat
    BY LenProperties
  <2>2. \E i \in at : \A j \in at : i <= j
    <3> HIDE DEF at
    <3> QED
      BY <1>2, <2>1, LeastNatural
  <2>3. first \in at /\ \A j \in at : first <= j
    <3> HIDE DEF at
    <3> QED
      BY <2>2
  <2>4. Trimmed = Drop(buffer, first - 1)
    BY <1>2 DEF Trimmed
  <2> DEFINE h == first - 1
  <2> HIDE DEF first
  <2>5. h \in 0 .. Len(buffer) /\ h + 1 <= Len(buffer) - 1 /\ h + 2 <= Len(buffer)
    BY <2>3, LenProperties
  <2>6. /\ Drop(buffer, h) \in Seq(AnyWord)
        /\ SubSeq(buffer, 1, h) \in Seq(AnyWord)
        /\ buffer = SubSeq(buffer, 1, h) \o Drop(buffer, h)
    BY <2>5, DropProperties, SplitAt
  <2>7. ASSUME NEW i \in 1 .. h, buffer[i] = Word("sig", 0), buffer[i + 1] = Word("sig", 1)
        PROVE  FALSE
    <3>1. i \in 1 .. Len(buffer) - 1 /\ ~ first <= i
      BY <2>3, <2>5, LenProperties
    <3>2. i \in at
      BY <2>7, <3>1 DEF SIG
    <3> HIDE DEF at
    <3> QED
      BY <2>3, <3>1, <3>2
  <2> HIDE DEF h
  <2> QED
    BY <2>4, <2>5, <2>6, <2>7 DEF h
<1> QED
  BY <1>1, <1>2

(* The receiver takes the parts it keeps and the data of a packet. *)
Delivers(kept, data) ==
  /\ parts' = <<>>
  /\ delivered' = Append(delivered, BlockOf(FlattenSeq(Append(kept, data))))

(* A tick passes over the words in front and takes those of the data, or   *)
(* waits.                                                                  *)
LEMMA TickTakes ==
  ASSUME TypeInv, timerEvent
  PROVE  /\ UNCHANGED <<inTransit, written, resent, sendIdentifier, num, outgoing,
                        connected, clientSends, leftovers, current>>
         /\ \E front, data \in Seq(AnyWord) :
              /\ buffer' \in Seq(AnyWord)
              /\ buffer = front \o (data \o buffer')
              /\ \/ data = <<>> /\ UNCHANGED <<parts, delivered>>
                 \/ parts' = <<>> /\ UNCHANGED delivered
                 \/ parts' = Append(parts, data) /\ UNCHANGED delivered
                 \/ parts' = Append(<<>>, data) /\ UNCHANGED delivered
                 \/ Delivers(parts, data)
                 \/ Delivers(<<>>, data)
<1> DEFINE Goal ==
      \E front, data \in Seq(AnyWord) :
              /\ buffer' \in Seq(AnyWord)
              /\ buffer = front \o (data \o buffer')
              /\ \/ data = <<>> /\ UNCHANGED <<parts, delivered>>
                 \/ parts' = <<>> /\ UNCHANGED delivered
                 \/ parts' = Append(parts, data) /\ UNCHANGED delivered
                 \/ parts' = Append(<<>>, data) /\ UNCHANGED delivered
                 \/ Delivers(parts, data)
                 \/ Delivers(<<>>, data)
<1> DEFINE bytes == Trimmed
<1>1. buffer \in Seq(AnyWord) /\ parts \in Seq(Seq(AnyWord))
  BY DEF TypeInv
<1>2. /\ proceed(bytes)
      /\ UNCHANGED <<inTransit, written, resent, sendIdentifier, num, outgoing,
                     connected, clientSends, leftovers, current>>
  BY DEF timerEvent, senderVars
<1>3. bytes \in Seq(AnyWord) /\ \E front \in Seq(AnyWord) : buffer = front \o bytes
  BY <1>1, TrimmedIs
<1>4. PICK front \in Seq(AnyWord) : buffer = front \o bytes
  BY <1>3
<1> SUFFICES Goal
  BY <1>2
<1> HIDE DEF bytes
<1>5. ASSUME NEW size, await(bytes, size) PROVE Goal
  <2>1. buffer' = bytes /\ UNCHANGED <<parts, delivered>>
    BY <1>5 DEF await
  <2>2. <<>> \in Seq(AnyWord) /\ <<>> \o bytes = bytes
    BY <1>3, EmptySeq, ConcatEmptySeq
  <2>3. buffer = front \o (<<>> \o buffer')
    BY <1>4, <2>1, <2>2
  <2>4. buffer' \in Seq(AnyWord)
    BY <1>3, <2>1
  <2> QED
    BY <2>1, <2>2, <2>3, <2>4
<1>6. ASSUME NEW identifier, NEW number, NEW count, NEW size \in Nat,
             takePacket(bytes, identifier, number, count, size)
      PROVE  Goal
  <2> DEFINE data == SubSeq(bytes, HeaderSize + 1, HeaderSize + size)
             head == SubSeq(bytes, 1, HeaderSize)
             rest == Drop(bytes, HeaderSize + size)
             kept == IF mIdentifier \notin {BAD_IDENTIFIER, identifier} THEN <<>> ELSE parts
  <2>1. Len(bytes) >= HeaderSize + size /\ buffer' = rest
        /\ proceedPacket(identifier, number, count, data)
    BY <1>6 DEF takePacket
  <2>2. HeaderSize \in Nat /\ HeaderSize + size <= Len(bytes)
    <3>1. Len(bytes) \in Nat
      BY <1>3, LenProperties
    <3> QED
      BY <2>1, <3>1 DEF HeaderSize
  <2>3. /\ data \in Seq(AnyWord) /\ head \in Seq(AnyWord) /\ rest \in Seq(AnyWord)
        /\ bytes = head \o (data \o rest)
    <3>0. bytes \in Seq(AnyWord)
      BY <1>3
    <3>1. Between(bytes, HeaderSize, size) \in Seq(AnyWord)
      BY <2>2, <3>0, Middle
    <3>2. Begin(bytes, HeaderSize) \in Seq(AnyWord)
      BY <2>2, <3>0, Middle
    <3>3. Drop(bytes, HeaderSize + size) \in Seq(AnyWord)
      BY <2>2, <3>0, Middle
    <3>4. bytes = Begin(bytes, HeaderSize)
                   \o (Between(bytes, HeaderSize, size)
                        \o Drop(bytes, HeaderSize + size))
      BY <2>2, <3>0, Middle
    <3> QED
      BY <3>1, <3>2, <3>3, <3>4 DEF Begin, Between
  <2>4. \/ parts' = <<>> /\ UNCHANGED delivered
        \/ parts' = Append(kept, data) /\ UNCHANGED delivered
        \/ Delivers(kept, data)
    <3> HIDE DEF data, rest
    <3> QED
      BY <2>1 DEF proceedPacket, Delivers
  <2> HIDE DEF data, head, rest
  <2>5. data \o rest \in Seq(AnyWord) /\ front \o head \in Seq(AnyWord)
    BY <2>3, ConcatProperties
  <2>6. buffer = (front \o head) \o (data \o rest)
    <3>1. (front \o head) \o (data \o rest) = front \o (head \o (data \o rest))
      BY <2>3, <2>5, WordsRegroup
    <3> QED
      BY <1>4, <2>3, <3>1
  <2>7. kept = <<>> \/ kept = parts
    OBVIOUS
  <2>8. \/ parts' = <<>> /\ UNCHANGED delivered
        \/ parts' = Append(parts, data) /\ UNCHANGED delivered
        \/ parts' = Append(<<>>, data) /\ UNCHANGED delivered
        \/ Delivers(parts, data)
        \/ Delivers(<<>>, data)
    <3> HIDE DEF kept
    <3> QED
      BY <2>4, <2>7
  <2> DEFINE pre == front \o head
  <2>9. pre \in Seq(AnyWord) /\ data \in Seq(AnyWord) /\ buffer' \in Seq(AnyWord)
        /\ buffer = pre \o (data \o buffer')
    BY <2>1, <2>3, <2>5, <2>6
  <2> HIDE DEF pre, kept
  <2> QED
    BY <2>8, <2>9
<1> HIDE DEF Goal
<1>7. CASE Len(bytes) < HeaderSize
  BY <1>2, <1>5, <1>7 DEF proceed
<1>8. CASE ~ Len(bytes) < HeaderSize
  <2>1. PICK identifier \in NumberOf(bytes[3]), number \in NumberOf(bytes[4]),
             count \in NumberOf(bytes[5]), size \in NumberOf(bytes[6]) :
          \/ await(bytes, size)
          \/ takePacket(bytes, identifier, number, count, size)
    BY <1>2, <1>8 DEF proceed
  <2>2. Len(bytes) \in Nat
    BY <1>3, LenProperties
  <2>3. bytes[6] \in AnyWord
    <3>1. 6 \in 1 .. Len(bytes)
      BY <1>8, <2>2 DEF HeaderSize
    <3> QED
      BY <1>3, <3>1
  <2>4. size \in Nat
    BY <2>3, LargeSocketAssumption DEF NumberOf, AnyWord
  <2> QED
    BY <1>5, <1>6, <2>1, <2>4
<1> QED
  BY <1>7, <1>8

LEMMA BlockFound ==
  ASSUME written \in Seq(Nat \ {0}), NEW s
  PROVE  \/ BlockOf(s) = 0
         \/ /\ BlockOf(s) \in 1 .. Len(written)
            /\ s = DataOf(BlockOf(s), written[BlockOf(s)])
<1> DEFINE n == {i \in 1 .. Len(written) : s = DataOf(i, written[i])}
<1>1. CASE n = {}
  BY <1>1 DEF BlockOf
<1>2. CASE n # {}
  <2>1. BlockOf(s) = CHOOSE i \in n : TRUE
    BY <1>2 DEF BlockOf
  <2>2. BlockOf(s) \in n
    <3> HIDE DEF n
    <3> QED
      BY <1>2, <2>1
  <2> QED
    BY <2>2
<1> QED
  BY <1>1, <1>2

LEMMA FlowType ==
  ASSUME TypeInv
  PROVE  /\ FlattenSeq(parts) \in Seq(AnyWord)
         /\ buffer \o inTransit \in Seq(AnyWord)
         /\ Flow \in Seq(AnyWord)
<1>1. FlattenSeq(parts) \in Seq(AnyWord)
  BY FlattenType DEF TypeInv
<1>2. buffer \o inTransit \in Seq(AnyWord)
  BY ConcatProperties DEF TypeInv
<1> QED
  BY <1>1, <1>2, ConcatProperties DEF Flow

(* Words are given up. *)
LEMMA FlowShrinks ==
  ASSUME FlowInv, UNCHANGED <<written, resent, delivered>>,
         Rising(Flow'), DataIn(Flow') \subseteq DataIn(Flow)
  PROVE  FlowInv'
<1>1. Known'
  <2> SUFFICES ASSUME NEW w \in DataIn(Flow')
               PROVE  w.block \in 1 .. Len(written) /\ w.value \in 1 .. written[w.block]
    BY DEF Known
  <2>1. w \in DataIn(Flow)
    OBVIOUS
  <2> QED
    BY <2>1 DEF FlowInv, Known
<1>2. Ahead'
  <2> SUFFICES ASSUME NEW i \in 1 .. Len(delivered), delivered[i] # 0
               PROVE  /\ delivered[i] \in 1 .. Len(written)
                      /\ \A w \in DataIn(Flow') :
                           \/ w.block > delivered[i]
                           \/ w.block = delivered[i] /\ delivered[i] \in resent
    BY DEF Ahead
  <2> QED
    BY DEF FlowInv, Ahead
<1> QED
  BY <1>1, <1>2 DEF FlowInv, InOrder

(* A block comes out. *)
LEMMA FlowDelivers ==
  ASSUME TypeInv, FlowInv, UNCHANGED <<written, resent>>, NEW s \in Seq(AnyWord),
         delivered' = Append(delivered, BlockOf(s)),
         Rising(Flow'), DataIn(Flow') \subseteq DataIn(Flow),
         DataIn(s) \subseteq DataIn(Flow),
         \A v \in DataIn(s), w \in DataIn(Flow') : Earlier(v, w)
  PROVE  FlowInv' /\ delivered' \in Seq(Nat)
<1> DEFINE n == BlockOf(s)
           m == Len(delivered) + 1
<1>1. \/ n = 0
      \/ n \in 1 .. Len(written) /\ s = DataOf(n, written[n])
  BY BlockFound DEF TypeInv
<1>2. /\ written \in Seq(Nat \ {0}) /\ Len(written) \in Nat
      /\ delivered \in Seq(Nat) /\ Len(delivered) \in Nat
  BY LenProperties DEF TypeInv
<1> HIDE DEF n
<1>3. n \in Nat
  BY <1>1, <1>2
<1>4. /\ delivered' \in Seq(Nat) /\ Len(delivered') = m
      /\ \A i \in 1 .. Len(delivered) : delivered'[i] = delivered[i]
      /\ delivered'[m] = n
      /\ DOMAIN delivered' = 1 .. m
  BY <1>2, <1>3 DEF n
<1>5. Known'
  <2> SUFFICES ASSUME NEW w \in DataIn(Flow')
               PROVE  w.block \in 1 .. Len(written) /\ w.value \in 1 .. written[w.block]
    BY DEF Known
  <2>1. w \in DataIn(Flow)
    OBVIOUS
  <2> QED
    BY <2>1 DEF FlowInv, Known
<1>6. ASSUME n # 0
      PROVE  /\ Data(n, 1) \in DataIn(Flow)
             /\ \A w \in DataIn(Flow') : w.block > n
  <2> DEFINE length == written[n]
  <2>1. n \in 1 .. Len(written) /\ s = DataOf(n, length)
    BY <1>1, <1>6
  <2>2. length \in Nat \ {0}
    BY <1>2, <2>1
  <2> HIDE DEF length
  <2>3. /\ Len(s) = length
        /\ \A k \in 1 .. length : s[k] = Data(n, k)
    BY <1>3, <2>1, <2>2, BlockIs
  <2>4. \A k \in 1 .. length : Data(n, k) \in DataIn(s)
    <3> SUFFICES ASSUME NEW k \in 1 .. length PROVE Data(n, k) \in DataIn(s)
      OBVIOUS
    <3>1. s[k] = Data(n, k) /\ s[k].kind = "data"
      BY <2>3 DEF Data
    <3> QED
      BY <2>3, <3>1, DataIndex
  <2>5. Data(n, 1) \in DataIn(s) /\ Data(n, length) \in DataIn(s)
    BY <2>2, <2>4
  <2>6. ASSUME NEW w \in DataIn(Flow') PROVE w.block > n
    <3>1. Earlier(Data(n, length), w)
      BY <2>5
    <3>2. n < w.block \/ (n = w.block /\ length < w.value)
      BY <3>1 DEF Earlier, Data
    <3>3. w.block \in 1 .. Len(written) /\ w.value \in 1 .. written[w.block]
      BY <1>5 DEF Known
    <3>4. n = w.block => w.value \in 1 .. length
      BY <3>3 DEF length
    <3> QED
      BY <1>2, <1>3, <2>2, <3>2, <3>3, <3>4
  <2> QED
    BY <2>5, <2>6
<1>7. Ahead'
  <2> SUFFICES ASSUME NEW i \in 1 .. m, delivered'[i] # 0
               PROVE  /\ delivered'[i] \in 1 .. Len(written)
                      /\ \A w \in DataIn(Flow') :
                           \/ w.block > delivered'[i]
                           \/ w.block = delivered'[i] /\ delivered'[i] \in resent
    BY <1>4 DEF Ahead
  <2>1. CASE i = m
    BY <1>1, <1>4, <1>6, <2>1
  <2>2. CASE i # m
    <3>1. i \in 1 .. Len(delivered) /\ delivered'[i] = delivered[i]
      BY <1>2, <1>4, <2>2
    <3> QED
      BY <3>1 DEF FlowInv, Ahead
  <2> QED
    BY <2>1, <2>2
<1>8. InOrder'
  <2> SUFFICES ASSUME NEW i \in 1 .. m, NEW j \in 1 .. m, i < j,
                      delivered'[i] # 0, delivered'[j] # 0
               PROVE  \/ delivered'[i] < delivered'[j]
                      \/ delivered'[i] = delivered'[j] /\ delivered'[i] \in resent
    BY <1>4 DEF InOrder
  <2>0. m \in Nat /\ DOMAIN delivered = 1 .. Len(delivered)
    BY <1>2
  <2>1. i \in 1 .. Len(delivered) /\ delivered'[i] = delivered[i]
    BY <1>2, <1>4
  <2>2. CASE j = m
    <3>1. delivered'[j] = n /\ n # 0
      BY <1>4, <2>2
    <3>2. Data(n, 1) \in DataIn(Flow)
      BY <1>6, <3>1
    <3>3. \/ Data(n, 1).block > delivered[i]
          \/ Data(n, 1).block = delivered[i] /\ delivered[i] \in resent
      BY <2>1, <3>2 DEF FlowInv, Ahead
    <3>4. Data(n, 1).block = n
      BY DEF Data
    <3>5. delivered[i] \in Nat
      BY <1>2, <2>1
    <3> QED
      BY <1>3, <2>1, <3>1, <3>3, <3>4, <3>5
  <2>3. CASE j # m
    <3>1. j \in 1 .. Len(delivered) /\ delivered'[j] = delivered[j]
      <4>1. j \in 1 .. Len(delivered)
        BY <1>2, <2>3
      <4> QED
        BY <1>4, <4>1
    <3> QED
      BY <2>0, <2>1, <3>1 DEF FlowInv, InOrder
  <2> QED
    BY <2>2, <2>3
<1> QED
  BY <1>4, <1>5, <1>7, <1>8 DEF FlowInv

(* The receiver's timer. *)
LEMMA TickFlow ==
  ASSUME TypeInv, FlowInv, timerEvent
  PROVE  TypeInv' /\ FlowInv'
<1>1. /\ UNCHANGED <<inTransit, written, resent, sendIdentifier, num, outgoing,
                     connected, clientSends, leftovers, current>>
      /\ \E front, data \in Seq(AnyWord) :
              /\ buffer' \in Seq(AnyWord)
              /\ buffer = front \o (data \o buffer')
              /\ \/ data = <<>> /\ UNCHANGED <<parts, delivered>>
                 \/ parts' = <<>> /\ UNCHANGED delivered
                 \/ parts' = Append(parts, data) /\ UNCHANGED delivered
                 \/ parts' = Append(<<>>, data) /\ UNCHANGED delivered
                 \/ Delivers(parts, data)
                 \/ Delivers(<<>>, data)
  BY TickTakes
<1>2. PICK f, d \in Seq(AnyWord) :
              /\ buffer' \in Seq(AnyWord)
              /\ buffer = f \o (d \o buffer')
              /\ \/ d = <<>> /\ UNCHANGED <<parts, delivered>>
                 \/ parts' = <<>> /\ UNCHANGED delivered
                 \/ parts' = Append(parts, d) /\ UNCHANGED delivered
                 \/ parts' = Append(<<>>, d) /\ UNCHANGED delivered
                 \/ Delivers(parts, d)
                 \/ Delivers(<<>>, d)
  BY <1>1
<1> DEFINE a == FlattenSeq(parts)
           b == buffer'
           t == inTransit
<1>3. /\ a \in Seq(AnyWord) /\ b \in Seq(AnyWord) /\ t \in Seq(AnyWord)
      /\ parts \in Seq(Seq(AnyWord))
  BY <1>2, FlowType DEF TypeInv
<1>4. Flow = a \o ((f \o (d \o b)) \o t)
  BY <1>2 DEF Flow
<1>5. Flow' = FlattenSeq(parts') \o (b \o t)
  BY <1>1 DEF Flow
<1>6. Rising(a \o ((f \o (d \o b)) \o t))
  BY <1>4 DEF FlowInv
<1> HIDE DEF a, b, t
<1>7. /\ Rising(a \o ((d \o b) \o t))
      /\ Rising((a \o d) \o (b \o t))
      /\ Rising(d \o (b \o t))
      /\ Rising(b \o t)
      /\ Before(a \o d, b \o t)
      /\ Before(d, b \o t)
      /\ DataIn(a \o ((f \o (d \o b)) \o t)) =
           DataIn(a) \cup DataIn(f) \cup DataIn(d) \cup DataIn(b) \cup DataIn(t)
      /\ DataIn(a \o ((d \o b) \o t)) =
           DataIn(a) \cup DataIn(d) \cup DataIn(b) \cup DataIn(t)
      /\ DataIn((a \o d) \o (b \o t)) =
           DataIn(a) \cup DataIn(d) \cup DataIn(b) \cup DataIn(t)
      /\ DataIn(b \o t) = DataIn(b) \cup DataIn(t)
      /\ DataIn(d \o (b \o t)) = DataIn(d) \cup DataIn(b) \cup DataIn(t)
  BY <1>3, <1>6, Excerpts
<1>8. b \o t \in Seq(AnyWord) /\ a \o d \in Seq(AnyWord)
      /\ DataIn(a \o d) = DataIn(a) \cup DataIn(d)
  BY <1>3, ConcatProperties, DataConcat
<1> DEFINE bt == b \o t
           ad == a \o d
           flow == Flow
           new == Flow'
<1>9. flow = a \o ((f \o (d \o b)) \o t) /\ new = FlattenSeq(parts') \o bt
  BY <1>4, <1>5
<1>10. <<>> \in Seq(Seq(AnyWord)) /\ <<>> \o bt = bt
  BY <1>8, EmptySeq, ConcatEmptySeq
<1>11. /\ FlattenSeq(<<>>) = <<>>
       /\ FlattenSeq(Append(parts, d)) = ad
       /\ FlattenSeq(Append(<<>>, d)) = d
       /\ Append(parts, d) \in Seq(Seq(AnyWord))
       /\ Append(<<>>, d) \in Seq(Seq(AnyWord))
  <2>1. FlattenSeq(Append(parts, d)) = ad
    BY <1>3, FlattenAppend DEF a
  <2>2. Append(<<>>, d) = <<d>> /\ <<d>> \in Seq(Seq(AnyWord))
    OBVIOUS
  <2>3. FlattenSeq(<<d>>) = d
    BY FlattenOne
  <2> QED
    BY <1>3, <2>1, <2>2, <2>3, FlattenEmpty, AppendProperties
<1>12. /\ DataIn(bt) \subseteq DataIn(flow) /\ DataIn(ad \o bt) \subseteq DataIn(flow)
       /\ DataIn(d \o bt) \subseteq DataIn(flow)
       /\ DataIn(ad) \subseteq DataIn(flow) /\ DataIn(d) \subseteq DataIn(flow)
       /\ DataIn(a \o ((d \o b) \o t)) \subseteq DataIn(flow)
  BY <1>7, <1>8, <1>9
<1>13. /\ Rising(bt) /\ Rising(ad \o bt) /\ Rising(d \o bt)
       /\ Before(ad, bt) /\ Before(d, bt)
       /\ Rising(a \o ((d \o b) \o t))
  BY <1>7
<1>14. /\ flow = Flow /\ new = Flow'
       /\ d = <<>> => d \o b = b
  BY <1>3, ConcatEmptySeq
<1>15. d = <<>> => a \o ((d \o b) \o t) = a \o bt
  BY <1>14
<1> HIDE DEF bt, ad, flow, new
<1>16. CASE d = <<>> /\ UNCHANGED <<parts, delivered>>
  <2>1. new = a \o bt /\ Rising(new) /\ DataIn(new) \subseteq DataIn(flow)
    BY <1>9, <1>12, <1>13, <1>15, <1>16 DEF a
  <2>2. FlowInv'
    BY <1>1, <1>14, <1>16, <2>1, FlowShrinks
  <2> QED
    BY <1>1, <1>2, <1>16, <2>2 DEF TypeInv
<1>17. CASE parts' = <<>> /\ UNCHANGED delivered
  <2>1. new = bt /\ Rising(new) /\ DataIn(new) \subseteq DataIn(flow)
    BY <1>9, <1>10, <1>11, <1>12, <1>13, <1>17
  <2>2. FlowInv'
    BY <1>1, <1>14, <1>17, <2>1, FlowShrinks
  <2> QED
    BY <1>1, <1>2, <1>10, <1>17, <2>2 DEF TypeInv
<1>18. CASE parts' = Append(parts, d) /\ UNCHANGED delivered
  <2>1. new = ad \o bt /\ Rising(new) /\ DataIn(new) \subseteq DataIn(flow)
    BY <1>9, <1>11, <1>12, <1>13, <1>18
  <2>2. FlowInv'
    BY <1>1, <1>14, <1>18, <2>1, FlowShrinks
  <2> QED
    BY <1>1, <1>2, <1>11, <1>18, <2>2 DEF TypeInv
<1>19. CASE parts' = Append(<<>>, d) /\ UNCHANGED delivered
  <2>1. new = d \o bt /\ Rising(new) /\ DataIn(new) \subseteq DataIn(flow)
    BY <1>9, <1>11, <1>12, <1>13, <1>19
  <2>2. FlowInv'
    BY <1>1, <1>14, <1>19, <2>1, FlowShrinks
  <2> QED
    BY <1>1, <1>2, <1>11, <1>19, <2>2 DEF TypeInv
<1>20. CASE Delivers(parts, d)
  <2>1. parts' = <<>> /\ delivered' = Append(delivered, BlockOf(ad))
    BY <1>11, <1>20 DEF Delivers
  <2>2. new = bt /\ Rising(new) /\ DataIn(new) \subseteq DataIn(flow)
    BY <1>9, <1>10, <1>11, <1>12, <1>13, <2>1
  <2>3. \A v \in DataIn(ad), w \in DataIn(new) : Earlier(v, w)
    BY <1>13, <2>2 DEF Before
  <2>4. ad \in Seq(AnyWord) /\ DataIn(ad) \subseteq DataIn(flow)
    BY <1>8, <1>12 DEF ad
  <2>5. FlowInv' /\ delivered' \in Seq(Nat)
    BY <1>1, <1>14, <2>1, <2>2, <2>3, <2>4, FlowDelivers
  <2> QED
    BY <1>1, <1>2, <1>10, <2>1, <2>5 DEF TypeInv
<1>21. CASE Delivers(<<>>, d)
  <2>1. parts' = <<>> /\ delivered' = Append(delivered, BlockOf(d))
    BY <1>11, <1>21 DEF Delivers
  <2>2. new = bt /\ Rising(new) /\ DataIn(new) \subseteq DataIn(flow)
    BY <1>9, <1>10, <1>11, <1>12, <1>13, <2>1
  <2>3. \A v \in DataIn(d), w \in DataIn(new) : Earlier(v, w)
    BY <1>13, <2>2 DEF Before
  <2>4. DataIn(d) \subseteq DataIn(flow)
    BY <1>12
  <2>5. FlowInv' /\ delivered' \in Seq(Nat)
    BY <1>1, <1>14, <2>1, <2>2, <2>3, <2>4, FlowDelivers
  <2> QED
    BY <1>1, <1>2, <1>10, <2>1, <2>5 DEF TypeInv
<1> QED
  BY <1>2, <1>16, <1>17, <1>18, <1>19, <1>20, <1>21

(* A block more, and its words, if they are sent. *)
LEMMA FlowGrows ==
  ASSUME TypeInv, FlowInv, UNCHANGED <<delivered, resent>>, NEW length \in Nat \ {0},
         written' = Append(written, length), NEW p \in Seq(AnyWord), Rising(p),
         \A w \in DataIn(p) : w.block = Len(written) + 1 /\ w.value \in 1 .. length,
         Flow' \in {Flow, Flow \o p, p}
  PROVE  FlowInv'
<1> DEFINE m == Len(written) + 1
           flow == Flow
           new == Flow'
<1>1. /\ written \in Seq(Nat \ {0}) /\ Len(written) \in Nat
      /\ delivered \in Seq(Nat)
  BY LenProperties DEF TypeInv
<1>2. /\ Len(written') = m /\ written'[m] = length
      /\ \A i \in 1 .. Len(written) : written'[i] = written[i]
  BY <1>1
<1>3. flow \in Seq(AnyWord) /\ Rising(flow)
  BY FlowType DEF FlowInv
<1>4. \A w \in DataIn(flow) : w.block \in 1 .. Len(written) /\ w.value \in 1 .. written[w.block]
  BY DEF FlowInv, Known
<1>5. \A w \in DataIn(p) : w.block = m /\ w.value \in 1 .. length
  OBVIOUS
<1>6. new \in {flow, flow \o p, p}
  OBVIOUS
<1> HIDE DEF flow, new, m
<1>7. Before(flow, p)
  <2> SUFFICES ASSUME NEW v \in DataIn(flow), NEW w \in DataIn(p)
               PROVE  Earlier(v, w)
    BY DEF Before
  <2>1. v.block \in 1 .. Len(written)
    BY <1>4
  <2>2. w.block = m
    BY <1>5
  <2>3. v.block < w.block
    BY <1>1, <2>1, <2>2 DEF m
  <2> QED
    BY <2>3, Zenon DEF Earlier
<1>8. Rising(new) /\ DataIn(new) \subseteq DataIn(flow) \cup DataIn(p)
  <2>1. Rising(flow \o p) /\ DataIn(flow \o p) = DataIn(flow) \cup DataIn(p)
    BY <1>3, <1>7, RisingConcat, DataConcat
  <2>2. CASE new = flow
    BY <1>3, <2>2
  <2>3. CASE new = flow \o p
    BY <2>1, <2>3
  <2>4. CASE new = p
    BY <2>4
  <2> QED
    BY <1>6, <2>2, <2>3, <2>4
<1>9. \A w \in DataIn(new) : w.block \in 1 .. m /\ w.value \in 1 .. written'[w.block]
  <2> SUFFICES ASSUME NEW w \in DataIn(new)
               PROVE  w.block \in 1 .. m /\ w.value \in 1 .. written'[w.block]
    OBVIOUS
  <2>1. CASE w \in DataIn(flow)
    <3>1. w.block \in 1 .. Len(written) /\ w.value \in 1 .. written[w.block]
      BY <1>4, <2>1
    <3>2. w.block \in 1 .. m
      BY <1>1, <3>1 DEF m
    <3> QED
      BY <1>2, <3>1, <3>2
  <2>2. CASE w \in DataIn(p)
    BY <1>1, <1>2, <1>5, <2>2 DEF m
  <2> QED
    BY <1>8, <2>1, <2>2
<1>10. Known'
  BY <1>2, <1>9 DEF Known, new
<1>11. Ahead'
  <2> SUFFICES ASSUME NEW i \in 1 .. Len(delivered), delivered[i] # 0
               PROVE  /\ delivered[i] \in 1 .. m
                      /\ \A w \in DataIn(new) :
                           \/ w.block > delivered[i]
                           \/ w.block = delivered[i] /\ delivered[i] \in resent
    BY <1>2 DEF Ahead, new
  <2>1. /\ delivered[i] \in 1 .. Len(written)
        /\ \A w \in DataIn(flow) :
             \/ w.block > delivered[i]
             \/ w.block = delivered[i] /\ delivered[i] \in resent
    BY DEF FlowInv, Ahead, flow
  <2>2. m > delivered[i] /\ delivered[i] \in 1 .. m
    BY <1>1, <2>1 DEF m
  <2> QED
    BY <1>5, <1>8, <2>1, <2>2
<1> QED
  BY <1>8, <1>10, <1>11 DEF FlowInv, InOrder, new

(* The words are lost with the connection, or the first of the last block  *)
(* come again.                                                             *)
LEMMA FlowAnew ==
  ASSUME TypeInv, FlowInv, UNCHANGED <<delivered, written>>,
         NEW p \in Seq(AnyWord), Rising(p), Flow' = p,
         resent' = resent \cup {Len(written)}, written # <<>>,
         \A w \in DataIn(p) : w.block = Len(written) /\ w.value \in 1 .. written[w.block]
  PROVE  FlowInv'
<1>1. Len(written) \in Nat \ {0}
  BY EmptySeq, LenProperties DEF TypeInv
<1>2. Known'
  BY <1>1 DEF Known
<1>3. Ahead'
  <2> SUFFICES ASSUME NEW i \in 1 .. Len(delivered), delivered[i] # 0
               PROVE  /\ delivered[i] \in 1 .. Len(written)
                      /\ \A w \in DataIn(p) :
                           \/ w.block > delivered[i]
                           \/ w.block = delivered[i] /\ delivered[i] \in resent'
    BY DEF Ahead
  <2>1. delivered[i] \in 1 .. Len(written)
    BY DEF FlowInv, Ahead
  <2> QED
    BY <1>1, <2>1
<1>4. InOrder'
  BY DEF FlowInv, InOrder
<1> QED
  BY <1>2, <1>3, <1>4 DEF FlowInv

(* A block is written. *)
LEMMA WriteType ==
  ASSUME TypeInv, NEW length \in Nat \ {0}, NEW sends,
         writeData(length, sends)
  PROVE  LET all == Parts(DataOf(Len(written) + 1, length))
             p   == Packets(sendIdentifier', all)
         IN /\ written' = Append(written, length) /\ written' \in Seq(Nat \ {0})
            /\ written' # <<>>
            /\ all = Parts(DataOf(Len(written'), written'[Len(written')]))
            /\ sendIdentifier' \in Nat /\ num' \in Nat
            /\ p \in Seq(AnyWord) /\ Rising(p)
            /\ \A w \in DataIn(p) : w.block = Len(written) + 1 /\ w.value \in 1 .. length
            /\ inTransit' = IF sends THEN inTransit \o p ELSE inTransit
            /\ inTransit' \in Seq(AnyWord)
<1> DEFINE n == Len(written) + 1
           all == Parts(DataOf(n, length))
           p == Packets(sendIdentifier', all)
<1>1. /\ written \in Seq(Nat \ {0}) /\ Len(written) \in Nat
      /\ inTransit \in Seq(AnyWord)
      /\ sendIdentifier \in Nat \cup {BAD_IDENTIFIER}
  BY LenProperties DEF TypeInv
<1>2. /\ written' = Append(written, length)
      /\ sendIdentifier' = nextIdentifier(sendIdentifier)
      /\ num' = Len(all)
      /\ inTransit' = IF sends THEN inTransit \o p ELSE inTransit
  BY DEF writeData
<1>3. n \in Nat
  BY <1>1
<1>4. sendIdentifier' \in Nat
  BY <1>1, <1>2, LargeSocketAssumption DEF nextIdentifier
<1>5. written' \in Seq(Nat \ {0}) /\ Len(written') = n /\ written'[n] = length
  BY <1>1, <1>2
<1>6. written' # <<>>
  BY <1>1, <1>5
<1> HIDE DEF n
<1>7. /\ p \in Seq(AnyWord) /\ Rising(p)
      /\ \A w \in DataIn(p) : w.block = n /\ w.value \in 1 .. length
  BY <1>3, <1>4, PacketsRise
<1>8. num' \in Nat
  <2>1. Len(all) = Count(length) /\ Count(length) \in Nat
    BY <1>3, PartsAre, Chunks
  <2> HIDE DEF all
  <2> QED
    BY <1>2, <2>1
<1> HIDE DEF p
<1>9. inTransit' \in Seq(AnyWord)
  BY <1>1, <1>2, <1>7, ConcatProperties
<1> QED
  BY <1>2, <1>4, <1>5, <1>6, <1>7, <1>8, <1>9 DEF p, n

LEMMA WriteFlow ==
  ASSUME TypeInv, FlowInv, NEW length \in Lengths, write(length)
  PROVE  TypeInv' /\ FlowInv'
<1> DEFINE all == Parts(DataOf(Len(written) + 1, length))
           p   == Packets(sendIdentifier', all)
<1>1. length \in Nat \ {0}
  BY LargeSocketAssumption
<1>2. writeData(length, connected) /\ outgoing' = all
      /\ UNCHANGED <<connected, buffer, parts, delivered, resent>>
  BY DEF write, receiverVars
<1>4. /\ written' = Append(written, length) /\ written' \in Seq(Nat \ {0})
      /\ written' # <<>>
      /\ all = Parts(DataOf(Len(written'), written'[Len(written')]))
      /\ sendIdentifier' \in Nat /\ num' \in Nat
      /\ p \in Seq(AnyWord) /\ Rising(p)
      /\ \A w \in DataIn(p) : w.block = Len(written) + 1 /\ w.value \in 1 .. length
      /\ inTransit' = (IF connected THEN inTransit \o p ELSE inTransit)
      /\ inTransit' \in Seq(AnyWord)
  BY <1>1, <1>2, WriteType
<1> HIDE DEF p
<1>5. Flow' \in {Flow, Flow \o p, p}
  <2> DEFINE a == FlattenSeq(parts)
  <2>1. a \in Seq(AnyWord) /\ buffer \in Seq(AnyWord) /\ inTransit \in Seq(AnyWord)
        /\ buffer \o inTransit \in Seq(AnyWord)
    BY FlowType DEF TypeInv
  <2>2. Flow = a \o (buffer \o inTransit) /\ Flow' = a \o (buffer \o inTransit')
    BY <1>2 DEF Flow
  <2> HIDE DEF a
  <2>0. p \in Seq(AnyWord)
    BY <1>4
  <2>3. buffer \o (inTransit \o p) = (buffer \o inTransit) \o p
    <3>1. buffer \in Seq(AnyWord) /\ inTransit \in Seq(AnyWord)
      BY <2>1
    <3> QED
      BY <2>0, <3>1, WordsRegroup
  <2>4. a \o ((buffer \o inTransit) \o p) = (a \o (buffer \o inTransit)) \o p
    BY <2>0, <2>1, WordsRegroup
  <2>5. CASE connected
    <3>1. inTransit' = inTransit \o p
      BY <1>4, <2>5
    <3>2. Flow' = Flow \o p
      BY <2>2, <2>3, <2>4, <3>1
    <3> QED
      BY <3>2
  <2>6. CASE ~ connected
    <3>1. inTransit' = inTransit
      BY <1>4, <2>6
    <3> QED
      BY <2>2, <3>1
  <2> QED
    BY <2>5, <2>6
<1>6. FlowInv'
  BY <1>1, <1>2, <1>4, <1>5, FlowGrows
<1> HIDE DEF all
<1>7. ~ connected' => inTransit' = <<>>
  BY <1>2, <1>4 DEF TypeInv
<1>8. TypeInv'
  BY <1>2, <1>4, <1>7 DEF TypeInv
<1> QED
  BY <1>6, <1>8

LEMMA ConnectFlow ==
  ASSUME TypeInv, FlowInv, onConnected
  PROVE  TypeInv' /\ FlowInv'
<1>1. ~ connected /\ connected' /\ UNCHANGED delivered /\ inTransit = <<>>
  BY DEF onConnected, TypeInv
<1>2. <<>> \in Seq(AnyWord) /\ <<>> \in Seq(Seq(AnyWord)) /\ Rising(<<>>) /\ DataIn(<<>>) = {}
  BY EmptySeq, EmptyFlow
<1>3. CASE serverConnects
  <2>1. /\ sendIdentifier' = BAD_IDENTIFIER /\ outgoing' = <<>> /\ num' = 0
        /\ UNCHANGED <<inTransit, buffer, parts, written, resent>>
    BY <1>3 DEF serverConnects, receiverVars
  <2>2. Flow' = Flow
    BY <2>1 DEF Flow
  <2>3. FlowInv'
    BY <1>1, <2>1, <2>2, FlowShrinks DEF FlowInv
  <2>4. TypeInv'
    BY <1>1, <2>1 DEF TypeInv
  <2> QED
    BY <2>3, <2>4
<1>4. CASE clientConnects
  <2>1. buffer' = <<>> /\ parts' = <<>>
    BY <1>4 DEF clientConnects
  <2>2. ASSUME inTransit' \in Seq(AnyWord) PROVE Flow' = inTransit'
    <3>1. <<>> \o inTransit' = inTransit'
      BY <2>2, ConcatEmptySeq
    <3> QED
      BY <2>1, <3>1, FlattenEmpty DEF Flow
  <2>3. CASE sendNextPart /\ UNCHANGED <<sendIdentifier, num, written, current>>
    <3>1. CASE num >= Len(outgoing)
      <4>1. outgoing' = <<>> /\ UNCHANGED <<inTransit, resent>>
        BY <2>3, <3>1 DEF sendNextPart
      <4>2. Flow' = <<>>
        BY <1>1, <1>2, <2>2, <4>1
      <4>3. FlowInv'
        BY <1>1, <1>2, <2>3, <4>1, <4>2, FlowShrinks
      <4>4. TypeInv'
        BY <1>1, <1>2, <2>1, <2>3, <4>1 DEF TypeInv
      <4> QED
        BY <4>3, <4>4
    <3>2. CASE ~ num >= Len(outgoing)
      <4> DEFINE n == Len(written)
                 length == written[n]
                 p == toByteArray(sendIdentifier, num, Parts(DataOf(n, length)))
      <4>1. inTransit' = toByteArray(sendIdentifier, num, outgoing)
            /\ resent' = resent \cup {Len(written)} /\ UNCHANGED outgoing
        BY <2>3, <3>2 DEF sendNextPart
      <4>2. num \in Nat /\ written \in Seq(Nat \ {0})
        BY DEF TypeInv
      <4>3. outgoing # <<>>
        <5>1. outgoing = <<>> => Len(outgoing) = 0
          OBVIOUS
        <5> QED
          BY <3>2, <4>2, <5>1
      <4>4. written # <<>> /\ outgoing = Parts(DataOf(n, length)) /\ sendIdentifier \in Nat
        BY <4>3 DEF TypeInv
      <4>5. n \in Nat \ {0} /\ length \in Nat \ {0}
        BY <4>2, <4>4
      <4> HIDE DEF n, length
      <4>6. Len(outgoing) = Count(length) /\ Count(length) \in Nat
        BY <4>4, <4>5, PartsAre, Chunks
      <4>7. num + 1 <= Count(length)
        BY <3>2, <4>2, <4>6
      <4>8. /\ p \in Seq(AnyWord) /\ Rising(p)
            /\ EndOf(num, length) \in Nat /\ EndOf(num + 1, length) <= length
            /\ EndOf(num + 1, length) \in Nat
            /\ \A w \in DataIn(p) :
                 /\ w.block = n
                 /\ w.value \in EndOf(num, length) + 1 .. EndOf(num + 1, length)
        BY <4>2, <4>4, <4>5, <4>7, PacketOfBlock
      <4>9. inTransit' = p
        BY <4>1, <4>4
      <4> HIDE DEF p
      <4>10. Flow' = p
        BY <2>2, <4>8, <4>9
      <4>11. \A w \in DataIn(p) : w.block = n /\ w.value \in 1 .. written[w.block]
        BY <4>5, <4>8 DEF length
      <4>12. FlowInv'
        BY <1>1, <2>3, <4>1, <4>4, <4>8, <4>10, <4>11, FlowAnew DEF n
      <4>13. TypeInv'
        BY <1>1, <1>2, <2>1, <2>3, <4>1, <4>8, <4>9 DEF TypeInv
      <4> QED
        BY <4>12, <4>13
    <3> QED
      BY <3>1, <3>2
  <2>4. CASE \E length \in Lengths :
               writeData(length, TRUE) /\ outgoing' = <<>> /\ UNCHANGED resent
    <3>1. PICK length \in Lengths :
            writeData(length, TRUE) /\ outgoing' = <<>> /\ UNCHANGED resent
      BY <2>4
    <3> DEFINE all == Parts(DataOf(Len(written) + 1, length))
               p   == Packets(sendIdentifier', all)
    <3>2. length \in Nat \ {0}
      BY LargeSocketAssumption
    <3>3. /\ written' = Append(written, length) /\ written' \in Seq(Nat \ {0})
          /\ sendIdentifier' \in Nat /\ num' \in Nat
          /\ p \in Seq(AnyWord) /\ Rising(p)
          /\ \A w \in DataIn(p) : w.block = Len(written) + 1 /\ w.value \in 1 .. length
          /\ inTransit' = inTransit \o p
      BY <3>1, <3>2, WriteType
    <3> HIDE DEF p
    <3>4. inTransit' = p
      BY <1>1, <3>3, ConcatEmptySeq
    <3>5. Flow' \in {Flow, Flow \o p, p}
      BY <2>2, <3>3, <3>4
    <3>6. FlowInv'
      BY <1>1, <3>1, <3>2, <3>3, <3>5, FlowGrows
    <3>7. TypeInv'
      BY <1>1, <1>2, <2>1, <3>1, <3>3, <3>4 DEF TypeInv
    <3> QED
      BY <3>6, <3>7
  <2> QED
    BY <1>4, <2>3, <2>4 DEF clientConnects
<1> QED
  BY <1>3, <1>4 DEF onConnected

LEMMA DisconnectFlow ==
  ASSUME TypeInv, FlowInv, onDisconnected
  PROVE  TypeInv' /\ FlowInv'
<1>1. /\ inTransit' = <<>> /\ parts' = <<>> /\ num' = 0
      /\ UNCHANGED <<sendIdentifier, outgoing, buffer, written, delivered, resent>>
  BY DEF onDisconnected
<1>2. <<>> \in Seq(AnyWord) /\ <<>> \in Seq(Seq(AnyWord))
  BY EmptySeq
<1> DEFINE a == FlattenSeq(parts)
           bt == buffer \o inTransit
<1>3. a \in Seq(AnyWord) /\ bt \in Seq(AnyWord) /\ buffer \in Seq(AnyWord)
      /\ inTransit \in Seq(AnyWord) /\ Flow = a \o bt
  BY FlowType DEF TypeInv, Flow
<1>4. Flow' = buffer
  <2>1. buffer \o <<>> = buffer /\ <<>> \o buffer = buffer
    BY <1>3, ConcatEmptySeq
  <2> QED
    BY <1>1, <2>1, FlattenEmpty DEF Flow
<1>5. /\ DataIn(bt) = DataIn(buffer) \cup DataIn(inTransit)
      /\ Rising(bt) => Rising(buffer)
  BY <1>3, DataConcat, RisingConcat
<1> HIDE DEF a, bt
<1>6. /\ DataIn(a \o bt) = DataIn(a) \cup DataIn(bt)
      /\ Rising(a \o bt) => Rising(bt)
  BY <1>3, DataConcat, RisingConcat
<1>7. Rising(Flow') /\ DataIn(Flow') \subseteq DataIn(Flow)
  BY <1>3, <1>4, <1>5, <1>6 DEF FlowInv
<1>8. FlowInv'
  BY <1>1, <1>7, FlowShrinks
<1>9. TypeInv'
  BY <1>1, <1>2 DEF TypeInv
<1> QED
  BY <1>8, <1>9

LEMMA ReadFlow ==
  ASSUME TypeInv, FlowInv, NEW k \in 1 .. Len(inTransit), onReadyRead(k)
  PROVE  TypeInv' /\ FlowInv'
<1> DEFINE s == SubSeq(inTransit, 1, k)
           r == Drop(inTransit, k)
<1>1. /\ connected /\ buffer' = buffer \o s /\ inTransit' = r
      /\ UNCHANGED <<connected, sendIdentifier, outgoing, num, parts, written, delivered, resent>>
  BY DEF onReadyRead, senderVars, historyVars
<1>2. buffer \in Seq(AnyWord) /\ inTransit \in Seq(AnyWord) /\ k \in 0 .. Len(inTransit)
  BY LenProperties DEF TypeInv
<1>3. s \in Seq(AnyWord) /\ r \in Seq(AnyWord) /\ inTransit = s \o r
  BY <1>2, SplitAt, DropProperties
<1> HIDE DEF s, r
<1>4. (buffer \o s) \o r = buffer \o (s \o r)
  BY <1>2, <1>3, WordsRegroup
<1>5. Flow' = Flow
  BY <1>1, <1>3, <1>4 DEF Flow
<1>6. FlowInv'
  BY <1>1, <1>5, FlowShrinks DEF FlowInv
<1>7. buffer \o s \in Seq(AnyWord)
  BY <1>2, <1>3, ConcatProperties
<1>8. TypeInv'
  BY <1>1, <1>3, <1>7 DEF TypeInv
<1> QED
  BY <1>6, <1>8

LEMMA InitFlow == Init => TypeInv /\ FlowInv
<1> SUFFICES ASSUME Init PROVE TypeInv /\ FlowInv
  OBVIOUS
<1>1. TypeInv
  BY EmptySeq DEF Init, TypeInv
<1>2. Flow = <<>>
  <2>1. <<>> \o <<>> = <<>>
    BY EmptyFlow, ConcatEmptySeq
  <2> QED
    BY <2>1, FlattenEmpty DEF Init, Flow
<1>3. FlowInv
  BY <1>2, EmptyFlow DEF Init, FlowInv, Known, Ahead, InOrder
<1> QED
  BY <1>1, <1>3

LEMMA NextFlow == TypeInv /\ FlowInv /\ [Next]_vars => TypeInv' /\ FlowInv'
<1> SUFFICES ASSUME TypeInv, FlowInv, [Next]_vars PROVE TypeInv' /\ FlowInv'
  OBVIOUS
<1>1. CASE \E length \in Lengths : write(length)
  BY <1>1, WriteFlow
<1>2. CASE onConnected
  BY <1>2, ConnectFlow
<1>3. CASE onDisconnected
  BY <1>3, DisconnectFlow
<1>4. CASE \E k \in 1 .. Len(inTransit) : onReadyRead(k)
  BY <1>4, ReadFlow
<1>5. CASE timerEvent
  BY <1>5, TickFlow
<1>6. CASE UNCHANGED vars
  <2>1. UNCHANGED <<buffer, inTransit, parts, written, delivered, resent,
                    sendIdentifier, num, outgoing, connected>>
    BY <1>6 DEF vars, senderVars, receiverVars, historyVars
  <2>2. Flow' = Flow
    BY <2>1 DEF Flow
  <2>3. FlowInv'
    BY <2>1, <2>2, FlowShrinks DEF FlowInv
  <2>4. TypeInv'
    BY <2>1 DEF TypeInv
  <2> QED
    BY <2>3, <2>4
<1> QED
  BY <1>1, <1>2, <1>3, <1>4, <1>5, <1>6 DEF Next

----------------------------------------------------------------------------
(* Packets as they are found in the bytes.  The lengths of the blocks are  *)
(* a parameter here: lengths[n] is that of the n-th block.                 *)

LEMMA FlattenConcat ==
  ASSUME NEW T, NEW s \in Seq(Seq(T)), NEW t \in Seq(Seq(T))
  PROVE  FlattenSeq(s \o t) = FlattenSeq(s) \o FlattenSeq(t)
<1> DEFINE Holds(n) == \A u \in Seq(Seq(T)) : Len(u) = n =>
                          FlattenSeq(s \o u) = FlattenSeq(s) \o FlattenSeq(u)
           Good == {n \in Nat : Holds(n)}
<1>0. FlattenSeq(s) \in Seq(T)
  BY FlattenType
<1>9. \A p, q, r \in Seq(T) : (p \o q) \o r = p \o (q \o r)
  BY Regroup
<1>1. 0 \in Good
  <2>1. s \o <<>> = s /\ FlattenSeq(s) \o <<>> = FlattenSeq(s)
    BY <1>0, ConcatEmptySeq
  <2>2. FlattenSeq(s \o <<>>) = FlattenSeq(s) \o FlattenSeq(<<>>)
    BY <2>1, FlattenEmpty
  <2>3. \A u \in Seq(Seq(T)) : Len(u) = 0 => u = <<>>
    OBVIOUS
  <2>4. 0 \in Nat
    OBVIOUS
  <2> QED
    BY <2>2, <2>3, <2>4, Zenon
<1>2. ASSUME NEW n \in Nat, n \in Good PROVE n + 1 \in Good
  <2> SUFFICES Holds(n + 1)
    <3> HIDE DEF Holds
    <3> QED
      BY DEF Good
  <2> SUFFICES ASSUME NEW u \in Seq(Seq(T)), Len(u) = n + 1
               PROVE  FlattenSeq(s \o u) = FlattenSeq(s) \o FlattenSeq(u)
    BY Zenon
  <2>1. u # <<>>
    OBVIOUS
  <2>2. PICK v \in Seq(Seq(T)), y \in Seq(T) : u = Append(v, y)
    BY <2>1, SequenceEmptyOrAppend
  <2>3. Len(v) = n
    BY <2>2, AppendProperties
  <2>4. FlattenSeq(s \o v) = FlattenSeq(s) \o FlattenSeq(v)
    BY <1>2, <2>3
  <2>5. s \o u = Append(s \o v, y) /\ s \o v \in Seq(Seq(T))
    <3>1. u = v \o <<y>> /\ <<y>> \in Seq(Seq(T))
      BY <2>2, AppendIsConcat
    <3>2. s \o (v \o <<y>>) = (s \o v) \o <<y>>
      BY <3>1, ConcatAssociative
    <3>3. s \o v \in Seq(Seq(T))
      BY ConcatProperties
    <3>4. Append(s \o v, y) = (s \o v) \o <<y>>
      BY <3>3, AppendIsConcat
    <3> QED
      BY <3>1, <3>2, <3>3, <3>4
  <2>6. FlattenSeq(s \o u) = FlattenSeq(s \o v) \o y
    BY <2>5, FlattenAppend
  <2>7. FlattenSeq(u) = FlattenSeq(v) \o y /\ FlattenSeq(v) \in Seq(T)
    BY <2>2, FlattenAppend, FlattenType
  <2> DEFINE a == FlattenSeq(s)
             b == FlattenSeq(v)
  <2>8. (a \o b) \o y = a \o (b \o y)
    <3>1. a \in Seq(T) /\ b \in Seq(T) /\ y \in Seq(T)
      BY <1>0, <2>2, <2>7
    <3> HIDE DEF a, b
    <3> QED
      BY <1>9, <3>1, Zenon
  <2> QED
    BY <2>4, <2>6, <2>7, <2>8, Zenon DEF a, b
<1>3. Len(t) \in Good
  <2> HIDE DEF Good
  <2> QED
    BY <1>1, <1>2, NaturalsFromZero, LenProperties
<1> QED
  BY <1>3

(* Where a packet's data lies in its block. *)
SizeOf(k, length) == EndOf(k + 1, length) - EndOf(k, length)

(* The k-th packet of the n-th block, word for word. *)
IsPacket(p, identifier, n, k, length) ==
  LET part == Parts(DataOf(n, length))[k + 1]
      size == SizeOf(k, length)
  IN /\ p \in Seq(AnyWord)
     /\ size \in Nat \ {0}
     /\ EndOf(k, length) \in Nat /\ (EndOf(k, length) = 0 => k = 0)
     /\ Len(p) = 6 + size
     /\ p[1] = Word("sig", 0) /\ p[2] = Word("sig", 1)
     /\ p[3] = Word("int", identifier)
     /\ p[4] = Word("int", k)
     /\ p[5] = Word("int", Count(length))
     /\ p[6] = Word("int", size)
     /\ part \in Seq(AnyWord) /\ Len(part) = size
     /\ \A i \in 1 .. size :
          /\ part[i] = Data(n, EndOf(k, length) + i)
          /\ p[6 + i] = Data(n, EndOf(k, length) + i)

LEMMA PacketWords ==
  ASSUME NEW n \in Nat, NEW length \in Nat \ {0}, NEW identifier \in Nat,
         NEW k \in Nat, k + 1 <= Count(length)
  PROVE  IsPacket(toByteArray(identifier, k, Parts(DataOf(n, length))),
                  identifier, n, k, length)
<1> DEFINE all == Parts(DataOf(n, length))
           c == Count(length)
           E(i) == EndOf(i, length)
           part == all[k + 1]
           p == toByteArray(identifier, k, all)
           size == SizeOf(k, length)
<1>1. /\ all \in Seq(Seq(AnyWord)) /\ Len(all) = c
      /\ \A i \in 1 .. c : all[i] = Piece(n, E(i - 1), E(i))
  BY PartsAre
<1>2. /\ c \in Nat \ {0} /\ E(0) = 0
      /\ \A i \in 1 .. c : /\ E(i - 1) \in 0 .. length - 1
                           /\ E(i) \in E(i - 1) + 1 .. length
  BY Chunks
<1>3. size = E(k + 1) - E(k)
  BY DEF SizeOf
<1> HIDE DEF all, c, E, size
<1>4. k + 1 \in 1 .. c /\ (k + 1) - 1 = k /\ k + 1 <= Len(all)
  BY <1>1, <1>2 DEF c
<1>5. E(k) \in Nat /\ E(k + 1) \in Nat /\ E(k) < E(k + 1) /\ size \in Nat \ {0}
  BY <1>2, <1>3, <1>4
<1>6. E(k) = 0 => k = 0
  <2> SUFFICES ASSUME k # 0 PROVE E(k) # 0
    OBVIOUS
  <2>1. k \in 1 .. c
    BY <1>2, <1>4
  <2>2. E(k - 1) \in Nat /\ E(k) >= E(k - 1) + 1
    BY <1>2, <2>1
  <2> QED
    BY <2>2
<1>7. part = Piece(n, E(k), E(k + 1))
  BY <1>1, <1>4
<1>8. /\ part \in Seq(AnyWord) /\ Len(part) = size
      /\ \A i \in 1 .. size : part[i] = Data(n, E(k) + i)
  <2> DEFINE a == E(k)
             b == E(k + 1)
  <2>1. a \in Nat /\ b \in Nat /\ a <= b /\ size = b - a /\ part = Piece(n, a, b)
    BY <1>3, <1>5, <1>7
  <2> HIDE DEF a, b, part
  <2>2. /\ Piece(n, a, b) \in Seq(AnyWord)
        /\ Len(Piece(n, a, b)) = b - a
        /\ \A i \in 1 .. b - a : Piece(n, a, b)[i] = Data(n, a + i)
    BY <2>1, EveryPiece
  <2>3. \A i \in 1 .. size : part[i] = Data(n, a + i)
    BY <2>1, <2>2
  <2> QED
    BY <2>1, <2>2, <2>3 DEF a
<1>9. /\ p \in Seq(AnyWord)
      /\ part \in Seq(AnyWord)
      /\ Len(p) = 6 + Len(part)
      /\ p[1] = Word("sig", 0) /\ p[2] = Word("sig", 1)
      /\ p[3] = Word("int", identifier)
      /\ p[4] = Word("int", k)
      /\ p[5] = Word("int", Len(all))
      /\ p[6] = Word("int", Len(part))
      /\ \A i \in 1 .. Len(part) : p[6 + i] = part[i]
  <2>1. all \in Seq(Seq(AnyWord)) /\ k + 1 <= Len(all)
    BY <1>1, <1>4
  <2> QED
    BY <2>1, PacketIs
<1> HIDE DEF p, part
<1>10. /\ Len(p) = 6 + size /\ p[5] = Word("int", c) /\ p[6] = Word("int", size)
       /\ \A i \in 1 .. size : p[6 + i] = part[i]
  BY <1>1, <1>8, <1>9
<1>11. \A i \in 1 .. size : part[i] = Data(n, E(k) + i) /\ p[6 + i] = Data(n, E(k) + i)
  BY <1>8, <1>10
<1> QED
  BY <1>2, <1>5, <1>6, <1>8, <1>9, <1>10, <1>11, Zenon
  DEF IsPacket, p, part, all, c, E, size

Number(p)  == p[4].value
BlockIn(p) == p[7].block

(* The packet is one of a block that was written. *)
Genuine(p, lengths) ==
  /\ p[3].value \in Nat
  /\ Number(p) \in Nat
  /\ BlockIn(p) \in 1 .. Len(lengths)
  /\ Number(p) + 1 <= Count(lengths[BlockIn(p)])
  /\ p = toByteArray(p[3].value, Number(p),
                     Parts(DataOf(BlockIn(p), lengths[BlockIn(p)])))

Lengthy(lengths) == lengths \in Seq(Nat \ {0})

LEMMA EveryPacket ==
  \A n, identifier, k \in Nat, length \in Nat \ {0} : k + 1 <= Count(length) =>
    IsPacket(toByteArray(identifier, k, Parts(DataOf(n, length))),
             identifier, n, k, length)
BY PacketWords

LEMMA GenuineIs ==
  ASSUME NEW p, NEW lengths, Lengthy(lengths), Genuine(p, lengths)
  PROVE  /\ BlockIn(p) \in Nat \ {0} /\ Number(p) \in Nat
         /\ BlockIn(p) \in 1 .. Len(lengths)
         /\ Number(p) + 1 <= Count(lengths[BlockIn(p)])
         /\ lengths[BlockIn(p)] \in Nat \ {0}
         /\ IsPacket(p, p[3].value, BlockIn(p), Number(p), lengths[BlockIn(p)])
<1> DEFINE n == BlockIn(p)
           k == Number(p)
           length == lengths[n]
           identifier == p[3].value
<1>1. /\ identifier \in Nat /\ k \in Nat /\ n \in 1 .. Len(lengths)
      /\ k + 1 <= Count(length)
      /\ p = toByteArray(identifier, k, Parts(DataOf(n, length)))
  BY DEF Genuine
<1>2. lengths \in Seq(Nat \ {0}) /\ Len(lengths) \in Nat
  BY LenProperties DEF Lengthy
<1>3. n \in Nat \ {0} /\ length \in Nat \ {0}
  BY <1>1, <1>2
<1>4. n \in Nat
  BY <1>3
<1> HIDE DEF n, k, length, identifier
<1>5. IsPacket(toByteArray(identifier, k, Parts(DataOf(n, length))), identifier, n, k, length)
  BY <1>1, <1>3, <1>4, EveryPacket
<1>6. IsPacket(p, identifier, n, k, length)
  BY <1>1, <1>5
<1> QED
  BY <1>1, <1>3, <1>6 DEF n, k, length, identifier

(* The first word of a block is the first word of data of its first packet.*)
LEMMA StartOfBlock ==
  ASSUME NEW p, NEW lengths, Lengthy(lengths), Genuine(p, lengths),
         NEW i \in 1 .. Len(p), NEW m \in Nat, p[i] = Data(m, 1)
  PROVE  i = 7 /\ Number(p) = 0 /\ BlockIn(p) = m
<1> DEFINE n == BlockIn(p)
           k == Number(p)
           e == EndOf(k, lengths[n])
           size == SizeOf(k, lengths[n])
<1>1. /\ n \in Nat \ {0} /\ k \in Nat /\ size \in Nat \ {0}
      /\ e \in Nat /\ (e = 0 => k = 0)
      /\ Len(p) = 6 + size
      /\ p[1] = Word("sig", 0) /\ p[2] = Word("sig", 1)
      /\ p[3] = Word("int", p[3].value) /\ p[4] = Word("int", k)
      /\ p[5] = Word("int", Count(lengths[n])) /\ p[6] = Word("int", size)
      /\ \A j \in 1 .. size : p[6 + j] = Data(n, e + j)
  BY GenuineIs DEF IsPacket
<1> HIDE DEF n, k, e, size
<1>2. i \notin 1 .. 6
  <2>1. p[i].kind = "data"
    BY DEF Data
  <2>2. ASSUME i \in 1 .. 6 PROVE FALSE
    <3>1. i = 1 \/ i = 2 \/ i = 3 \/ i = 4 \/ i = 5 \/ i = 6
      BY <2>2
    <3>2. \A v : Word("sig", v).kind = "sig" /\ Word("int", v).kind = "int"
      BY DEF Word
    <3>3. /\ p[1].kind = "sig" /\ p[2].kind = "sig" /\ p[3].kind = "int"
          /\ p[4].kind = "int" /\ p[5].kind = "int" /\ p[6].kind = "int"
      BY <1>1, <3>2, Zenon
    <3> QED
      BY <2>1, <3>1, <3>3
  <2> QED
    BY <2>2
<1> DEFINE j == i - 6
<1>3. j \in 1 .. size /\ 6 + j = i
  BY <1>1, <1>2
<1> HIDE DEF j
<1>4. Data(n, e + j) = Data(m, 1)
  BY <1>1, <1>3
<1>5. n = m /\ e + j = 1
  BY <1>4 DEF Data
<1>6. e = 0 /\ j = 1
  BY <1>1, <1>3, <1>5
<1> QED
  BY <1>1, <1>3, <1>5, <1>6 DEF n, k

LEMMA MadeGenuine ==
  ASSUME NEW lengths, Lengthy(lengths), NEW n \in 1 .. Len(lengths),
         NEW identifier \in Nat, NEW k \in Nat, k + 1 <= Count(lengths[n])
  PROVE  LET p == toByteArray(identifier, k, Parts(DataOf(n, lengths[n])))
         IN /\ p \in Seq(AnyWord) /\ Genuine(p, lengths)
            /\ Number(p) = k /\ BlockIn(p) = n
<1> DEFINE length == lengths[n]
           p == toByteArray(identifier, k, Parts(DataOf(n, length)))
           size == SizeOf(k, length)
<1>1. n \in Nat /\ length \in Nat \ {0}
  BY DEF Lengthy
<1> HIDE DEF length
<1>2. /\ p \in Seq(AnyWord) /\ size \in Nat \ {0}
      /\ p[3] = Word("int", identifier)
      /\ p[4] = Word("int", k)
      /\ \A i \in 1 .. size : p[6 + i] = Data(n, EndOf(k, length) + i)
  <2>1. n \in Nat /\ k \in Nat /\ identifier \in Nat /\ k + 1 <= Count(length)
    BY <1>1 DEF length
  <2>2. IsPacket(p, identifier, n, k, length)
    BY <1>1, <2>1, EveryPacket
  <2> QED
    BY <2>2 DEF IsPacket
<1>3. p[3].value = identifier /\ p[4].value = k
  BY <1>2 DEF Word
<1>4. p[7].block = n
  <2>1. 1 \in 1 .. size /\ 6 + 1 = 7
    BY <1>2
  <2>2. p[7] = Data(n, EndOf(k, length) + 1)
    BY <1>2, <2>1
  <2> QED
    BY <2>2 DEF Data
<1>5. p = toByteArray(p[3].value, p[4].value, Parts(DataOf(p[7].block, lengths[p[7].block])))
  BY <1>3, <1>4 DEF length
<1> HIDE DEF p
<1>6. Genuine(p, lengths)
  BY <1>3, <1>4, <1>5 DEF Genuine, Number, BlockIn
<1> QED
  BY <1>2, <1>3, <1>4, <1>6 DEF Number, BlockIn, p, length

(* A block more changes nothing about the packets of the others. *)
LEMMA StillGenuine ==
  ASSUME NEW p, NEW lengths, Lengthy(lengths), Genuine(p, lengths), NEW x \in Nat \ {0}
  PROVE  Genuine(p, Append(lengths, x))
<1> DEFINE more == Append(lengths, x)
<1>1. lengths \in Seq(Nat \ {0}) /\ Len(lengths) \in Nat
  BY LenProperties DEF Lengthy
<1>2. /\ Len(more) = Len(lengths) + 1
      /\ \A i \in 1 .. Len(lengths) : more[i] = lengths[i]
  BY <1>1
<1> HIDE DEF more
<1>3. BlockIn(p) \in 1 .. Len(lengths) /\ BlockIn(p) \in 1 .. Len(more)
  BY <1>1, <1>2 DEF Genuine
<1>4. more[BlockIn(p)] = lengths[BlockIn(p)]
  BY <1>2, <1>3
<1> QED
  BY <1>3, <1>4, Zenon DEF Genuine, more

----------------------------------------------------------------------------
(* Packets in a row: each is the first of a block or the next of its block.*)
Follows(p, q) ==
  Number(q) = 0 \/ (BlockIn(q) = BlockIn(p) /\ Number(q) = Number(p) + 1)

Train(list, lengths) ==
  /\ list \in Seq(Seq(AnyWord))
  /\ \A i \in 1 .. Len(list) : Genuine(list[i], lengths)
  /\ \A i \in 1 .. Len(list) - 1 : Follows(list[i], list[i + 1])

LEMMA TailIs ==
  ASSUME NEW S, NEW s \in Seq(S), s # <<>>
  PROVE  /\ Tail(s) \in Seq(S) /\ Len(Tail(s)) = Len(s) - 1 /\ Len(s) >= 1
         /\ \A i \in 1 .. Len(s) - 1 : Tail(s)[i] = s[i + 1]
         /\ s[1] \in S
         /\ s = <<s[1]>> \o Tail(s)
         /\ Tail(s) = Drop(s, 1)
<1>1. Len(s) \in Nat \ {0} /\ s[1] \in S /\ 1 \in 0 .. Len(s)
  OBVIOUS
<1>2. /\ Tail(s) \in Seq(S) /\ Len(Tail(s)) = Len(s) - 1
      /\ \A i \in 1 .. Len(s) - 1 : Tail(s)[i] = s[i + 1]
  BY HeadTailProperties
<1>3. Tail(s) = Drop(s, 1)
  <2>1. /\ Drop(s, 1) \in Seq(S) /\ Len(Drop(s, 1)) = Len(s) - 1
        /\ \A i \in 1 .. Len(s) - 1 : Drop(s, 1)[i] = s[i + 1]
    BY <1>1, DropProperties
  <2> DEFINE a == Tail(s)
             b == Drop(s, 1)
  <2>2. a \in Seq(S) /\ b \in Seq(S) /\ Len(a) = Len(b) /\ \A i \in 1 .. Len(a) : a[i] = b[i]
    BY <1>2, <2>1
  <2> HIDE DEF a, b
  <2>3. a = b
    BY <2>2, SeqEqual
  <2> QED
    BY <2>3 DEF a, b
<1>4. s = <<s[1]>> \o Tail(s)
  <2>1. s = SubSeq(s, 1, 1) \o Drop(s, 1)
    BY <1>1, SplitAt
  <2>2. SubSeq(s, 1, 1) = <<s[1]>>
    <3>1. /\ SubSeq(s, 1, 1) \in Seq(S) /\ Len(SubSeq(s, 1, 1)) = 1
          /\ \A i \in 1 .. 1 : SubSeq(s, 1, 1)[i] = s[i]
      BY <1>1, SplitAt
    <3> DEFINE a == SubSeq(s, 1, 1)
               b == <<s[1]>>
    <3>2. a \in Seq(S) /\ b \in Seq(S) /\ Len(a) = Len(b) /\ \A i \in 1 .. Len(a) : a[i] = b[i]
      BY <1>1, <3>1
    <3> HIDE DEF a, b
    <3>3. a = b
      BY <3>2, SeqEqual
    <3> QED
      BY <3>3 DEF a, b
  <2> QED
    BY <1>3, <2>1, <2>2
<1> QED
  BY <1>1, <1>2, <1>3, <1>4

LEMMA EmptyTrain ==
  ASSUME NEW lengths
  PROVE  Train(<<>>, lengths)
<1>1. <<>> \in Seq(Seq(AnyWord)) /\ Len(<<>>) = 0
  BY EmptySeq
<1> QED
  BY <1>1 DEF Train

LEMMA TrainType ==
  ASSUME NEW list, NEW lengths, Train(list, lengths)
  PROVE  list \in Seq(Seq(AnyWord)) /\ FlattenSeq(list) \in Seq(AnyWord)
BY FlattenType DEF Train

LEMMA TrainTail ==
  ASSUME NEW list, NEW lengths, Train(list, lengths), list # <<>>
  PROVE  /\ list[1] \in Seq(AnyWord) /\ Genuine(list[1], lengths)
         /\ Train(Tail(list), lengths)
         /\ Tail(list) # <<>> => Follows(list[1], Tail(list)[1])
         /\ FlattenSeq(list) = list[1] \o FlattenSeq(Tail(list))
<1> DEFINE rest == Tail(list)
<1>1. list \in Seq(Seq(AnyWord))
  BY DEF Train
<1>2. /\ rest \in Seq(Seq(AnyWord)) /\ Len(rest) = Len(list) - 1 /\ Len(list) >= 1
      /\ \A i \in 1 .. Len(list) - 1 : rest[i] = list[i + 1]
      /\ list[1] \in Seq(AnyWord)
      /\ list = <<list[1]>> \o rest
  BY <1>1, TailIs
<1> HIDE DEF rest
<1>3. Len(list) \in Nat
  BY <1>1, LenProperties
<1>4. Genuine(list[1], lengths)
  BY <1>2, <1>3 DEF Train
<1>5. \A i \in 1 .. Len(rest) : Genuine(rest[i], lengths)
  <2> SUFFICES ASSUME NEW i \in 1 .. Len(rest) PROVE Genuine(rest[i], lengths)
    OBVIOUS
  <2>1. i + 1 \in 1 .. Len(list) /\ rest[i] = list[i + 1]
    BY <1>2, <1>3
  <2> QED
    BY <2>1 DEF Train
<1>6. \A i \in 1 .. Len(rest) - 1 : Follows(rest[i], rest[i + 1])
  <2> SUFFICES ASSUME NEW i \in 1 .. Len(rest) - 1 PROVE Follows(rest[i], rest[i + 1])
    OBVIOUS
  <2> DEFINE j == i + 1
  <2>1. /\ j \in 1 .. Len(list) - 1 /\ rest[i] = list[j] /\ rest[i + 1] = list[j + 1]
    BY <1>2, <1>3
  <2> HIDE DEF j
  <2>2. Follows(list[j], list[j + 1])
    BY <2>1 DEF Train
  <2> QED
    BY <2>1, <2>2
<1>7. Train(rest, lengths)
  BY <1>2, <1>5, <1>6 DEF Train
<1>8. ASSUME rest # <<>> PROVE Follows(list[1], rest[1])
  <2>1. Len(rest) \in Nat /\ Len(rest) # 0
    BY <1>2, <1>8, EmptySeq
  <2>2. 1 \in 1 .. Len(list) - 1 /\ rest[1] = list[1 + 1]
    BY <1>2, <1>3, <2>1
  <2> QED
    BY <2>2 DEF Train
<1>9. FlattenSeq(list) = list[1] \o FlattenSeq(rest)
  BY <1>2, FlattenCons
<1> QED
  BY <1>2, <1>4, <1>7, <1>8, <1>9 DEF rest

(* A block more changes nothing about the packets there are. *)
LEMMA TrainStays ==
  ASSUME NEW list, NEW lengths, Lengthy(lengths), Train(list, lengths),
         NEW x \in Nat \ {0}
  PROVE  Train(list, Append(lengths, x))
BY StillGenuine, Zenon DEF Train

LEMMA TrainConcat ==
  ASSUME NEW a, NEW b, NEW lengths, Train(a, lengths), Train(b, lengths),
         b = <<>> \/ Number(b[1]) = 0
  PROVE  /\ Train(a \o b, lengths)
         /\ FlattenSeq(a \o b) = FlattenSeq(a) \o FlattenSeq(b)
         /\ a # <<>> => a \o b # <<>> /\ (a \o b)[1] = a[1]
         /\ a = <<>> => a \o b = b
<1> DEFINE c == a \o b
<1>1. a \in Seq(Seq(AnyWord)) /\ b \in Seq(Seq(AnyWord))
  BY DEF Train
<1>2. /\ c \in Seq(Seq(AnyWord)) /\ Len(c) = Len(a) + Len(b)
      /\ Len(a) \in Nat /\ Len(b) \in Nat
      /\ \A i \in 1 .. Len(a) + Len(b) : c[i] = IF i <= Len(a) THEN a[i] ELSE b[i - Len(a)]
  BY <1>1, ConcatProperties, LenProperties
<1>3. FlattenSeq(c) = FlattenSeq(a) \o FlattenSeq(b)
  BY <1>1, FlattenConcat
<1>4. a = <<>> => c = b
  BY <1>1, ConcatEmptySeq
<1> HIDE DEF c
<1>5. /\ \A i \in 1 .. Len(a) : i \in 1 .. Len(c) /\ c[i] = a[i]
      /\ \A i \in Len(a) + 1 .. Len(c) : i - Len(a) \in 1 .. Len(b) /\ c[i] = b[i - Len(a)]
  BY <1>2
<1>6. \A i \in 1 .. Len(c) : Genuine(c[i], lengths)
  <2> SUFFICES ASSUME NEW i \in 1 .. Len(c) PROVE Genuine(c[i], lengths)
    OBVIOUS
  <2>1. i \in 1 .. Len(a) \/ i \in Len(a) + 1 .. Len(c)
    BY <1>2
  <2> QED
    BY <1>5, <2>1 DEF Train
<1>7. \A i \in 1 .. Len(c) - 1 : Follows(c[i], c[i + 1])
  <2> SUFFICES ASSUME NEW i \in 1 .. Len(c) - 1 PROVE Follows(c[i], c[i + 1])
    OBVIOUS
  <2>1. CASE i < Len(a)
    <3>1. i \in 1 .. Len(a) - 1 /\ i \in 1 .. Len(a) /\ i + 1 \in 1 .. Len(a)
      BY <1>2, <2>1
    <3>2. c[i] = a[i] /\ c[i + 1] = a[i + 1]
      BY <1>5, <3>1
    <3> QED
      BY <3>1, <3>2 DEF Train
  <2>2. CASE i = Len(a)
    <3>1. i + 1 \in Len(a) + 1 .. Len(c) /\ (i + 1) - Len(a) = 1
      BY <1>2, <2>2
    <3>2. c[i + 1] = b[1] /\ 1 \in 1 .. Len(b)
      BY <1>5, <3>1
    <3>3. Number(b[1]) = 0
      BY <3>2
    <3> QED
      BY <3>2, <3>3 DEF Follows
  <2>3. CASE i > Len(a)
    <3> DEFINE j == i - Len(a)
    <3>1. /\ i \in Len(a) + 1 .. Len(c) /\ i + 1 \in Len(a) + 1 .. Len(c)
          /\ j \in 1 .. Len(b) - 1 /\ (i + 1) - Len(a) = j + 1
      BY <1>2, <2>3
    <3>2. c[i] = b[j] /\ c[i + 1] = b[j + 1]
      BY <1>5, <3>1
    <3> HIDE DEF j
    <3>3. Follows(b[j], b[j + 1])
      BY <3>1 DEF Train
    <3> QED
      BY <3>2, <3>3
  <2>4. i < Len(a) \/ i = Len(a) \/ i > Len(a)
    BY <1>2
  <2> QED
    BY <2>1, <2>2, <2>3, <2>4
<1>8. Train(c, lengths)
  BY <1>2, <1>6, <1>7 DEF Train
<1>9. ASSUME a # <<>> PROVE c # <<>> /\ c[1] = a[1]
  <2>1. Len(a) # 0
    BY <1>1, <1>9, EmptySeq
  <2>2. 1 \in 1 .. Len(a)
    BY <1>2, <2>1
  <2>3. 1 \in 1 .. Len(c) /\ c[1] = a[1]
    BY <1>5, <2>2
  <2> QED
    BY <2>3
<1> QED
  BY <1>3, <1>4, <1>8, <1>9 DEF c

(* The packets a block is written in. *)
LEMMA BlockTrain ==
  ASSUME NEW lengths, Lengthy(lengths), NEW n \in 1 .. Len(lengths),
         NEW identifier \in Nat
  PROVE  LET all == Parts(DataOf(n, lengths[n]))
             list == PacketList(identifier, all)
         IN /\ Train(list, lengths) /\ list # <<>> /\ Number(list[1]) = 0
            /\ FlattenSeq(list) = Packets(identifier, all)
<1> DEFINE length == lengths[n]
           all == Parts(DataOf(n, length))
           list == PacketList(identifier, all)
           c == Count(length)
<1>1. n \in Nat /\ length \in Nat \ {0}
  BY DEF Lengthy
<1> HIDE DEF length
<1>2. /\ list \in Seq(Seq(AnyWord)) /\ Len(list) = c
      /\ \A i \in 1 .. c : list[i] = toByteArray(identifier, i - 1, all)
  BY <1>1, PacketListIs
<1>3. c \in Nat \ {0}
  BY <1>1, Chunks
<1>4. FlattenSeq(list) = Packets(identifier, all)
  BY DEF Packets, PacketList
<1>5. ASSUME NEW i \in 1 .. c
      PROVE  Genuine(list[i], lengths) /\ Number(list[i]) = i - 1 /\ BlockIn(list[i]) = n
  <2> DEFINE k == i - 1
             p == toByteArray(identifier, k, Parts(DataOf(n, lengths[n])))
  <2>1. k \in Nat /\ k + 1 <= Count(lengths[n])
    BY <1>3 DEF c, length
  <2>2. list[i] = p
    BY <1>2 DEF all, length
  <2> HIDE DEF k, list
  <2>3. Genuine(p, lengths) /\ Number(p) = k /\ BlockIn(p) = n
    BY <2>1, MadeGenuine
  <2> QED
    BY <2>2, <2>3 DEF k
<1> HIDE DEF list, c, all
<1>6. \A i \in 1 .. Len(list) - 1 : Follows(list[i], list[i + 1])
  <2> SUFFICES ASSUME NEW i \in 1 .. Len(list) - 1 PROVE Follows(list[i], list[i + 1])
    OBVIOUS
  <2>1. i \in 1 .. c /\ i + 1 \in 1 .. c /\ (i + 1) - 1 = (i - 1) + 1
    BY <1>2, <1>3
  <2>2. /\ Number(list[i]) = i - 1 /\ BlockIn(list[i]) = n
        /\ Number(list[i + 1]) = (i + 1) - 1 /\ BlockIn(list[i + 1]) = n
    BY <1>5, <2>1
  <2> QED
    BY <2>1, <2>2 DEF Follows
<1>7. Train(list, lengths)
  BY <1>2, <1>5, <1>6 DEF Train
<1>8. list # <<>> /\ Number(list[1]) = 0
  <2>1. 1 \in 1 .. c /\ 1 - 1 = 0
    BY <1>3
  <2>2. Number(list[1]) = 0
    BY <1>5, <2>1
  <2>3. Len(list) # 0
    BY <1>2, <1>3
  <2> QED
    BY <2>2, <2>3
<1> QED
  BY <1>4, <1>7, <1>8 DEF list, all, length

(* A packet alone. *)
LEMMA OneTrain ==
  ASSUME NEW p \in Seq(AnyWord), NEW lengths, Genuine(p, lengths)
  PROVE  Train(<<p>>, lengths) /\ FlattenSeq(<<p>>) = p
<1>1. /\ <<p>> \in Seq(Seq(AnyWord)) /\ Len(<<p>>) = 1 /\ <<p>>[1] = p
  OBVIOUS
<1>2. FlattenSeq(<<p>>) = p
  BY FlattenOne
<1>3. \A i \in 1 .. 1 : i = 1
  OBVIOUS
<1>4. ~ \E i \in 1 .. 1 - 1 : TRUE
  OBVIOUS
<1> QED
  BY <1>1, <1>2, <1>3, <1>4 DEF Train

----------------------------------------------------------------------------
(* What a receiver finds that has lost its place: a rest in which no block *)
(* of the connection can begin, then packets.                              *)
Scrap(junk, blocks) ==
  /\ junk \in Seq(AnyWord)
  /\ \A i \in 7 .. Len(junk), n \in blocks : junk[i] # Data(n, 1)

Strewn(flow, lengths, blocks) ==
  \E junk, list : /\ Scrap(junk, blocks) /\ Train(list, lengths)
                  /\ flow = junk \o FlattenSeq(list)

LEMMA StrewnType ==
  ASSUME NEW flow, NEW lengths, NEW blocks, Strewn(flow, lengths, blocks)
  PROVE  flow \in Seq(AnyWord)
<1>1. PICK junk, list : /\ Scrap(junk, blocks) /\ Train(list, lengths)
                        /\ flow = junk \o FlattenSeq(list)
  BY DEF Strewn
<1>2. junk \in Seq(AnyWord) /\ FlattenSeq(list) \in Seq(AnyWord)
  BY <1>1, TrainType DEF Scrap
<1> QED
  BY <1>1, <1>2, ConcatProperties

(* One word less. *)
LEMMA StrewnStep ==
  ASSUME NEW flow, NEW lengths, NEW blocks \in SUBSET Nat, Lengthy(lengths),
         Strewn(flow, lengths, blocks), flow # <<>>
  PROVE  Strewn(Drop(flow, 1), lengths, blocks)
<1>1. PICK junk, list : /\ Scrap(junk, blocks) /\ Train(list, lengths)
                        /\ flow = junk \o FlattenSeq(list)
  BY DEF Strewn
<1>2. junk \in Seq(AnyWord) /\ FlattenSeq(list) \in Seq(AnyWord)
  BY <1>1, TrainType DEF Scrap
<1>3. Len(junk) \in Nat
  BY <1>2, LenProperties
<1>4. CASE junk # <<>>
  <2>1. Len(junk) # 0
    BY <1>2, <1>4, EmptySeq
  <2>2. 1 \in 0 .. Len(junk)
    BY <1>3, <2>1
  <2> DEFINE less == Drop(junk, 1)
  <2>3. Drop(flow, 1) = less \o FlattenSeq(list)
    BY <1>1, <1>2, <2>2, DropRest
  <2>4. /\ less \in Seq(AnyWord) /\ Len(less) = Len(junk) - 1
        /\ \A i \in 1 .. Len(junk) - 1 : less[i] = junk[i + 1]
    BY <1>2, <2>2, DropProperties
  <2> HIDE DEF less
  <2>5. Scrap(less, blocks)
    <3> SUFFICES ASSUME NEW i \in 7 .. Len(less), NEW n \in blocks
                 PROVE  less[i] # Data(n, 1)
      BY <2>4 DEF Scrap
    <3>1. i + 1 \in 7 .. Len(junk) /\ less[i] = junk[i + 1]
      BY <1>3, <2>4
    <3> QED
      BY <1>1, <3>1 DEF Scrap
  <2> QED
    BY <1>1, <2>3, <2>5 DEF Strewn
<1>5. CASE junk = <<>>
  <2>1. flow = FlattenSeq(list)
    BY <1>1, <1>2, <1>5, ConcatEmptySeq
  <2>2. list # <<>>
    BY <2>1, FlattenEmpty
  <2> DEFINE p == list[1]
             less == Drop(p, 1)
             rest == Tail(list)
  <2>3. /\ p \in Seq(AnyWord) /\ Genuine(p, lengths) /\ Train(rest, lengths)
        /\ flow = p \o FlattenSeq(rest)
    BY <1>1, <2>1, <2>2, TrainTail
  <2> HIDE DEF p, rest
  <2>4. FlattenSeq(rest) \in Seq(AnyWord)
    BY <2>3, TrainType
  <2>5. Len(p) = 6 + SizeOf(Number(p), lengths[BlockIn(p)])
        /\ SizeOf(Number(p), lengths[BlockIn(p)]) \in Nat
    BY <2>3, GenuineIs DEF IsPacket
  <2>6. 1 \in 0 .. Len(p) /\ Len(p) \in Nat
    BY <2>5
  <2>7. Drop(flow, 1) = less \o FlattenSeq(rest)
    BY <2>3, <2>4, <2>6, DropRest
  <2>8. /\ less \in Seq(AnyWord) /\ Len(less) = Len(p) - 1
        /\ \A i \in 1 .. Len(p) - 1 : less[i] = p[i + 1]
    BY <2>3, <2>6, DropProperties
  <2> HIDE DEF less
  <2>9. Scrap(less, blocks)
    <3> SUFFICES ASSUME NEW i \in 7 .. Len(less), NEW n \in blocks, less[i] = Data(n, 1)
                 PROVE  FALSE
      BY <2>8 DEF Scrap
    <3> DEFINE j == i + 1
    <3>1. j \in 1 .. Len(p) /\ j # 7 /\ n \in Nat /\ p[j] = Data(n, 1)
      BY <2>6, <2>8
    <3> HIDE DEF j
    <3> QED
      BY <2>3, <3>1, StartOfBlock
  <2> QED
    BY <2>3, <2>7, <2>9 DEF Strewn
<1> QED
  BY <1>4, <1>5

LEMMA StrewnDrop ==
  ASSUME NEW flow, NEW lengths, NEW blocks \in SUBSET Nat, Lengthy(lengths),
         Strewn(flow, lengths, blocks)
  PROVE  \A h \in 0 .. Len(flow) : Strewn(Drop(flow, h), lengths, blocks)
<1> DEFINE Good == {h \in Nat : h <= Len(flow) => Strewn(Drop(flow, h), lengths, blocks)}
<1>1. flow \in Seq(AnyWord) /\ Len(flow) \in Nat
  BY StrewnType, LenProperties
<1>2. 0 \in Good
  <2>1. 0 \in 0 .. Len(flow)
    BY <1>1
  <2>2. Drop(flow, 0) = flow
    <3>1. flow = SubSeq(flow, 1, 0) \o Drop(flow, 0) /\ Drop(flow, 0) \in Seq(AnyWord)
      BY <1>1, <2>1, SplitAt, DropProperties
    <3>2. SubSeq(flow, 1, 0) = <<>>
      BY <1>1, FirstAll
    <3> QED
      BY <3>1, <3>2, ConcatEmptySeq
  <2> QED
    BY <2>2
<1>3. ASSUME NEW h \in Nat, h \in Good PROVE h + 1 \in Good
  <2> SUFFICES ASSUME h + 1 <= Len(flow)
               PROVE  Strewn(Drop(flow, h + 1), lengths, blocks)
    OBVIOUS
  <2> DEFINE rest == Drop(flow, h)
  <2>1. h <= Len(flow) /\ h \in 0 .. Len(flow) /\ h + 1 \in 0 .. Len(flow)
    BY <1>1
  <2>2. Strewn(rest, lengths, blocks)
    BY <1>3, <2>1
  <2>3. /\ rest \in Seq(AnyWord) /\ Len(rest) = Len(flow) - h
        /\ \A i \in 1 .. Len(flow) - h : rest[i] = flow[i + h]
    BY <1>1, <2>1, DropProperties
  <2>4. /\ Drop(flow, h + 1) \in Seq(AnyWord) /\ Len(Drop(flow, h + 1)) = Len(flow) - (h + 1)
        /\ \A i \in 1 .. Len(flow) - (h + 1) : Drop(flow, h + 1)[i] = flow[i + (h + 1)]
    BY <1>1, <2>1, DropProperties
  <2> HIDE DEF rest
  <2>5. Len(rest) \in Nat /\ Len(rest) # 0 /\ 1 \in 0 .. Len(rest)
    BY <1>1, <2>3
  <2>6. rest # <<>>
    BY <2>5
  <2>7. /\ Drop(rest, 1) \in Seq(AnyWord) /\ Len(Drop(rest, 1)) = Len(rest) - 1
        /\ \A i \in 1 .. Len(rest) - 1 : Drop(rest, 1)[i] = rest[i + 1]
    BY <2>3, <2>5, DropProperties
  <2> DEFINE a == Drop(rest, 1)
             b == Drop(flow, h + 1)
  <2>8. a \in Seq(AnyWord) /\ b \in Seq(AnyWord) /\ Len(a) = Len(b)
    BY <1>1, <2>3, <2>4, <2>7
  <2>9. ASSUME NEW i \in 1 .. Len(a) PROVE a[i] = b[i]
    <3> DEFINE m == Len(flow)
    <3>0. m \in Nat /\ Len(rest) = m - h /\ i \in 1 .. (m - h) - 1
      BY <1>1, <2>3, <2>7
    <3>1. i \in 1 .. Len(rest) - 1 /\ i \in 1 .. Len(flow) - (h + 1)
          /\ i + 1 \in 1 .. Len(flow) - h /\ (i + 1) + h = i + (h + 1)
      BY <3>0
    <3> QED
      BY <2>3, <2>4, <2>7, <3>1
  <2> HIDE DEF a, b
  <2>10. a = b
    BY <2>8, <2>9, SeqEqual
  <2>11. Strewn(a, lengths, blocks)
    BY <2>2, <2>6, StrewnStep DEF a
  <2> QED
    BY <2>10, <2>11 DEF b
<1>4. \A h \in 0 .. Len(flow) : h \in Good
  <2> HIDE DEF Good
  <2> QED
    BY <1>2, <1>3, NaturalsFromZero
<1> QED
  BY <1>1, <1>4

(* If the data of a packet that is read here starts with a first word,     *)
(* then the receiver has found its place again.                            *)
LEMMA StrewnStart ==
  ASSUME NEW flow, NEW lengths, NEW blocks \in SUBSET Nat, Lengthy(lengths),
         Strewn(flow, lengths, blocks), Len(flow) >= 7,
         NEW n \in blocks, flow[7] = Data(n, 1)
  PROVE  \E list : /\ Train(list, lengths) /\ list # <<>>
                   /\ flow = FlattenSeq(list) /\ Number(list[1]) = 0
<1>1. PICK junk, list : /\ Scrap(junk, blocks) /\ Train(list, lengths)
                        /\ flow = junk \o FlattenSeq(list)
  BY DEF Strewn
<1> DEFINE rest == FlattenSeq(list)
<1>2. junk \in Seq(AnyWord) /\ rest \in Seq(AnyWord)
  BY <1>1, TrainType DEF Scrap
<1>3. flow = junk \o rest
  BY <1>1
<1> HIDE DEF rest
<1>4. /\ Len(flow) = Len(junk) + Len(rest) /\ Len(junk) \in Nat /\ Len(rest) \in Nat
      /\ \A i \in 1 .. Len(junk) + Len(rest) :
           flow[i] = IF i <= Len(junk) THEN junk[i] ELSE rest[i - Len(junk)]
  BY <1>2, <1>3, ConcatProperties, LenProperties
<1>5. Len(junk) < 7
  <2> SUFFICES ASSUME Len(junk) >= 7 PROVE FALSE
    BY <1>4
  <2>1. 7 \in 7 .. Len(junk) /\ 7 \in 1 .. Len(junk) + Len(rest) /\ flow[7] = junk[7]
    BY <1>4
  <2> QED
    BY <1>1, <2>1 DEF Scrap
<1> DEFINE i == 7 - Len(junk)
<1>6. i \in 1 .. Len(rest) /\ i <= 7 /\ rest[i] = Data(n, 1) /\ (i = 7 <=> Len(junk) = 0)
  <2>1. 7 \in 1 .. Len(junk) + Len(rest) /\ ~ 7 <= Len(junk)
    BY <1>4, <1>5
  <2> QED
    BY <1>4, <2>1
<1> HIDE DEF i
<1>7. list # <<>>
  <2> SUFFICES ASSUME list = <<>> PROVE FALSE
    OBVIOUS
  <2>1. rest = <<>>
    BY FlattenEmpty DEF rest
  <2> QED
    BY <1>6, <2>1
<1> DEFINE p == list[1]
           others == FlattenSeq(Tail(list))
<1>8. /\ p \in Seq(AnyWord) /\ Genuine(p, lengths) /\ Train(Tail(list), lengths)
      /\ rest = p \o others
  BY <1>1, <1>7, TrainTail DEF rest
<1>9. others \in Seq(AnyWord)
  BY <1>8, TrainType
<1> HIDE DEF p, others
<1>10. Len(p) = 6 + SizeOf(Number(p), lengths[BlockIn(p)])
       /\ SizeOf(Number(p), lengths[BlockIn(p)]) \in Nat \ {0}
  BY <1>8, GenuineIs DEF IsPacket
<1>11. i \in 1 .. Len(p)
  BY <1>6, <1>10
<1>12. p[i] = Data(n, 1)
  <2>1. \A k \in 1 .. Len(p) + Len(others) :
           (p \o others)[k] = IF k <= Len(p) THEN p[k] ELSE others[k - Len(p)]
    BY <1>8, <1>9, ConcatProperties
  <2>2. Len(others) \in Nat /\ Len(p) \in Nat
    BY <1>8, <1>9, LenProperties
  <2>3. i \in 1 .. Len(p) + Len(others) /\ i <= Len(p)
    BY <1>11, <2>2
  <2>4. (p \o others)[i] = p[i]
    BY <2>1, <2>3
  <2> QED
    BY <1>6, <1>8, <2>4
<1>13. n \in Nat
  OBVIOUS
<1>14. i = 7 /\ Number(p) = 0
  BY <1>8, <1>11, <1>12, <1>13, StartOfBlock
<1>15. junk = <<>>
  BY <1>2, <1>6, <1>14, EmptySeq
<1>16. flow = FlattenSeq(list)
  BY <1>2, <1>3, <1>15, ConcatEmptySeq DEF rest
<1> QED
  BY <1>1, <1>7, <1>14, <1>16 DEF p

(* A block is written. *)
LEMMA StrewnGrows ==
  ASSUME NEW flow, NEW lengths, NEW blocks \in SUBSET Nat, Lengthy(lengths),
         Strewn(flow, lengths, blocks), NEW x \in Nat \ {0}, NEW list,
         Train(list, Append(lengths, x)), list = <<>> \/ Number(list[1]) = 0,
         NEW n, \A w \in DataIn(flow) : w.block # n
  PROVE  Strewn(flow \o FlattenSeq(list), Append(lengths, x), blocks \cup {n})
<1>1. PICK junk, old : /\ Scrap(junk, blocks) /\ Train(old, lengths)
                       /\ flow = junk \o FlattenSeq(old)
  BY DEF Strewn
<1>2. Train(old, Append(lengths, x))
  BY <1>1, TrainStays
<1>3. /\ Train(old \o list, Append(lengths, x))
      /\ FlattenSeq(old \o list) = FlattenSeq(old) \o FlattenSeq(list)
  BY <1>2, TrainConcat
<1>4. /\ junk \in Seq(AnyWord) /\ FlattenSeq(old) \in Seq(AnyWord)
      /\ FlattenSeq(list) \in Seq(AnyWord)
  BY <1>1, TrainType DEF Scrap
<1>5. flow \o FlattenSeq(list) = junk \o FlattenSeq(old \o list)
  <2> DEFINE a == FlattenSeq(old)
             b == FlattenSeq(list)
  <2>1. a \in Seq(AnyWord) /\ b \in Seq(AnyWord) /\ flow = junk \o a
        /\ FlattenSeq(old \o list) = a \o b
    BY <1>1, <1>3, <1>4
  <2>2. (junk \o a) \o b = junk \o (a \o b)
    <3>1. junk \in Seq(AnyWord)
      BY <1>4
    <3>2. a \in Seq(AnyWord)
      BY <2>1
    <3>3. b \in Seq(AnyWord)
      BY <2>1
    <3> HIDE DEF a, b
    <3> QED
      BY <3>1, <3>2, <3>3, WordsRegroup
  <2> HIDE DEF a, b
  <2>3. flow \o b = junk \o FlattenSeq(old \o list)
    BY <2>1, <2>2
  <2> QED
    BY <2>3 DEF b
<1>6. Scrap(junk, blocks \cup {n})
  <2> SUFFICES ASSUME NEW i \in 7 .. Len(junk), NEW m \in blocks \cup {n}, junk[i] = Data(m, 1)
               PROVE  FALSE
    BY <1>4 DEF Scrap
  <2>1. m \notin blocks
    BY <1>1 DEF Scrap
  <2>2. m = n
    BY <2>1
  <2>3. i \in 1 .. Len(junk)
    BY <1>4, LenProperties
  <2>4. junk[i].kind = "data" /\ junk[i].block = n
    BY <2>2 DEF Data
  <2>5. junk[i] \in DataIn(junk)
    BY <1>4, <2>3, <2>4, DataIndex
  <2>6. junk[i] \in DataIn(flow)
    BY <1>1, <1>4, <2>5, DataConcat
  <2> QED
    BY <2>4, <2>6
<1> QED
  BY <1>3, <1>5, <1>6 DEF Strewn

----------------------------------------------------------------------------
(* What the receiver does with a packet that is one. *)
LEMMA DropWords ==
  \A s, t \in Seq(AnyWord) : \A k \in 0 .. Len(s) : Drop(s \o t, k) = Drop(s, k) \o t
<1> SUFFICES ASSUME NEW s \in Seq(AnyWord), NEW t \in Seq(AnyWord)
             PROVE  \A k \in 0 .. Len(s) : Drop(s \o t, k) = Drop(s, k) \o t
  OBVIOUS
<1> QED
  BY DropRest

LEMMA BlockKnown ==
  ASSUME NEW n \in 1 .. Len(written)
  PROVE  BlockOf(DataOf(n, written[n])) \in 1 .. Len(written)
<1> DEFINE s == DataOf(n, written[n])
           m == {i \in 1 .. Len(written) : s = DataOf(i, written[i])}
<1>1. n \in m
  OBVIOUS
<1>2. BlockOf(s) = CHOOSE i \in m : TRUE
  BY <1>1 DEF BlockOf
<1>3. m \subseteq 1 .. Len(written)
  OBVIOUS
<1> HIDE DEF m, s
<1>4. BlockOf(s) \in m
  BY <1>1, <1>2
<1> QED
  BY <1>3, <1>4 DEF s

(* The bytes begin with the packet, as far as they are there. *)
ReadAs(bytes, rest, p, after, lengths) ==
  LET n == BlockIn(p)
      k == Number(p)
      size == SizeOf(k, lengths[n])
  IN /\ size \in Nat
     /\ Len(bytes) >= 2 => bytes[1] = Word("sig", 0) /\ bytes[2] = Word("sig", 1)
     /\ Len(bytes) >= 6 =>
          /\ bytes[3] = Word("int", p[3].value)
          /\ bytes[4] = Word("int", k)
          /\ bytes[5] = Word("int", Count(lengths[n]))
          /\ bytes[6] = Word("int", size)
     /\ Len(bytes) >= 6 + size =>
          /\ Between(bytes, 6, size) = Parts(DataOf(n, lengths[n]))[k + 1]
          /\ Drop(bytes, 6 + size) \in Seq(AnyWord)
          /\ Drop(bytes, 6 + size) \o rest = after

LEMMA WholeRead ==
  ASSUME NEW bytes \in Seq(AnyWord), NEW rest \in Seq(AnyWord),
         NEW after \in Seq(AnyWord), NEW p, NEW lengths, Lengthy(lengths),
         Genuine(p, lengths), bytes \o rest = p \o after
  PROVE  ReadAs(bytes, rest, p, after, lengths)
<1> DEFINE n == BlockIn(p)
           k == Number(p)
           size == SizeOf(k, lengths[n])
           part == Parts(DataOf(n, lengths[n]))[k + 1]
           e == EndOf(k, lengths[n])
           c == Count(lengths[n])
<1>1. /\ p \in Seq(AnyWord) /\ size \in Nat \ {0}
      /\ Len(p) = 6 + size
      /\ p[1] = Word("sig", 0) /\ p[2] = Word("sig", 1)
      /\ p[3] = Word("int", p[3].value) /\ p[4] = Word("int", k)
      /\ p[5] = Word("int", c) /\ p[6] = Word("int", size)
      /\ part \in Seq(AnyWord) /\ Len(part) = size
      /\ \A j \in 1 .. size : part[j] = Data(n, e + j) /\ p[6 + j] = Data(n, e + j)
  BY GenuineIs DEF IsPacket
<1> HIDE DEF n, k, size, part, e, c
<1>2. /\ Len(bytes) \in Nat /\ Len(rest) \in Nat /\ Len(after) \in Nat /\ Len(p) \in Nat
      /\ Len(bytes) + Len(rest) = Len(p) + Len(after)
      /\ \A i \in 1 .. Len(bytes) + Len(rest) :
           (bytes \o rest)[i] = IF i <= Len(bytes) THEN bytes[i] ELSE rest[i - Len(bytes)]
      /\ \A i \in 1 .. Len(p) + Len(after) :
           (p \o after)[i] = IF i <= Len(p) THEN p[i] ELSE after[i - Len(p)]
  <2>1. Len(bytes \o rest) = Len(bytes) + Len(rest)
    BY ConcatProperties
  <2>2. Len(p \o after) = Len(p) + Len(after)
    BY <1>1, ConcatProperties
  <2>3. Len(bytes) \in Nat /\ Len(rest) \in Nat /\ Len(after) \in Nat /\ Len(p) \in Nat
    BY <1>1, LenProperties
  <2>4. \A i \in 1 .. Len(bytes) + Len(rest) :
           (bytes \o rest)[i] = IF i <= Len(bytes) THEN bytes[i] ELSE rest[i - Len(bytes)]
    BY ConcatProperties
  <2>5. \A i \in 1 .. Len(p) + Len(after) :
           (p \o after)[i] = IF i <= Len(p) THEN p[i] ELSE after[i - Len(p)]
    BY <1>1, ConcatProperties
  <2> QED
    BY <2>1, <2>2, <2>3, <2>4, <2>5
<1>3. ASSUME NEW i \in 1 .. Len(bytes), i <= Len(p)
      PROVE  bytes[i] = p[i]
  <2>1. i \in 1 .. Len(bytes) + Len(rest) /\ i \in 1 .. Len(p) + Len(after)
        /\ i <= Len(bytes)
    BY <1>2, <1>3
  <2> QED
    BY <1>2, <1>3, <2>1
<1>4. ASSUME Len(bytes) >= 2 PROVE bytes[1] = Word("sig", 0) /\ bytes[2] = Word("sig", 1)
  <2>1. /\ 1 \in 1 .. Len(bytes) /\ 2 \in 1 .. Len(bytes)
        /\ 1 <= Len(p) /\ 2 <= Len(p)
    BY <1>1, <1>2, <1>4
  <2> QED
    BY <1>1, <1>3, <2>1
<1>5. ASSUME Len(bytes) >= 6
      PROVE  /\ bytes[3] = Word("int", p[3].value) /\ bytes[4] = Word("int", k)
             /\ bytes[5] = Word("int", c) /\ bytes[6] = Word("int", size)
  <2>1. /\ 3 \in 1 .. Len(bytes) /\ 4 \in 1 .. Len(bytes)
        /\ 5 \in 1 .. Len(bytes) /\ 6 \in 1 .. Len(bytes)
        /\ 3 <= Len(p) /\ 4 <= Len(p) /\ 5 <= Len(p) /\ 6 <= Len(p)
    BY <1>1, <1>2, <1>5
  <2>2. bytes[3] = p[3] /\ bytes[4] = p[4] /\ bytes[5] = p[5] /\ bytes[6] = p[6]
    BY <1>3, <2>1
  <2> QED
    BY <1>1, <2>2
<1>6. ASSUME Len(bytes) >= 6 + size
      PROVE  /\ Between(bytes, 6, size) = part
             /\ Drop(bytes, 6 + size) \in Seq(AnyWord)
             /\ Drop(bytes, 6 + size) \o rest = after
  <2> DEFINE h == 6
             b == Between(bytes, h, size)
             t == h + size
  <2>1. h \in Nat /\ size \in Nat /\ h + size <= Len(bytes) /\ t \in 0 .. Len(bytes)
    BY <1>1, <1>2, <1>6
  <2>0. h = 6 /\ t = 6 + size
    OBVIOUS
  <2> HIDE DEF h
  <2>2. b \in Seq(AnyWord)
    BY <2>1, Middle
  <2>3. Len(b) = size
    BY <2>1, Middle
  <2>4. \A i \in 1 .. size : b[i] = bytes[h + i]
    BY <2>1, Middle
  <2> HIDE DEF b
  <2>5. ASSUME NEW i \in 1 .. Len(b) PROVE b[i] = part[i]
    <3>1. i \in 1 .. size /\ 6 + i \in 1 .. Len(bytes) /\ 6 + i <= Len(p)
      BY <1>1, <1>2, <1>6, <2>3
    <3>2. bytes[6 + i] = p[6 + i]
      BY <1>3, <3>1
    <3> QED
      BY <1>1, <2>0, <2>4, <3>1, <3>2
  <2>6. b = part
    BY <1>1, <2>2, <2>3, <2>5, SeqEqual
  <2> HIDE DEF t
  <2>7. Drop(bytes, t) \in Seq(AnyWord)
    BY <2>1, DropProperties
  <2>8. Drop(bytes \o rest, t) = Drop(bytes, t) \o rest
    <3>1. \A i \in 0 .. Len(bytes) : Drop(bytes \o rest, i) = Drop(bytes, i) \o rest
      BY DropWords
    <3> QED
      BY <2>1, <3>1
  <2>9. Drop(p \o after, Len(p)) = after
    BY <1>1, DropRest
  <2>10. Drop(bytes, t) \o rest = after
    BY <1>1, <2>0, <2>8, <2>9
  <2> QED
    BY <2>0, <2>6, <2>7, <2>10 DEF b
<1> QED
  BY <1>1, <1>4, <1>5, <1>6 DEF ReadAs, n, k, size, part, c

(* The parts that are kept are those before the packet, or none, or they   *)
(* do not matter.                                                          *)
FirstParts(p, j, lengths) ==
  SubSeq(Parts(DataOf(BlockIn(p), lengths[BlockIn(p)])), 1, j)

Suits(p, s, lengths) ==
  Number(p) = 0 \/ s = <<>> \/ s = FirstParts(p, Number(p), lengths)

Fits(list, s, lengths) == list = <<>> \/ Suits(list[1], s, lengths)

(* A block comes out, if one does, that somebody wrote. *)
Sound == \/ UNCHANGED delivered
         \/ \E m \in 1 .. Len(written) : delivered' = Append(delivered, m)

LEMMA Accepts ==
  ASSUME TypeInv, NEW p, Genuine(p, written), Suits(p, parts, written),
         NEW identifier,
         proceedPacket(identifier, Number(p), Count(written[BlockIn(p)]),
                       Parts(DataOf(BlockIn(p), written[BlockIn(p)]))[Number(p) + 1])
  PROVE  /\ parts' = <<>> \/ parts' = FirstParts(p, Number(p) + 1, written)
         /\ Sound
<1> DEFINE n == BlockIn(p)
           k == Number(p)
           length == written[n]
           all == Parts(DataOf(n, length))
           part == all[k + 1]
           kept == IF mIdentifier \notin {BAD_IDENTIFIER, identifier} THEN <<>> ELSE parts
           more == Append(kept, part)
           c == Count(length)
<1>0. Lengthy(written) /\ parts \in Seq(Seq(AnyWord))
  BY DEF TypeInv, Lengthy
<1>1. /\ n \in Nat \ {0} /\ k \in Nat /\ n \in 1 .. Len(written) /\ k + 1 <= c
      /\ length \in Nat \ {0}
  BY <1>0, GenuineIs
<1>2. all \in Seq(Seq(AnyWord)) /\ Len(all) = c /\ FlattenSeq(all) = DataOf(n, length)
  BY <1>1, PartsAre, FlattenParts
<1>3. kept = <<>> \/ kept = parts
  OBVIOUS
<1>4. \/ Len(kept) # k /\ parts' = <<>> /\ UNCHANGED delivered
      \/ /\ Len(kept) = k /\ c = Len(more)
         /\ parts' = <<>> /\ delivered' = Append(delivered, BlockOf(FlattenSeq(more)))
      \/ Len(kept) = k /\ parts' = more /\ UNCHANGED delivered
  BY DEF proceedPacket
<1>5. Suits(p, parts, written)
  OBVIOUS
<1> HIDE DEF kept
<1>6. ASSUME Len(kept) = k PROVE kept = SubSeq(all, 1, k)
  <2>1. SubSeq(all, 1, 0) = <<>>
    BY <1>2, FirstAll
  <2>2. CASE kept = <<>>
    <3>1. k = 0
      BY <1>6, <2>2
    <3> QED
      BY <2>1, <2>2, <3>1
  <2>3. CASE kept # <<>>
    <3>1. kept = parts /\ parts # <<>> /\ Len(parts) # 0
      BY <1>0, <1>3, <2>3, EmptySeq
    <3>2. k # 0
      BY <1>6, <3>1
    <3> QED
      BY <1>5, <3>1, <3>2 DEF Suits, FirstParts
  <2> QED
    BY <2>2, <2>3
<1>7. ASSUME Len(kept) = k PROVE more = SubSeq(all, 1, k + 1) /\ Len(more) = k + 1
  <2>1. /\ SubSeq(all, 1, k + 1) = Append(SubSeq(all, 1, k), all[k + 1])
        /\ SubSeq(all, 1, k) \in Seq(Seq(AnyWord)) /\ all[k + 1] \in Seq(AnyWord)
    BY <1>1, <1>2, FirstNext
  <2>2. more = SubSeq(all, 1, k + 1)
    BY <1>6, <1>7, <2>1
  <2>3. kept \in Seq(Seq(AnyWord)) /\ part \in Seq(AnyWord)
    BY <1>6, <1>7, <2>1
  <2>4. Len(more) = Len(kept) + 1
    BY <2>3, AppendProperties
  <2> QED
    BY <1>7, <2>2, <2>4
<1>8. FirstParts(p, k + 1, written) = SubSeq(all, 1, k + 1)
  BY DEF FirstParts
<1> HIDE DEF more, part
<1>9. CASE Len(kept) # k
  BY <1>4, <1>9 DEF Sound
<1>10. CASE Len(kept) = k /\ c = Len(more) /\ parts' = <<>>
            /\ delivered' = Append(delivered, BlockOf(FlattenSeq(more)))
  <2>1. more = SubSeq(all, 1, Len(all))
    BY <1>2, <1>7, <1>10
  <2>2. more = all
    BY <1>2, <2>1, FirstAll
  <2>3. FlattenSeq(more) = DataOf(n, written[n])
    BY <1>2, <2>2
  <2>4. BlockOf(DataOf(n, written[n])) \in 1 .. Len(written)
    BY <1>1, BlockKnown
  <2> QED
    BY <1>10, <2>3, <2>4 DEF Sound
<1>11. CASE Len(kept) = k /\ parts' = more /\ UNCHANGED delivered
  BY <1>7, <1>8, <1>11 DEF Sound
<1> QED
  BY <1>4, <1>9, <1>10, <1>11

LEMMA FitsNext ==
  ASSUME NEW p, NEW q, NEW s, NEW lengths, Number(p) \in Nat, Follows(p, q),
         s = <<>> \/ s = FirstParts(p, Number(p) + 1, lengths)
  PROVE  Suits(q, s, lengths)
BY DEF Suits, Follows, FirstParts

(* The timer, when the bytes are packets. *)
LEMMA TickInPlace ==
  ASSUME TypeInv, NEW bytes \in Seq(AnyWord), NEW rest \in Seq(AnyWord), NEW list,
         Train(list, written), Fits(list, parts, written),
         bytes \o rest = FlattenSeq(list), proceed(bytes)
  PROVE  /\ Sound
         /\ \E next : /\ Train(next, written) /\ Fits(next, parts', written)
                      /\ buffer' \o rest = FlattenSeq(next)
<1>1. Len(bytes) \in Nat
  BY LenProperties
<1>2. ASSUME NEW size, await(bytes, size)
      PROVE  /\ Sound
             /\ \E next : /\ Train(next, written) /\ Fits(next, parts', written)
                          /\ buffer' \o rest = FlattenSeq(next)
  BY <1>2 DEF await, Sound
<1>3. CASE Len(bytes) < HeaderSize
  BY <1>2, <1>3 DEF proceed
<1>4. CASE ~ Len(bytes) < HeaderSize
  <2>1. Len(bytes) >= 6
    BY <1>1, <1>4 DEF HeaderSize
  <2>2. list # <<>>
    <3> SUFFICES ASSUME list = <<>> PROVE FALSE
      OBVIOUS
    <3>1. bytes \o rest = <<>>
      BY FlattenEmpty
    <3>2. Len(bytes \o rest) = Len(bytes) + Len(rest) /\ Len(rest) \in Nat
      BY ConcatProperties, LenProperties
    <3> QED
      BY <2>1, <1>1, <3>1, <3>2
  <2> DEFINE p == list[1]
             others == Tail(list)
             after == FlattenSeq(others)
  <2>3. /\ p \in Seq(AnyWord) /\ Genuine(p, written) /\ Train(others, written)
        /\ others # <<>> => Follows(p, others[1])
        /\ FlattenSeq(list) = p \o after
    BY <2>2, TrainTail
  <2>4. after \in Seq(AnyWord)
    BY <2>3, TrainType
  <2>5. Suits(p, parts, written)
    BY <2>2 DEF Fits
  <2> HIDE DEF p, others, after
  <2>6. bytes \o rest = p \o after
    BY <2>3
  <2>7. Lengthy(written)
    BY DEF TypeInv, Lengthy
  <2> DEFINE n == BlockIn(p)
             k == Number(p)
             length == written[n]
             size == SizeOf(k, length)
             part == Parts(DataOf(n, length))[k + 1]
  <2>8. /\ size \in Nat
        /\ bytes[3] = Word("int", p[3].value)
        /\ bytes[4] = Word("int", k)
        /\ bytes[5] = Word("int", Count(length))
        /\ bytes[6] = Word("int", size)
        /\ Len(bytes) >= 6 + size =>
             /\ Between(bytes, 6, size) = part
             /\ Drop(bytes, 6 + size) \o rest = after
    <3>1. ReadAs(bytes, rest, p, after, written)
      BY <2>3, <2>4, <2>6, <2>7, WholeRead
    <3> QED
      BY <2>1, <3>1 DEF ReadAs
  <2>9. \A v : NumberOf(Word("int", v)) = {v}
    BY DEF NumberOf, Word
  <2> HIDE DEF n, length, size, part
  <2>10. \/ await(bytes, size)
         \/ takePacket(bytes, p[3].value, k, Count(length), size)
    <3>1. \E identifier \in NumberOf(bytes[3]), number \in NumberOf(bytes[4]),
             count \in NumberOf(bytes[5]), s \in NumberOf(bytes[6]) :
           \/ await(bytes, s)
           \/ takePacket(bytes, identifier, number, count, s)
      BY <1>4 DEF proceed
    <3>2. /\ NumberOf(bytes[3]) = {p[3].value} /\ NumberOf(bytes[4]) = {k}
          /\ NumberOf(bytes[5]) = {Count(length)} /\ NumberOf(bytes[6]) = {size}
      BY <2>8, <2>9
    <3> HIDE DEF k
    <3> QED
      BY <3>1, <3>2
  <2>11. CASE takePacket(bytes, p[3].value, k, Count(length), size)
    <3>1. /\ Len(bytes) >= 6 + size
          /\ buffer' = Drop(bytes, 6 + size)
          /\ proceedPacket(p[3].value, k, Count(length), Between(bytes, 6, size))
      BY <2>11 DEF takePacket, HeaderSize, Between
    <3>2. proceedPacket(p[3].value, k, Count(length), part) /\ buffer' \o rest = after
      BY <2>8, <3>1
    <3>3. (parts' = <<>> \/ parts' = FirstParts(p, k + 1, written)) /\ Sound
      BY <2>3, <2>5, <3>2, Accepts DEF part, length, n
    <3>4. k \in Nat
      BY <2>3, <2>7, GenuineIs
    <3>5. Fits(others, parts', written)
      BY <2>3, <3>3, <3>4, FitsNext DEF Fits
    <3> QED
      BY <2>3, <3>2, <3>3, <3>5 DEF after
  <2> QED
    BY <1>2, <2>10, <2>11
<1> QED
  BY <1>3, <1>4

----------------------------------------------------------------------------
(* Either the receiver is in its place, that is what it has not read is    *)
(* packets (the last of which the connection may have cut), or bytes of an *)
(* earlier connection have made it lose its place, and no block of this    *)
(* one has come.                                                           *)
InPlace ==
  \E list, tail :
    /\ Train(list, written) /\ Fits(list, parts, written)
    /\ tail \in Seq(AnyWord) /\ (connected => tail = <<>>)
    /\ (buffer \o inTransit) \o tail = FlattenSeq(list)

Astray ==
  /\ ~ clientSends /\ leftovers > 0
  /\ current \cap ToSet(delivered) = {}
  /\ FlattenSeq(parts) # <<>> => \A n \in current : FlattenSeq(parts)[1] # Data(n, 1)
  /\ connected => Strewn(buffer \o inTransit, written, current)

CurrentInv ==
  /\ current \subseteq 1 .. Len(written)
  /\ leftovers \in Nat
  /\ ~ connected => current = {}
  /\ ~ connected /\ buffer # <<>> => leftovers > 0

PlaceInv == CurrentInv /\ (InPlace \/ Astray)

LEMMA WrittenIs ==
  ASSUME TypeInv
  PROVE  /\ Lengthy(written) /\ Len(written) \in Nat
         /\ buffer \in Seq(AnyWord) /\ inTransit \in Seq(AnyWord)
         /\ buffer \o inTransit \in Seq(AnyWord)
         /\ <<>> \in Seq(AnyWord)
BY LenProperties, EmptySeq, ConcatProperties DEF TypeInv, Lengthy

LEMMA FitsStays ==
  ASSUME NEW list, NEW s, NEW lengths, Lengthy(lengths), Train(list, lengths),
         Fits(list, s, lengths), NEW x \in Nat \ {0}
  PROVE  Fits(list, s, Append(lengths, x))
<1>1. CASE list = <<>>
  BY <1>1 DEF Fits
<1>2. CASE list # <<>>
  <2> DEFINE p == list[1]
             n == BlockIn(p)
             more == Append(lengths, x)
  <2>1. Genuine(p, lengths)
    BY <1>2, TrainTail
  <2> HIDE DEF p
  <2>2. n \in 1 .. Len(lengths) /\ lengths \in Seq(Nat \ {0})
    BY <2>1 DEF Genuine, Lengthy
  <2> HIDE DEF n
  <2>3. more[n] = lengths[n]
    BY <2>2
  <2> HIDE DEF more
  <2>4. Suits(p, s, lengths)
    BY <1>2 DEF Fits, p
  <2>5. Suits(p, s, more)
    BY <2>3, <2>4 DEF Suits, FirstParts, n
  <2> QED
    BY <2>5 DEF Fits, p, more
<1> QED
  BY <1>1, <1>2

(* No word of a block that is written next is anywhere yet. *)
LEMMA NextIsNew ==
  ASSUME TypeInv, FlowInv
  PROVE  LET n == Len(written) + 1
         IN /\ \A w \in DataIn(buffer \o inTransit) : w.block # n
            /\ FlattenSeq(parts) # <<>> => FlattenSeq(parts)[1] # Data(n, 1)
            /\ n \notin ToSet(delivered)
<1> DEFINE n == Len(written) + 1
           a == FlattenSeq(parts)
           bt == buffer \o inTransit
<1>1. Len(written) \in Nat
  BY WrittenIs
<1>2. a \in Seq(AnyWord) /\ bt \in Seq(AnyWord)
  BY FlowType
<1>3. DataIn(Flow) = DataIn(a) \cup DataIn(bt)
  <2>1. Flow = a \o bt
    BY DEF Flow
  <2> HIDE DEF a, bt
  <2> QED
    BY <1>2, <2>1, DataConcat
<1>4. \A w \in DataIn(Flow) : w.block # n
  <2> SUFFICES ASSUME NEW w \in DataIn(Flow) PROVE w.block # n
    OBVIOUS
  <2>1. w.block \in 1 .. Len(written)
    BY DEF FlowInv, Known
  <2> QED
    BY <1>1, <2>1
<1> HIDE DEF a, bt
<1>5. ASSUME a # <<>>, a[1] = Data(n, 1) PROVE FALSE
  <2>1. Len(a) \in Nat /\ Len(a) # 0
    BY <1>2, <1>5, LenProperties, EmptySeq
  <2>2. 1 \in 1 .. Len(a)
    BY <2>1
  <2>3. a[1].kind = "data" /\ a[1].block = n
    BY <1>5 DEF Data
  <2>4. a[1] \in DataIn(a)
    BY <1>2, <2>2, <2>3, DataIndex
  <2> QED
    BY <1>3, <1>4, <2>3, <2>4
<1>6. n \notin ToSet(delivered)
  <2> SUFFICES ASSUME n \in ToSet(delivered) PROVE FALSE
    OBVIOUS
  <2>1. DOMAIN delivered = 1 .. Len(delivered)
    BY DEF TypeInv
  <2>2. PICK i \in 1 .. Len(delivered) : delivered[i] = n
    BY <2>1 DEF ToSet
  <2>3. delivered[i] # 0
    BY <1>1, <2>2
  <2>4. delivered[i] \in 1 .. Len(written)
    BY <2>3 DEF FlowInv, Ahead
  <2> QED
    BY <1>1, <2>2, <2>4
<1> QED
  BY <1>3, <1>4, <1>5, <1>6 DEF a, bt

LEMMA InPlaceEmpty ==
  ASSUME buffer = <<>>, inTransit = <<>>
  PROVE  InPlace
<1>1. <<>> \in Seq(AnyWord) /\ <<>> \o <<>> = <<>>
  BY EmptySeq, ConcatEmptySeq
<1>2. (buffer \o inTransit) \o <<>> = FlattenSeq(<<>>)
  BY <1>1, FlattenEmpty
<1>3. Train(<<>>, written) /\ Fits(<<>>, parts, written)
  BY EmptyTrain DEF Fits
<1> QED
  BY <1>1, <1>2, <1>3 DEF InPlace

LEMMA InPlaceFresh ==
  ASSUME buffer = <<>>, NEW list, Train(list, written), Fits(list, parts, written),
         inTransit = FlattenSeq(list)
  PROVE  InPlace
<1>1. inTransit \in Seq(AnyWord)
  BY TrainType
<1>2. <<>> \in Seq(AnyWord) /\ <<>> \o inTransit = inTransit /\ inTransit \o <<>> = inTransit
  BY <1>1, EmptySeq, ConcatEmptySeq
<1>3. (buffer \o inTransit) \o <<>> = FlattenSeq(list)
  BY <1>2
<1> QED
  BY <1>2, <1>3 DEF InPlace

(* The packets of the block that is written. *)
LEMMA WriteTrain ==
  ASSUME TypeInv, NEW length \in Nat \ {0}, NEW sends, writeData(length, sends)
  PROVE  /\ written' = Append(written, length) /\ Lengthy(written')
         /\ Len(written') = Len(written) + 1
         /\ IF sends THEN current' = current \cup {Len(written) + 1}
                     ELSE UNCHANGED current
         /\ \E list : /\ Train(list, written') /\ list # <<>> /\ Number(list[1]) = 0
                      /\ inTransit' = IF sends THEN inTransit \o FlattenSeq(list)
                                               ELSE inTransit
<1> DEFINE n == Len(written) + 1
           all == Parts(DataOf(n, length))
           p == Packets(sendIdentifier', all)
           more == Append(written, length)
           list == PacketList(sendIdentifier', all)
<1>1. /\ written' = more /\ written' \in Seq(Nat \ {0})
      /\ sendIdentifier' \in Nat
      /\ inTransit' = IF sends THEN inTransit \o p ELSE inTransit
  BY WriteType
<1>2. Len(written) \in Nat /\ Len(more) = n /\ more[n] = length /\ n \in 1 .. Len(more)
  BY LenProperties DEF TypeInv
<1>3. IF sends THEN current' = current \cup {n} ELSE UNCHANGED current
  <2>1. IF sends THEN current' = current \cup {Len(written')} ELSE UNCHANGED current
    BY DEF writeData
  <2> QED
    BY <1>1, <1>2, <2>1
<1>4. Lengthy(more)
  BY <1>1 DEF Lengthy
<1> HIDE DEF more
<1>5. /\ Train(list, more) /\ list # <<>> /\ Number(list[1]) = 0
      /\ FlattenSeq(list) = p
  <2>1. LET every == Parts(DataOf(n, more[n]))
            l == PacketList(sendIdentifier', every)
        IN /\ Train(l, more) /\ l # <<>> /\ Number(l[1]) = 0
           /\ FlattenSeq(l) = Packets(sendIdentifier', every)
    BY <1>1, <1>2, <1>4, BlockTrain
  <2> QED
    BY <1>2, <2>1
<1> HIDE DEF list, p
<1> QED
  BY <1>1, <1>2, <1>3, <1>4, <1>5 DEF more

LEMMA InitPlace == Init => PlaceInv
<1> SUFFICES ASSUME Init PROVE PlaceInv
  OBVIOUS
<1>1. CurrentInv
  BY DEF Init, CurrentInv
<1>2. InPlace
  BY InPlaceEmpty DEF Init
<1> QED
  BY <1>1, <1>2 DEF PlaceInv

LEMMA WritePlace ==
  ASSUME TypeInv, FlowInv, PlaceInv, NEW length \in Lengths, write(length)
  PROVE  PlaceInv'
<1> DEFINE n == Len(written) + 1
           flow == buffer \o inTransit
<1>0. length \in Nat \ {0}
  BY LargeSocketAssumption
<1>1. /\ writeData(length, connected)
      /\ UNCHANGED <<clientSends, connected, buffer, parts, delivered, leftovers>>
  BY DEF write, receiverVars
<1>2. /\ written' = Append(written, length) /\ Lengthy(written')
      /\ Len(written') = n
      /\ IF connected THEN current' = current \cup {n} ELSE UNCHANGED current
      /\ \E list : /\ Train(list, written') /\ list # <<>> /\ Number(list[1]) = 0
                   /\ inTransit' = IF connected THEN inTransit \o FlattenSeq(list)
                                                ELSE inTransit
  BY <1>0, <1>1, WriteTrain
<1>3. PICK new : /\ Train(new, written') /\ new # <<>> /\ Number(new[1]) = 0
                 /\ inTransit' = IF connected THEN inTransit \o FlattenSeq(new)
                                              ELSE inTransit
  BY <1>2
<1>4. /\ Lengthy(written) /\ Len(written) \in Nat
      /\ buffer \in Seq(AnyWord) /\ inTransit \in Seq(AnyWord)
      /\ flow \in Seq(AnyWord) /\ <<>> \in Seq(AnyWord)
  BY WrittenIs
<1>5. FlattenSeq(new) \in Seq(AnyWord)
  BY <1>3, TrainType
<1>6. connected => buffer' \o inTransit' = flow \o FlattenSeq(new)
  <2> DEFINE f == FlattenSeq(new)
  <2>1. f \in Seq(AnyWord)
    BY <1>5
  <2> HIDE DEF f
  <2>2. (buffer \o inTransit) \o f = buffer \o (inTransit \o f)
    BY <1>4, <2>1, WordsRegroup
  <2> QED
    BY <1>1, <1>3, <2>2 DEF f
<1>7. ~ connected => buffer' \o inTransit' = flow
  BY <1>1, <1>3
<1>8. CurrentInv'
  <2>1. current \subseteq 1 .. Len(written) /\ (~ connected => current = {})
    BY DEF PlaceInv, CurrentInv
  <2>2. current' \subseteq 1 .. n
    <3>1. 1 .. Len(written) \subseteq 1 .. n /\ n \in 1 .. n
      BY <1>4
    <3>2. current' \subseteq current \cup {n}
      BY <1>2
    <3> QED
      BY <2>1, <3>1, <3>2
  <2> QED
    BY <1>1, <1>2, <2>1, <2>2 DEF PlaceInv, CurrentInv
<1>9. CASE InPlace
  <2>1. PICK list, tail :
          /\ Train(list, written) /\ Fits(list, parts, written)
          /\ tail \in Seq(AnyWord) /\ (connected => tail = <<>>)
          /\ flow \o tail = FlattenSeq(list)
    BY <1>9 DEF InPlace
  <2> SUFFICES InPlace'
    BY <1>8 DEF PlaceInv
  <2>2. Train(list, written') /\ Fits(list, parts', written')
    BY <1>0, <1>1, <1>2, <1>4, <2>1, TrainStays, FitsStays
  <2>3. CASE ~ connected
    <3>1. (buffer' \o inTransit') \o tail = FlattenSeq(list)
      BY <1>7, <2>1, <2>3
    <3> QED
      BY <1>1, <2>1, <2>2, <2>3, <3>1, Zenon DEF InPlace
  <2>4. CASE connected
    <3> DEFINE both == list \o new
    <3>1. /\ Train(both, written') /\ FlattenSeq(both) = FlattenSeq(list) \o FlattenSeq(new)
          /\ list # <<>> => both # <<>> /\ both[1] = list[1]
          /\ list = <<>> => both = new
      BY <1>3, <2>2, TrainConcat
    <3> HIDE DEF both
    <3>2. Fits(both, parts', written')
      BY <1>3, <2>2, <3>1 DEF Fits, Suits
    <3>3. flow = FlattenSeq(list)
      BY <1>4, <2>1, <2>4, ConcatEmptySeq
    <3>4. (buffer' \o inTransit') \o <<>> = FlattenSeq(both)
      <4>1. buffer' \o inTransit' = FlattenSeq(both)
        BY <1>6, <2>4, <3>1, <3>3
      <4>2. FlattenSeq(both) \in Seq(AnyWord)
        BY <3>1, TrainType
      <4> QED
        BY <4>1, <4>2, ConcatEmptySeq
    <3> QED
      BY <1>4, <3>1, <3>2, <3>4, Zenon DEF InPlace
  <2> QED
    BY <2>3, <2>4
<1>10. CASE Astray
  <2>1. /\ ~ clientSends' /\ leftovers' > 0
        /\ current \cap ToSet(delivered) = {}
        /\ FlattenSeq(parts) # <<>> => \A m \in current : FlattenSeq(parts)[1] # Data(m, 1)
        /\ connected => Strewn(flow, written, current)
    BY <1>1, <1>10 DEF Astray
  <2>2. /\ \A w \in DataIn(flow) : w.block # n
        /\ FlattenSeq(parts) # <<>> => FlattenSeq(parts)[1] # Data(n, 1)
        /\ n \notin ToSet(delivered)
    BY NextIsNew
  <2>3. current' \subseteq current \cup {n}
    BY <1>2
  <2>4. /\ current' \cap ToSet(delivered') = {}
        /\ FlattenSeq(parts') # <<>> => \A m \in current' : FlattenSeq(parts')[1] # Data(m, 1)
    BY <1>1, <2>1, <2>2, <2>3
  <2>5. ASSUME connected PROVE Strewn(buffer' \o inTransit', written', current')
    <3>1. current \in SUBSET Nat
      BY <1>4 DEF PlaceInv, CurrentInv
    <3> DEFINE k == n
               f == flow
    <3>2. /\ Strewn(f, written, current) /\ \A w \in DataIn(f) : w.block # k
          /\ Train(new, Append(written, length)) /\ Number(new[1]) = 0
      BY <1>2, <1>3, <2>1, <2>2, <2>5
    <3> HIDE DEF k, f
    <3>3. Strewn(f \o FlattenSeq(new), Append(written, length), current \cup {k})
      BY <1>0, <1>4, <3>1, <3>2, StrewnGrows
    <3> QED
      BY <1>2, <1>6, <2>5, <3>3 DEF k, f
  <2>6. Astray'
    BY <1>1, <2>1, <2>4, <2>5 DEF Astray
  <2> QED
    BY <1>8, <2>6 DEF PlaceInv
<1> QED
  BY <1>9, <1>10 DEF PlaceInv

LEMMA ConnectPlace ==
  ASSUME TypeInv, FlowInv, PlaceInv, onConnected
  PROVE  PlaceInv'
<1>1. /\ ~ connected /\ connected' /\ inTransit = <<>> /\ current = {}
      /\ UNCHANGED <<clientSends, delivered, leftovers>>
  BY DEF onConnected, TypeInv, PlaceInv, CurrentInv
<1>2. /\ Lengthy(written) /\ Len(written) \in Nat /\ leftovers \in Nat
      /\ buffer \in Seq(AnyWord) /\ <<>> \in Seq(AnyWord)
  BY WrittenIs DEF PlaceInv, CurrentInv
<1>3. CASE serverConnects
  <2>1. /\ ~ clientSends
        /\ UNCHANGED <<inTransit, buffer, parts, written, current>>
    BY <1>3 DEF serverConnects, receiverVars
  <2>2. CurrentInv'
    BY <1>1, <2>1 DEF PlaceInv, CurrentInv
  <2>3. CASE buffer = <<>>
    <3>1. InPlace
      BY <1>1, <2>3, InPlaceEmpty
    <3>2. buffer' = <<>> /\ inTransit' = <<>>
      BY <1>1, <2>1, <2>3
    <3>3. Train(<<>>, written') /\ Fits(<<>>, parts', written')
      BY EmptyTrain DEF Fits
    <3>4. (buffer' \o inTransit') \o <<>> = FlattenSeq(<<>>)
      BY <1>2, <3>2, ConcatEmptySeq, FlattenEmpty
    <3>5. InPlace'
      BY <1>2, <3>3, <3>4, Zenon DEF InPlace
    <3> QED
      BY <2>2, <3>5 DEF PlaceInv
  <2>4. CASE buffer # <<>>
    <3>1. leftovers > 0
      BY <1>1, <2>4 DEF PlaceInv, CurrentInv
    <3>2. Scrap(buffer, {}) /\ Train(<<>>, written)
      BY <1>2, EmptyTrain DEF Scrap
    <3>3. buffer \o inTransit = buffer \o FlattenSeq(<<>>)
      BY <1>1, FlattenEmpty
    <3>4. Strewn(buffer \o inTransit, written, {})
      BY <3>2, <3>3 DEF Strewn
    <3>5. Strewn(buffer' \o inTransit', written', current')
      BY <1>1, <2>1, <3>4
    <3>6. Astray'
      BY <1>1, <2>1, <3>1, <3>5 DEF Astray
    <3> QED
      BY <2>2, <3>6 DEF PlaceInv
  <2> QED
    BY <2>3, <2>4
<1>4. CASE clientConnects
  <2>1. buffer' = <<>> /\ parts' = <<>>
    BY <1>4 DEF clientConnects
  <2>2. ASSUME NEW list, Train(list, written'), inTransit' = FlattenSeq(list),
               current' \subseteq 1 .. Len(written')
        PROVE  PlaceInv'
    <3>1. Fits(list, parts', written')
      BY <2>1 DEF Fits, Suits
    <3>2. inTransit' \in Seq(AnyWord)
      BY <2>2, TrainType
    <3>3. <<>> \o inTransit' = inTransit' /\ inTransit' \o <<>> = inTransit'
      BY <3>2, ConcatEmptySeq
    <3>4. (buffer' \o inTransit') \o <<>> = FlattenSeq(list)
      BY <2>1, <2>2, <3>3
    <3>5. InPlace'
      BY <1>2, <2>2, <3>1, <3>4, Zenon DEF InPlace
    <3>6. CurrentInv'
      BY <1>1, <1>2, <2>2 DEF CurrentInv
    <3> QED
      BY <3>5, <3>6 DEF PlaceInv
  <2>3. CASE sendNextPart /\ UNCHANGED <<sendIdentifier, num, written, current>>
    <3>0. current' \subseteq 1 .. Len(written')
      BY <1>1, <2>3
    <3>1. CASE num >= Len(outgoing)
      <4>1. inTransit' = FlattenSeq(<<>>)
        BY <1>1, <2>3, <3>1, FlattenEmpty DEF sendNextPart
      <4> QED
        BY <2>2, <3>0, <4>1, EmptyTrain
    <3>2. CASE ~ num >= Len(outgoing)
      <4> DEFINE n == Len(written)
                 length == written[n]
                 p == toByteArray(sendIdentifier, num, Parts(DataOf(n, length)))
      <4>1. inTransit' = toByteArray(sendIdentifier, num, outgoing)
        BY <2>3, <3>2 DEF sendNextPart
      <4>2. num \in Nat /\ outgoing # <<>>
        BY <3>2 DEF TypeInv
      <4>3. /\ written # <<>> /\ outgoing = Parts(DataOf(n, length))
            /\ sendIdentifier \in Nat
        BY <4>2 DEF TypeInv
      <4>4. n \in 1 .. Len(written) /\ length \in Nat \ {0} /\ n \in Nat
        BY <4>3 DEF TypeInv
      <4>5. Len(outgoing) = Count(length) /\ Count(length) \in Nat
        BY <4>3, <4>4, PartsAre, Chunks
      <4>6. num + 1 <= Count(length)
        BY <3>2, <4>2, <4>5
      <4>7. p \in Seq(AnyWord) /\ Genuine(p, written)
        <5> HIDE DEF n
        <5> QED
          BY <1>2, <4>2, <4>3, <4>4, <4>6, MadeGenuine
      <4>8. inTransit' = p
        BY <4>1, <4>3
      <4> HIDE DEF p
      <4>9. Train(<<p>>, written') /\ FlattenSeq(<<p>>) = p
        BY <2>3, <4>7, OneTrain
      <4> QED
        BY <2>2, <3>0, <4>8, <4>9
    <3> QED
      BY <3>1, <3>2
  <2>4. CASE \E length \in Lengths :
               writeData(length, TRUE) /\ outgoing' = <<>> /\ UNCHANGED resent
    <3>1. PICK length \in Lengths : writeData(length, TRUE)
      BY <2>4
    <3>2. length \in Nat \ {0}
      BY LargeSocketAssumption
    <3>3. /\ Len(written') = Len(written) + 1
          /\ current' = current \cup {Len(written) + 1}
          /\ \E list : /\ Train(list, written')
                       /\ inTransit' = inTransit \o FlattenSeq(list)
      BY <3>1, <3>2, WriteTrain
    <3>4. PICK list : Train(list, written') /\ inTransit' = inTransit \o FlattenSeq(list)
      BY <3>3
    <3>5. inTransit' = FlattenSeq(list)
      BY <1>1, <3>4, TrainType, ConcatEmptySeq
    <3>6. current' \subseteq 1 .. Len(written')
      BY <1>1, <1>2, <3>3
    <3> QED
      BY <2>2, <3>4, <3>5, <3>6
  <2> QED
    BY <1>4, <2>3, <2>4 DEF clientConnects
<1> QED
  BY <1>3, <1>4 DEF onConnected

LEMMA DisconnectPlace ==
  ASSUME TypeInv, PlaceInv, onDisconnected
  PROVE  PlaceInv'
<1>1. /\ connected /\ ~ connected' /\ inTransit' = <<>> /\ parts' = <<>>
      /\ current' = {}
      /\ leftovers' = IF buffer # <<>> THEN leftovers + 1 ELSE leftovers
      /\ UNCHANGED <<clientSends, buffer, written, delivered>>
  BY DEF onDisconnected
<1>2. /\ buffer \in Seq(AnyWord) /\ inTransit \in Seq(AnyWord) /\ <<>> \in Seq(AnyWord)
      /\ buffer \o inTransit \in Seq(AnyWord)
  BY WrittenIs
<1>3. CurrentInv'
  BY <1>1 DEF PlaceInv, CurrentInv
<1>4. CASE InPlace
  <2>1. PICK list, tail :
          /\ Train(list, written) /\ Fits(list, parts, written)
          /\ tail \in Seq(AnyWord) /\ (connected => tail = <<>>)
          /\ (buffer \o inTransit) \o tail = FlattenSeq(list)
    BY <1>4 DEF InPlace
  <2>2. Train(list, written') /\ Fits(list, parts', written')
    BY <1>1, <2>1 DEF Fits, Suits
  <2>3. buffer \o inTransit = FlattenSeq(list)
    BY <1>1, <1>2, <2>1, ConcatEmptySeq
  <2>4. (buffer' \o inTransit') \o inTransit = FlattenSeq(list)
    BY <1>1, <1>2, <2>3, ConcatEmptySeq
  <2>5. InPlace'
    BY <1>1, <1>2, <2>2, <2>4, Zenon DEF InPlace
  <2> QED
    BY <1>3, <2>5 DEF PlaceInv
<1>5. CASE Astray
  <2>1. leftovers' > 0
    BY <1>1, <1>5 DEF Astray, PlaceInv, CurrentInv
  <2>2. Astray'
    BY <1>1, <1>5, <2>1 DEF Astray
  <2> QED
    BY <1>3, <2>2 DEF PlaceInv
<1> QED
  BY <1>4, <1>5 DEF PlaceInv

LEMMA ReadPlace ==
  ASSUME TypeInv, PlaceInv, NEW k \in 1 .. Len(inTransit), onReadyRead(k)
  PROVE  PlaceInv'
<1> DEFINE s == SubSeq(inTransit, 1, k)
           r == Drop(inTransit, k)
<1>1. /\ connected /\ buffer' = buffer \o s /\ inTransit' = r
      /\ UNCHANGED <<clientSends, connected, parts, written, delivered, current, leftovers>>
  BY DEF onReadyRead, historyVars
<1>2. buffer \in Seq(AnyWord) /\ inTransit \in Seq(AnyWord) /\ k \in 0 .. Len(inTransit)
  BY LenProperties DEF TypeInv
<1>3. s \in Seq(AnyWord) /\ r \in Seq(AnyWord) /\ inTransit = s \o r
  BY <1>2, SplitAt, DropProperties
<1> HIDE DEF s, r
<1>4. (buffer \o s) \o r = buffer \o (s \o r)
  BY <1>2, <1>3, WordsRegroup
<1>5. buffer' \o inTransit' = buffer \o inTransit
  BY <1>1, <1>3, <1>4
<1>6. CurrentInv'
  BY <1>1 DEF PlaceInv, CurrentInv
<1>7. InPlace => InPlace'
  BY <1>1, <1>5, Zenon DEF InPlace
<1>8. Astray => Astray'
  BY <1>1, <1>5, Zenon DEF Astray
<1> QED
  BY <1>6, <1>7, <1>8 DEF PlaceInv

----------------------------------------------------------------------------
(* What a tick does to the parts, whatever the bytes are. *)
Takes(data) ==
  \/ parts' = <<>> /\ UNCHANGED delivered
  \/ parts' = Append(parts, data) /\ UNCHANGED delivered
  \/ parts' = Append(<<>>, data) /\ UNCHANGED delivered
  \/ Delivers(parts, data)
  \/ Delivers(<<>>, data)

LEMMA TickReads ==
  ASSUME NEW bytes \in Seq(AnyWord), proceed(bytes)
  PROVE  \/ buffer' = bytes /\ UNCHANGED <<parts, delivered>>
         \/ \E size \in Nat : /\ Len(bytes) >= 6 + size
                              /\ buffer' = Drop(bytes, 6 + size)
                              /\ Takes(Between(bytes, 6, size))
<1>1. Len(bytes) \in Nat
  BY LenProperties
<1>2. CASE \E size : await(bytes, size)
  BY <1>2 DEF await
<1>3. CASE ~ \E size : await(bytes, size)
  <2>1. ~ Len(bytes) < HeaderSize
    BY <1>3 DEF proceed
  <2>2. PICK identifier \in NumberOf(bytes[3]), number \in NumberOf(bytes[4]),
             count \in NumberOf(bytes[5]), size \in NumberOf(bytes[6]) :
          takePacket(bytes, identifier, number, count, size)
    BY <1>3, <2>1 DEF proceed
  <2>3. bytes[6] \in AnyWord
    <3>1. 6 \in 1 .. Len(bytes)
      BY <1>1, <2>1 DEF HeaderSize
    <3> QED
      BY <3>1
  <2>4. size \in Nat
    BY <2>3, LargeSocketAssumption DEF NumberOf, AnyWord
  <2> DEFINE data == Between(bytes, 6, size)
             kept == IF mIdentifier \notin {BAD_IDENTIFIER, identifier} THEN <<>> ELSE parts
  <2>5. /\ Len(bytes) >= 6 + size /\ buffer' = Drop(bytes, 6 + size)
        /\ proceedPacket(identifier, number, count, data)
    BY <2>2 DEF takePacket, HeaderSize, Between
  <2> HIDE DEF data
  <2>6. \/ parts' = <<>> /\ UNCHANGED delivered
        \/ parts' = Append(kept, data) /\ UNCHANGED delivered
        \/ Delivers(kept, data)
    BY <2>5 DEF proceedPacket, Delivers
  <2>7. kept = <<>> \/ kept = parts
    OBVIOUS
  <2> HIDE DEF kept
  <2>8. Takes(data)
    BY <2>6, <2>7 DEF Takes
  <2> QED
    BY <2>4, <2>5, <2>8 DEF data
<1> QED
  BY <1>2, <1>3

(* Bytes that begin with a signature are not trimmed. *)
LEMMA NotTrimmed ==
  ASSUME buffer \in Seq(AnyWord),
         Len(buffer) >= 2 => buffer[1] = Word("sig", 0) /\ buffer[2] = Word("sig", 1)
  PROVE  Trimmed = buffer
<1>1. Trimmed \in Seq(AnyWord) /\ Len(buffer) \in Nat
  BY TrimmedIs, LenProperties
<1>2. PICK h \in 0 .. Len(buffer) :
        /\ buffer = SubSeq(buffer, 1, h) \o Trimmed
        /\ h = 0 \/ h + 2 <= Len(buffer)
        /\ \A i \in 1 .. h : ~ (buffer[i] = Word("sig", 0) /\ buffer[i + 1] = Word("sig", 1))
  BY TrimmedIs
<1>3. h = 0
  <2> SUFFICES ASSUME h # 0 PROVE FALSE
    OBVIOUS
  <2>1. 1 \in 1 .. h /\ Len(buffer) >= 2 /\ 1 + 1 = 2
    BY <1>1, <1>2
  <2> QED
    BY <1>2, <2>1
<1>4. SubSeq(buffer, 1, 0) = <<>>
  BY FirstAll
<1> QED
  BY <1>1, <1>2, <1>3, <1>4, ConcatEmptySeq

LEMMA PacketsNotTrimmed ==
  ASSUME TypeInv, NEW list, Train(list, written), NEW rest \in Seq(AnyWord),
         buffer \o rest = FlattenSeq(list)
  PROVE  Trimmed = buffer
<1>1. Lengthy(written) /\ buffer \in Seq(AnyWord) /\ Len(buffer) \in Nat
  BY WrittenIs, LenProperties
<1>2. ASSUME Len(buffer) >= 2
      PROVE  buffer[1] = Word("sig", 0) /\ buffer[2] = Word("sig", 1)
  <2>1. list # <<>>
    <3> SUFFICES ASSUME list = <<>> PROVE FALSE
      OBVIOUS
    <3>1. Len(buffer \o rest) = 0
      BY FlattenEmpty
    <3>2. Len(buffer \o rest) = Len(buffer) + Len(rest) /\ Len(rest) \in Nat
      BY <1>1, ConcatProperties, LenProperties
    <3> QED
      BY <1>1, <1>2, <3>1, <3>2
  <2> DEFINE p == list[1]
             after == FlattenSeq(Tail(list))
  <2>2. Genuine(p, written) /\ Train(Tail(list), written) /\ FlattenSeq(list) = p \o after
    BY <2>1, TrainTail
  <2>3. after \in Seq(AnyWord)
    BY <2>2, TrainType
  <2> HIDE DEF p, after
  <2>4. ReadAs(buffer, rest, p, after, written)
    BY <1>1, <2>2, <2>3, WholeRead
  <2> QED
    BY <1>2, <2>4 DEF ReadAs
<1> QED
  BY <1>1, <1>2, NotTrimmed

LEMMA TickFrame ==
  ASSUME TypeInv, PlaceInv, timerEvent
  PROVE  /\ proceed(Trimmed)
         /\ UNCHANGED <<clientSends, connected, inTransit, written, current, leftovers>>
         /\ current \in SUBSET Nat
<1>1. current \in SUBSET Nat
  BY WrittenIs DEF PlaceInv, CurrentInv
<1> QED
  BY <1>1 DEF timerEvent, PlaceInv

LEMMA TickSynced ==
  ASSUME TypeInv, PlaceInv, InPlace, timerEvent
  PROVE  Sound /\ InPlace'
<1>1. /\ proceed(Trimmed)
      /\ UNCHANGED <<connected, inTransit, written>>
  BY TickFrame
<1>2. PICK list, tail :
          /\ Train(list, written) /\ Fits(list, parts, written)
          /\ tail \in Seq(AnyWord) /\ (connected => tail = <<>>)
          /\ (buffer \o inTransit) \o tail = FlattenSeq(list)
  BY DEF InPlace
<1>3. buffer \in Seq(AnyWord) /\ inTransit \in Seq(AnyWord)
  BY DEF TypeInv
<1> DEFINE rest == inTransit \o tail
<1>4. rest \in Seq(AnyWord)
  BY <1>2, <1>3, ConcatProperties
<1>5. \A s \in Seq(AnyWord) : (s \o inTransit) \o tail = s \o rest
  BY <1>2, <1>3, Regroup
<1>6. buffer \o rest = FlattenSeq(list)
  BY <1>2, <1>3, <1>5
<1> HIDE DEF rest
<1>7. Trimmed = buffer
  BY <1>2, <1>4, <1>6, PacketsNotTrimmed
<1>8. /\ Sound
      /\ \E next : /\ Train(next, written) /\ Fits(next, parts', written)
                   /\ buffer' \o rest = FlattenSeq(next)
  BY <1>1, <1>2, <1>3, <1>4, <1>6, <1>7, TickInPlace
<1>9. PICK next : /\ Train(next, written) /\ Fits(next, parts', written)
                  /\ buffer' \o rest = FlattenSeq(next)
  BY <1>8
<1>10. buffer' \in Seq(AnyWord)
  BY TickTakes
<1>11. (buffer' \o inTransit') \o tail = FlattenSeq(next)
  BY <1>1, <1>5, <1>9, <1>10
<1>12. InPlace'
  BY <1>1, <1>2, <1>9, <1>11, Zenon DEF InPlace
<1> QED
  BY <1>8, <1>12

(* The first word of two sequences is that of the first, if it has one. *)
LEMMA FirstWord ==
  ASSUME NEW s \in Seq(AnyWord), NEW t \in Seq(AnyWord), s \o t # <<>>
  PROVE  \/ s # <<>> /\ (s \o t)[1] = s[1]
         \/ s = <<>> /\ t # <<>> /\ (s \o t)[1] = t[1]
<1>1. CASE s = <<>>
  BY <1>1, ConcatEmptySeq
<1>2. CASE s # <<>>
  <2>1. Len(s) \in Nat /\ Len(t) \in Nat /\ Len(s) # 0
    BY <1>2, LenProperties, EmptySeq
  <2>2. 1 \in 1 .. Len(s) + Len(t) /\ 1 <= Len(s)
    BY <2>1
  <2>3. \A i \in 1 .. Len(s) + Len(t) :
           (s \o t)[i] = IF i <= Len(s) THEN s[i] ELSE t[i - Len(s)]
    BY ConcatProperties
  <2> QED
    BY <1>2, <2>2, <2>3
<1> QED
  BY <1>1, <1>2

(* A block of this connection does not come out of data that does not      *)
(* begin with its first word.                                              *)
LEMMA OthersOnly ==
  ASSUME TypeInv, current \subseteq 1 .. Len(written), NEW s \in Seq(AnyWord),
         s # <<>> => \A n \in current : s[1] # Data(n, 1),
         current \cap ToSet(delivered) = {},
         delivered' = Append(delivered, BlockOf(s))
  PROVE  current \cap ToSet(delivered') = {}
<1> DEFINE m == BlockOf(s)
<1>1. written \in Seq(Nat \ {0}) /\ delivered \in Seq(Nat) /\ Len(written) \in Nat
  BY LenProperties DEF TypeInv
<1>2. m = 0 \/ (m \in 1 .. Len(written) /\ s = DataOf(m, written[m]))
  BY <1>1, BlockFound
<1> HIDE DEF m
<1>3. m \notin current
  <2> SUFFICES ASSUME m \in current PROVE FALSE
    OBVIOUS
  <2>1. m \in 1 .. Len(written) /\ s = DataOf(m, written[m])
    BY <1>1, <1>2
  <2> DEFINE length == written[m]
  <2>2. length \in Nat \ {0} /\ m \in Nat /\ s = DataOf(m, length)
    BY <1>1, <2>1
  <2> HIDE DEF length
  <2>3. Len(s) = length /\ \A k \in 1 .. length : s[k] = Data(m, k)
    BY <2>2, BlockIs
  <2>4. 1 \in 1 .. length /\ Len(s) # 0
    BY <2>2, <2>3
  <2>5. s[1] = Data(m, 1) /\ s # <<>>
    BY <2>3, <2>4
  <2> QED
    BY <2>5
<1>4. ToSet(delivered') = ToSet(delivered) \cup {m}
  <2>1. /\ DOMAIN delivered = 1 .. Len(delivered) /\ Len(delivered) \in Nat
        /\ delivered' = Append(delivered, m) /\ m \in Nat
    BY <1>1, <1>2 DEF m
  <2>2. /\ DOMAIN delivered' = 1 .. Len(delivered) + 1
        /\ \A i \in 1 .. Len(delivered) : delivered'[i] = delivered[i]
        /\ delivered'[Len(delivered) + 1] = m
    BY <1>1, <2>1
  <2> DEFINE c == Len(delivered)
  <2>3. 1 .. c + 1 = (1 .. c) \cup {c + 1}
    BY <2>1
  <2> QED
    BY <2>1, <2>2, <2>3 DEF ToSet
<1> QED
  BY <1>3, <1>4

(* The parts after a tick, if the data that was taken does not begin a     *)
(* block of the connection.                                                *)
LEMMA TakesOthers ==
  ASSUME TypeInv, current \subseteq 1 .. Len(written), UNCHANGED <<current>>,
         current \cap ToSet(delivered) = {},
         FlattenSeq(parts) # <<>> => \A n \in current : FlattenSeq(parts)[1] # Data(n, 1),
         NEW data \in Seq(AnyWord),
         data # <<>> => \A n \in current : data[1] # Data(n, 1),
         Takes(data)
  PROVE  /\ current' \cap ToSet(delivered') = {}
         /\ FlattenSeq(parts') # <<>> =>
              \A n \in current' : FlattenSeq(parts')[1] # Data(n, 1)
<1> DEFINE a == FlattenSeq(parts)
           ad == a \o data
           Other(s) == s # <<>> => \A n \in current : s[1] # Data(n, 1)
<1>1. parts \in Seq(Seq(AnyWord)) /\ a \in Seq(AnyWord)
  BY FlowType DEF TypeInv
<1>2. Other(a) /\ Other(data)
  OBVIOUS
<1> HIDE DEF a
<1>3. Other(ad)
  <2> SUFFICES ASSUME ad # <<>>, NEW n \in current PROVE ad[1] # Data(n, 1)
    OBVIOUS
  <2>1. \/ a # <<>> /\ ad[1] = a[1]
        \/ a = <<>> /\ data # <<>> /\ ad[1] = data[1]
    BY <1>1, FirstWord
  <2> HIDE DEF ad
  <2> QED
    BY <1>2, <2>1
<1>4. /\ FlattenSeq(Append(parts, data)) = ad
      /\ FlattenSeq(Append(<<>>, data)) = data
      /\ FlattenSeq(<<>>) = <<>>
      /\ ad \in Seq(AnyWord)
  <2>1. FlattenSeq(Append(parts, data)) = ad
    BY <1>1, FlattenAppend DEF a
  <2>2. Append(<<>>, data) = <<data>>
    OBVIOUS
  <2>3. FlattenSeq(<<data>>) = data
    BY FlattenOne
  <2>4. ad \in Seq(AnyWord)
    BY <1>1, ConcatProperties
  <2> QED
    BY <2>1, <2>2, <2>3, <2>4, FlattenEmpty
<1> HIDE DEF ad
<1> DEFINE Goal == /\ current' \cap ToSet(delivered') = {}
                   /\ FlattenSeq(parts') # <<>> =>
                        \A n \in current' : FlattenSeq(parts')[1] # Data(n, 1)
<1> SUFFICES Goal
  OBVIOUS
<1>5. ASSUME parts' = <<>> PROVE FlattenSeq(parts') = <<>>
  BY <1>4, <1>5
<1>6. CASE parts' = <<>> /\ UNCHANGED delivered
  BY <1>5, <1>6
<1>7. CASE parts' = Append(parts, data) /\ UNCHANGED delivered
  <2>1. FlattenSeq(parts') = ad
    BY <1>4, <1>7
  <2> QED
    BY <1>3, <1>7, <2>1
<1>8. CASE parts' = Append(<<>>, data) /\ UNCHANGED delivered
  <2>1. FlattenSeq(parts') = data
    BY <1>4, <1>8
  <2> QED
    BY <1>2, <1>8, <2>1
<1>9. CASE Delivers(parts, data)
  <2>1. parts' = <<>> /\ delivered' = Append(delivered, BlockOf(ad))
    BY <1>4, <1>9 DEF Delivers
  <2>2. current \cap ToSet(delivered') = {}
    BY <1>3, <1>4, <2>1, OthersOnly
  <2> QED
    BY <1>5, <2>1, <2>2
<1>10. CASE Delivers(<<>>, data)
  <2>1. parts' = <<>> /\ delivered' = Append(delivered, BlockOf(data))
    BY <1>4, <1>10 DEF Delivers
  <2>2. current \cap ToSet(delivered') = {}
    BY <1>2, <2>1, OthersOnly
  <2> QED
    BY <1>5, <2>1, <2>2
<1> HIDE DEF Goal
<1> QED
  BY <1>6, <1>7, <1>8, <1>9, <1>10 DEF Takes

LEMMA TickAstray ==
  ASSUME TypeInv, PlaceInv, Astray, timerEvent
  PROVE  InPlace' \/ Astray'
<1>1. /\ proceed(Trimmed)
      /\ UNCHANGED <<clientSends, connected, inTransit, written, current, leftovers>>
      /\ current \in SUBSET Nat /\ current \subseteq 1 .. Len(written)
  BY TickFrame DEF PlaceInv, CurrentInv
<1>2. /\ Lengthy(written) /\ buffer \in Seq(AnyWord) /\ inTransit \in Seq(AnyWord)
      /\ Trimmed \in Seq(AnyWord) /\ <<>> \in Seq(AnyWord)
  BY WrittenIs, TrimmedIs
<1>3. /\ ~ clientSends' /\ leftovers' > 0
      /\ current \cap ToSet(delivered) = {}
      /\ FlattenSeq(parts) # <<>> => \A n \in current : FlattenSeq(parts)[1] # Data(n, 1)
      /\ connected => Strewn(buffer \o inTransit, written, current)
  BY <1>1 DEF Astray
<1>4. CASE ~ connected
  <2>1. current' = {} /\ ~ connected'
    BY <1>1, <1>4 DEF PlaceInv, CurrentInv
  <2>2. Astray'
    BY <1>3, <2>1 DEF Astray
  <2> QED
    BY <2>2
<1>5. CASE connected
  <2> DEFINE bytes == Trimmed
             flow == bytes \o inTransit
  <2>1. bytes \in Seq(AnyWord) /\ flow \in Seq(AnyWord)
        /\ Len(bytes) \in Nat /\ Len(inTransit) \in Nat
        /\ Len(flow) = Len(bytes) + Len(inTransit)
    BY <1>2, ConcatProperties, LenProperties
  <2>2. Strewn(flow, written, current)
    <3>1. PICK h \in 0 .. Len(buffer) : Trimmed = Drop(buffer, h)
      BY <1>2, TrimmedIs
    <3>2. Drop(buffer \o inTransit, h) = flow
      BY <1>2, <3>1, DropWords
    <3>3. Len(buffer \o inTransit) = Len(buffer) + Len(inTransit)
      BY <1>2, ConcatProperties
    <3>4. h \in 0 .. Len(buffer \o inTransit)
      BY <1>2, <2>1, <3>3, LenProperties
    <3> DEFINE all == buffer \o inTransit
    <3>5. Strewn(all, written, current) /\ h \in 0 .. Len(all)
      BY <1>3, <1>5, <3>4
    <3> HIDE DEF all
    <3>6. Strewn(Drop(all, h), written, current)
      BY <1>1, <1>2, <3>5, StrewnDrop
    <3> QED
      BY <3>2, <3>6 DEF all
  <2>3. proceed(bytes)
    BY <1>1
  <2> HIDE DEF bytes
  <2>4. \/ buffer' = bytes /\ UNCHANGED <<parts, delivered>>
        \/ \E size \in Nat : /\ Len(bytes) >= 6 + size
                             /\ buffer' = Drop(bytes, 6 + size)
                             /\ Takes(Between(bytes, 6, size))
    BY <2>1, <2>3, TickReads
  <2>5. CASE buffer' = bytes /\ UNCHANGED <<parts, delivered>>
    <3>1. Strewn(buffer' \o inTransit', written', current')
      BY <1>1, <2>2, <2>5
    <3>2. Astray'
      BY <1>1, <1>3, <2>5, <3>1 DEF Astray
    <3> QED
      BY <3>2
  <2>6. CASE \E size \in Nat : /\ Len(bytes) >= 6 + size
                               /\ buffer' = Drop(bytes, 6 + size)
                               /\ Takes(Between(bytes, 6, size))
    <3>1. PICK size \in Nat : /\ Len(bytes) >= 6 + size
                              /\ buffer' = Drop(bytes, 6 + size)
                              /\ Takes(Between(bytes, 6, size))
      BY <2>6
    <3> DEFINE h == 6
               data == Between(bytes, h, size)
               t == h + size
    <3>2. h \in Nat /\ h + size <= Len(bytes) /\ t \in 0 .. Len(bytes)
      BY <2>1, <3>1
    <3>0. bytes \in Seq(AnyWord) /\ h + size <= Len(bytes) /\ size \in Nat /\ h \in Nat
      BY <2>1, <3>2
    <3>3. h = 6 /\ Takes(data) /\ buffer' = Drop(bytes, t)
      BY <3>1
    <3> HIDE DEF h, flow
    <3>4. data \in Seq(AnyWord)
      BY <3>0, Middle
    <3>5. Len(data) = size
      BY <3>0, Middle
    <3>6. \A i \in 1 .. size : data[i] = bytes[h + i]
      BY <3>0, Middle
    <3> HIDE DEF data, t
    <3>7. CASE data # <<>> /\ \E n \in current : data[1] = Data(n, 1)
      <4>1. PICK n \in current : data[1] = Data(n, 1)
        BY <3>7
      <4>2. size # 0 /\ size >= 1 /\ 1 \in 1 .. size
        <5>1. size # 0
          BY <3>4, <3>5, <3>7, EmptySeq
        <5> QED
          BY <5>1
      <4>3. bytes[7] = Data(n, 1) /\ Len(bytes) >= 7
        BY <2>1, <3>1, <3>3, <3>6, <4>1, <4>2
      <4>4. flow[7] = bytes[7] /\ Len(flow) >= 7
        <5>1. \A i \in 1 .. Len(bytes) + Len(inTransit) :
                 (bytes \o inTransit)[i] =
                   IF i <= Len(bytes) THEN bytes[i] ELSE inTransit[i - Len(bytes)]
          BY <1>2, <2>1, ConcatProperties
        <5>2. 7 \in 1 .. Len(bytes) + Len(inTransit) /\ 7 <= Len(bytes)
          BY <2>1, <4>3
        <5>3. (bytes \o inTransit)[7] = bytes[7]
          BY <5>1, <5>2
        <5>4. Len(flow) >= 7
          BY <2>1, <4>3
        <5> QED
          BY <5>3, <5>4 DEF flow
      <4>5. \E list : /\ Train(list, written) /\ list # <<>>
                      /\ flow = FlattenSeq(list) /\ Number(list[1]) = 0
        BY <1>1, <1>2, <2>2, <4>3, <4>4, StrewnStart
      <4>6. PICK list : /\ Train(list, written) /\ list # <<>>
                        /\ flow = FlattenSeq(list) /\ Number(list[1]) = 0
        BY <4>5
      <4>7. Fits(list, parts, written) /\ bytes \o inTransit = FlattenSeq(list)
        BY <4>6 DEF Fits, Suits, flow
      <4>8. \E next : /\ Train(next, written) /\ Fits(next, parts', written)
                      /\ buffer' \o inTransit = FlattenSeq(next)
        BY <1>2, <2>1, <2>3, <4>6, <4>7, TickInPlace
      <4>9. PICK next : /\ Train(next, written) /\ Fits(next, parts', written)
                        /\ buffer' \o inTransit = FlattenSeq(next)
        BY <4>8
      <4>10. FlattenSeq(next) \in Seq(AnyWord)
        BY <4>9, TrainType
      <4>11. (buffer' \o inTransit') \o <<>> = FlattenSeq(next)
        BY <1>1, <4>9, <4>10, ConcatEmptySeq
      <4>12. InPlace'
        BY <1>1, <1>2, <4>9, <4>11, Zenon DEF InPlace
      <4> QED
        BY <4>12
    <3>8. CASE data # <<>> => \A n \in current : data[1] # Data(n, 1)
      <4>1. /\ current' \cap ToSet(delivered') = {}
            /\ FlattenSeq(parts') # <<>> =>
                 \A n \in current' : FlattenSeq(parts')[1] # Data(n, 1)
        BY <1>1, <1>3, <3>3, <3>4, <3>8, TakesOthers
      <4>2. Drop(flow, t) = Drop(bytes, t) \o inTransit
        BY <1>2, <2>1, <3>2, DropWords DEF flow
      <4>3. t \in 0 .. Len(flow)
        BY <2>1, <3>2
      <4>4. Strewn(Drop(flow, t), written, current)
        BY <1>1, <1>2, <2>2, <4>3, StrewnDrop
      <4>5. Strewn(buffer' \o inTransit', written', current')
        BY <1>1, <3>3, <4>2, <4>4
      <4>6. Astray'
        BY <1>3, <4>1, <4>5 DEF Astray
      <4> QED
        BY <4>6
    <3> QED
      BY <3>7, <3>8
  <2> QED
    BY <2>4, <2>5, <2>6
<1> QED
  BY <1>4, <1>5

LEMMA TickPlace ==
  ASSUME TypeInv, PlaceInv, timerEvent
  PROVE  PlaceInv'
<1>1. UNCHANGED <<clientSends, connected, inTransit, written, current, leftovers>>
  BY TickFrame
<1>2. ASSUME buffer = <<>> PROVE buffer' = <<>>
  <2>1. PICK f, d \in Seq(AnyWord) : buffer' \in Seq(AnyWord) /\ buffer = f \o (d \o buffer')
    BY TickTakes
  <2> DEFINE b == buffer'
             db == d \o b
  <2>2. b \in Seq(AnyWord) /\ db \in Seq(AnyWord) /\ buffer = f \o db
    BY <2>1, ConcatProperties
  <2>3. Len(db) = Len(d) + Len(b) /\ Len(d) \in Nat /\ Len(b) \in Nat
    BY <2>2, ConcatProperties, LenProperties
  <2> HIDE DEF b, db
  <2>4. Len(f \o db) = Len(f) + Len(db) /\ Len(f) \in Nat
    BY <2>2, ConcatProperties, LenProperties
  <2>5. Len(f \o db) = 0
    BY <1>2, <2>2
  <2>6. Len(b) = 0
    BY <2>3, <2>4, <2>5
  <2>7. b = <<>>
    BY <2>2, <2>6, EmptySeq
  <2> QED
    BY <2>7 DEF b
<1>3. CurrentInv'
  BY <1>1, <1>2 DEF PlaceInv, CurrentInv
<1>4. InPlace' \/ Astray'
  BY TickSynced, TickAstray DEF PlaceInv
<1> QED
  BY <1>3, <1>4 DEF PlaceInv

LEMMA NextPlace == TypeInv /\ FlowInv /\ PlaceInv /\ [Next]_vars => PlaceInv'
<1> SUFFICES ASSUME TypeInv, FlowInv, PlaceInv, [Next]_vars PROVE PlaceInv'
  OBVIOUS
<1>1. CASE \E length \in Lengths : write(length)
  BY <1>1, WritePlace
<1>2. CASE onConnected
  BY <1>2, ConnectPlace
<1>3. CASE onDisconnected
  BY <1>3, DisconnectPlace
<1>4. CASE \E k \in 1 .. Len(inTransit) : onReadyRead(k)
  BY <1>4, ReadPlace
<1>5. CASE timerEvent
  BY <1>5, TickPlace
<1>6. CASE UNCHANGED vars
  <2>1. UNCHANGED <<buffer, inTransit, parts, written, delivered, current, leftovers,
                    connected, clientSends>>
    BY <1>6 DEF vars, senderVars, receiverVars, historyVars
  <2>2. CurrentInv'
    BY <2>1 DEF PlaceInv, CurrentInv
  <2>3. InPlace => InPlace'
    BY <2>1, Zenon DEF InPlace
  <2>4. Astray => Astray'
    BY <2>1, Zenon DEF Astray
  <2> QED
    BY <2>2, <2>3, <2>4 DEF PlaceInv
<1> QED
  BY <1>1, <1>2, <1>3, <1>4, <1>5, <1>6 DEF Next

(* The step that brings a block nobody wrote. *)
LEMMA DamageStep ==
  ASSUME TypeInv, FlowInv, PlaceInv, [Next]_vars,
         delivered' # delivered, Last(delivered') = 0
  PROVE  /\ ~ clientSends /\ leftovers > 0
         /\ current \cap ToSet(delivered) = {}
<1>1. timerEvent
  BY DEF Next, vars, write, onConnected, onDisconnected, onReadyRead, historyVars
<1>2. CASE Astray
  BY <1>2 DEF Astray
<1>3. CASE InPlace
  <2>1. Sound
    BY <1>1, <1>3, TickSynced
  <2>2. PICK m \in 1 .. Len(written) : delivered' = Append(delivered, m)
    BY <2>1 DEF Sound
  <2>3. delivered \in Seq(Nat) /\ Len(written) \in Nat
    BY LenProperties DEF TypeInv
  <2>4. m \in Nat /\ m # 0
    BY <2>3
  <2>5. Last(Append(delivered, m)) = m
    <3>1. Len(Append(delivered, m)) = Len(delivered) + 1
          /\ Append(delivered, m)[Len(delivered) + 1] = m
      BY <2>3, <2>4, AppendProperties
    <3> QED
      BY <3>1 DEF Last
  <2> QED
    BY <2>2, <2>4, <2>5
<1> QED
  BY <1>2, <1>3 DEF PlaceInv

(* Blocks come in the order in which they were written, and none twice but *)
(* one whose first part the sender repeated (LargeSender::onConnected,     *)
(* LargeReceiver::proceed): for packets and blocks of any length, any      *)
(* number of connections and however the bytes are segmented.              *)
THEOREM BlocksComeInOrder == Spec => []InOrder
<1>1. TypeInv /\ FlowInv => InOrder
  BY DEF FlowInv
<1> QED
  BY <1>1, InitFlow, NextFlow, PTL DEF Spec

(* The application gets a block nobody wrote only from a receiver that has *)
(* kept bytes of an earlier connection (LargeReceiver.cpp:39, 74), and not *)
(* once a block of the connection has come through: the receiver has found *)
(* the packets again.                                                      *)
THEOREM DamageIsOver == Spec => DamageEnds
<1>1. TypeInv /\ FlowInv /\ PlaceInv /\ [Next]_vars =>
        [delivered' # delivered /\ Last(delivered') = 0 =>
           /\ ~ clientSends /\ leftovers > 0
           /\ current \cap ToSet(delivered) = {}]_vars
  BY DamageStep
<1> QED
  BY <1>1, InitFlow, NextFlow, InitPlace, NextPlace, PTL DEF Spec, DamageEnds

=============================================================================
